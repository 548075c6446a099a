----------------------------- MODULE MCStateLog -----------------------------
(* Instance of StateLog: processes and records are interchangeable.       *)
EXTENDS StateLog, TLC

Symmetry == Permutations(Procs) \cup Permutations(Records)
=============================================================================
