-------------------------------- MODULE Mutex --------------------------------
(***************************************************************************)
(* What the state lock promises its callers: critical sections of the      *)
(* oopsinput processes of one user never overlap.  StateLock, the          *)
(* flock-and-inode protocol of state.rs, is shown to implement it.         *)
(***************************************************************************)
CONSTANT Procs

VARIABLE holders      \* the processes inside a critical section

Init == holders = {}

Enter(p) ==
  /\ holders = {}
  /\ holders' = {p}

Leave(p) ==
  /\ p \in holders
  /\ holders' = holders \ {p}

Next == \E p \in Procs : Enter(p) \/ Leave(p)

Spec == Init /\ [][Next]_holders
=============================================================================
