------------------------------- MODULE Distance -------------------------------
(***************************************************************************)
(* The bounded edit distance of src/distance.rs, shared by the typo search *)
(* and the near-miss check of targets: insertions, deletions,              *)
(* substitutions and swaps of neighbours, each at cost 1.  The code keeps  *)
(* three rows of the table and leaves as soon as a row is above the bound. *)
(***************************************************************************)
EXTENDS Integers, Sequences, FiniteSets, FiniteSetsExt

NoDistance == 99

MaxDistance(len) == IF len <= 4 THEN 1 ELSE 2

Cost(x, y) == IF x = y THEN 0 ELSE 1

\* At <<i, j>>, row i and column j: the prefixes of i and j letters.
Table(a, b) ==
  LET swapped(i, j) == i > 1 /\ j > 1 /\ a[i] = b[j - 1] /\ a[i - 1] = b[j]
      d[p \in (0..Len(a)) \X (0..Len(b))] ==
        LET i == p[1]
            j == p[2]
        IN  IF i = 0 THEN j ELSE IF j = 0 THEN i
            ELSE Min({d[<<i - 1, j>>] + 1, d[<<i, j - 1>>] + 1,
                      d[<<i - 1, j - 1>>] + Cost(a[i], b[j])}
                     \cup (IF swapped(i, j) THEN {d[<<i - 2, j - 2>>] + 1} ELSE {}))
  IN  d

\* A plausible error: a row on the bound already counts as above it.
BoundedOsaEager(a, b, max) ==
  LET d == Table(a, b)
      within(i) == Min({d[<<i, j>>] : j \in 0..Len(b)}) < max
  IN  IF /\ Len(a) - Len(b) <= max /\ Len(b) - Len(a) <= max
         /\ \A i \in 1..(Len(a) - 1) : within(i)
         /\ d[<<Len(a), Len(b)>>] <= max
      THEN d[<<Len(a), Len(b)>>] ELSE NoDistance

\* NoDistance once the distance provably exceeds max: by the lengths, by a row
\* whose least entry is above it, or at the end.
BoundedOsa(a, b, max) ==
  LET d == Table(a, b)
      within(i) == Min({d[<<i, j>>] : j \in 0..Len(b)}) <= max
  IN  IF /\ Len(a) - Len(b) <= max /\ Len(b) - Len(a) <= max
         /\ \A i \in 1..Len(a) : within(i)
         /\ d[<<Len(a), Len(b)>>] <= max
      THEN d[<<Len(a), Len(b)>>] ELSE NoDistance
===============================================================================
