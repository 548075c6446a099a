------------------------------ MODULE Recursions ------------------------------
(***************************************************************************)
(* Induction over numbers and along a measure, and what a recursive        *)
(* function is: to the provers f[k \in D] == e is a CHOOSE, of which       *)
(* nothing is known until a function with that equation is shown to exist. *)
(* The lemmas say so for the three forms the models use: one call at a     *)
(* smaller argument (Recursion), a step from k - 1 to k                    *)
(* (ForwardRecursion), and any number of calls at smaller arguments        *)
(* (TableRecursion).                                                       *)
(***************************************************************************)
EXTENDS Integers, Sequences, FiniteSets, FiniteSetsExt, SequenceTheorems, NaturalsInduction,
        WellFoundedInduction, TLAPS

-----------------------------------------------------------------------------
(* Induction and recursion *)

\* A set of natural numbers has a least one.
LEMMA LeastNat ==
  ASSUME NEW S \in SUBSET Nat, S # {}
  PROVE  \E n \in S : \A k \in S : n <= k
<1>1. PICK n \in S : \A k \in S : ~(<<k, n>> \in OpToRel(<, Nat))
  BY NatLessThanWellFounded, WFMin
<1>2. \A k \in S : ~(k < n)
  BY <1>1 DEF OpToRel
<1> QED BY <1>2

\* Min of a set of numbers is in it and the least.
LEMMA MinProperties ==
  ASSUME NEW S \in SUBSET Nat, S # {}
  PROVE  Min(S) \in S /\ \A k \in S : Min(S) <= k
BY LeastNat DEF Min

\* A set that has 0 and with a number the next one has all numbers.
LEMMA NatSteps ==
  ASSUME NEW N \in Nat, NEW S, 0 \in S, \A k \in 0..(N - 1) : k \in S => k + 1 \in S
  PROVE  0..N \subseteq S
<1> DEFINE out == {k \in 0..N : k \notin S}
<1>1. ASSUME out # {} PROVE FALSE
  <2>1. PICK n \in out : \A k \in out : n <= k
    <3>1. out \in SUBSET Nat
      OBVIOUS
    <3> HIDE DEF out
    <3> QED BY <1>1, <3>1, LeastNat
  <2>2. n # 0 /\ n \in 1..N /\ n \notin S
    BY <2>1
  <2>3. n - 1 \in 0..(N - 1) /\ (n - 1) + 1 = n
    BY <2>2
  <2>4. n - 1 \notin out
    BY <2>1, <2>2
  <2> QED BY <2>2, <2>3, <2>4
<1> QED BY <1>1

\* What k inherits from all of smaller measure holds for all.
LEMMA MeasureInduction ==
  ASSUME NEW N \in Nat, NEW D, NEW m \in [D -> 0..N], NEW S,
         \A k \in D : (\A j \in D : m[j] < m[k] => j \in S) => k \in S
  PROVE  D \subseteq S
<1> DEFINE out == {m[k] : k \in D \ S}
<1>1. ASSUME out # {} PROVE FALSE
  <2>1. PICK n \in out : \A k \in out : n <= k
    <3>1. out \in SUBSET Nat
      OBVIOUS
    <3> HIDE DEF out
    <3> QED BY <1>1, <3>1, LeastNat
  <2>2. PICK k \in D \ S : n = m[k]
    BY <2>1
  <2>3. ASSUME NEW j \in D, m[j] < m[k], j \notin S PROVE FALSE
    <3>1. m[j] \in out
      BY <2>3
    <3>2. m[k] <= m[j] /\ m[j] \in Nat /\ m[k] \in Nat
      BY <2>1, <2>2, <3>1
    <3> QED BY <2>3, <3>2
  <2> QED BY <2>2, <2>3
<1> QED BY <1>1

\* The function f from D to V whose value at k is val[k] in Stop, and elsewhere
\* made of its value at nxt[k]; m falls from k to nxt[k].
WellMade(D, V, N, m, Stop, val, nxt, F) ==
  /\ m \in [D -> 0..N]
  /\ \A k \in D \cap Stop : val[k] \in V
  /\ \A k \in D \ Stop : nxt[k] \in D /\ m[nxt[k]] < m[k]
  /\ \A k \in D \ Stop : \A v \in V : F[k][v] \in V
Made(f, D, V, Stop, val, nxt, F) ==
  /\ f \in [D -> V]
  /\ \A k \in D : f[k] = IF k \in Stop THEN val[k] ELSE F[k][f[nxt[k]]]

\* A function that is made by recursion along a measure exists, satisfies its
\* equation and keeps within its values.
LEMMA Recursion ==
  ASSUME NEW D, NEW V, NEW N \in Nat, NEW m, NEW Stop, NEW val, NEW nxt, NEW F,
         WellMade(D, V, N, m, Stop, val, nxt, F)
  PROVE  \E f : Made(f, D, V, Stop, val, nxt, F)
<1> USE DEF WellMade
<1> DEFINE Upto(f, n) == \A k \in D : m[k] < n => 
                           f[k] \in V /\ f[k] = IF k \in Stop THEN val[k] ELSE F[k][f[nxt[k]]]
           S == {n \in 0..(N + 1) : \E f : Upto(f, n)}
<1>1. 0 \in S
  BY DEF Upto
<1>2. ASSUME NEW n \in 0..N, n \in S PROVE n + 1 \in S
  <2>1. PICK f : Upto(f, n)
    BY <1>2
  <2> DEFINE g == [k \in D |-> IF k \in Stop THEN val[k] ELSE F[k][f[nxt[k]]]]
  <2>2. \A k \in D : m[k] < n => g[k] = f[k]
    BY <2>1
  <2>3. ASSUME NEW k \in D, m[k] < n + 1
        PROVE  g[k] \in V /\ g[k] = IF k \in Stop THEN val[k] ELSE F[k][g[nxt[k]]]
    <3>1. CASE k \in Stop
      BY <3>1
    <3>2. CASE k \notin Stop
      <4>1. nxt[k] \in D /\ m[nxt[k]] < n
        BY <2>3, <3>2
      <4>2. g[nxt[k]] = f[nxt[k]] /\ f[nxt[k]] \in V
        BY <2>1, <2>2, <4>1
      <4> QED BY <3>2, <4>2
    <3> QED BY <3>1, <3>2
  <2> HIDE DEF g
  <2>4. Upto(g, n + 1)
    BY <2>3
  <2> QED BY <2>4
<1>3. N + 1 \in S
  <2> HIDE DEF S
  <2>1. \A k \in 0..((N + 1) - 1) : k \in S => k + 1 \in S
    BY <1>2
  <2>2. 0..(N + 1) \subseteq S
    BY <1>1, <2>1, NatSteps
  <2> QED BY <2>2
<1>4. PICK f : Upto(f, N + 1)
  BY <1>3
<1> DEFINE g == [k \in D |-> f[k]]
<1>5. \A k \in D : g[k] \in V /\ g[k] = IF k \in Stop THEN val[k] ELSE F[k][g[nxt[k]]]
  BY <1>4
<1> HIDE DEF Upto
<1>6. g \in [D -> V]
  BY <1>5
<1> HIDE DEF g
<1> QED BY <1>5, <1>6 DEF Made

\* The same for a function made step by step from 0 to N.
Steps(f, N, V, begin, F) ==
  /\ f \in [0..N -> V]
  /\ f[0] = begin /\ \A k \in 1..N : f[k] = F[k][f[k - 1]]
StepsIn(N, V, begin, F) == begin \in V /\ \A k \in 1..N : \A v \in V : F[k][v] \in V

\* The same for a recursion that goes from 0 up.
LEMMA ForwardRecursion ==
  ASSUME NEW N \in Nat, NEW V, NEW begin, NEW F, StepsIn(N, V, begin, F)
  PROVE  \E f : Steps(f, N, V, begin, F)
<1> DEFINE D == 0..N
           m == [j \in D |-> j]
           nxt == [j \in D |-> j - 1]
           val == [j \in D |-> begin]
           Stop == {0}
<1>1. m \in [D -> 0..N]
  OBVIOUS
<1>2. \A k \in D \cap Stop : val[k] \in V
  BY DEF StepsIn
<1>3. \A k \in D \ Stop : k \in 1..N /\ nxt[k] = k - 1 /\ nxt[k] \in D /\ m[nxt[k]] < m[k]
  OBVIOUS
<1>4. \A k \in D : k \in Stop => k = 0 /\ val[k] = begin
  OBVIOUS
<1>5. 0 \in D \cap Stop /\ D = 0..N /\ \A k \in 1..N : k \in D \ Stop
  OBVIOUS
<1> HIDE DEF D, m, nxt, val, Stop
<1>6. \A k \in D \ Stop : \A v \in V : F[k][v] \in V
  BY <1>3 DEF StepsIn
<1>7. WellMade(D, V, N, m, Stop, val, nxt, F)
  BY <1>1, <1>2, <1>3, <1>6 DEF WellMade
<1>8. PICK f : Made(f, D, V, Stop, val, nxt, F)
  BY <1>7, Recursion
<1>9. f[0] = begin
  BY <1>4, <1>5, <1>8 DEF Made
<1>10. ASSUME NEW k \in 1..N PROVE f[k] = F[k][f[k - 1]]
  <2>1. k \in D /\ k \notin Stop /\ nxt[k] = k - 1
    BY <1>3, <1>5
  <2> QED BY <1>8, <2>1 DEF Made
<1>11. f \in [0..N -> V]
  BY <1>5, <1>8 DEF Made
<1>12. Steps(f, N, V, begin, F)
  BY <1>9, <1>10, <1>11 DEF Steps
<1> QED BY <1>12

\* The same for a function f that has F[k][f] at k, where F[k] takes a function
\* and uses only values of it at arguments of smaller measure.
WellTabled(D, V, N, m, F) ==
  /\ m \in [D -> 0..N] /\ F \in [D -> [[D -> V] -> V]]
  /\ \A k \in D : \A f, g \in [D -> V] :
       (\A j \in D : m[j] < m[k] => f[j] = g[j]) => F[k][f] = F[k][g]
Tabled(f, D, V, F) == f \in [D -> V] /\ \A k \in D : f[k] = F[k][f]

\* The same for a table.
LEMMA TableRecursion ==
  ASSUME NEW D, NEW V, NEW v \in V, NEW N \in Nat, NEW m, NEW F, WellTabled(D, V, N, m, F)
  PROVE  \E f : Tabled(f, D, V, F)
<1> USE DEF WellTabled
<1> DEFINE S == {n \in 0..(N + 1) :
                   \E f \in [D -> V] : \A k \in D : m[k] < n => f[k] = F[k][f]}
<1>1. 0 \in S
  <2> DEFINE f == [k \in D |-> v]
  <2>1. f \in [D -> V]
    OBVIOUS
  <2>2. ASSUME NEW k \in D PROVE ~(m[k] < 0)
    <3>1. m[k] \in 0..N
      OBVIOUS
    <3> QED BY <3>1
  <2>3. 0 \in 0..(N + 1)
    OBVIOUS
  <2> HIDE DEF f
  <2> QED BY <2>1, <2>2, <2>3
<1>2. ASSUME NEW n \in 0..N, n \in S PROVE n + 1 \in S
  <2>1. PICK f \in [D -> V] : \A k \in D : m[k] < n => f[k] = F[k][f]
    BY <1>2
  <2> DEFINE g == [k \in D |-> F[k][f]]
  <2>2. g \in [D -> V] /\ \A k \in D : g[k] = F[k][f]
    OBVIOUS
  <2> HIDE DEF g
  <2>3. ASSUME NEW k \in D, m[k] < n + 1 PROVE g[k] = F[k][g]
    <3>1. \A j \in D : m[j] < m[k] => m[j] < n
      BY <2>3
    <3>2. \A j \in D : m[j] < m[k] => f[j] = g[j]
      BY <2>1, <2>2, <3>1
    <3>3. F[k][f] = F[k][g]
      BY <2>2, <3>2
    <3> QED BY <2>2, <3>3
  <2>4. n + 1 \in 0..(N + 1)
    OBVIOUS
  <2> QED BY <2>2, <2>3, <2>4
<1> HIDE DEF S
<1>3. 0..(N + 1) \subseteq S
  <2>1. \A k \in 0..((N + 1) - 1) : k \in S => k + 1 \in S
    BY <1>2
  <2> QED BY <1>1, <2>1, NatSteps
<1>4. N + 1 \in S
  BY <1>3
<1>5. PICK f \in [D -> V] : \A k \in D : m[k] < N + 1 => f[k] = F[k][f]
  BY <1>4 DEF S
<1>6. ASSUME NEW k \in D PROVE m[k] < N + 1
  <2>1. m[k] \in 0..N
    OBVIOUS
  <2> QED BY <2>1
<1> QED BY <1>5, <1>6 DEF Tabled
=============================================================================
