------------------------------ MODULE LineProofs ------------------------------
(***************************************************************************)
(* Proofs about the lexer and the typo search.                             *)
(***************************************************************************)
EXTENDS Analysis, Recursions, FiniteSetTheorems

-----------------------------------------------------------------------------
(* The edit distance.  A cell of the table stands for a prefix of each word; *)
(* an edit leads from a cell to a later one.                                 *)

Grid(a, b) == (0..Len(a)) \X (0..Len(b))
Origin == <<0, 0>>
Corner(a, b) == <<Len(a), Len(b)>>
Sum(p) == p[1] + p[2]

\* One edit from p to q, of cost w.
Edit(a, b, p, q, w) ==
  \/ q = <<p[1] + 1, p[2]>> /\ w = 1
  \/ q = <<p[1], p[2] + 1>> /\ w = 1
  \/ q = <<p[1] + 1, p[2] + 1>> /\ w = Cost(a[p[1] + 1], b[p[2] + 1])
  \/ /\ q = <<p[1] + 2, p[2] + 2>> /\ w = 1
     /\ a[p[1] + 1] = b[p[2] + 2] /\ a[p[1] + 2] = b[p[2] + 1]

\* d is the least cost of the edits from the origin.
FromOrigin(a, b, d) ==
  /\ d \in [Grid(a, b) -> Nat] /\ d[Origin] = 0
  /\ \A p, q \in Grid(a, b) : \A w \in {0, 1} : Edit(a, b, p, q, w) => d[q] <= d[p] + w
  /\ \A q \in Grid(a, b) \ {Origin} :
       \E p \in Grid(a, b) : \E w \in {0, 1} : Edit(a, b, p, q, w) /\ d[q] = d[p] + w

\* e is the least cost of the edits to the corner.
ToCorner(a, b, e) ==
  /\ e \in [Grid(a, b) -> Nat] /\ e[Corner(a, b)] = 0
  /\ \A p, q \in Grid(a, b) : \A w \in {0, 1} : Edit(a, b, p, q, w) => e[p] <= e[q] + w
  /\ \A p \in Grid(a, b) \ {Corner(a, b)} :
       \E q \in Grid(a, b) : \E w \in {0, 1} : Edit(a, b, p, q, w) /\ e[p] = e[q] + w

\* The cells of the table are ordered by the letters they stand for.
LEMMA CellOrder ==
  ASSUME NEW a, NEW b, Len(a) \in Nat, Len(b) \in Nat, NEW m, m = [p \in Grid(a, b) |-> Sum(p)]
  PROVE  /\ m \in [Grid(a, b) -> 0..(Len(a) + Len(b))]
         /\ \A p, q \in Grid(a, b) : \A w : Edit(a, b, p, q, w) => m[p] < m[q]
         /\ Origin \in Grid(a, b) /\ Corner(a, b) \in Grid(a, b)
<1>1. ASSUME NEW p \in Grid(a, b)
      PROVE  p[1] \in 0..Len(a) /\ p[2] \in 0..Len(b) /\ p = <<p[1], p[2]>>
  BY DEF Grid
<1>2. ASSUME NEW p \in Grid(a, b) PROVE Sum(p) \in 0..(Len(a) + Len(b))
  <2>1. p[1] \in 0..Len(a) /\ p[2] \in 0..Len(b)
    BY <1>1
  <2> QED BY <2>1 DEF Sum
<1>3. m \in [Grid(a, b) -> 0..(Len(a) + Len(b))]
  BY <1>2
<1>4. ASSUME NEW p \in Grid(a, b), NEW q \in Grid(a, b), NEW w, Edit(a, b, p, q, w)
      PROVE  m[p] < m[q]
  <2>1. p[1] \in Nat /\ p[2] \in Nat
    BY <1>1
  <2>2. \/ q[1] = p[1] + 1 /\ q[2] = p[2]
        \/ q[1] = p[1] /\ q[2] = p[2] + 1
        \/ q[1] = p[1] + 1 /\ q[2] = p[2] + 1
        \/ q[1] = p[1] + 2 /\ q[2] = p[2] + 2
    BY <1>4 DEF Edit
  <2> QED BY <2>1, <2>2 DEF Sum
<1>5. Origin \in Grid(a, b) /\ Corner(a, b) \in Grid(a, b)
  BY DEF Origin, Corner, Grid
<1> QED BY <1>3, <1>4, <1>5

\* The least cost is the same counted from either end.
LEMMA SameFromBothEnds ==
  ASSUME NEW a, NEW b, Len(a) \in Nat, Len(b) \in Nat,
         NEW d, FromOrigin(a, b, d), NEW e, ToCorner(a, b, e)
  PROVE  d[Corner(a, b)] = e[Origin]
<1> DEFINE G == Grid(a, b)
           s == Origin
           t == Corner(a, b)
           N == Len(a) + Len(b)
           m == [p \in G |-> Sum(p)]
           back == [p \in G |-> N - m[p]]
<1>1. /\ m \in [G -> 0..N] /\ \A p, q \in G : \A w : Edit(a, b, p, q, w) => m[p] < m[q]
      /\ s \in G /\ t \in G
  <2> HIDE DEF m
  <2>1. m = [p \in Grid(a, b) |-> Sum(p)]
    BY DEF m
  <2> QED BY <2>1, CellOrder
<1>2. N \in Nat
  OBVIOUS
<1> HIDE DEF m, N
<1>3. back \in [G -> 0..N] /\ \A p, q \in G : \A w : Edit(a, b, p, q, w) => back[q] < back[p]
  <2>1. ASSUME NEW p \in G PROVE m[p] \in 0..N /\ back[p] = N - m[p]
    BY <1>1
  <2>2. ASSUME NEW p \in G PROVE N - m[p] \in 0..N
    BY <1>2, <2>1
  <2>3. ASSUME NEW p \in G, NEW q \in G, NEW w, Edit(a, b, p, q, w) PROVE back[q] < back[p]
    <3>1. m[p] < m[q]
      BY <1>1, <2>3
    <3>2. back[p] = N - m[p] /\ back[q] = N - m[q] /\ m[p] \in 0..N /\ m[q] \in 0..N
      BY <2>1
    <3> QED BY <1>2, <3>1, <3>2
  <2> QED BY <2>2, <2>3
<1> HIDE DEF back
<1>4. /\ d \in [G -> Nat] /\ e \in [G -> Nat] /\ d[s] = 0 /\ e[t] = 0
      /\ \A p, q \in G : \A w \in {0, 1} :
           Edit(a, b, p, q, w) => d[q] <= d[p] + w /\ e[p] <= e[q] + w
  BY DEF FromOrigin, ToCorner
<1>5. \A q \in G \ {s} :
        \E p \in G : \E w \in {0, 1} : Edit(a, b, p, q, w) /\ d[q] = d[p] + w
  BY DEF FromOrigin
<1>6. \A p \in G \ {t} :
        \E q \in G : \E w \in {0, 1} : Edit(a, b, p, q, w) /\ e[p] = e[q] + w
  BY DEF ToCorner
<1> HIDE DEF G, s, t
<1>7. e[s] <= d[t] + e[t]
  <2> DEFINE S == {q \in G : e[s] <= d[q] + e[q]}
  <2>1. ASSUME NEW q \in G, \A p \in G : m[p] < m[q] => p \in S PROVE q \in S
    <3>1. CASE q = s
      <4>1. d[q] = 0 /\ e[q] = e[s] /\ e[s] \in Nat
        BY <1>1, <1>4, <3>1
      <4> QED BY <4>1
    <3>2. CASE q # s
      <4>1. PICK p \in G, w \in {0, 1} : Edit(a, b, p, q, w) /\ d[q] = d[p] + w
        BY <1>5, <3>2
      <4>2. m[p] < m[q] /\ e[p] <= e[q] + w
        BY <1>1, <1>4, <4>1
      <4>3. e[s] <= d[p] + e[p]
        BY <2>1, <4>2
      <4>4. e[s] \in Nat /\ d[p] \in Nat /\ e[p] \in Nat /\ d[q] \in Nat /\ e[q] \in Nat /\ w \in Nat
        BY <1>1, <1>4
      <4>5. e[s] <= d[q] + e[q]
        BY SMTT(60), <4>1, <4>2, <4>3, <4>4
      <4> QED BY <4>5
    <3> QED BY <3>1, <3>2
  <2> HIDE DEF S
  <2>2. G \subseteq S
    BY <1>1, <1>2, <2>1, MeasureInduction
  <2> QED BY <1>1, <2>2 DEF S
<1>8. d[t] <= d[s] + e[s]
  <2> DEFINE S == {p \in G : d[t] <= d[p] + e[p]}
  <2>1. ASSUME NEW p \in G, \A q \in G : back[q] < back[p] => q \in S PROVE p \in S
    <3>1. CASE p = t
      <4>1. e[p] = 0 /\ d[p] = d[t] /\ d[t] \in Nat
        BY <1>1, <1>4, <3>1
      <4> QED BY <4>1
    <3>2. CASE p # t
      <4>1. PICK q \in G, w \in {0, 1} : Edit(a, b, p, q, w) /\ e[p] = e[q] + w
        BY <1>6, <3>2
      <4>2. back[q] < back[p] /\ d[q] <= d[p] + w
        BY <1>3, <1>4, <4>1
      <4>3. d[t] <= d[q] + e[q]
        BY <2>1, <4>2
      <4>4. d[t] \in Nat /\ d[p] \in Nat /\ e[p] \in Nat /\ d[q] \in Nat /\ e[q] \in Nat /\ w \in Nat
        BY <1>1, <1>4
      <4>5. d[t] <= d[p] + e[p]
        BY SMTT(60), <4>1, <4>2, <4>3, <4>4
      <4> QED BY <4>5
    <3> QED BY <3>1, <3>2
  <2> HIDE DEF S
  <2>2. G \subseteq S
    BY <1>2, <1>3, <2>1, MeasureInduction
  <2> QED BY <1>1, <2>2 DEF S
<1>9. d[t] \in Nat /\ e[s] \in Nat /\ d[s] = 0 /\ e[t] = 0
  BY <1>1, <1>4
<1>10. d[t] = e[s]
  BY <1>7, <1>8, <1>9
<1> QED BY <1>10 DEF s, t

\* What an entry of the table is the least of, given the function f of the others.
Swapped(a, b, i, j) == i > 1 /\ j > 1 /\ a[i] = b[j - 1] /\ a[i - 1] = b[j]
Ways(f, a, b, i, j) ==
  {f[<<i - 1, j>>] + 1, f[<<i, j - 1>>] + 1, f[<<i - 1, j - 1>>] + Cost(a[i], b[j])}
    \cup (IF Swapped(a, b, i, j) THEN {f[<<i - 2, j - 2>>] + 1} ELSE {})
Cell(f, a, b, i, j) ==
  IF i = 0 THEN j ELSE IF j = 0 THEN i ELSE Min(Ways(f, a, b, i, j))

\* The ways to an inner entry are numbers made of earlier entries.
LEMMA WaysAreNumbers ==
  ASSUME NEW a, NEW b, Len(a) \in Nat, Len(b) \in Nat,
         NEW f \in [Grid(a, b) -> Nat], NEW i \in 1..Len(a), NEW j \in 1..Len(b)
  PROVE  Ways(f, a, b, i, j) \in SUBSET Nat /\ Ways(f, a, b, i, j) # {}
<1>1. /\ <<i - 1, j>> \in Grid(a, b) /\ <<i, j - 1>> \in Grid(a, b)
      /\ <<i - 1, j - 1>> \in Grid(a, b)
      /\ Swapped(a, b, i, j) => <<i - 2, j - 2>> \in Grid(a, b)
  BY DEF Grid, Swapped
<1>2. Cost(a[i], b[j]) \in Nat
  BY DEF Cost
<1>3. /\ f[<<i - 1, j>>] + 1 \in Nat /\ f[<<i, j - 1>>] + 1 \in Nat
      /\ f[<<i - 1, j - 1>>] + Cost(a[i], b[j]) \in Nat
      /\ Swapped(a, b, i, j) => f[<<i - 2, j - 2>>] + 1 \in Nat
  <2>1. \A p \in Grid(a, b) : f[p] \in Nat
    OBVIOUS
  <2>2. /\ f[<<i - 1, j>>] \in Nat /\ f[<<i, j - 1>>] \in Nat /\ f[<<i - 1, j - 1>>] \in Nat
        /\ Swapped(a, b, i, j) => f[<<i - 2, j - 2>>] \in Nat
    BY <1>1, <2>1
  <2>3. \A x, y \in Nat : x + 1 \in Nat /\ x + y \in Nat
    OBVIOUS
  <2> HIDE DEF Grid
  <2> QED BY <1>2, <2>2, <2>3, Zenon
<1> QED BY <1>3 DEF Ways

\* The table of the code is the least cost from the origin.
LEMMA TableFromOrigin ==
  ASSUME NEW a, NEW b, Len(a) \in Nat, Len(b) \in Nat
  PROVE  FromOrigin(a, b, Table(a, b))
<1> DEFINE G == Grid(a, b)
           N == Len(a) + Len(b)
           m == [p \in G |-> Sum(p)]
           F == [p \in G |-> [f \in [G -> Nat] |-> Cell(f, a, b, p[1], p[2])]]
           d == Table(a, b)
<1>1. /\ m \in [G -> 0..N] /\ \A p, q \in G : \A w : Edit(a, b, p, q, w) => m[p] < m[q]
      /\ Origin \in G /\ N \in Nat
  <2> HIDE DEF m
  <2>1. m = [p \in Grid(a, b) |-> Sum(p)]
    BY DEF m
  <2> QED BY <2>1, CellOrder
<1>2. \A p \in G : p[1] \in 0..Len(a) /\ p[2] \in 0..Len(b) /\ p = <<p[1], p[2]>>
  BY DEF Grid
<1>3. \A p \in G : m[p] = p[1] + p[2]
  BY DEF Sum
<1>4. ASSUME NEW p \in G, NEW f \in [G -> Nat] PROVE Cell(f, a, b, p[1], p[2]) \in Nat
  <2>1. p[1] \in Nat /\ p[2] \in Nat
    BY <1>2
  <2>2. CASE p[1] # 0 /\ p[2] # 0
    <3>1. p[1] \in 1..Len(a) /\ p[2] \in 1..Len(b)
      BY <1>2, <2>2
    <3>2. Ways(f, a, b, p[1], p[2]) \in SUBSET Nat /\ Ways(f, a, b, p[1], p[2]) # {}
      BY <3>1, WaysAreNumbers
    <3>3. Min(Ways(f, a, b, p[1], p[2])) \in Nat
      BY <3>2, MinProperties
    <3> QED BY <2>2, <3>3 DEF Cell
  <2> QED BY <2>1, <2>2 DEF Cell
<1>5. ASSUME NEW p \in G, NEW f, NEW g, \A q \in G : m[q] < m[p] => f[q] = g[q]
      PROVE  Cell(f, a, b, p[1], p[2]) = Cell(g, a, b, p[1], p[2])
  <2> DEFINE i == p[1]
             j == p[2]
  <2>1. CASE i # 0 /\ j # 0
    <3>1. i \in 1..Len(a) /\ j \in 1..Len(b) /\ m[p] = i + j
      BY <1>2, <1>3, <2>1
    <3> HIDE DEF i, j
    <3>2. /\ <<i - 1, j>> \in G /\ <<i, j - 1>> \in G /\ <<i - 1, j - 1>> \in G
          /\ Swapped(a, b, i, j) => <<i - 2, j - 2>> \in G
      BY SMTT(60), <3>1 DEF Grid, Swapped
    <3> HIDE DEF m, G
    <3>3. /\ m[<<i - 1, j>>] < m[p] /\ m[<<i, j - 1>>] < m[p] /\ m[<<i - 1, j - 1>>] < m[p]
          /\ Swapped(a, b, i, j) => m[<<i - 2, j - 2>>] < m[p]
      BY <1>3, <3>1, <3>2
    <3>4. /\ f[<<i - 1, j>>] = g[<<i - 1, j>>] /\ f[<<i, j - 1>>] = g[<<i, j - 1>>]
          /\ f[<<i - 1, j - 1>>] = g[<<i - 1, j - 1>>]
          /\ Swapped(a, b, i, j) => f[<<i - 2, j - 2>>] = g[<<i - 2, j - 2>>]
      BY <1>5, <3>2, <3>3
    <3>5. Ways(f, a, b, i, j) = Ways(g, a, b, i, j)
      BY <3>4 DEF Ways
    <3>6. Cell(f, a, b, i, j) = Cell(g, a, b, i, j)
      BY <3>5 DEF Cell
    <3> QED BY <3>6 DEF i, j
  <2>2. CASE i = 0 \/ j = 0
    BY <2>2 DEF Cell
  <2> QED BY <2>1, <2>2
<1>6. PICK f : Tabled(f, G, Nat, F)
  <2>1. F \in [G -> [[G -> Nat] -> Nat]]
    BY <1>4
  <2>2. \A p \in G : \A f, g \in [G -> Nat] :
          (\A q \in G : m[q] < m[p] => f[q] = g[q]) => F[p][f] = F[p][g]
    BY <1>5
  <2> HIDE DEF F, m, G, N
  <2>3. WellTabled(G, Nat, N, m, F)
    BY <1>1, <2>1, <2>2 DEF WellTabled
  <2>4. 0 \in Nat
    OBVIOUS
  <2> QED BY <1>1, <2>3, <2>4, TableRecursion
<1>7. f = [p \in G |-> Cell(f, a, b, p[1], p[2])]
  BY <1>6 DEF Tabled
<1>8. d = [p \in G |-> Cell(d, a, b, p[1], p[2])]
  <2> DEFINE e == CHOOSE e : e = [p \in (0..Len(a)) \X (0..Len(b)) |-> Cell(e, a, b, p[1], p[2])]
  <2>1. e = [p \in G |-> Cell(e, a, b, p[1], p[2])]
    BY <1>7 DEF Grid
  <2>2. d = e
    BY DEF Table, Cell, Ways, Swapped
  <2> QED BY <2>1, <2>2
<1>9. d = f
  <2> DEFINE S == {p \in G : d[p] = f[p]}
  <2> HIDE DEF d, G, m, F
  <2>1. ASSUME NEW p \in G, \A q \in G : m[q] < m[p] => q \in S PROVE p \in S
    <3>1. Cell(d, a, b, p[1], p[2]) = Cell(f, a, b, p[1], p[2])
      BY <1>5, <2>1
    <3>2. d[p] = Cell(d, a, b, p[1], p[2]) /\ f[p] = Cell(f, a, b, p[1], p[2])
      BY <1>7, <1>8
    <3> QED BY <3>1, <3>2
  <2> HIDE DEF S
  <2>2. G \subseteq S
    <3> HIDE DEF N
    <3> QED BY <1>1, <2>1, MeasureInduction
  <2>3. \A p \in G : d[p] = f[p]
    BY <2>2 DEF S
  <2> QED BY <1>7, <1>8, <2>3
<1>10. d \in [G -> Nat] /\ \A p \in G : d[p] = Cell(d, a, b, p[1], p[2])
  BY <1>6, <1>8, <1>9 DEF Tabled
<1> HIDE DEF d, F, m
<1>11. ASSUME NEW q \in G, q[1] # 0, q[2] # 0
       PROVE  /\ q[1] \in 1..Len(a) /\ q[2] \in 1..Len(b)
              /\ d[q] \in Ways(d, a, b, q[1], q[2])
              /\ \A n \in Ways(d, a, b, q[1], q[2]) : d[q] <= n
  <2>1. q[1] \in 1..Len(a) /\ q[2] \in 1..Len(b)
    BY <1>2, <1>11
  <2>2. Ways(d, a, b, q[1], q[2]) \in SUBSET Nat /\ Ways(d, a, b, q[1], q[2]) # {}
    BY <1>10, <2>1, WaysAreNumbers
  <2>3. d[q] = Min(Ways(d, a, b, q[1], q[2]))
    BY <1>10, <1>11 DEF Cell
  <2>4. /\ Min(Ways(d, a, b, q[1], q[2])) \in Ways(d, a, b, q[1], q[2])
        /\ \A n \in Ways(d, a, b, q[1], q[2]) : Min(Ways(d, a, b, q[1], q[2])) <= n
    BY <2>2, MinProperties
  <2> QED BY <2>1, <2>3, <2>4
<1>12. ASSUME NEW p \in G, NEW q \in G, NEW w \in {0, 1}, Edit(a, b, p, q, w)
       PROVE  d[q] <= d[p] + w
  <2> DEFINE i == q[1]
             j == q[2]
  <2>1. /\ p = <<p[1], p[2]>> /\ q = <<i, j>> /\ p[1] \in Nat /\ p[2] \in Nat /\ i \in Nat /\ j \in Nat
    BY <1>2
  <2>2. \/ p = <<i - 1, j>> /\ w = 1 /\ i # 0
        \/ p = <<i, j - 1>> /\ w = 1 /\ j # 0
        \/ p = <<i - 1, j - 1>> /\ w = Cost(a[i], b[j]) /\ i # 0 /\ j # 0
        \/ p = <<i - 2, j - 2>> /\ w = 1 /\ Swapped(a, b, i, j)
    <3>1. CASE q = <<p[1] + 1, p[2]>> /\ w = 1
      BY <2>1, <3>1
    <3>2. CASE q = <<p[1], p[2] + 1>> /\ w = 1
      BY <2>1, <3>2
    <3>3. CASE q = <<p[1] + 1, p[2] + 1>> /\ w = Cost(a[p[1] + 1], b[p[2] + 1])
      BY SMTT(60), <2>1, <3>3
    <3>4. CASE /\ q = <<p[1] + 2, p[2] + 2>> /\ w = 1
               /\ a[p[1] + 1] = b[p[2] + 2] /\ a[p[1] + 2] = b[p[2] + 1]
      <4>1. i = p[1] + 2 /\ j = p[2] + 2
        BY <3>4
      <4>2. p[1] = i - 2 /\ p[2] = j - 2 /\ i > 1 /\ j > 1 /\ i - 1 = p[1] + 1 /\ j - 1 = p[2] + 1
        BY <2>1, <4>1
      <4>3. a[i] = b[j - 1] /\ a[i - 1] = b[j]
        BY <3>4, <4>1, <4>2
      <4> QED BY <2>1, <3>4, <4>2, <4>3 DEF Swapped
    <3> QED BY <1>12, <3>1, <3>2, <3>3, <3>4 DEF Edit
  <2>3. CASE i = 0
    <3>1. p = <<i, j - 1>> /\ w = 1 /\ d[q] = j /\ d[p] = j - 1
      BY <1>10, <2>1, <2>2, <2>3 DEF Cell, Swapped
    <3> QED BY <2>1, <3>1
  <2>4. CASE i # 0 /\ j = 0
    <3>1. p = <<i - 1, j>> /\ w = 1
      BY <2>1, <2>2, <2>4 DEF Swapped
    <3>2. d[q] = i /\ d[p] = i - 1
      BY <1>10, <2>1, <2>4, <3>1 DEF Cell
    <3> QED BY <2>1, <3>1, <3>2
  <2>5. CASE i # 0 /\ j # 0
    <3>1. \A n \in Ways(d, a, b, i, j) : d[q] <= n
      BY <1>11, <2>5
    <3>2. d[p] + w \in Ways(d, a, b, i, j)
      BY <2>2 DEF Ways
    <3> QED BY <3>1, <3>2
  <2> QED BY <2>3, <2>4, <2>5
<1>13. ASSUME NEW q \in G \ {Origin}
       PROVE  \E p \in G : \E w \in {0, 1} : Edit(a, b, p, q, w) /\ d[q] = d[p] + w
  <2> DEFINE i == q[1]
             j == q[2]
  <2>1. q = <<i, j>> /\ i \in 0..Len(a) /\ j \in 0..Len(b) /\ (i # 0 \/ j # 0)
    BY <1>2 DEF Origin
  <2>2. CASE i = 0
    <3> DEFINE p == <<i, j - 1>>
    <3>1. p \in G /\ p[1] = 0 /\ p[2] = j - 1
      BY <2>1, <2>2 DEF Grid
    <3>2. d[q] = j /\ d[p] = j - 1
      BY <1>10, <2>2, <3>1 DEF Cell
    <3>3. q = <<p[1], p[2] + 1>>
      BY <2>1, <2>2, <3>1
    <3>4. d[q] = d[p] + 1
      BY <2>1, <3>2
    <3> HIDE DEF p
    <3> QED BY <3>1, <3>3, <3>4 DEF Edit
  <2>3. CASE i # 0 /\ j = 0
    <3> DEFINE p == <<i - 1, j>>
    <3>1. p \in G /\ p[1] = i - 1 /\ p[2] = 0
      BY <2>1, <2>3 DEF Grid
    <3>2. d[q] = i /\ d[p] = i - 1
      BY <1>10, <2>3, <3>1 DEF Cell
    <3>3. q = <<p[1] + 1, p[2]>>
      BY <2>1, <2>3, <3>1
    <3>4. d[q] = d[p] + 1
      BY <2>1, <3>2
    <3> HIDE DEF p
    <3> QED BY <3>1, <3>3, <3>4 DEF Edit
  <2>4. CASE i # 0 /\ j # 0
    <3>1. /\ i \in 1..Len(a) /\ j \in 1..Len(b) /\ d[q] \in Ways(d, a, b, i, j)
      BY <1>11, <2>4
    <3> HIDE DEF i, j
    <3>2. CASE d[q] = d[<<i - 1, j>>] + 1
      <4> DEFINE p == <<i - 1, j>>
      <4>1. p \in G /\ q = <<p[1] + 1, p[2]>>
        BY <2>1, <3>1 DEF Grid
      <4> HIDE DEF p
      <4>2. Edit(a, b, p, q, 1)
        BY <4>1 DEF Edit
      <4> QED BY <3>2, <4>1, <4>2 DEF p
    <3>3. CASE d[q] = d[<<i, j - 1>>] + 1
      <4> DEFINE p == <<i, j - 1>>
      <4>1. p \in G /\ q = <<p[1], p[2] + 1>>
        BY <2>1, <3>1 DEF Grid
      <4> HIDE DEF p
      <4>2. Edit(a, b, p, q, 1)
        BY <4>1 DEF Edit
      <4> QED BY <3>3, <4>1, <4>2 DEF p
    <3>4. CASE d[q] = d[<<i - 1, j - 1>>] + Cost(a[i], b[j])
      <4> DEFINE p == <<i - 1, j - 1>>
                 w == Cost(a[i], b[j])
      <4>1. p \in G /\ p[1] + 1 = i /\ p[2] + 1 = j
        BY <3>1 DEF Grid
      <4>2. w \in {0, 1}
        BY DEF Cost
      <4> HIDE DEF p
      <4>3. w = Cost(a[p[1] + 1], b[p[2] + 1]) /\ q = <<p[1] + 1, p[2] + 1>>
        BY <2>1, <4>1
      <4> HIDE DEF w
      <4>4. Edit(a, b, p, q, w)
        BY <4>3 DEF Edit
      <4> QED BY <3>4, <4>1, <4>2, <4>4 DEF p, w
    <3>5. CASE Swapped(a, b, i, j) /\ d[q] = d[<<i - 2, j - 2>>] + 1
      <4> DEFINE p == <<i - 2, j - 2>>
      <4>1. /\ p \in G /\ p[1] + 2 = i /\ p[2] + 2 = j /\ p[1] + 1 = i - 1 /\ p[2] + 1 = j - 1
        BY <3>1, <3>5 DEF Grid, Swapped
      <4>2. a[i] = b[j - 1] /\ a[i - 1] = b[j]
        BY <3>5 DEF Swapped
      <4> HIDE DEF p
      <4>3. a[p[1] + 1] = b[p[2] + 2] /\ a[p[1] + 2] = b[p[2] + 1] /\ q = <<p[1] + 2, p[2] + 2>>
        BY <2>1, <4>1, <4>2
      <4>4. Edit(a, b, p, q, 1)
        BY <4>3 DEF Edit
      <4> QED BY <3>5, <4>1, <4>4 DEF p
    <3> QED BY <3>1, <3>2, <3>3, <3>4, <3>5 DEF Ways
  <2> QED BY <2>2, <2>3, <2>4
<1>14. d[Origin] = 0
  BY <1>1, <1>10 DEF Cell, Origin
<1>15. FromOrigin(a, b, d)
  BY <1>10, <1>12, <1>13, <1>14 DEF FromOrigin
<1> QED BY <1>15 DEF d

\* The same for the reference, whose cells are counted from one and whose ways
\* lead onward.
Shifted(a, b) == (1..(Len(a) + 1)) \X (1..(Len(b) + 1))
Swaps(a, b, i, j) == i < Len(a) /\ j < Len(b) /\ a[i] = b[j + 1] /\ a[i + 1] = b[j]
WaysOn(f, a, b, i, j) ==
  {f[<<i + 1, j + 1>>] + Cost(a[i], b[j]), f[<<i + 1, j>>] + 1, f[<<i, j + 1>>] + 1}
    \cup (IF Swaps(a, b, i, j) THEN {f[<<i + 2, j + 2>>] + 1} ELSE {})
CellOn(f, a, b, i, j) ==
  IF i > Len(a) THEN Len(b) + 1 - j ELSE IF j > Len(b) THEN Len(a) + 1 - i
  ELSE Min(WaysOn(f, a, b, i, j))

\* The ways on from an inner cell are numbers made of later entries.
LEMMA WaysOnAreNumbers ==
  ASSUME NEW a, NEW b, Len(a) \in Nat, Len(b) \in Nat,
         NEW f \in [Shifted(a, b) -> Nat], NEW i \in 1..Len(a), NEW j \in 1..Len(b)
  PROVE  WaysOn(f, a, b, i, j) \in SUBSET Nat /\ WaysOn(f, a, b, i, j) # {}
<1>1. /\ <<i + 1, j>> \in Shifted(a, b) /\ <<i, j + 1>> \in Shifted(a, b)
      /\ <<i + 1, j + 1>> \in Shifted(a, b)
      /\ Swaps(a, b, i, j) => <<i + 2, j + 2>> \in Shifted(a, b)
  BY SMTT(60) DEF Shifted, Swaps
<1>2. Cost(a[i], b[j]) \in Nat
  BY DEF Cost
<1>3. /\ f[<<i + 1, j>>] + 1 \in Nat /\ f[<<i, j + 1>>] + 1 \in Nat
      /\ f[<<i + 1, j + 1>>] + Cost(a[i], b[j]) \in Nat
      /\ Swaps(a, b, i, j) => f[<<i + 2, j + 2>>] + 1 \in Nat
  <2>1. \A p \in Shifted(a, b) : f[p] \in Nat
    OBVIOUS
  <2>2. /\ f[<<i + 1, j>>] \in Nat /\ f[<<i, j + 1>>] \in Nat /\ f[<<i + 1, j + 1>>] \in Nat
        /\ Swaps(a, b, i, j) => f[<<i + 2, j + 2>>] \in Nat
    BY <1>1, <2>1
  <2>3. \A x, y \in Nat : x + 1 \in Nat /\ x + y \in Nat
    OBVIOUS
  <2> QED BY <1>2, <2>2, <2>3, Zenon
<1> QED BY <1>3 DEF WaysOn

\* The costs that the reference computes, cell by cell.
Costs(a, b, c) ==
  /\ c \in [Shifted(a, b) -> Nat]
  /\ \A p \in Shifted(a, b) : c[p] = CellOn(c, a, b, p[1], p[2])

\* The reference has a function of costs.
LEMMA CostsExist ==
  ASSUME NEW a, NEW b, Len(a) \in Nat, Len(b) \in Nat
  PROVE  \E c : Costs(a, b, c) /\ AlignmentCost(a, b) = c[<<1, 1>>]
<1> DEFINE G == Shifted(a, b)
           N == Len(a) + Len(b)
           m == [p \in G |-> N + 2 - p[1] - p[2]]
           F == [p \in G |-> [f \in [G -> Nat] |-> CellOn(f, a, b, p[1], p[2])]]
           c == CHOOSE c : c = [p \in G |-> CellOn(c, a, b, p[1], p[2])]
<1>1. N \in Nat
  OBVIOUS
<1>2. \A p \in G : p[1] \in 1..(Len(a) + 1) /\ p[2] \in 1..(Len(b) + 1) /\ p = <<p[1], p[2]>>
  BY DEF Shifted
<1>3. m \in [G -> 0..N] /\ \A p \in G : m[p] = N + 2 - p[1] - p[2]
  <2>1. ASSUME NEW p \in G PROVE N + 2 - p[1] - p[2] \in 0..N
    BY <1>2
  <2> QED BY <2>1
<1>4. ASSUME NEW p \in G, NEW f \in [G -> Nat] PROVE CellOn(f, a, b, p[1], p[2]) \in Nat
  <2>1. CASE p[1] <= Len(a) /\ p[2] <= Len(b)
    <3>1. p[1] \in 1..Len(a) /\ p[2] \in 1..Len(b)
      BY <1>2, <2>1
    <3>2. WaysOn(f, a, b, p[1], p[2]) \in SUBSET Nat /\ WaysOn(f, a, b, p[1], p[2]) # {}
      BY <3>1, WaysOnAreNumbers
    <3>3. Min(WaysOn(f, a, b, p[1], p[2])) \in Nat
      BY <3>2, MinProperties
    <3>4. ~(p[1] > Len(a)) /\ ~(p[2] > Len(b))
      BY <3>1
    <3> QED BY <3>3, <3>4 DEF CellOn
  <2>2. CASE p[1] > Len(a)
    <3>1. Len(b) + 1 - p[2] \in Nat
      BY <1>2
    <3> QED BY <2>2, <3>1 DEF CellOn
  <2>3. CASE p[1] <= Len(a) /\ p[2] > Len(b)
    <3>1. Len(a) + 1 - p[1] \in Nat /\ ~(p[1] > Len(a))
      BY <1>2, <2>3
    <3> QED BY <2>3, <3>1 DEF CellOn
  <2> QED BY <1>2, <2>1, <2>2, <2>3
<1>5. ASSUME NEW p \in G, NEW f, NEW g, \A q \in G : m[q] < m[p] => f[q] = g[q]
      PROVE  CellOn(f, a, b, p[1], p[2]) = CellOn(g, a, b, p[1], p[2])
  <2> DEFINE i == p[1]
             j == p[2]
  <2>1. CASE i <= Len(a) /\ j <= Len(b)
    <3>1. i \in 1..Len(a) /\ j \in 1..Len(b) /\ m[p] = N + 2 - i - j
      BY <1>2, <1>3, <2>1
    <3> HIDE DEF i, j
    <3>2. /\ <<i + 1, j>> \in G /\ <<i, j + 1>> \in G /\ <<i + 1, j + 1>> \in G
          /\ Swaps(a, b, i, j) => <<i + 2, j + 2>> \in G
      BY SMTT(60), <3>1 DEF Shifted, Swaps
    <3> HIDE DEF m, G, N
    <3>3. /\ m[<<i + 1, j>>] < m[p] /\ m[<<i, j + 1>>] < m[p] /\ m[<<i + 1, j + 1>>] < m[p]
          /\ Swaps(a, b, i, j) => m[<<i + 2, j + 2>>] < m[p]
      <4>1. /\ m[<<i + 1, j>>] = N + 2 - (i + 1) - j /\ m[<<i, j + 1>>] = N + 2 - i - (j + 1)
            /\ m[<<i + 1, j + 1>>] = N + 2 - (i + 1) - (j + 1)
            /\ Swaps(a, b, i, j) => m[<<i + 2, j + 2>>] = N + 2 - (i + 2) - (j + 2)
        BY <1>3, <3>2
      <4>2. i \in Nat /\ j \in Nat
        BY <3>1
      <4> QED BY <1>1, <3>1, <4>1, <4>2
    <3>4. /\ f[<<i + 1, j>>] = g[<<i + 1, j>>] /\ f[<<i, j + 1>>] = g[<<i, j + 1>>]
          /\ f[<<i + 1, j + 1>>] = g[<<i + 1, j + 1>>]
          /\ Swaps(a, b, i, j) => f[<<i + 2, j + 2>>] = g[<<i + 2, j + 2>>]
      BY <1>5, <3>2, <3>3
    <3>5. WaysOn(f, a, b, i, j) = WaysOn(g, a, b, i, j)
      BY <3>4 DEF WaysOn
    <3>6. CellOn(f, a, b, i, j) = CellOn(g, a, b, i, j)
      BY <3>5 DEF CellOn
    <3> QED BY <3>6 DEF i, j
  <2>2. CASE i > Len(a) \/ j > Len(b)
    BY <2>2 DEF CellOn
  <2> QED BY <1>2, <2>1, <2>2
<1>6. PICK f : Tabled(f, G, Nat, F)
  <2>1. F \in [G -> [[G -> Nat] -> Nat]]
    BY <1>4
  <2>2. \A p \in G : \A f, g \in [G -> Nat] :
          (\A q \in G : m[q] < m[p] => f[q] = g[q]) => F[p][f] = F[p][g]
    BY <1>5
  <2> HIDE DEF F, m, G, N
  <2>3. WellTabled(G, Nat, N, m, F)
    BY <1>3, <2>1, <2>2 DEF WellTabled
  <2>4. 0 \in Nat
    OBVIOUS
  <2> QED BY <1>1, <2>3, <2>4, TableRecursion
<1>7. f = [p \in G |-> CellOn(f, a, b, p[1], p[2])] /\ f \in [G -> Nat]
  BY <1>6 DEF Tabled
<1>8. c = [p \in G |-> CellOn(c, a, b, p[1], p[2])]
  BY <1>7
<1>9. AlignmentCost(a, b) = c[<<1, 1>>]
  BY DEF AlignmentCost, CellOn, WaysOn, Swaps, Shifted
<1> HIDE DEF c, G, m, F, N
<1>10. G \subseteq {p \in G : c[p] = f[p]}
  <2> DEFINE S == {p \in G : c[p] = f[p]}
  <2>1. ASSUME NEW p \in G, \A q \in G : m[q] < m[p] => q \in S PROVE p \in S
    <3>1. CellOn(c, a, b, p[1], p[2]) = CellOn(f, a, b, p[1], p[2])
      BY <1>5, <2>1
    <3>2. c[p] = CellOn(c, a, b, p[1], p[2]) /\ f[p] = CellOn(f, a, b, p[1], p[2])
      BY <1>7, <1>8
    <3> QED BY <3>1, <3>2
  <2> HIDE DEF S
  <2>2. G \subseteq S
    BY <1>1, <1>3, <2>1, MeasureInduction
  <2> QED BY <2>2 DEF S
<1>11. c = f
  BY <1>7, <1>8, <1>10
<1>12. Costs(a, b, c)
  BY <1>7, <1>8, <1>11 DEF Costs, G
<1> QED BY <1>9, <1>12

\* The reference is the least cost to the corner, counted from the origin.
LEMMA CostsToCorner ==
  ASSUME NEW a, NEW b, Len(a) \in Nat, Len(b) \in Nat
  PROVE  \E e : ToCorner(a, b, e) /\ AlignmentCost(a, b) = e[Origin]
<1> DEFINE G == Grid(a, b)
<1>1. PICK c : Costs(a, b, c) /\ AlignmentCost(a, b) = c[<<1, 1>>]
  BY CostsExist
<1> DEFINE e == [p \in G |-> c[<<p[1] + 1, p[2] + 1>>]]
<1>2. \A p \in G : p[1] \in 0..Len(a) /\ p[2] \in 0..Len(b) /\ p = <<p[1], p[2]>>
  BY DEF Grid
<1>3. ASSUME NEW p \in G
      PROVE  /\ <<p[1] + 1, p[2] + 1>> \in Shifted(a, b) /\ e[p] \in Nat
             /\ e[p] = CellOn(c, a, b, p[1] + 1, p[2] + 1)
  <2> DEFINE r == <<p[1] + 1, p[2] + 1>>
  <2>1. r \in Shifted(a, b) /\ r[1] = p[1] + 1 /\ r[2] = p[2] + 1
    BY <1>2 DEF Shifted
  <2>2. e[p] = c[r]
    OBVIOUS
  <2> HIDE DEF r, e
  <2>3. c[r] = CellOn(c, a, b, r[1], r[2]) /\ c[r] \in Nat
    BY <1>1, <2>1 DEF Costs
  <2> QED BY <2>1, <2>2, <2>3 DEF r
<1>4. e[Origin] = c[<<1, 1>>]
  BY DEF Grid, Origin
<1>5. \A i \in 0..Len(a) : \A j \in 0..Len(b) : <<i, j>> \in G /\ e[<<i, j>>] = c[<<i + 1, j + 1>>]
  BY DEF Grid
<1>6. e \in [G -> Nat]
  BY <1>3
<1> HIDE DEF e
<1>7. ASSUME NEW p \in G, p[1] < Len(a), p[2] < Len(b)
      PROVE  /\ p[1] + 1 \in 1..Len(a) /\ p[2] + 1 \in 1..Len(b)
             /\ e[p] \in WaysOn(c, a, b, p[1] + 1, p[2] + 1)
             /\ \A n \in WaysOn(c, a, b, p[1] + 1, p[2] + 1) : e[p] <= n
  <2> DEFINE i == p[1] + 1
             j == p[2] + 1
  <2>1. i \in 1..Len(a) /\ j \in 1..Len(b)
    BY <1>2, <1>7
  <2>2. e[p] = CellOn(c, a, b, i, j)
    BY <1>3
  <2> HIDE DEF i, j
  <2>3. WaysOn(c, a, b, i, j) \in SUBSET Nat /\ WaysOn(c, a, b, i, j) # {}
    BY <1>1, <2>1, WaysOnAreNumbers DEF Costs
  <2>4. e[p] = Min(WaysOn(c, a, b, i, j))
    <3>1. ~(i > Len(a)) /\ ~(j > Len(b))
      BY <2>1
    <3> QED BY <2>2, <3>1 DEF CellOn
  <2>5. /\ Min(WaysOn(c, a, b, i, j)) \in WaysOn(c, a, b, i, j)
        /\ \A n \in WaysOn(c, a, b, i, j) : Min(WaysOn(c, a, b, i, j)) <= n
    BY <2>3, MinProperties
  <2>6. /\ i \in 1..Len(a) /\ j \in 1..Len(b) /\ e[p] \in WaysOn(c, a, b, i, j)
        /\ \A n \in WaysOn(c, a, b, i, j) : e[p] <= n
    BY <2>1, <2>4, <2>5
  <2> QED BY <2>6 DEF i, j
<1>8. ASSUME NEW p \in G, NEW q \in G, NEW w \in {0, 1}, Edit(a, b, p, q, w)
      PROVE  e[p] <= e[q] + w
  <2> DEFINE i == p[1] + 1
             j == p[2] + 1
  <2>1. /\ p[1] \in 0..Len(a) /\ p[2] \in 0..Len(b) /\ q[1] \in 0..Len(a) /\ q[2] \in 0..Len(b)
        /\ q = <<q[1], q[2]>> /\ e[p] \in Nat /\ e[q] \in Nat
    BY <1>2, <1>3
  <2>2. e[q] = c[<<q[1] + 1, q[2] + 1>>]
    BY <1>5, <2>1
  <2>3. CASE p[1] < Len(a) /\ p[2] < Len(b)
    <3>1. \A n \in WaysOn(c, a, b, i, j) : e[p] <= n
      BY <1>7, <2>3
    <3>2. \/ q[1] + 1 = i + 1 /\ q[2] + 1 = j /\ w = 1
          \/ q[1] + 1 = i /\ q[2] + 1 = j + 1 /\ w = 1
          \/ q[1] + 1 = i + 1 /\ q[2] + 1 = j + 1 /\ w = Cost(a[i], b[j])
          \/ q[1] + 1 = i + 2 /\ q[2] + 1 = j + 2 /\ w = 1 /\ Swaps(a, b, i, j)
      <4>1. CASE q = <<p[1] + 1, p[2]>> /\ w = 1
        BY <2>1, <4>1
      <4>2. CASE q = <<p[1], p[2] + 1>> /\ w = 1
        BY <2>1, <4>2
      <4>3. CASE q = <<p[1] + 1, p[2] + 1>> /\ w = Cost(a[p[1] + 1], b[p[2] + 1])
        BY <2>1, <4>3
      <4>4. CASE /\ q = <<p[1] + 2, p[2] + 2>> /\ w = 1
                 /\ a[p[1] + 1] = b[p[2] + 2] /\ a[p[1] + 2] = b[p[2] + 1]
        <5>1. q[1] = p[1] + 2 /\ q[2] = p[2] + 2
          BY <4>4
        <5>2. i < Len(a) /\ j < Len(b) /\ i + 1 = p[1] + 2 /\ j + 1 = p[2] + 2
          BY <2>1, <5>1
        <5>3. q[1] + 1 = i + 2 /\ q[2] + 1 = j + 2
          BY <2>1, <5>1
        <5> QED BY <4>4, <5>2, <5>3 DEF Swaps
      <4> QED BY <1>8, <4>1, <4>2, <4>3, <4>4 DEF Edit
    <3> HIDE DEF i, j
    <3>3. e[q] + w \in WaysOn(c, a, b, i, j)
      BY <2>2, <3>2 DEF WaysOn
    <3> QED BY <3>1, <3>3
  <2>4. CASE p[1] = Len(a)
    <3>1. q[1] = p[1] /\ q[2] = p[2] + 1 /\ w = 1
      BY <1>8, <2>1, <2>4 DEF Edit
    <3>2. e[p] = Len(b) + 1 - (p[2] + 1) /\ e[q] = Len(b) + 1 - (q[2] + 1)
      <4>1. p[1] + 1 > Len(a) /\ q[1] + 1 > Len(a)
        BY <2>4, <3>1
      <4> QED BY <1>3, <4>1 DEF CellOn
    <3> QED BY SMTT(60), <2>1, <3>1, <3>2
  <2>5. CASE p[1] < Len(a) /\ p[2] = Len(b)
    <3>1. q[1] = p[1] + 1 /\ q[2] = p[2] /\ w = 1
      BY <1>8, <2>1, <2>5 DEF Edit
    <3>2. e[p] = Len(a) + 1 - (p[1] + 1)
      <4>1. ~(p[1] + 1 > Len(a)) /\ p[2] + 1 > Len(b)
        BY <2>1, <2>5
      <4> QED BY <1>3, <4>1 DEF CellOn
    <3>3. e[q] = Len(a) + 1 - (q[1] + 1)
      <4>1. q[2] + 1 > Len(b) /\ Len(b) + 1 - (q[2] + 1) = 0
        BY <2>1, <2>5, <3>1
      <4>2. q[1] + 1 > Len(a) => Len(a) + 1 - (q[1] + 1) = 0
        BY <2>1
      <4> QED BY <1>3, <4>1, <4>2 DEF CellOn
    <3> QED BY SMTT(60), <2>1, <3>1, <3>2, <3>3
  <2> QED BY <2>1, <2>3, <2>4, <2>5
<1>9. ASSUME NEW p \in G \ {Corner(a, b)}
      PROVE  \E q \in G : \E w \in {0, 1} : Edit(a, b, p, q, w) /\ e[p] = e[q] + w
  <2> DEFINE i == p[1] + 1
             j == p[2] + 1
  <2>1. /\ p[1] \in 0..Len(a) /\ p[2] \in 0..Len(b) /\ (p[1] < Len(a) \/ p[2] < Len(b))
        /\ i \in 1..(Len(a) + 1) /\ j \in 1..(Len(b) + 1)
    BY <1>2 DEF Corner
  <2>2. CASE p[1] = Len(a)
    <3> DEFINE q == <<p[1], p[2] + 1>>
    <3>1. q \in G /\ q[1] = p[1] /\ q[2] = p[2] + 1
      BY <2>1, <2>2 DEF Grid
    <3> HIDE DEF q
    <3>2. e[p] = Len(b) + 1 - (p[2] + 1) /\ e[q] = Len(b) + 1 - (q[2] + 1)
      <4>1. p[1] + 1 > Len(a) /\ q[1] + 1 > Len(a)
        BY <2>2, <3>1
      <4> QED BY <1>3, <3>1, <4>1 DEF CellOn
    <3>3. e[p] = e[q] + 1
      BY SMTT(60), <2>1, <3>1, <3>2
    <3>4. Edit(a, b, p, q, 1)
      BY DEF Edit, q
    <3> QED BY <3>1, <3>3, <3>4
  <2>3. CASE p[1] < Len(a) /\ p[2] = Len(b)
    <3> DEFINE q == <<p[1] + 1, p[2]>>
    <3>1. q \in G /\ q[1] = p[1] + 1 /\ q[2] = p[2]
      BY <2>1, <2>3 DEF Grid
    <3> HIDE DEF q
    <3>2. e[p] = Len(a) + 1 - (p[1] + 1)
      <4>1. ~(p[1] + 1 > Len(a)) /\ p[2] + 1 > Len(b)
        BY <2>1, <2>3
      <4> QED BY <1>3, <4>1 DEF CellOn
    <3>3. e[q] = Len(a) + 1 - (q[1] + 1)
      <4>1. q[2] + 1 > Len(b) /\ Len(b) + 1 - (q[2] + 1) = 0 /\ q[1] \in 0..Len(a)
        BY <2>1, <2>3, <3>1
      <4>2. q[1] + 1 > Len(a) => Len(a) + 1 - (q[1] + 1) = 0
        BY <4>1
      <4> QED BY <1>3, <3>1, <4>1, <4>2 DEF CellOn
    <3>4. e[p] = e[q] + 1
      BY SMTT(60), <2>1, <3>1, <3>2, <3>3
    <3>5. Edit(a, b, p, q, 1)
      BY DEF Edit, q
    <3> QED BY <3>1, <3>4, <3>5
  <2>4. CASE p[1] < Len(a) /\ p[2] < Len(b)
    <3>1. i \in 1..Len(a) /\ j \in 1..Len(b) /\ e[p] \in WaysOn(c, a, b, i, j)
      BY <1>7, <2>4
    <3>2. CASE e[p] = c[<<i + 1, j>>] + 1
      <4> DEFINE q == <<p[1] + 1, p[2]>>
      <4>1. p[1] + 1 \in 0..Len(a) /\ p[2] \in 0..Len(b) /\ (p[1] + 1) + 1 = i + 1
        BY <2>1, <2>4
      <4>2. q \in G /\ e[q] = c[<<i + 1, j>>]
        BY <1>5, <4>1
      <4>3. Edit(a, b, p, q, 1)
        BY DEF Edit
      <4> HIDE DEF q
      <4> QED BY <3>2, <4>2, <4>3
    <3>3. CASE e[p] = c[<<i, j + 1>>] + 1
      <4> DEFINE q == <<p[1], p[2] + 1>>
      <4>1. p[1] \in 0..Len(a) /\ p[2] + 1 \in 0..Len(b) /\ (p[2] + 1) + 1 = j + 1
        BY <2>1, <2>4
      <4>2. q \in G /\ e[q] = c[<<i, j + 1>>]
        BY <1>5, <4>1
      <4>3. Edit(a, b, p, q, 1)
        BY DEF Edit
      <4> HIDE DEF q
      <4> QED BY <3>3, <4>2, <4>3
    <3>4. CASE e[p] = c[<<i + 1, j + 1>>] + Cost(a[i], b[j])
      <4> DEFINE q == <<p[1] + 1, p[2] + 1>>
                 w == Cost(a[i], b[j])
      <4>1. /\ p[1] + 1 \in 0..Len(a) /\ p[2] + 1 \in 0..Len(b)
            /\ (p[1] + 1) + 1 = i + 1 /\ (p[2] + 1) + 1 = j + 1
        BY <2>1, <2>4
      <4>2. q \in G /\ e[q] = c[<<i + 1, j + 1>>]
        BY <1>5, <4>1
      <4>3. Edit(a, b, p, q, w)
        BY DEF Edit
      <4>4. w \in {0, 1}
        BY DEF Cost
      <4>5. e[p] = e[q] + w
        BY <3>4, <4>2
      <4> HIDE DEF q, w
      <4> QED BY <4>2, <4>3, <4>4, <4>5
    <3>5. CASE Swaps(a, b, i, j) /\ e[p] = c[<<i + 2, j + 2>>] + 1
      <4> DEFINE q == <<p[1] + 2, p[2] + 2>>
      <4>1. /\ p[1] + 2 \in 0..Len(a) /\ p[2] + 2 \in 0..Len(b)
            /\ (p[1] + 2) + 1 = i + 2 /\ (p[2] + 2) + 1 = j + 2
            /\ i + 1 = p[1] + 2 /\ j + 1 = p[2] + 2
        <5>1. p[1] \in Int /\ p[2] \in Int
          BY <2>1
        <5>2. p[1] + 1 < Len(a) /\ p[2] + 1 < Len(b)
          BY <3>5 DEF Swaps
        <5>3. p[1] + 2 \in 0..Len(a) /\ p[2] + 2 \in 0..Len(b)
          BY SMTT(60), <2>1, <5>2
        <5> QED BY <5>1, <5>3
      <4>2. q \in G /\ e[q] = c[<<i + 2, j + 2>>]
        BY <1>5, <4>1
      <4>3. a[p[1] + 1] = b[p[2] + 2] /\ a[p[1] + 2] = b[p[2] + 1]
        BY <3>5, <4>1 DEF Swaps
      <4>4. Edit(a, b, p, q, 1)
        BY <4>3 DEF Edit
      <4>5. e[p] = e[q] + 1
        BY <3>5, <4>2
      <4> HIDE DEF q
      <4> QED BY <4>2, <4>4, <4>5
    <3> QED BY <3>1, <3>2, <3>3, <3>4, <3>5 DEF WaysOn
  <2> QED BY <2>1, <2>2, <2>3, <2>4
<1>10. e[Corner(a, b)] = 0
  <2>1. Corner(a, b) \in G /\ Corner(a, b)[1] = Len(a) /\ Corner(a, b)[2] = Len(b)
    BY DEF Corner, Grid
  <2>2. Len(a) + 1 > Len(a) /\ Len(b) + 1 - (Len(b) + 1) = 0
    OBVIOUS
  <2> QED BY <1>3, <2>1, <2>2 DEF CellOn
<1>11. ToCorner(a, b, e)
  BY <1>6, <1>8, <1>9, <1>10 DEF ToCorner
<1> QED BY <1>1, <1>4, <1>11

\* The last entry of the table is what the reference counts.
LEMMA TableIsCost ==
  ASSUME NEW a, NEW b, Len(a) \in Nat, Len(b) \in Nat
  PROVE  Table(a, b)[Corner(a, b)] = AlignmentCost(a, b) /\ AlignmentCost(a, b) \in Nat
<1>1. PICK e : ToCorner(a, b, e) /\ AlignmentCost(a, b) = e[Origin]
  BY CostsToCorner
<1>2. FromOrigin(a, b, Table(a, b))
  BY TableFromOrigin
<1>3. Table(a, b)[Corner(a, b)] = e[Origin]
  BY <1>1, <1>2, SameFromBothEnds
<1>4. e[Origin] \in Nat
  <2>1. Origin \in Grid(a, b)
    BY DEF Origin, Grid
  <2> QED BY <1>1, <2>1 DEF ToCorner
<1> QED BY <1>1, <1>3, <1>4

\* On the way to an entry every earlier row has one as small, an entry off the
\* diagonal is as large as it is off, and an entry of 0 stands for equal prefixes.
LEMMA TableEntries ==
  ASSUME NEW a, NEW b, Len(a) \in Nat, Len(b) \in Nat, NEW d, FromOrigin(a, b, d),
         NEW t \in Grid(a, b)
  PROVE  /\ \A r \in 0..t[1] : \E p \in Grid(a, b) : p[1] = r /\ d[p] <= d[t]
         /\ t[1] - t[2] <= d[t] /\ t[2] - t[1] <= d[t]
         /\ d[t] = 0 => t[1] = t[2] /\ \A k \in 1..t[1] : a[k] = b[k]
<1> DEFINE G == Grid(a, b)
           N == Len(a) + Len(b)
           m == [p \in G |-> Sum(p)]
           RowsDone(q) == \A r \in 0..q[1] : \E p \in G : p[1] = r /\ d[p] <= d[q]
           Off(q) == q[1] - q[2] <= d[q] /\ q[2] - q[1] <= d[q]
           Same(q) == d[q] = 0 => q[1] = q[2] /\ \A k \in 1..q[1] : a[k] = b[k]
           S == {q \in G : RowsDone(q) /\ Off(q) /\ Same(q)}
<1>1. /\ m \in [G -> 0..N] /\ \A p, q \in G : \A w : Edit(a, b, p, q, w) => m[p] < m[q]
      /\ Origin \in G /\ N \in Nat
  <2> HIDE DEF m
  <2>1. m = [p \in Grid(a, b) |-> Sum(p)]
    BY DEF m
  <2> QED BY <2>1, CellOrder
<1>2. \A q \in G : q[1] \in 0..Len(a) /\ q[2] \in 0..Len(b) /\ q = <<q[1], q[2]>>
  BY DEF Grid
<1>3. \A q \in G : d[q] \in Nat
  BY DEF FromOrigin
<1>4. /\ d[Origin] = 0
      /\ \A p, q \in G : \A w \in {0, 1} : Edit(a, b, p, q, w) => d[q] <= d[p] + w
      /\ \A q \in G \ {Origin} :
           \E p \in G : \E w \in {0, 1} : Edit(a, b, p, q, w) /\ d[q] = d[p] + w
  BY DEF FromOrigin
<1>5. \A i \in 0..Len(a) : \A j \in 0..Len(b) : <<i, j>> \in G
  BY DEF Grid
<1> HIDE DEF m, N, G
<1>6. ASSUME NEW q \in G, \A p \in G : m[p] < m[q] => p \in S PROVE q \in S
  <2>1. CASE q = Origin
    <3>1. d[q] = 0 /\ q[1] = 0 /\ q[2] = 0
      BY <1>4, <2>1 DEF Origin
    <3>2. RowsDone(q)
      BY <3>1
    <3> QED BY <3>1, <3>2
  <2>2. CASE q # Origin
    <3>1. PICK p \in G, w \in {0, 1} : Edit(a, b, p, q, w) /\ d[q] = d[p] + w
      BY <1>4, <2>2
    <3>2. m[p] < m[q]
      BY <1>1, <3>1
    <3>3. RowsDone(p) /\ Off(p) /\ Same(p)
      BY <1>6, <3>2
    <3>4. /\ p[1] \in Nat /\ p[2] \in Nat /\ q[1] \in Nat /\ q[2] \in Nat
          /\ d[p] \in Nat /\ d[q] \in Nat /\ q[1] \in 0..Len(a) /\ q[2] \in 0..Len(b)
      BY <1>2, <1>3
    <3>5. \/ q[1] = p[1] + 1 /\ q[2] = p[2] /\ w = 1
          \/ q[1] = p[1] /\ q[2] = p[2] + 1 /\ w = 1
          \/ q[1] = p[1] + 1 /\ q[2] = p[2] + 1 /\ w = Cost(a[p[1] + 1], b[p[2] + 1])
          \/ q[1] = p[1] + 2 /\ q[2] = p[2] + 2 /\ w = 1
      BY <3>1 DEF Edit
    <3>6. Off(q)
      <4>1. p[1] - p[2] <= d[p] /\ p[2] - p[1] <= d[p] /\ d[q] = d[p] + w /\ w \in {0, 1}
        BY <3>1, <3>3
      <4>2. \/ q[1] = p[1] + 1 /\ q[2] = p[2] /\ w = 1
            \/ q[1] = p[1] /\ q[2] = p[2] + 1 /\ w = 1
            \/ q[1] = p[1] + 1 /\ q[2] = p[2] + 1
            \/ q[1] = p[1] + 2 /\ q[2] = p[2] + 2
        BY <3>5
      <4> DEFINE p1 == p[1]
                 p2 == p[2]
                 q1 == q[1]
                 q2 == q[2]
                 x == d[p]
                 y == d[q]
      <4>3. p1 \in Nat /\ p2 \in Nat /\ q1 \in Nat /\ q2 \in Nat /\ x \in Nat /\ y \in Nat
        BY <3>4
      <4>4. p1 - p2 <= x /\ p2 - p1 <= x /\ y = x + w /\ w \in {0, 1}
        BY <4>1
      <4>5. \/ q1 = p1 + 1 /\ q2 = p2 /\ w = 1
            \/ q1 = p1 /\ q2 = p2 + 1 /\ w = 1
            \/ q1 = p1 + 1 /\ q2 = p2 + 1
            \/ q1 = p1 + 2 /\ q2 = p2 + 2
        BY <4>2
      <4> HIDE DEF p1, p2, q1, q2, x, y
      <4>6. q1 - q2 <= y /\ q2 - q1 <= y
        BY <4>3, <4>4, <4>5
      <4> QED BY <4>6 DEF q1, q2, y
    <3>7. Same(q)
      <4>1. ASSUME d[q] = 0 PROVE q[1] = q[2] /\ \A k \in 1..q[1] : a[k] = b[k]
        <5>1. d[p] = 0 /\ w = 0
          BY <3>1, <3>4, <4>1
        <5>2. q[1] = p[1] + 1 /\ q[2] = p[2] + 1 /\ a[p[1] + 1] = b[p[2] + 1]
          BY <3>5, <5>1 DEF Cost
        <5>3. p[1] = p[2] /\ \A k \in 1..p[1] : a[k] = b[k]
          BY <3>3, <5>1
        <5>4. \A k \in 1..q[1] : k \in 1..p[1] \/ k = p[1] + 1
          BY <3>4, <5>2
        <5> QED BY <5>2, <5>3, <5>4
      <4> QED BY <4>1
    <3>8. ASSUME NEW r \in 0..q[1] PROVE \E c \in G : c[1] = r /\ d[c] <= d[q]
      <4>1. CASE r = q[1]
        BY <3>4, <4>1
      <4>2. CASE r \in 0..p[1]
        <5>1. PICK c \in G : c[1] = r /\ d[c] <= d[p]
          BY <3>3, <4>2
        <5>2. d[c] <= d[q]
          BY <1>3, <3>1, <3>4, <5>1
        <5> QED BY <5>1, <5>2
      <4>3. CASE r # q[1] /\ r \notin 0..p[1]
        <5>1. q[1] = p[1] + 2 /\ q[2] = p[2] + 2 /\ w = 1 /\ r = p[1] + 1
          BY SMTT(60), <3>4, <3>5, <4>3
        <5> DEFINE c == <<p[1] + 1, p[2] + 1>>
                   u == Cost(a[p[1] + 1], b[p[2] + 1])
        <5>2. c \in G /\ c[1] = r
          <6>1. p[1] + 1 \in 0..Len(a) /\ p[2] + 1 \in 0..Len(b)
            BY SMTT(60), <3>4, <5>1
          <6> QED BY <1>5, <5>1, <6>1
        <5>3. Edit(a, b, p, c, u) /\ u \in {0, 1}
          BY DEF Edit, Cost
        <5> HIDE DEF c, u
        <5>4. d[c] <= d[p] + u
          BY <1>4, <5>2, <5>3
        <5>5. d[c] \in Nat
          BY <1>3, <5>2
        <5>6. d[c] <= d[q]
          BY <3>1, <3>4, <5>1, <5>3, <5>4, <5>5
        <5> QED BY <5>2, <5>6
      <4> QED BY <4>1, <4>2, <4>3
    <3> QED BY <3>6, <3>7, <3>8
  <2> QED BY <2>1, <2>2
<1> HIDE DEF S
<1>7. G \subseteq S
  BY <1>1, <1>6, MeasureInduction
<1>8. t \in S
  BY <1>7 DEF G
<1> QED BY <1>8 DEF S, G

\* What the code computes is the least cost when it is within the bound, and no
\* distance otherwise; only equal words are at distance 0.
THEOREM BoundedIsExact ==
  ASSUME NEW T, NEW a \in Seq(T), NEW b \in Seq(T), NEW max \in Nat
  PROVE  /\ BoundedOsa(a, b, max) = IF AlignmentCost(a, b) <= max THEN AlignmentCost(a, b)
                                    ELSE NoDistance
         /\ AlignmentCost(a, b) \in Nat
         /\ AlignmentCost(a, b) = 0 <=> a = b
<1> DEFINE d == Table(a, b)
           G == Grid(a, b)
           t == Corner(a, b)
<1>1. Len(a) \in Nat /\ Len(b) \in Nat
  OBVIOUS
<1>2. FromOrigin(a, b, d) /\ d[t] = AlignmentCost(a, b) /\ AlignmentCost(a, b) \in Nat
  BY <1>1, TableFromOrigin, TableIsCost
<1>3. t \in G /\ t[1] = Len(a) /\ t[2] = Len(b)
  BY <1>1 DEF Corner, Grid
<1> HIDE DEF d, t
<1>4. /\ \A r \in 0..Len(a) : \E p \in G : p[1] = r /\ d[p] <= d[t]
      /\ Len(a) - Len(b) <= d[t] /\ Len(b) - Len(a) <= d[t]
      /\ d[t] = 0 => Len(a) = Len(b) /\ \A k \in 1..Len(a) : a[k] = b[k]
  BY <1>1, <1>2, <1>3, TableEntries
<1>5. \A p \in G : d[p] \in Nat
  BY <1>2 DEF FromOrigin
<1>6. ASSUME d[t] <= max, NEW i \in 1..Len(a)
      PROVE  Min({d[<<i, j>>] : j \in 0..Len(b)}) <= max
  <2> DEFINE R == {d[<<i, j>>] : j \in 0..Len(b)}
  <2>1. PICK p \in G : p[1] = i /\ d[p] <= d[t]
    BY <1>4, <1>6
  <2>2. d[p] \in R
    <3>1. p = <<i, p[2]>> /\ p[2] \in 0..Len(b)
      BY <2>1 DEF Grid
    <3> QED BY <3>1
  <2>3. R \in SUBSET Nat
    <3>1. \A j \in 0..Len(b) : <<i, j>> \in G
      BY DEF Grid
    <3> QED BY <1>5, <3>1
  <2> HIDE DEF R
  <2>4. Min(R) \in Nat /\ Min(R) <= d[p]
    BY <2>2, <2>3, MinProperties
  <2>5. d[p] \in Nat /\ d[t] \in Nat
    BY <1>3, <1>5
  <2>6. Min(R) <= max
    BY <1>6, <2>1, <2>4, <2>5
  <2> QED BY <2>6 DEF R
<1>7. d[t] <= max => Len(a) - Len(b) <= max /\ Len(b) - Len(a) <= max
  BY <1>1, <1>2, <1>4
<1>8. BoundedOsa(a, b, max) = IF d[t] <= max THEN d[t] ELSE NoDistance
  BY <1>6, <1>7 DEF BoundedOsa, d, t, Corner
<1>9. ASSUME d[t] = 0 PROVE a = b
  BY <1>4, <1>9, SeqEqual
<1>10. ASSUME a = b PROVE d[t] = 0
  <2> DEFINE S == {k \in 0..Len(a) : d[<<k, k>>] = 0}
  <2>1. \A k \in 0..Len(a) : <<k, k>> \in G
    BY <1>10 DEF Grid
  <2>2. 0 \in S
    BY <1>2 DEF FromOrigin, Origin
  <2>3. ASSUME NEW k \in 0..(Len(a) - 1), k \in S PROVE k + 1 \in S
    <3> DEFINE p == <<k, k>>
               q == <<k + 1, k + 1>>
    <3>1. p \in G /\ q \in G /\ k + 1 \in 0..Len(a)
      BY <1>1, <2>1
    <3>2. Edit(a, b, p, q, 0)
      BY <1>10 DEF Edit, Cost
    <3>3. d[p] = 0
      BY <2>3
    <3> HIDE DEF p, q
    <3>4. d[q] <= d[p] + 0
      BY <1>2, <3>1, <3>2 DEF FromOrigin
    <3>5. d[q] \in Nat
      BY <1>5, <3>1
    <3>6. d[q] = 0
      BY <3>3, <3>4, <3>5
    <3> QED BY <3>1, <3>6 DEF q
  <2> HIDE DEF S
  <2>4. 0..Len(a) \subseteq S
    BY <1>1, <2>2, <2>3, NatSteps
  <2>5. Len(a) \in S
    BY <1>1, <2>4
  <2> QED BY <1>10, <2>5 DEF S, t, Corner
<1> QED BY <1>2, <1>8, <1>9, <1>10

-----------------------------------------------------------------------------
(* The lexer.  Where it stands in a line is a position up to one past its    *)
(* end; what it reads there are pieces of text.                              *)

Chars(s) == {s[k] : k \in DOMAIN s}
Readable(s) == s \in Seq(Chars(s) \ {End})
Signs == {"$", "&", "|", ";", "\n"}
Text(s) == Seq(Chars(s) \cup Signs)

\* Past the kth atom, or at the end.
Beyond(s, k) == IF k <= Len(s) THEN k + 1 ELSE Len(s) + 1

Notes == {"syntax.unclosed_quote", "syntax.opaque_substitution", "syntax.zsh_glob",
          "syntax.heredoc"}

\* Pieces that end at from or later.
Pieces(s, from) ==
  [to : from..(Len(s) + 1), text : Text(s), quoted : BOOLEAN, expands : BOOLEAN, has : BOOLEAN,
   notes : SUBSET Notes]

\* A line ends where At says so, and before that it has characters.
LEMMA ReadableProperties ==
  ASSUME NEW s, Readable(s)
  PROVE  /\ Len(s) \in Nat /\ s \in Text(s)
         /\ \A k \in Nat \ {0} :
              /\ At(s, k) = End <=> k > Len(s)
              /\ k <= Len(s) => At(s, k) = s[k] /\ s[k] \in Chars(s)
<1>1. /\ Len(s) \in Nat /\ DOMAIN s = 1..Len(s) /\ \A k \in 1..Len(s) : s[k] \in Chars(s) \ {End}
  BY LenProperties, ElementOfSeq DEF Readable
<1>2. s \in Text(s)
  BY SeqMonotonic DEF Readable, Text
<1>3. ASSUME NEW k \in Nat \ {0}
      PROVE  /\ At(s, k) = End <=> k > Len(s)
             /\ k <= Len(s) => At(s, k) = s[k] /\ s[k] \in Chars(s)
  <2>1. CASE k \in 1..Len(s)
    BY <1>1, <2>1 DEF At
  <2>2. CASE k > Len(s)
    BY <1>1, <2>2 DEF At
  <2> QED BY <1>1, <2>1, <2>2
<1> QED BY <1>1, <1>2, <1>3

\* A part of the line is text.
LEMMA RawIsText ==
  ASSUME NEW s, Readable(s), NEW i \in 1..(Len(s) + 1), NEW to \in i..(Len(s) + 1)
  PROVE  Raw(s, i, to) \in Text(s)
<1>1. Len(s) \in Nat /\ s \in Text(s)
  BY ReadableProperties
<1>2. i \in Int /\ to - 1 \in Int /\ i >= 1 /\ to - 1 <= Len(s)
  BY <1>1
<1>3. \A k \in i..(to - 1) : s[k] \in Chars(s) \cup Signs
  <2>1. \A k \in i..(to - 1) : k \in 1..Len(s)
    BY <1>1, <1>2
  <2> QED BY <1>1, <2>1, ElementOfSeq DEF Text
<1> QED BY <1>2, <1>3, SubSeqProperties DEF Raw, Text

\* The nearest position from i on of some kind is at i or later, and within.
LEMMA NearestPosition ==
  ASSUME NEW s, Len(s) \in Nat, NEW i \in 1..(Len(s) + 1), NEW K \in SUBSET (i..Len(s))
  PROVE  Min(K \cup {Len(s) + 1}) \in i..(Len(s) + 1)
<1> DEFINE all == K \cup {Len(s) + 1}
<1>1. \A k \in all : k \in i..(Len(s) + 1) /\ k \in Nat
  <2>1. \A k \in K : k \in i..Len(s)
    OBVIOUS
  <2>2. \A k \in i..Len(s) : k \in i..(Len(s) + 1) /\ k \in Nat
    OBVIOUS
  <2>3. Len(s) + 1 \in i..(Len(s) + 1) /\ Len(s) + 1 \in Nat
    OBVIOUS
  <2> QED BY <2>1, <2>2, <2>3, Zenon
<1>2. Len(s) + 1 \in all
  OBVIOUS
<1> HIDE DEF all
<1>3. Min(all) \in all
  BY <1>1, <1>2, MinProperties
<1> QED BY <1>1, <1>3 DEF all

\* SkipAll and SkipTo stay within the line.
LEMMA SkipsWithin ==
  ASSUME NEW s, Len(s) \in Nat, NEW i \in 1..(Len(s) + 1), NEW S
  PROVE  SkipAll(s, i, S) \in i..(Len(s) + 1) /\ SkipTo(s, i, S) \in i..(Len(s) + 1)
<1>1. {j \in i..Len(s) : s[j] \notin S} \in SUBSET (i..Len(s))
  OBVIOUS
<1>2. {j \in i..Len(s) : s[j] \in S} \in SUBSET (i..Len(s))
  OBVIOUS
<1> QED BY <1>1, <1>2, NearestPosition DEF SkipAll, SkipTo

\* A scan goes on from x to nxt[x], further along the line, until it stops; low[x]
\* is where it may stop at the earliest.
Scanning(s, D, pos, low, Stop, val, nxt) ==
  /\ pos \in [D -> 1..(Len(s) + 2)] /\ low \in [D -> 1..(Len(s) + 1)]
  /\ \A x \in D \cap Stop : val[x] \in low[x]..(Len(s) + 1)
  /\ \A x \in D \ Stop : nxt[x] \in D /\ pos[x] < pos[nxt[x]] /\ low[x] <= low[nxt[x]]
Scan(f, D, Stop, val, nxt) == [x \in D |-> IF x \in Stop THEN val[x] ELSE f[nxt[x]]]

\* A scan ends no earlier than it may, and within the line.
LEMMA ScanEnds ==
  ASSUME NEW s, Len(s) \in Nat, NEW D, NEW pos, NEW low, NEW Stop, NEW val, NEW nxt,
         Scanning(s, D, pos, low, Stop, val, nxt)
  PROVE  /\ \E f : f = Scan(f, D, Stop, val, nxt)
         /\ \A f : f = Scan(f, D, Stop, val, nxt) =>
              \A x \in D : f[x] \in low[x]..(Len(s) + 1)
<1> DEFINE N == Len(s) + 2
           V == 1..(Len(s) + 1)
           m == [x \in D |-> N - pos[x]]
           F == [x \in D |-> [v \in V |-> v]]
<1>1. N \in Nat /\ \A x \in D : pos[x] \in 1..N /\ low[x] \in 1..(Len(s) + 1)
  BY DEF Scanning
<1>2. m \in [D -> 0..N] /\ \A x \in D : m[x] = N - pos[x]
  <2>1. \A x \in D : N - pos[x] \in 0..N
    BY <1>1
  <2> QED BY <2>1
<1>3. \A x \in D \ Stop : nxt[x] \in D /\ m[nxt[x]] < m[x]
  <2> TAKE x \in D \ Stop
  <2>1. nxt[x] \in D /\ pos[x] < pos[nxt[x]]
    BY DEF Scanning
  <2>2. m[x] = N - pos[x] /\ m[nxt[x]] = N - pos[nxt[x]] /\ pos[x] \in 1..N /\ pos[nxt[x]] \in 1..N
    BY <1>1, <1>2, <2>1
  <2> HIDE DEF N, m
  <2> QED BY <1>1, <2>1, <2>2
<1> HIDE DEF N, m
<1>4. \E f : f = Scan(f, D, Stop, val, nxt)
  <2>1. \A x \in D \cap Stop : val[x] \in V
    <3> TAKE x \in D \cap Stop
    <3>1. val[x] \in low[x]..(Len(s) + 1) /\ low[x] \in 1..(Len(s) + 1)
      BY <1>1 DEF Scanning
    <3> QED BY <3>1
  <2>2. \A x \in D \ Stop : \A v \in V : F[x][v] \in V /\ F[x][v] = v
    OBVIOUS
  <2> HIDE DEF F, V
  <2>3. WellMade(D, V, N, m, Stop, val, nxt, F)
    BY <1>2, <1>3, <2>1, <2>2 DEF WellMade
  <2>4. PICK f : Made(f, D, V, Stop, val, nxt, F)
    BY <1>1, <2>3, Recursion
  <2>5. \A x \in D : f[x] \in V
    BY <2>4 DEF Made
  <2>6. f = Scan(f, D, Stop, val, nxt)
    BY <1>3, <2>2, <2>4, <2>5 DEF Made, Scan
  <2> QED BY <2>6
<1>5. ASSUME NEW f, f = Scan(f, D, Stop, val, nxt), NEW y \in D
      PROVE  f[y] \in low[y]..(Len(s) + 1)
  <2> DEFINE S == {x \in D : f[x] \in low[x]..(Len(s) + 1)}
  <2>1. ASSUME NEW x \in D, \A w \in D : m[w] < m[x] => w \in S PROVE x \in S
    <3>1. CASE x \in Stop
      BY <1>5, <3>1 DEF Scan, Scanning
    <3>2. CASE x \notin Stop
      <4>1. nxt[x] \in S /\ f[x] = f[nxt[x]]
        BY <1>3, <1>5, <2>1, <3>2 DEF Scan
      <4>2. low[x] <= low[nxt[x]] /\ nxt[x] \in D
        BY <3>2 DEF Scanning
      <4>3. low[x] \in 1..(Len(s) + 1) /\ low[nxt[x]] \in 1..(Len(s) + 1)
        BY <1>1, <4>2
      <4>4. f[x] \in low[nxt[x]]..(Len(s) + 1)
        BY <4>1
      <4>5. f[x] \in low[x]..(Len(s) + 1)
        BY <4>2, <4>3, <4>4
      <4> QED BY <4>5
    <3> QED BY <3>1, <3>2
  <2> HIDE DEF S
  <2>2. D \subseteq S
    BY SMTT(60), <1>1, <1>2, <2>1, MeasureInduction
  <2> QED BY <2>2 DEF S
<1> QED BY <1>4, <1>5

\* The body of $'...' ends at or after where it begins.
LEMMA AnsiQuoteWithin ==
  ASSUME NEW s, Readable(s), NEW i \in 1..(Len(s) + 1)
  PROVE  AnsiQuote(s, i) \in i..(Len(s) + 1)
<1> DEFINE D == 1..(Len(s) + 2)
           pos == [k \in D |-> k]
           low == [k \in D |-> Clip(s, k)]
           val == low
           nxt == [k \in D |-> IF At(s, k) = "\\" THEN k + 2 ELSE k + 1]
           Stop == {k \in D : At(s, k) \in {End, "'"}}
           f == CHOOSE f : f = [k \in D |-> IF At(s, k) \in {End, "'"} THEN Clip(s, k)
                                            ELSE f[IF At(s, k) = "\\" THEN k + 2 ELSE k + 1]]
<1>1. Len(s) \in Nat /\ \A k \in D : At(s, k) = End <=> k > Len(s)
  BY ReadableProperties
<1>2. AnsiQuote(s, i) = f[i]
  BY DEF AnsiQuote
<1>3. Scanning(s, D, pos, low, Stop, val, nxt)
  <2>1. \A k \in D : Clip(s, k) \in 1..(Len(s) + 1)
    BY <1>1 DEF Clip
  <2>2. ASSUME NEW k \in D \ Stop
        PROVE  nxt[k] \in D /\ k < nxt[k] /\ Clip(s, k) <= Clip(s, nxt[k])
    <3>1. k <= Len(s) /\ nxt[k] \in {k + 1, k + 2}
      BY <1>1
    <3> HIDE DEF nxt
    <3> QED BY <1>1, <3>1 DEF Clip
  <2> QED BY <1>1, <2>1, <2>2 DEF Scanning
<1>4. \A g : [k \in D |-> IF At(s, k) \in {End, "'"} THEN Clip(s, k)
                          ELSE g[IF At(s, k) = "\\" THEN k + 2 ELSE k + 1]]
               = Scan(g, D, Stop, val, nxt)
  BY DEF Scan
<1> HIDE DEF D, pos, low, val, nxt, Stop
<1>5. PICK g : g = Scan(g, D, Stop, val, nxt)
  BY <1>1, <1>3, ScanEnds
<1>6. f = Scan(f, D, Stop, val, nxt)
  BY <1>4, <1>5
<1> HIDE DEF f
<1>7. \A k \in D : f[k] \in low[k]..(Len(s) + 1)
  BY <1>1, <1>3, <1>6, ScanEnds
<1>8. i \in D /\ low[i] = i
  BY <1>1 DEF D, low, Clip
<1> QED BY <1>2, <1>7, <1>8

\* What lies beyond a position is one further on, or the end.
LEMMA BeyondProperties ==
  ASSUME NEW s, Readable(s), NEW n \in 1..(Len(s) + 2)
  PROVE  /\ Beyond(s, n) \in 1..(Len(s) + 1)
         /\ IF At(s, n) = End THEN Clip(s, n) = Beyond(s, n) ELSE n <= Len(s) /\ n + 1 = Beyond(s, n)
         /\ \A m \in 1..(Len(s) + 2) : n <= m => Beyond(s, n) <= Beyond(s, m)
<1>1. Len(s) \in Nat /\ (At(s, n) = End <=> n > Len(s))
  BY ReadableProperties
<1>2. CASE n <= Len(s)
  BY <1>1, <1>2 DEF Beyond
<1>3. CASE n > Len(s)
  BY <1>1, <1>3 DEF Beyond, Clip
<1> QED BY <1>1, <1>2, <1>3

\* The pairs a scan of brackets goes through.
LEMMA DepthsProperties ==
  ASSUME NEW s, Len(s) \in Nat, NEW n \in 1..(Len(s) + 2)
  PROVE  /\ \A p \in Depths(s, n) : /\ p = <<p[1], p[2]>> /\ p[1] \in 1..n
                                    /\ p[2] \in Nat /\ p[2] < p[1]
         /\ \A k \in 1..n : \A d \in Nat : d < k => <<k, d>> \in Depths(s, n)
<1>1. ASSUME NEW p \in Depths(s, n)
      PROVE  p = <<p[1], p[2]>> /\ p[1] \in 1..n /\ p[2] \in Nat /\ p[2] < p[1]
  <2>1. p \in (1..n) \X (0..(Len(s) + 1)) /\ p[2] < p[1]
    BY DEF Depths
  <2>2. p = <<p[1], p[2]>> /\ p[1] \in 1..n /\ p[2] \in 0..(Len(s) + 1)
    BY <2>1
  <2> QED BY <2>1, <2>2
<1>2. ASSUME NEW k \in 1..n, NEW d \in Nat, d < k PROVE <<k, d>> \in Depths(s, n)
  <2>1. d \in 0..(Len(s) + 1)
    BY <1>2
  <2> QED BY <1>2, <2>1 DEF Depths
<1> QED BY <1>1, <1>2

\* A bracketed span has at least its opening bracket.
LEMMA BraceEndWithin ==
  ASSUME NEW s, Readable(s), NEW i \in 1..Len(s)
  PROVE  BraceEnd(s, i) \in (i + 1)..(Len(s) + 1)
<1> DEFINE D == Depths(s, Len(s) + 1)
           k(p) == p[1]
           depth(p) == p[2]
           c(p) == At(s, k(p))
           deeper(p) == depth(p) + (IF c(p) = "{" THEN 1 ELSE IF c(p) = "}" THEN -1 ELSE 0)
           pos == [p \in D |-> k(p)]
           low == [p \in D |-> Beyond(s, k(p))]
           val == [p \in D |-> IF c(p) = End THEN Clip(s, k(p)) ELSE k(p) + 1]
           nxt == [p \in D |-> <<k(p) + 1, deeper(p)>>]
           Stop == {p \in D : c(p) = End \/ (c(p) = "}" /\ depth(p) <= 1)}
           body(f) == [p \in D |-> IF c(p) = End THEN Clip(s, k(p))
                                   ELSE IF c(p) = "}" /\ depth(p) <= 1 THEN k(p) + 1
                                   ELSE f[<<k(p) + 1, deeper(p)>>]]
           f == CHOOSE f : f = body(f)
<1>1. Len(s) \in Nat /\ \A n \in 1..(Len(s) + 1) : At(s, n) = End <=> n > Len(s)
  BY ReadableProperties
<1>2. BraceEnd(s, i) = f[<<i, 0>>]
  BY DEF BraceEnd
<1>3. \A g : body(g) = Scan(g, D, Stop, val, nxt)
  BY DEF Scan
<1>4. /\ \A p \in D : k(p) \in 1..(Len(s) + 1) /\ depth(p) \in Nat /\ depth(p) < k(p)
      /\ \A n \in 1..(Len(s) + 1) : \A d \in Nat : d < n => <<n, d>> \in D
      /\ \A n, d : k(<<n, d>>) = n
  BY <1>1, DepthsProperties
<1> HIDE DEF D, k, depth
<1>5. ASSUME NEW p \in D, p \notin Stop
      PROVE  k(p) \in 1..Len(s) /\ nxt[p] \in D /\ k(nxt[p]) = k(p) + 1
  <2> DEFINE n == k(p)
             d == depth(p)
             g == deeper(p)
             here == c(p)
             up == here = "{"
             down == here = "}"
             shift == IF up THEN 1 ELSE IF down THEN -1 ELSE 0
  <2>1. n \in 1..(Len(s) + 1) /\ d \in Nat /\ d < n
    BY <1>1, <1>4
  <2>2. here # End /\ ~(down /\ d <= 1) /\ here = At(s, n)
    BY <1>5
  <2>3. nxt[p] = <<n + 1, g>> /\ g = d + shift
    OBVIOUS
  <2> HIDE DEF up, down
  <2>4. shift = 1 \/ shift = 0 \/ (shift = -1 /\ down)
    BY Zenon
  <2> HIDE DEF n, d, g, here, shift, nxt
  <2>5. n <= Len(s)
    BY <1>1, <2>1, <2>2
  <2>6. g = d + 1 \/ g = d \/ (g = d + -1 /\ down)
    BY <2>1, <2>3, <2>4
  <2>7. n \in 1..Len(s) /\ n + 1 \in 1..(Len(s) + 1) /\ g \in Nat /\ g < n + 1
    BY <1>1, <2>1, <2>2, <2>5, <2>6
  <2>8. nxt[p] \in D /\ k(nxt[p]) = n + 1
    BY <1>4, <2>3, <2>7
  <2> QED BY <2>7, <2>8 DEF n
<1> HIDE DEF nxt
<1>6. Scanning(s, D, pos, low, Stop, val, nxt)
  <2>1. \A p \in D : k(p) \in 1..(Len(s) + 2) /\ Beyond(s, k(p)) \in 1..(Len(s) + 1)
    <3> TAKE p \in D
    <3>1. k(p) \in 1..(Len(s) + 2)
      BY <1>1, <1>4
    <3> QED BY <3>1, BeyondProperties
  <2>2. ASSUME NEW p \in D, p \in Stop PROVE val[p] \in low[p]..(Len(s) + 1)
    <3>1. c(p) = End => Clip(s, k(p)) = Beyond(s, k(p))
      BY <2>1, BeyondProperties
    <3>2. c(p) # End => k(p) + 1 = Beyond(s, k(p))
      BY <2>1, BeyondProperties
    <3>3. val[p] = Beyond(s, k(p)) /\ low[p] = Beyond(s, k(p))
      BY <3>1, <3>2
    <3> HIDE DEF val, low
    <3>4. Beyond(s, k(p)) \in Beyond(s, k(p))..(Len(s) + 1)
      BY <1>1, <2>1
    <3> QED BY <3>3, <3>4
  <2>3. ASSUME NEW p \in D, p \notin Stop
        PROVE  nxt[p] \in D /\ pos[p] < pos[nxt[p]] /\ low[p] <= low[nxt[p]]
    <3>1. k(p) \in 1..Len(s) /\ nxt[p] \in D /\ k(nxt[p]) = k(p) + 1
      BY <1>5, <2>3
    <3>2. k(p) \in 1..(Len(s) + 2) /\ k(p) + 1 \in 1..(Len(s) + 2) /\ k(p) < k(p) + 1
      BY <1>1, <3>1
    <3>3. Beyond(s, k(p)) <= Beyond(s, k(p) + 1)
      BY <3>2, BeyondProperties
    <3>4. pos[p] = k(p) /\ pos[nxt[p]] = k(nxt[p]) /\ low[p] = Beyond(s, k(p))
          /\ low[nxt[p]] = Beyond(s, k(nxt[p]))
      BY <3>1
    <3> HIDE DEF pos, low
    <3> QED BY <3>1, <3>2, <3>3, <3>4
  <2>4. pos \in [D -> 1..(Len(s) + 2)] /\ low \in [D -> 1..(Len(s) + 1)]
    BY <2>1
  <2> HIDE DEF pos, low, val
  <2> QED BY <2>2, <2>3, <2>4 DEF Scanning
<1>7. \A p \in D : low[p] = Beyond(s, k(p))
  OBVIOUS
<1> HIDE DEF pos, low, val, Stop, body
<1>8. PICK g : g = Scan(g, D, Stop, val, nxt)
  BY <1>1, <1>6, ScanEnds
<1>9. f = Scan(f, D, Stop, val, nxt)
  BY <1>3, <1>8
<1> HIDE DEF f
<1>10. \A p \in D : f[p] \in low[p]..(Len(s) + 1)
  BY <1>1, <1>6, <1>9, ScanEnds
<1>11. <<i, 0>> \in D /\ low[<<i, 0>>] = i + 1
  <2>1. i \in 1..(Len(s) + 1) /\ 0 < i /\ i <= Len(s)
    BY <1>1
  <2>2. <<i, 0>> \in D /\ k(<<i, 0>>) = i
    BY <1>4, <2>1
  <2> QED BY <1>7, <2>1, <2>2 DEF Beyond
<1> QED BY <1>2, <1>10, <1>11

\* The same where quotes hide brackets.
LEMMA ParenEndWithin ==
  ASSUME NEW s, Readable(s), NEW i \in 1..Len(s)
  PROVE  ParenEnd(s, i) \in (i + 1)..(Len(s) + 1)
<1> DEFINE E == Depths(s, Len(s) + 2)
           Q == {Outside, "'", "\""}
           D == E \X Q
           k(p) == p[1][1]
           depth(p) == p[1][2]
           quote(p) == p[2]
           c(p) == At(s, k(p))
           on(n, d, q) == <<<<n, d>>, q>>
           escaped(p) == c(p) = "\\" /\ quote(p) # "'"
           last(p) == /\ ~escaped(p) /\ c(p) # quote(p) /\ quote(p) = Outside
                      /\ c(p) = ")" /\ depth(p) <= 1
           pos == [p \in D |-> k(p)]
           low == [p \in D |-> Beyond(s, k(p))]
           val == [p \in D |-> IF c(p) = End THEN Clip(s, k(p)) ELSE k(p) + 1]
           next(p) ==
                    IF escaped(p) THEN on(k(p) + 2, depth(p), quote(p))
                    ELSE IF c(p) = quote(p) THEN on(k(p) + 1, depth(p), Outside)
                    ELSE IF quote(p) # Outside THEN on(k(p) + 1, depth(p), quote(p))
                    ELSE IF c(p) \in {"'", "\""} THEN on(k(p) + 1, depth(p), c(p))
                    ELSE IF c(p) = "(" THEN on(k(p) + 1, depth(p) + 1, quote(p))
                    ELSE IF c(p) # ")" THEN on(k(p) + 1, depth(p), quote(p))
                    ELSE on(k(p) + 1, depth(p) - 1, quote(p))
           nxt == [p \in D |-> next(p)]
           Stop == {p \in D : c(p) = End \/ last(p)}
           body(f) == [p \in D |->
                    IF c(p) = End THEN Clip(s, k(p))
                    ELSE IF c(p) = "\\" /\ quote(p) # "'" THEN f[<<<<k(p) + 2, depth(p)>>, quote(p)>>]
                    ELSE IF c(p) = quote(p) THEN f[<<<<k(p) + 1, depth(p)>>, Outside>>]
                    ELSE IF quote(p) # Outside THEN f[<<<<k(p) + 1, depth(p)>>, quote(p)>>]
                    ELSE IF c(p) \in {"'", "\""} THEN f[<<<<k(p) + 1, depth(p)>>, c(p)>>]
                    ELSE IF c(p) = "(" THEN f[<<<<k(p) + 1, depth(p) + 1>>, quote(p)>>]
                    ELSE IF c(p) # ")" THEN f[<<<<k(p) + 1, depth(p)>>, quote(p)>>]
                    ELSE IF depth(p) <= 1 THEN k(p) + 1
                    ELSE f[<<<<k(p) + 1, depth(p) - 1>>, quote(p)>>]]
           f == CHOOSE f : f = body(f)
<1>1. Len(s) \in Nat /\ \A n \in 1..(Len(s) + 2) : At(s, n) = End <=> n > Len(s)
  BY ReadableProperties
<1>2. /\ \A p \in E : p[1] \in 1..(Len(s) + 2) /\ p[2] \in Nat /\ p[2] < p[1]
      /\ \A n \in 1..(Len(s) + 2) : \A d \in Nat : d < n => <<n, d>> \in E
  BY <1>1, DepthsProperties
<1>3. ParenEnd(s, i) = f[on(i, 0, Outside)]
  BY DEF ParenEnd
<1> HIDE DEF E
<1>6. \A g : body(g) = Scan(g, D, Stop, val, nxt)
  BY ZenonT(60) DEF Scan
<1>4. /\ \A p \in D : k(p) \in 1..(Len(s) + 2) /\ depth(p) \in Nat /\ depth(p) < k(p) /\ quote(p) \in Q
      /\ \A n \in 1..(Len(s) + 2) : \A d \in Nat : \A q \in Q : d < n => on(n, d, q) \in D
      /\ \A n, d, q : k(on(n, d, q)) = n
      /\ Outside \in Q /\ "'" \in Q /\ "\"" \in Q
  BY <1>2
<1> HIDE DEF D, k, depth, quote, Q
<1>5. ASSUME NEW p \in D, p \notin Stop
      PROVE  /\ k(p) \in 1..Len(s) /\ nxt[p] \in D
             /\ \E n \in {k(p) + 1, k(p) + 2} : k(nxt[p]) = n
  <2> DEFINE n == k(p)
             d == depth(p)
             q == quote(p)
             here == c(p)
             to == nxt[p]
  <2>1. n \in 1..(Len(s) + 2) /\ d \in Nat /\ d < n /\ q \in Q
    BY <1>1, <1>4
  <2>2. here # End /\ here = At(s, n)
    BY <1>5
  <2>3. ~(q = Outside /\ here = ")" /\ d <= 1)
    <3>1. ~(~(here = "\\" /\ q # "'") /\ here # q /\ q = Outside /\ here = ")" /\ d <= 1)
      BY <1>5
    <3> HIDE DEF n, d, q, here
    <3> QED BY <3>1 DEF Outside
  <2>4. to = IF here = "\\" /\ q # "'" THEN on(n + 2, d, q)
             ELSE IF here = q THEN on(n + 1, d, Outside)
             ELSE IF q # Outside THEN on(n + 1, d, q)
             ELSE IF here \in {"'", "\""} THEN on(n + 1, d, here)
             ELSE IF here = "(" THEN on(n + 1, d + 1, q)
             ELSE IF here # ")" THEN on(n + 1, d, q)
             ELSE on(n + 1, d - 1, q)
    OBVIOUS
  <2> HIDE DEF n, d, q, here, to, on
  <2>5. n <= Len(s)
    BY <1>1, <2>1, <2>2
  <2>6. /\ n \in 1..Len(s) /\ n + 1 \in 1..(Len(s) + 2) /\ n + 2 \in 1..(Len(s) + 2)
        /\ d < n + 1 /\ d < n + 2 /\ d + 1 \in Nat /\ d + 1 < n + 1
        /\ d > 1 => d - 1 \in Nat /\ d - 1 < n + 1
    BY <1>1, <2>1, <2>5
  <2>7. /\ on(n + 2, d, q) \in D /\ on(n + 1, d, Outside) \in D /\ on(n + 1, d, q) \in D
        /\ on(n + 1, d, "'") \in D /\ on(n + 1, d, "\"") \in D /\ on(n + 1, d + 1, q) \in D
        /\ d > 1 => on(n + 1, d - 1, q) \in D
    BY <1>4, <2>1, <2>6
  <2>8. q = Outside /\ here = ")" => d > 1
    BY <2>1, <2>3
  <2>9. /\ to \in D
        /\ \E m \in {n + 1, n + 2} : \E e, r : to = on(m, e, r)
    BY <2>4, <2>7, <2>8
  <2>10. \E m \in {n + 1, n + 2} : k(to) = m
    BY ZenonT(60), <1>4, <2>9
  <2> QED BY <2>6, <2>9, <2>10 DEF n, to
<1> HIDE DEF nxt
<1>7. Scanning(s, D, pos, low, Stop, val, nxt)
  <2>1. \A p \in D : k(p) \in 1..(Len(s) + 2) /\ Beyond(s, k(p)) \in 1..(Len(s) + 1)
    <3> TAKE p \in D
    <3>1. k(p) \in 1..(Len(s) + 2)
      BY <1>4
    <3> QED BY <3>1, BeyondProperties
  <2>2. ASSUME NEW p \in D, p \in Stop PROVE val[p] \in low[p]..(Len(s) + 1)
    <3>1. c(p) = End => Clip(s, k(p)) = Beyond(s, k(p))
      BY <2>1, BeyondProperties
    <3>2. c(p) # End => k(p) + 1 = Beyond(s, k(p))
      BY <2>1, BeyondProperties
    <3>3. val[p] = Beyond(s, k(p)) /\ low[p] = Beyond(s, k(p))
      BY <3>1, <3>2
    <3> HIDE DEF val, low
    <3>4. Beyond(s, k(p)) \in Beyond(s, k(p))..(Len(s) + 1)
      BY <1>1, <2>1
    <3> QED BY <3>3, <3>4
  <2>3. ASSUME NEW p \in D, p \notin Stop
        PROVE  nxt[p] \in D /\ pos[p] < pos[nxt[p]] /\ low[p] <= low[nxt[p]]
    <3>1. k(p) \in 1..Len(s) /\ nxt[p] \in D
      BY <1>5, <2>3
    <3>2. PICK n \in {k(p) + 1, k(p) + 2} : k(nxt[p]) = n
      BY <1>5, <2>3
    <3> DEFINE kp == k(p)
    <3>3. kp \in 1..Len(s) /\ n \in {kp + 1, kp + 2}
      BY <3>1
    <3> HIDE DEF kp
    <3>4. n \in 1..(Len(s) + 2) /\ kp < n /\ kp \in 1..(Len(s) + 2)
      BY <1>1, <3>3
    <3>5. Beyond(s, kp) <= Beyond(s, n)
      BY <3>4, BeyondProperties
    <3>6. pos[p] = kp /\ pos[nxt[p]] = n /\ low[p] = Beyond(s, kp) /\ low[nxt[p]] = Beyond(s, n)
      BY <3>1, <3>2 DEF kp
    <3> HIDE DEF pos, low
    <3> QED BY <3>1, <3>4, <3>5, <3>6
  <2>4. pos \in [D -> 1..(Len(s) + 2)] /\ low \in [D -> 1..(Len(s) + 1)]
    BY <2>1
  <2> HIDE DEF pos, low, val
  <2> QED BY <2>2, <2>3, <2>4 DEF Scanning
<1>8. \A p \in D : low[p] = Beyond(s, k(p))
  OBVIOUS
<1> HIDE DEF pos, low, val, Stop, body
<1>9. PICK g : g = Scan(g, D, Stop, val, nxt)
  BY <1>1, <1>7, ScanEnds
<1>10. f = Scan(f, D, Stop, val, nxt)
  BY <1>6, <1>9
<1> HIDE DEF f
<1>11. \A p \in D : f[p] \in low[p]..(Len(s) + 1)
  BY <1>1, <1>7, <1>10, ScanEnds
<1>12. on(i, 0, Outside) \in D /\ low[on(i, 0, Outside)] = i + 1
  <2>1. i \in 1..(Len(s) + 2) /\ 0 < i /\ i <= Len(s) /\ Outside \in Q
    BY <1>1 DEF Q
  <2>2. on(i, 0, Outside) \in D /\ k(on(i, 0, Outside)) = i
    BY <1>4, <2>1
  <2> QED BY <1>8, <2>1, <2>2 DEF Beyond
<1> QED BY <1>3, <1>11, <1>12

-----------------------------------------------------------------------------
(* Pieces of words *)

\* A piece that ends within the line and has text is a piece of the line.
LEMMA PieceTyped ==
  ASSUME NEW s, NEW from, NEW to \in from..(Len(s) + 1), NEW text \in Text(s),
         NEW q \in BOOLEAN, NEW x \in BOOLEAN, NEW notes \in SUBSET Notes
  PROVE  Piece(to, text, q, x, notes) \in Pieces(s, from)
BY DEF Piece, Pieces

\* A literal or an opaque span is a piece.
LEMMA SpanTyped ==
  ASSUME NEW s, Readable(s), NEW i \in 1..(Len(s) + 1), NEW from \in i..(Len(s) + 1),
         NEW to \in from..(Len(s) + 1), NEW notes \in SUBSET Notes
  PROVE  Literal(s, i, to) \in Pieces(s, from) /\ Opaque(s, i, to, notes) \in Pieces(s, from)
<1>1. to \in i..(Len(s) + 1)
  BY ReadableProperties
<1>2. Raw(s, i, to) \in Text(s)
  BY <1>1, RawIsText
<1>3. TRUE \in BOOLEAN /\ FALSE \in BOOLEAN /\ {} \in SUBSET Notes
  OBVIOUS
<1> QED BY <1>2, <1>3, PieceTyped DEF Literal, Opaque

\* A piece that ends later ends also after an earlier position.
LEMMA PieceLater ==
  ASSUME NEW s, Len(s) \in Nat, NEW i \in Nat, NEW j \in Nat, i <= j, NEW p \in Pieces(s, j)
  PROVE  p \in Pieces(s, i)
<1>1. j..(Len(s) + 1) \subseteq i..(Len(s) + 1)
  OBVIOUS
<1> QED BY <1>1 DEF Pieces

\* A piece joined with what follows it is a piece.
LEMMA JoinTyped ==
  ASSUME NEW s, Len(s) \in Nat, NEW i \in Nat, NEW j \in Nat, i <= j,
         NEW p \in Pieces(s, i), NEW q \in Pieces(s, j)
  PROVE  Join(p, q) \in Pieces(s, i)
<1>1. p.text \o q.text \in Text(s)
  BY ConcatProperties DEF Pieces, Text
<1>2. q.to \in i..(Len(s) + 1)
  <2>1. q.to \in j..(Len(s) + 1)
    BY DEF Pieces
  <2> QED BY <2>1
<1>3. /\ (p.quoted \/ q.quoted) \in BOOLEAN /\ (p.expands \/ q.expands) \in BOOLEAN
      /\ (p.has \/ q.has) \in BOOLEAN /\ p.notes \cup q.notes \in SUBSET Notes
  <2>1. p.notes \in SUBSET Notes /\ q.notes \in SUBSET Notes
    BY DEF Pieces
  <2>2. p.notes \cup q.notes \in SUBSET Notes
    BY <2>1
  <2>3. /\ (p.quoted \/ q.quoted) \in BOOLEAN /\ (p.expands \/ q.expands) \in BOOLEAN
        /\ (p.has \/ q.has) \in BOOLEAN
    BY Zenon
  <2> QED BY <2>2, <2>3, Zenon
<1> QED BY <1>1, <1>2, <1>3 DEF Join, Pieces

\* The evidence an open quote leaves is a set of notes.
LEMMA UnclosedTyped ==
  ASSUME NEW s, NEW i
  PROVE  Unclosed(s, i) \in SUBSET Notes /\ Substitution \in SUBSET Notes
<1>1. {"syntax.unclosed_quote"} \in SUBSET Notes /\ {"syntax.opaque_substitution"} \in SUBSET Notes
  BY DEF Notes
<1>2. {} \in SUBSET Notes
  OBVIOUS
<1> QED BY <1>1, <1>2, Zenon DEF Unclosed, Substitution

\* Clip stays where it is, or at the end.
LEMMA ClipWithin ==
  ASSUME NEW s, Len(s) \in Nat, NEW from \in 1..(Len(s) + 1), NEW i \in Nat, from <= i
  PROVE  Clip(s, i) \in from..(Len(s) + 1)
BY DEF Clip

\* What a dollar begins is a piece beyond the dollar.
LEMMA DollarTyped ==
  ASSUME NEW s, Readable(s), NEW i \in 1..Len(s), NEW inDquote \in BOOLEAN
  PROVE  Dollar(s, i, inDquote) \in Pieces(s, i + 1)
<1> DEFINE c == At(s, i + 1)
           e == AnsiQuote(s, i + 2)
<1>1. Len(s) \in Nat /\ (c = End <=> i + 1 > Len(s))
  BY ReadableProperties
<1>2. i \in 1..(Len(s) + 1) /\ i + 1 \in i..(Len(s) + 1) /\ i + 1 \in (i + 1)..(Len(s) + 1)
  BY <1>1
<1>3. c # End => i + 1 \in 1..Len(s) /\ i + 2 \in (i + 1)..(Len(s) + 1) /\ i + 2 \in 1..(Len(s) + 1)
  BY <1>1
<1>4. {} \in SUBSET Notes /\ Substitution \in SUBSET Notes /\ Unclosed(s, e) \in SUBSET Notes
  BY UnclosedTyped
<1>5. ASSUME NEW to \in (i + 1)..(Len(s) + 1), NEW notes \in SUBSET Notes
      PROVE  Opaque(s, i, to, notes) \in Pieces(s, i + 1) /\ Literal(s, i, to) \in Pieces(s, i + 1)
  BY <1>2, SpanTyped
<1>6. ASSUME c = "("
      PROVE  Opaque(s, i, ParenEnd(s, i + 1), Substitution) \in Pieces(s, i + 1)
  <2>1. i + 1 \in 1..Len(s)
    BY <1>3, <1>6 DEF End
  <2>2. ParenEnd(s, i + 1) \in ((i + 1) + 1)..(Len(s) + 1)
    BY <2>1, ParenEndWithin
  <2>3. ParenEnd(s, i + 1) \in (i + 1)..(Len(s) + 1)
    BY <1>1, <2>2
  <2> QED BY <1>4, <1>5, <2>3
<1>7. ASSUME c = "{"
      PROVE  Opaque(s, i, BraceEnd(s, i + 1), {}) \in Pieces(s, i + 1)
  <2>1. i + 1 \in 1..Len(s)
    BY <1>3, <1>7 DEF End
  <2>2. BraceEnd(s, i + 1) \in ((i + 1) + 1)..(Len(s) + 1)
    BY <2>1, BraceEndWithin
  <2>3. BraceEnd(s, i + 1) \in (i + 1)..(Len(s) + 1)
    BY <1>1, <2>2
  <2> QED BY <1>4, <1>5, <2>3
<1>8. ASSUME c = "'"
      PROVE  Piece(Clip(s, e + 1), <<"$">> \o Raw(s, i + 2, e), TRUE, TRUE, Unclosed(s, e))
               \in Pieces(s, i + 1)
  <2>1. i + 2 \in 1..(Len(s) + 1)
    BY <1>3, <1>8 DEF End
  <2>2. e \in (i + 2)..(Len(s) + 1)
    BY <2>1, AnsiQuoteWithin
  <2>3. Raw(s, i + 2, e) \in Text(s)
    BY <2>1, <2>2, RawIsText
  <2>4. <<"$">> \in Text(s)
    <3>1. "$" \in Chars(s) \cup Signs
      BY Zenon DEF Signs
    <3> QED BY <3>1 DEF Text
  <2>5. <<"$">> \o Raw(s, i + 2, e) \in Text(s)
    BY <2>3, <2>4, ConcatProperties DEF Text
  <2>6. e + 1 \in Nat /\ i + 1 <= e + 1 /\ i + 1 \in 1..(Len(s) + 1)
    BY <1>1, <1>2, <2>2
  <2> HIDE DEF e
  <2>7. Clip(s, e + 1) \in (i + 1)..(Len(s) + 1)
    BY <1>1, <2>6, ClipWithin
  <2> QED BY <1>4, <2>5, <2>7, PieceTyped
<1>9. Opaque(s, i, SkipAll(s, i + 1, NameAtoms \cup Digits), {}) \in Pieces(s, i + 1)
  <2>1. i + 1 \in 1..(Len(s) + 1)
    BY <1>1
  <2>2. SkipAll(s, i + 1, NameAtoms \cup Digits) \in (i + 1)..(Len(s) + 1)
    BY <1>1, <2>1, SkipsWithin
  <2> QED BY <1>4, <1>5, <2>2
<1>10. ASSUME c \in Digits \cup Specials
       PROVE  Opaque(s, i, i + 2, {}) \in Pieces(s, i + 1)
  <2>1. c # End
    BY <1>10 DEF Digits, Specials, End
  <2> QED BY <1>3, <1>4, <1>5, <2>1
<1>11. Literal(s, i, i + 1) \in Pieces(s, i + 1)
  BY <1>2, <1>4, <1>5
<1> HIDE DEF c, e
<1>12. Dollar(s, i, inDquote) =
         CASE c = "(" -> Opaque(s, i, ParenEnd(s, i + 1), Substitution)
           [] c = "{" -> Opaque(s, i, BraceEnd(s, i + 1), {})
           [] c = "'" /\ ~inDquote ->
                Piece(Clip(s, e + 1), <<"$">> \o Raw(s, i + 2, e), TRUE, TRUE, Unclosed(s, e))
           [] c \in NameAtoms -> Opaque(s, i, SkipAll(s, i + 1, NameAtoms \cup Digits), {})
           [] c \in Digits \cup Specials -> Opaque(s, i, i + 2, {})
           [] OTHER -> Literal(s, i, i + 1)
  BY DEF Dollar, c, e
<1> QED BY <1>6, <1>7, <1>8, <1>9, <1>10, <1>11, <1>12

\* A backquoted span is a piece beyond its first backquote.
LEMMA BacktickTyped ==
  ASSUME NEW s, Readable(s), NEW i \in 1..Len(s)
  PROVE  Backtick(s, i) \in Pieces(s, i + 1)
<1> DEFINE e == SkipTo(s, i + 1, {Backquote})
<1>1. Len(s) \in Nat
  BY ReadableProperties
<1>2. i \in 1..(Len(s) + 1) /\ i + 1 \in 1..(Len(s) + 1) /\ i + 1 \in i..(Len(s) + 1)
  BY <1>1
<1>3. e \in (i + 1)..(Len(s) + 1)
  BY <1>1, <1>2, SkipsWithin
<1> HIDE DEF e
<1>4. e + 1 \in Nat /\ i + 1 <= e + 1
  BY <1>2, <1>3
<1>5. Clip(s, e + 1) \in (i + 1)..(Len(s) + 1)
  BY <1>1, <1>2, <1>4, ClipWithin
<1>6. Opaque(s, i, Clip(s, e + 1), Substitution) \in Pieces(s, i + 1)
  BY <1>2, <1>5, SpanTyped, UnclosedTyped
<1> QED BY <1>6 DEF Backtick, e

\* So is a span in single quotes.
LEMMA SingleQuoteTyped ==
  ASSUME NEW s, Readable(s), NEW i \in 1..Len(s)
  PROVE  SingleQuote(s, i) \in Pieces(s, i + 1)
<1> DEFINE e == SkipTo(s, i + 1, {"'"})
<1>1. Len(s) \in Nat
  BY ReadableProperties
<1>2. i + 1 \in 1..(Len(s) + 1)
  BY <1>1
<1>3. e \in (i + 1)..(Len(s) + 1)
  BY <1>1, <1>2, SkipsWithin
<1> HIDE DEF e
<1>4. e + 1 \in Nat /\ i + 1 <= e + 1
  BY <1>2, <1>3
<1>5. Clip(s, e + 1) \in (i + 1)..(Len(s) + 1)
  BY <1>1, <1>2, <1>4, ClipWithin
<1>6. Raw(s, i + 1, e) \in Text(s)
  BY <1>2, <1>3, RawIsText
<1>7. Piece(Clip(s, e + 1), Raw(s, i + 1, e), TRUE, FALSE, Unclosed(s, e)) \in Pieces(s, i + 1)
  BY <1>5, <1>6, PieceTyped, UnclosedTyped
<1> QED BY <1>7 DEF SingleQuote, e

\* Pieces are joined from x on, each begun where the one before it ends, until
\* one that stops; each takes at least one atom.
Joining(s, D, pos, Stop, val, step, nxt) ==
  /\ pos \in [D -> 1..(Len(s) + 1)]
  /\ \A x \in D \cap Stop : val[x] \in Pieces(s, pos[x])
  /\ \A x \in D \ Stop : /\ step[x] \in Pieces(s, pos[x] + 1)
                         /\ nxt[x] \in D /\ pos[nxt[x]] = step[x].to
Joined(f, D, Stop, val, step, nxt) ==
  [x \in D |-> IF x \in Stop THEN val[x] ELSE Join(step[x], f[nxt[x]])]

\* Pieces joined in that way are a piece from where they begin; when the first
\* does not stop at once, it takes an atom.
LEMMA JoinedTyped ==
  ASSUME NEW s, Len(s) \in Nat, NEW D, NEW pos, NEW Stop, NEW val, NEW step, NEW nxt,
         Joining(s, D, pos, Stop, val, step, nxt)
  PROVE  /\ \E f : f = Joined(f, D, Stop, val, step, nxt)
         /\ \A f : f = Joined(f, D, Stop, val, step, nxt) =>
              \A x \in D : /\ f[x] \in Pieces(s, pos[x])
                           /\ x \notin Stop => f[x] \in Pieces(s, pos[x] + 1)
<1> DEFINE N == Len(s) + 1
           V == Pieces(s, 1)
           m == [x \in D |-> N - pos[x]]
           F == [x \in D |-> [v \in V |-> Join(step[x], v)]]
<1>1. N \in Nat /\ \A x \in D : pos[x] \in 1..N
  BY DEF Joining
<1>2. m \in [D -> 0..N] /\ \A x \in D : m[x] = N - pos[x]
  <2>1. \A x \in D : N - pos[x] \in 0..N
    BY <1>1
  <2> QED BY <2>1
<1>3. \A x \in D \ Stop : /\ nxt[x] \in D /\ step[x] \in Pieces(s, pos[x] + 1)
                          /\ step[x].to = pos[nxt[x]] /\ pos[x] + 1 <= pos[nxt[x]]
                          /\ m[nxt[x]] < m[x]
  <2> TAKE x \in D \ Stop
  <2>1. nxt[x] \in D /\ step[x] \in Pieces(s, pos[x] + 1) /\ step[x].to = pos[nxt[x]]
    BY DEF Joining
  <2>2. step[x].to \in (pos[x] + 1)..(Len(s) + 1)
    BY <2>1 DEF Pieces
  <2> DEFINE a == pos[x]
             b == pos[nxt[x]]
  <2>3. m[x] = N - a /\ m[nxt[x]] = N - b /\ a \in 1..N /\ b \in 1..N
    BY <1>1, <1>2, <2>1
  <2>4. b \in (a + 1)..N
    BY <2>1, <2>2
  <2> HIDE DEF N, m, a, b
  <2>5. a + 1 <= b /\ N - b < N - a
    BY <1>1, <2>3, <2>4
  <2> QED BY <2>1, <2>3, <2>5 DEF a, b
<1> HIDE DEF m
<1>4. \A x \in D : Pieces(s, pos[x]) \subseteq V /\ Pieces(s, pos[x] + 1) \subseteq V
                   /\ Pieces(s, pos[x] + 1) \subseteq Pieces(s, pos[x])
  <2> TAKE x \in D
  <2> DEFINE a == pos[x]
  <2>1. a \in 1..N
    BY <1>1
  <2> HIDE DEF a
  <2>2. a \in Nat /\ a + 1 \in Nat /\ 1 \in Nat /\ 1 <= a /\ 1 <= a + 1 /\ a <= a + 1
    BY <1>1, <2>1
  <2>3. Pieces(s, a) \subseteq V /\ Pieces(s, a + 1) \subseteq V /\ Pieces(s, a + 1) \subseteq Pieces(s, a)
    BY <2>2, PieceLater
  <2> QED BY <2>3 DEF a
<1>5. ASSUME NEW x \in D \ Stop, NEW v \in V PROVE Join(step[x], v) \in V
  <2>1. step[x] \in V
    BY <1>3, <1>4
  <2> QED BY <2>1, JoinTyped
<1>6. \E f : f = Joined(f, D, Stop, val, step, nxt)
  <2>1. \A x \in D \cap Stop : val[x] \in V
    BY <1>4 DEF Joining
  <2>2. \A x \in D \ Stop : \A v \in V : F[x][v] \in V /\ F[x][v] = Join(step[x], v)
    BY <1>5
  <2> HIDE DEF F, V, N
  <2>3. WellMade(D, V, N, m, Stop, val, nxt, F)
    BY <1>2, <1>3, <2>1, <2>2 DEF WellMade
  <2>4. PICK f : Made(f, D, V, Stop, val, nxt, F)
    BY <1>1, <2>3, Recursion
  <2>5. \A x \in D : f[x] \in V
    BY <2>4 DEF Made
  <2>6. \A x \in D : f[x] = IF x \in Stop THEN val[x] ELSE Join(step[x], f[nxt[x]])
    BY <1>3, <2>2, <2>4, <2>5 DEF Made
  <2>7. f = Joined(f, D, Stop, val, step, nxt)
    BY <2>4, <2>6 DEF Made, Joined
  <2> QED BY <2>7
<1>7. ASSUME NEW f, f = Joined(f, D, Stop, val, step, nxt), NEW y \in D
      PROVE  f[y] \in Pieces(s, pos[y]) /\ (y \notin Stop => f[y] \in Pieces(s, pos[y] + 1))
  <2> DEFINE S == {x \in D : /\ f[x] \in Pieces(s, pos[x])
                             /\ x \notin Stop => f[x] \in Pieces(s, pos[x] + 1)}
  <2>1. ASSUME NEW x \in D, \A w \in D : m[w] < m[x] => w \in S PROVE x \in S
    <3>1. CASE x \in Stop
      BY <1>7, <3>1 DEF Joined, Joining
    <3>2. CASE x \notin Stop
      <4>1. nxt[x] \in S /\ f[x] = Join(step[x], f[nxt[x]])
        BY <1>3, <1>7, <2>1, <3>2 DEF Joined
      <4> DEFINE a == pos[x]
                 b == pos[nxt[x]]
      <4>2. f[nxt[x]] \in Pieces(s, b) /\ step[x] \in Pieces(s, a + 1) /\ a + 1 <= b /\ b \in 1..N /\ a \in 1..N
        BY <1>1, <1>3, <3>2, <4>1
      <4> HIDE DEF a, b, N
      <4>3. a + 1 \in Nat /\ b \in Nat
        BY <1>1, <4>2
      <4>4. f[x] \in Pieces(s, a + 1)
        BY <4>1, <4>2, <4>3, JoinTyped
      <4>5. f[x] \in Pieces(s, pos[x] + 1)
        BY <4>4 DEF a
      <4> QED BY <1>4, <4>5
    <3> QED BY <3>1, <3>2
  <2> HIDE DEF S, N
  <2>2. D \subseteq S
    BY <1>1, <1>2, <2>1, MeasureInduction
  <2> QED BY <2>2 DEF S
<1> QED BY <1>6, <1>7

\* The atom at a position, or two, as they stand.
LEMMA LiteralTyped ==
  ASSUME NEW s, Readable(s), NEW i \in 1..Len(s)
  PROVE  /\ Literal(s, i, i + 1) \in Pieces(s, i + 1)
         /\ Literal(s, i, Clip(s, i + 2)) \in Pieces(s, i + 1)
         /\ i < Len(s) => Literal(s, i + 1, i + 2) \in Pieces(s, i + 1)
         /\ Opaque(s, i, i + 1, {}) \in Pieces(s, i + 1)
<1>1. Len(s) \in Nat
  BY ReadableProperties
<1>2. /\ i \in 1..(Len(s) + 1) /\ i + 1 \in i..(Len(s) + 1) /\ i + 1 \in 1..(Len(s) + 1)
      /\ i + 1 \in (i + 1)..(Len(s) + 1) /\ i + 2 \in Nat /\ i + 1 <= i + 2
      /\ i < Len(s) => i + 2 \in (i + 1)..(Len(s) + 1)
  BY <1>1
<1>3. Clip(s, i + 2) \in (i + 1)..(Len(s) + 1)
  BY <1>1, <1>2, ClipWithin
<1>4. {} \in SUBSET Notes
  OBVIOUS
<1>5. Literal(s, i, i + 1) \in Pieces(s, i + 1) /\ Opaque(s, i, i + 1, {}) \in Pieces(s, i + 1)
  BY <1>2, <1>4, SpanTyped
<1>6. Literal(s, i, Clip(s, i + 2)) \in Pieces(s, i + 1)
  BY <1>2, <1>3, <1>4, SpanTyped
<1>7. ASSUME i < Len(s) PROVE Literal(s, i + 1, i + 2) \in Pieces(s, i + 1)
  BY <1>2, <1>4, <1>7, SpanTyped
<1> QED BY <1>5, <1>6, <1>7

\* What double quotes hold, through the closing one, is a piece.
LEMMA DoubleQuoteTyped ==
  ASSUME NEW s, Readable(s), NEW i \in 1..(Len(s) + 1)
  PROVE  DoubleQuote(s, i) \in Pieces(s, i)
<1> DEFINE D == 1..(Len(s) + 1)
           c(k) == At(s, k)
           n(k) == At(s, k + 1)
           ended(k) == c(k) = End
           closed(k) == c(k) = "\""
           escape(k) == c(k) = "\\" /\ n(k) \in Escapable
           slash(k) == c(k) = "\\" /\ n(k) \notin Escapable
           dollar(k) == c(k) = "$"
           tick(k) == c(k) = Backquote
           open(k) == Piece(k, <<>>, TRUE, FALSE, Unclosed(s, k))
           done(k) == Piece(k + 1, <<>>, TRUE, FALSE, {})
           p1(k) == Literal(s, k + 1, k + 2)
           p2(k) == Literal(s, k, Clip(s, k + 2))
           p3(k) == Dollar(s, k, TRUE)
           p4(k) == Backtick(s, k)
           p5(k) == Literal(s, k, k + 1)
           pos == [k \in D |-> k]
           Stop == {k \in D : ended(k) \/ closed(k)}
           val == [k \in D |-> IF ended(k) THEN open(k) ELSE done(k)]
           piece(k) == CASE escape(k) -> p1(k) [] slash(k) -> p2(k) [] dollar(k) -> p3(k)
                         [] tick(k) -> p4(k) [] OTHER -> p5(k)
           step == [k \in D |-> piece(k)]
           nxt == [k \in D |-> piece(k).to]
           body(f) == [k \in D |->
             CASE ended(k) -> open(k)
               [] closed(k) -> done(k)
               [] escape(k) -> Join(p1(k), f[p1(k).to])
               [] slash(k) -> Join(p2(k), f[p2(k).to])
               [] dollar(k) -> Join(p3(k), f[p3(k).to])
               [] tick(k) -> Join(p4(k), f[p4(k).to])
               [] OTHER -> Join(p5(k), f[p5(k).to])]
           f == CHOOSE f : f = body(f)
<1>1. Len(s) \in Nat /\ \A k \in D : ended(k) <=> k > Len(s)
  BY ReadableProperties
<1>2. DoubleQuote(s, i) = f[i]
  BY DEF DoubleQuote
<1>3. \A k : escape(k) => ~ended(k + 1)
  BY DEF End, Escapable, Backquote
<1>4. \A k : ended(k) => ~closed(k) /\ ~escape(k) /\ ~slash(k) /\ ~dollar(k) /\ ~tick(k)
  BY DEF End, Backquote
<1>5. \A k : closed(k) => ~escape(k) /\ ~slash(k) /\ ~dollar(k) /\ ~tick(k)
  BY Zenon DEF Backquote
<1>6. \A k \in 1..Len(s) :
        /\ p2(k) \in Pieces(s, k + 1) /\ p3(k) \in Pieces(s, k + 1)
        /\ p4(k) \in Pieces(s, k + 1) /\ p5(k) \in Pieces(s, k + 1)
        /\ k < Len(s) => p1(k) \in Pieces(s, k + 1)
  BY LiteralTyped, DollarTyped, BacktickTyped
<1>7. \A k \in D : /\ open(k) \in Pieces(s, k)
                   /\ k <= Len(s) => done(k) \in Pieces(s, k)
  <2> TAKE k \in D
  <2>1. <<>> \in Text(s) /\ {} \in SUBSET Notes /\ Unclosed(s, k) \in SUBSET Notes
    BY UnclosedTyped, EmptySeq DEF Text
  <2>2. k \in k..(Len(s) + 1) /\ (k <= Len(s) => k + 1 \in k..(Len(s) + 1))
    BY <1>1
  <2> QED BY <2>1, <2>2, PieceTyped
<1> HIDE DEF ended, closed, escape, slash, dollar, tick, open, done, p1, p2, p3, p4, p5
<1>8. \A k \in D \ Stop : k \in 1..Len(s) /\ piece(k) \in Pieces(s, k + 1)
  <2> TAKE k \in D \ Stop
  <2>1. ~ended(k)
    OBVIOUS
  <2>2. k \in 1..Len(s)
    BY <1>1, <2>1
  <2>3. escape(k) => k < Len(s)
    <3>1. k < Len(s) \/ (k + 1 \in D /\ k + 1 > Len(s))
      BY <1>1, <2>2
    <3> QED BY <1>1, <1>3, <3>1
  <2> QED BY <1>6, <2>2, <2>3
<1>9. \A g : body(g) = Joined(g, D, Stop, val, step, nxt)
  <2> TAKE g
  <2>1. ASSUME NEW k \in D PROVE body(g)[k] = IF k \in Stop THEN val[k] ELSE Join(step[k], g[nxt[k]])
    <3>1. CASE ended(k)
      BY <1>4, <3>1
    <3>2. CASE closed(k) /\ ~ended(k)
      BY <1>5, <3>2
    <3>3. CASE ~closed(k) /\ ~ended(k)
      <4>1. k \notin Stop /\ step[k] = piece(k) /\ nxt[k] = piece(k).to
        BY <3>3
      <4>2. body(g)[k] = Join(piece(k), g[piece(k).to])
        BY <3>3
      <4> QED BY <4>1, <4>2
    <3> QED BY <3>1, <3>2, <3>3
  <2> HIDE DEF val, step, nxt, Stop
  <2> QED BY <2>1 DEF Joined
<1>10. Joining(s, D, pos, Stop, val, step, nxt)
  <2>1. \A k \in D \cap Stop : val[k] \in Pieces(s, k)
    BY <1>1, <1>7
  <2>2. pos \in [D -> 1..(Len(s) + 1)] /\ \A k \in D : pos[k] = k
    OBVIOUS
  <2> HIDE DEF piece
  <2>3. \A k \in D \ Stop : step[k] \in Pieces(s, k + 1) /\ nxt[k] \in D /\ nxt[k] = step[k].to
    <3> TAKE k \in D \ Stop
    <3>1. k \in 1..Len(s) /\ piece(k) \in Pieces(s, k + 1)
      BY <1>8
    <3>2. piece(k).to \in (k + 1)..(Len(s) + 1)
      BY <3>1 DEF Pieces
    <3>3. piece(k).to \in D
      BY <1>1, <3>1, <3>2
    <3> QED BY <3>1, <3>3
  <2> HIDE DEF val, step, nxt, Stop, pos
  <2> QED BY <2>1, <2>2, <2>3 DEF Joining
<1> HIDE DEF val, step, nxt, Stop, body
<1>11. PICK g : g = Joined(g, D, Stop, val, step, nxt)
  BY <1>1, <1>10, JoinedTyped
<1>12. f = Joined(f, D, Stop, val, step, nxt)
  BY <1>9, <1>11
<1> HIDE DEF f
<1>13. \A k \in D : f[k] \in Pieces(s, pos[k])
  BY <1>1, <1>10, <1>12, JoinedTyped
<1> QED BY <1>2, <1>13

\* A word may not have begun, or an escape have no character.
LEMMA NoPieceTyped ==
  ASSUME NEW s, NEW from, NEW to \in from..(Len(s) + 1)
  PROVE  NoPiece(to) \in Pieces(s, from) /\ [NoPiece(to) EXCEPT !.quoted = TRUE] \in Pieces(s, from)
<1>1. <<>> \in Text(s) /\ {} \in SUBSET Notes
  BY EmptySeq DEF Text
<1>2. Piece(to, <<>>, FALSE, FALSE, {}) \in Pieces(s, from)
  BY <1>1, PieceTyped
<1>3. ASSUME NEW p \in Pieces(s, from)
      PROVE  [p EXCEPT !.has = FALSE] \in Pieces(s, from) /\ [p EXCEPT !.quoted = TRUE] \in Pieces(s, from)
  BY DEF Pieces
<1> QED BY <1>2, <1>3 DEF NoPiece

\* A piece of a word takes at least one atom.
LEMMA NextPieceTyped ==
  ASSUME NEW s, Readable(s), NEW i \in 1..Len(s), NEW has \in BOOLEAN
  PROVE  NextPiece(s, i, has) \in Pieces(s, i + 1)
<1> DEFINE c == At(s, i)
<1>1. Len(s) \in Nat /\ i \in 1..(Len(s) + 1) /\ i + 1 \in 1..(Len(s) + 1)
      /\ i + 1 \in (i + 1)..(Len(s) + 1)
  BY ReadableProperties
<1>2. ASSUME NEW notes \in SUBSET Notes
      PROVE  Opaque(s, i, ParenEnd(s, i), notes) \in Pieces(s, i + 1)
  <2>1. ParenEnd(s, i) \in (i + 1)..(Len(s) + 1)
    BY ParenEndWithin
  <2>2. i + 1 \in i..(Len(s) + 1)
    BY <1>1
  <2> QED BY <1>1, <2>1, <2>2, SpanTyped
<1>3. ASSUME Substitutes(s, i)
      PROVE  Opaque(s, i, ParenEnd(s, i + 1), Substitution) \in Pieces(s, i + 1)
  <2>1. At(s, i + 1) # End
    BY <1>3 DEF Substitutes, End
  <2>2. i + 1 \in 1..Len(s)
    BY <1>1, <2>1, ReadableProperties
  <2>3. ParenEnd(s, i + 1) \in (i + 1 + 1)..(Len(s) + 1)
    BY <2>2, ParenEndWithin
  <2>4. ParenEnd(s, i + 1) \in (i + 1)..(Len(s) + 1) /\ i + 1 \in i..(Len(s) + 1)
    BY <1>1, <2>3
  <2> QED BY <1>1, <2>4, SpanTyped, UnclosedTyped
<1>4. DoubleQuote(s, i + 1) \in Pieces(s, i + 1)
  BY <1>1, DoubleQuoteTyped
<1>5. Escape(s, i) \in Pieces(s, i + 1)
  <2>1. <<>> \in Text(s) /\ {} \in SUBSET Notes
    BY EmptySeq DEF Text
  <2>3. [NoPiece(i + 1) EXCEPT !.quoted = TRUE] \in Pieces(s, i + 1)
    BY <1>1, NoPieceTyped
  <2>4. ASSUME i # Len(s) PROVE Piece(i + 2, <<s[i + 1]>>, TRUE, FALSE, {}) \in Pieces(s, i + 1)
    <3>1. i + 1 \in 1..Len(s) /\ i + 2 \in (i + 1)..(Len(s) + 1)
      BY <1>1, <2>4
    <3>2. s[i + 1] \in Chars(s)
      <4>1. i + 1 \in Nat \ {0} /\ i + 1 <= Len(s)
        BY <1>1, <3>1
      <4> QED BY <4>1, ReadableProperties
    <3>3. <<s[i + 1]>> \in Text(s)
      BY <3>2 DEF Text
    <3> QED BY <2>1, <3>1, <3>3, PieceTyped
  <2> QED BY <2>3, <2>4 DEF Escape
<1>6. {} \in SUBSET Notes /\ {"syntax.zsh_glob"} \in SUBSET Notes
  BY DEF Notes
<1>7. /\ Opaque(s, i, ParenEnd(s, i), {"syntax.zsh_glob"}) \in Pieces(s, i + 1)
      /\ SingleQuote(s, i) \in Pieces(s, i + 1) /\ Dollar(s, i, FALSE) \in Pieces(s, i + 1)
      /\ Backtick(s, i) \in Pieces(s, i + 1)
      /\ Opaque(s, i, i + 1, {}) \in Pieces(s, i + 1) /\ Literal(s, i, i + 1) \in Pieces(s, i + 1)
  BY <1>2, <1>6, SingleQuoteTyped, DollarTyped, BacktickTyped, LiteralTyped
<1> QED BY <1>3, <1>4, <1>5, <1>7 DEF NextPiece

\* A word is a piece; when it does not end at once, it takes an atom.
LEMMA WordFromTyped ==
  ASSUME NEW s, Readable(s), NEW i \in 1..Len(s)
  PROVE  /\ WordFrom(s, i) \in Pieces(s, i)
         /\ ~EndsWord(s, i) => WordFrom(s, i) \in Pieces(s, i + 1)
<1> DEFINE E == 1..(Len(s) + 1)
           D == E \X BOOLEAN
           k(b) == b[1]
           has(b) == b[2]
           pos == [b \in D |-> k(b)]
           Stop == {b \in D : EndsWord(s, k(b))}
           val == [b \in D |-> NoPiece(k(b))]
           step == [b \in D |-> NextPiece(s, k(b), has(b))]
           nxt == [b \in D |-> <<step[b].to, has(b) \/ step[b].has>>]
           body(f) == [b \in D |-> IF EndsWord(s, b[1]) THEN NoPiece(b[1])
                                   ELSE Join(NextPiece(s, b[1], b[2]),
                                             f[<<NextPiece(s, b[1], b[2]).to,
                                                 b[2] \/ NextPiece(s, b[1], b[2]).has>>])]
           f == CHOOSE f : f = body(f)
<1>1. Len(s) \in Nat /\ \A n \in E : At(s, n) = End <=> n > Len(s)
  BY ReadableProperties
<1>2. WordFrom(s, i) = f[<<i, FALSE>>]
  BY DEF WordFrom
<1>3. \A b \in D : k(b) \in E /\ has(b) \in BOOLEAN
  OBVIOUS
<1>4. \A g : body(g) = Joined(g, D, Stop, val, step, nxt)
  BY DEF Joined
<1>5. ASSUME NEW b \in D, b \notin Stop
      PROVE  step[b] \in Pieces(s, k(b) + 1) /\ nxt[b] \in D /\ k(nxt[b]) = step[b].to
  <2>1. At(s, k(b)) # End
    BY <1>5 DEF EndsWord
  <2>2. k(b) \in 1..Len(s) /\ has(b) \in BOOLEAN
    BY <1>1, <1>3, <2>1
  <2>3. step[b] = NextPiece(s, k(b), has(b))
    OBVIOUS
  <2> HIDE DEF step
  <2>4. step[b] \in Pieces(s, k(b) + 1)
    BY <2>2, <2>3, NextPieceTyped
  <2>5. step[b].to \in (k(b) + 1)..(Len(s) + 1)
    BY <2>4 DEF Pieces
  <2>6. step[b].to \in E
    BY <1>1, <2>2, <2>5
  <2>7. nxt[b] = <<step[b].to, has(b) \/ step[b].has>>
    OBVIOUS
  <2>8. (has(b) \/ step[b].has) \in BOOLEAN
    BY Zenon
  <2>9. nxt[b] \in D
    BY <2>6, <2>7, <2>8
  <2> QED BY <2>4, <2>7, <2>9
<1>6. Joining(s, D, pos, Stop, val, step, nxt)
  <2>1. ASSUME NEW b \in D \cap Stop PROVE val[b] \in Pieces(s, k(b))
    <3>1. k(b) \in k(b)..(Len(s) + 1)
      BY <1>1, <1>3
    <3>3. NoPiece(k(b)) \in Pieces(s, k(b))
      BY <3>1, NoPieceTyped
    <3> HIDE DEF k
    <3> QED BY <3>3
  <2>2. pos \in [D -> E] /\ \A b \in D : pos[b] = k(b)
    OBVIOUS
  <2> HIDE DEF val, step, nxt, Stop, pos, D, k
  <2> QED BY <1>5, <2>1, <2>2 DEF Joining, E
<1>7. <<i, FALSE>> \in D /\ pos[<<i, FALSE>>] = i /\ (<<i, FALSE>> \in Stop <=> EndsWord(s, i))
  <2>1. i \in E
    BY <1>1
  <2>2. <<i, FALSE>> \in D /\ k(<<i, FALSE>>) = i
    BY <2>1
  <2> HIDE DEF D, k
  <2> QED BY <2>2
<1> HIDE DEF D, pos, val, step, nxt, Stop, body
<1>8. PICK g : g = Joined(g, D, Stop, val, step, nxt)
  BY <1>1, <1>6, JoinedTyped
<1>9. f = Joined(f, D, Stop, val, step, nxt)
  BY <1>4, <1>8
<1> HIDE DEF f
<1>10. \A b \in D : /\ f[b] \in Pieces(s, pos[b])
                    /\ b \notin Stop => f[b] \in Pieces(s, pos[b] + 1)
  BY <1>1, <1>6, <1>9, JoinedTyped
<1> QED BY <1>2, <1>7, <1>10

-----------------------------------------------------------------------------
(* Tokens and turns *)

Tokens(s) ==
  [kind : {"word", "op", "redirect"}, text : Text(s), quoted : BOOLEAN, expands : BOOLEAN]
Lexers(s) ==
  [i : 1..(Len(s) + 1), tokens : Seq(Tokens(s)), uncertainty : SUBSET Notes,
   pendingHeredoc : BOOLEAN]

\* A token that opens a heredoc, and one that ends a line.
Opens(t) == IsRedirect(t) /\ t.text \in {<<"<", "<">>, <<"<", "<", "-">>}
EndsLine(t) == IsOp(t) /\ t.text = <<"\n">>

\* What a turn of the loop from lx to y does.
Turn(s, lexer, y) ==
  /\ y \in Lexers(s) /\ lexer.i < y.i /\ (lexer.pendingHeredoc => y.pendingHeredoc)
  /\ \/ y.tokens = lexer.tokens
     \/ \E t \in Tokens(s) : /\ y.tokens = Append(lexer.tokens, t)
                             /\ Opens(t) => y.pendingHeredoc
                             /\ EndsLine(t) => ~lexer.pendingHeredoc

\* A token that is neither the start of a heredoc nor, inside one, the end of a
\* line may be emitted.
LEMMA EmitTurn ==
  ASSUME NEW s, Len(s) \in Nat, NEW x \in Lexers(s), NEW to \in (x.i + 1)..(Len(s) + 1),
         NEW t \in Tokens(s), ~Opens(t), EndsLine(t) => ~x.pendingHeredoc
  PROVE  Turn(s, x, Emit(x, to, t))
<1>1. x.i \in 1..(Len(s) + 1) /\ x.tokens \in Seq(Tokens(s))
  BY DEF Lexers
<1>2. to \in 1..(Len(s) + 1) /\ x.i < to
  BY <1>1
<1>3. Append(x.tokens, t) \in Seq(Tokens(s))
  BY <1>1, AppendProperties
<1>4. Emit(x, to, t) = [x EXCEPT !.i = to, !.tokens = Append(x.tokens, t)]
  BY DEF Emit
<1>5. Emit(x, to, t) \in Lexers(s)
  BY <1>2, <1>3, <1>4 DEF Lexers
<1>6. /\ Emit(x, to, t).i = to /\ Emit(x, to, t).tokens = Append(x.tokens, t)
      /\ Emit(x, to, t).pendingHeredoc = x.pendingHeredoc
  BY <1>4 DEF Lexers
<1> QED BY <1>2, <1>5, <1>6 DEF Turn

\* A word is one.
LEMMA LexWordTurn ==
  ASSUME NEW s, Readable(s), NEW x \in Lexers(s), x.i <= Len(s), ~EndsWord(s, x.i)
  PROVE  Turn(s, x, LexWord(s, x))
<1> DEFINE p == WordFrom(s, x.i)
           r == [x EXCEPT !.i = p.to, !.uncertainty = x.uncertainty \cup p.notes]
<1>1. Len(s) \in Nat /\ x.i \in 1..Len(s)
  BY ReadableProperties DEF Lexers
<1>2. p \in Pieces(s, x.i + 1)
  BY <1>1, WordFromTyped
<1>3. LexWord(s, x) = IF p.has THEN Emit(r, p.to, WordToken(p)) ELSE r
  BY DEF LexWord
<1> HIDE DEF p
<1>4. p.to \in (x.i + 1)..(Len(s) + 1) /\ p.notes \in SUBSET Notes
  BY <1>2 DEF Pieces
<1>5. p.to \in 1..(Len(s) + 1) /\ x.i < p.to
  BY <1>1, <1>4
<1>6. x.uncertainty \cup p.notes \in SUBSET Notes
  BY <1>4 DEF Lexers
<1>7. /\ r \in Lexers(s) /\ r.i = p.to /\ r.tokens = x.tokens
      /\ r.pendingHeredoc = x.pendingHeredoc
  BY <1>5, <1>6 DEF Lexers
<1>8. WordToken(p) \in Tokens(s) /\ WordToken(p).kind = "word"
  BY <1>2 DEF Pieces, WordToken, Tokens
<1>9. ~Opens(WordToken(p)) /\ ~EndsLine(WordToken(p))
  BY <1>8 DEF Opens, EndsLine, IsRedirect, IsOp
<1> DEFINE y == Emit(r, p.to, WordToken(p))
<1>10. y = [r EXCEPT !.i = p.to, !.tokens = Append(r.tokens, WordToken(p))]
  BY DEF Emit
<1> HIDE DEF r
<1>11. Append(x.tokens, WordToken(p)) \in Seq(Tokens(s))
  BY <1>8, AppendProperties DEF Lexers
<1>12. /\ y \in Lexers(s) /\ y.i = p.to /\ y.tokens = Append(x.tokens, WordToken(p))
       /\ y.pendingHeredoc = x.pendingHeredoc
  BY <1>5, <1>7, <1>10, <1>11 DEF Lexers
<1> HIDE DEF y
<1>13. Turn(s, x, y)
  BY <1>5, <1>8, <1>9, <1>12 DEF Turn
<1>14. Turn(s, x, r)
  BY <1>5, <1>7 DEF Turn
<1> QED BY <1>3, <1>13, <1>14 DEF y

\* A redirection operator ends within the line, after its first character.
LEMMA RedirectEndWithin ==
  ASSUME NEW s, Readable(s), NEW j \in 1..Len(s), At(s, j) = "&" => j < Len(s)
  PROVE  RedirectEnd(s, j) \in (j + 1)..(Len(s) + 1)
<1>1. Len(s) \in Nat /\ (At(s, j + 1) = End <=> j + 1 > Len(s)) /\ (At(s, j + 2) = End <=> j + 2 > Len(s))
  <2>1. j + 1 \in Nat \ {0} /\ j + 2 \in Nat \ {0}
    OBVIOUS
  <2> QED BY <2>1, ReadableProperties
<1> DEFINE a == At(s, j)
           b == At(s, j + 1)
           c == At(s, j + 2)
           three == \/ a = "<" /\ b = "<" /\ c \in {"<", "-"}
                    \/ a = ">" /\ b = ">" /\ c = "&"
                    \/ a = "&" /\ c = ">"
           two == \/ a = "<" /\ b \in {"<", "&", ">"}
                  \/ a = ">" /\ b \in {">", "&", "|"}
                  \/ a = "&"
<1>2. RedirectEnd(s, j) = IF three THEN j + 3 ELSE IF two THEN j + 2 ELSE j + 1
  BY DEF RedirectEnd
<1>3. three => c # End
  BY DEF End
<1>4. two => b # End \/ a = "&"
  BY DEF End
<1> HIDE DEF three, two
<1>5. (three => j + 2 <= Len(s)) /\ (two => j + 1 <= Len(s))
  BY <1>1, <1>3, <1>4
<1> QED BY <1>1, <1>2, <1>5

\* The operator at j is read with the digits before it; it may open a heredoc.
LEMMA LexRedirectTurn ==
  ASSUME NEW s, Readable(s), NEW x \in Lexers(s), NEW j \in x.i..Len(s),
         At(s, j) = "&" => j < Len(s), j = x.i \/ At(s, x.i) \in Digits
  PROVE  Turn(s, x, LexRedirect(s, x, j))
<1> DEFINE e == RedirectEnd(s, j)
           text == Raw(s, x.i, e)
           t == Token("redirect", text)
           r == Emit(x, e, t)
           y == [r EXCEPT !.pendingHeredoc = TRUE,
                          !.uncertainty = r.uncertainty \cup {"syntax.heredoc"}]
<1>1. Len(s) \in Nat /\ x.i \in 1..(Len(s) + 1)
  BY ReadableProperties DEF Lexers
<1>2. j \in 1..Len(s) /\ x.i \in 1..Len(s)
  BY <1>1
<1>3. e \in (j + 1)..(Len(s) + 1)
  BY <1>2, RedirectEndWithin
<1>4. LexRedirect(s, x, j) = IF Heredoc(s, j) THEN y ELSE r
  BY DEF LexRedirect
<1> HIDE DEF e
<1>5. e \in (x.i + 1)..(Len(s) + 1) /\ e \in x.i..(Len(s) + 1)
  BY <1>1, <1>2, <1>3
<1>6. text \in Text(s)
  BY <1>1, <1>5, RawIsText
<1>7. t \in Tokens(s) /\ t.text = text /\ t.kind = "redirect"
  BY <1>6 DEF Token, Tokens
<1>8. ~EndsLine(t)
  BY <1>7 DEF EndsLine, IsOp
<1>9. ASSUME Opens(t) PROVE Heredoc(s, j)
  <2>1. text \in {<<"<", "<">>, <<"<", "<", "-">>}
    BY <1>7, <1>9 DEF Opens
  <2>2. text = SubSeq(s, x.i, e - 1)
    BY DEF Raw
  <2>3. Len(text) = e - x.i /\ \A k \in 1..(e - x.i) : text[k] = s[x.i + k - 1]
    <3>1. x.i \in Int /\ e - 1 \in Int /\ x.i <= e
      BY <1>1, <1>5
    <3>2. \A k \in x.i..(e - 1) : s[k] \in Chars(s)
      <4>1. \A k \in x.i..(e - 1) : k \in 1..Len(s)
        BY <1>1, <1>5
      <4> QED BY <4>1, ReadableProperties
    <3> DEFINE m == x.i
               n == e - 1
               w == SubSeq(s, m, n)
    <3>3. /\ Len(w) = (IF m <= n THEN n - m + 1 ELSE 0)
          /\ \A k \in 1..(n - m + 1) : w[k] = s[m + k - 1]
      BY <3>1, <3>2, SubSeqProperties
    <3>4. m \in Int /\ e \in Int /\ m < e
      BY <1>1, <1>5
    <3> HIDE DEF m, w
    <3>5. m <= n /\ n - m + 1 = e - m
      BY <3>4
    <3>6. Len(w) = e - m /\ \A k \in 1..(e - m) : w[k] = s[m + k - 1]
      BY <3>3, <3>5
    <3> QED BY <2>2, <3>6 DEF m, w
  <2>4. text[1] = "<" /\ text[2] = "<" /\ Len(text) \in {2, 3} /\ (Len(text) = 3 => text[3] = "-")
    BY <2>1
  <2> HIDE DEF text
  <2> DEFINE n == Len(text)
             i == x.i
  <2>5. n = e - i /\ n \in {2, 3}
    BY <2>3, <2>4
  <2>6. s[i] = "<" /\ s[i + 1] = "<" /\ (n = 3 => s[i + 2] = "-")
    <3>1. 1 \in 1..(e - i) /\ 2 \in 1..(e - i) /\ (n = 3 => 3 \in 1..(e - i))
      BY <2>5
    <3>2. i + 1 - 1 = i /\ i + 2 - 1 = i + 1 /\ i + 3 - 1 = i + 2
      BY <1>1
    <3> QED BY <2>3, <2>4, <3>1, <3>2
  <2> HIDE DEF n, i
  <2>7. i \in 1..Len(s) /\ e \in 1..(Len(s) + 1)
    BY <1>1, <1>2, <1>5 DEF i
  <2>8. i + 1 <= Len(s) /\ (n = 3 => i + 2 <= Len(s))
    BY <1>1, <2>5, <2>7
  <2>9. At(s, i) = "<" /\ At(s, i + 1) = "<" /\ (n = 3 => At(s, i + 2) = "-")
    BY <2>6, <2>7, <2>8 DEF At
  <2>10. j = i
    BY <2>9 DEF i, Digits
  <2>11. n = 2 => At(s, i + 2) # "<"
    <3>1. At(s, i + 2) = "<" => e = i + 3
      BY <2>9, <2>10 DEF RedirectEnd, e
    <3> QED BY <1>1, <2>5, <2>7, <3>1
  <2> QED BY <2>5, <2>9, <2>10, <2>11 DEF Heredoc
<1> HIDE DEF text
<1>10. r = [x EXCEPT !.i = e, !.tokens = Append(x.tokens, t)]
  BY DEF Emit
<1> HIDE DEF t, r
<1>11. Append(x.tokens, t) \in Seq(Tokens(s)) /\ e \in 1..(Len(s) + 1) /\ x.i < e
  BY <1>1, <1>5, <1>7, AppendProperties DEF Lexers
<1>12. /\ r \in Lexers(s) /\ r.i = e /\ r.tokens = Append(x.tokens, t)
       /\ r.pendingHeredoc = x.pendingHeredoc
  BY <1>10, <1>11 DEF Lexers
<1>13. r.uncertainty \cup {"syntax.heredoc"} \in SUBSET Notes
  BY <1>12 DEF Lexers, Notes
<1>14. /\ y \in Lexers(s) /\ y.i = e /\ y.tokens = Append(x.tokens, t) /\ y.pendingHeredoc
  BY <1>12, <1>13 DEF Lexers
<1> HIDE DEF y
<1>15. Turn(s, x, y)
  BY <1>7, <1>8, <1>11, <1>14 DEF Turn
<1>16. ~Heredoc(s, j) => Turn(s, x, r)
  BY <1>7, <1>8, <1>9, <1>11, <1>12 DEF Turn
<1> QED BY <1>4, <1>15, <1>16

\* An operator of control characters is a token that opens nothing.
LEMMA LexControlTurn ==
  ASSUME NEW s, Readable(s), NEW x \in Lexers(s), x.i <= Len(s), At(s, x.i) # "\n"
  PROVE  Turn(s, x, LexControl(s, x))
<1> DEFINE i == x.i
           two == <<At(s, i), At(s, i + 1)>>
           one == <<At(s, i)>>
<1>1. Len(s) \in Nat /\ i \in 1..Len(s) /\ At(s, i) \in Chars(s)
      /\ (At(s, i + 1) = End <=> i + 1 > Len(s)) /\ (i + 1 <= Len(s) => At(s, i + 1) \in Chars(s))
  <2>1. Len(s) \in Nat /\ i \in 1..Len(s)
    BY ReadableProperties DEF Lexers
  <2>2. i \in Nat \ {0} /\ i + 1 \in Nat \ {0} /\ i <= Len(s)
    BY <2>1
  <2> QED BY <2>1, <2>2, ReadableProperties
<1>2. \A t : ~Opens(Token("op", t)) /\ Token("op", t).text = t
  BY DEF Opens, IsRedirect, Token
<1>3. \A t \in Text(s) : Token("op", t) \in Tokens(s)
  BY DEF Token, Tokens
<1>4. one \in Text(s) /\ one # <<"\n">>
  <2>1. At(s, i) \in Chars(s) \cup Signs
    BY <1>1
  <2>2. one \in Text(s)
    <3> DEFINE a == At(s, i)
    <3> HIDE DEF a
    <3> QED BY <2>1 DEF Text, a
  <2>3. one[1] = At(s, i)
    OBVIOUS
  <2>4. <<"\n">>[1] = "\n"
    OBVIOUS
  <2> QED BY <2>2, <2>3, <2>4
<1>5. two \in Doubles => i + 1 <= Len(s) /\ two \in Text(s) /\ two # <<"\n">>
  <2> HAVE two \in Doubles
  <2>1. At(s, i + 1) # End
    BY DEF Doubles, End
  <2>2. i + 1 <= Len(s)
    BY <1>1, <2>1
  <2>3. At(s, i) \in Chars(s) \cup Signs /\ At(s, i + 1) \in Chars(s) \cup Signs
    BY <1>1, <2>2
  <2>4. two \in Text(s)
    BY <2>3 DEF Text
  <2>5. Len(two) = 2 /\ Len(<<"\n">>) = 1
    OBVIOUS
  <2> QED BY <2>2, <2>4, <2>5
<1>6. i + 1 \in (x.i + 1)..(Len(s) + 1) /\ (i + 1 <= Len(s) => i + 2 \in (x.i + 1)..(Len(s) + 1))
  BY <1>1
<1>7. ASSUME NEW t \in Text(s), t # <<"\n">>, NEW to \in (x.i + 1)..(Len(s) + 1)
      PROVE  Turn(s, x, Emit(x, to, Token("op", t)))
  <2>1. ~EndsLine(Token("op", t))
    BY <1>2, <1>7 DEF EndsLine
  <2> QED BY <1>1, <1>2, <1>3, <2>1, EmitTurn
<1>8. two \in Doubles => Turn(s, x, Emit(x, i + 2, Token("op", two)))
  BY <1>5, <1>6, <1>7
<1>9. Turn(s, x, Emit(x, i + 1, Token("op", one)))
  BY <1>4, <1>6, <1>7
<1> QED BY <1>8, <1>9 DEF LexControl

\* So is a line's end, where no heredoc waits for its body; where one does, all
\* that is left is its body.
LEMMA LexNewlineTurn ==
  ASSUME NEW s, Readable(s), NEW x \in Lexers(s), x.i <= Len(s)
  PROVE  Turn(s, x, LexNewline(s, x))
<1> DEFINE i == x.i
           y == [x EXCEPT !.i = Len(s) + 1]
           t == Token("op", <<"\n">>)
<1>1. Len(s) \in Nat /\ i \in 1..Len(s)
  BY ReadableProperties DEF Lexers
<1>2. Len(s) + 1 \in 1..(Len(s) + 1) /\ i < Len(s) + 1 /\ i + 1 \in (i + 1)..(Len(s) + 1)
  BY <1>1
<1>3. y \in Lexers(s) /\ y.i = Len(s) + 1 /\ y.tokens = x.tokens /\ y.pendingHeredoc = x.pendingHeredoc
  BY <1>2 DEF Lexers
<1>4. Turn(s, x, y)
  BY <1>2, <1>3 DEF Turn
<1>5. t \in Tokens(s) /\ ~Opens(t)
  <2>1. "\n" \in Chars(s) \cup Signs
    BY Zenon DEF Signs
  <2>2. <<"\n">> \in Text(s)
    BY <2>1 DEF Text
  <2> QED BY <2>2 DEF Token, Tokens, Opens, IsRedirect
<1>6. ~x.pendingHeredoc => Turn(s, x, Emit(x, i + 1, t))
  BY <1>1, <1>2, <1>5, EmitTurn
<1> QED BY <1>4, <1>6 DEF LexNewline

\* Each turn of the loop is a turn.
LEMMA LexStepTurn ==
  ASSUME NEW s, Readable(s), NEW x \in Lexers(s), x.i <= Len(s)
  PROVE  Turn(s, x, LexStep(s, x))
<1> DEFINE i == x.i
           c == At(s, i)
           j == SkipAll(s, i, Digits)
<1>1. Len(s) \in Nat /\ i \in 1..Len(s) /\ i \in 1..(Len(s) + 1)
  BY ReadableProperties DEF Lexers
<1>2. c # End /\ c \in Chars(s)
  <2>1. i \in Nat \ {0} /\ i <= Len(s)
    BY <1>1
  <2> QED BY <1>1, <2>1, ReadableProperties
<1>3. Turn(s, x, LexNewline(s, x))
  BY LexNewlineTurn
<1>4. Turn(s, x, [x EXCEPT !.i = x.i + 1])
  <2> DEFINE y == [x EXCEPT !.i = x.i + 1]
  <2>1. i + 1 \in 1..(Len(s) + 1) /\ i < i + 1
    BY <1>1
  <2>2. y \in Lexers(s) /\ y.i = i + 1 /\ y.tokens = x.tokens /\ y.pendingHeredoc = x.pendingHeredoc
    BY <2>1 DEF Lexers
  <2> QED BY <2>1, <2>2 DEF Turn
<1>5. c # "\n" => Turn(s, x, LexControl(s, x))
  BY LexControlTurn
<1>6. ASSUME c = "&" => At(s, i + 1) = ">"
      PROVE  Turn(s, x, LexRedirect(s, x, i))
  <2>1. c = "&" => i < Len(s)
    <3>1. i + 1 \in Nat \ {0} /\ ">" # End
      BY <1>1 DEF End
    <3>2. At(s, i + 1) = End <=> i + 1 > Len(s)
      BY <3>1, ReadableProperties
    <3> QED BY <1>1, <1>6, <3>1, <3>2
  <2>2. i \in x.i..Len(s)
    BY <1>1
  <2> QED BY <2>1, <2>2, LexRedirectTurn
<1>7. c # "\n" => Turn(s, x, Emit(x, x.i + 1, Token("op", <<c>>)))
  <2> HAVE c # "\n"
  <2>1. <<c>> \in Text(s)
    <3>1. c \in Chars(s) \cup Signs
      BY <1>2
    <3> HIDE DEF c
    <3> QED BY <3>1 DEF Text
  <2>2. <<c>> # <<"\n">>
    <3>1. <<c>>[1] = c /\ <<"\n">>[1] = "\n"
      OBVIOUS
    <3> HIDE DEF c
    <3> QED BY <3>1
  <2>3. Token("op", <<c>>) \in Tokens(s) /\ ~Opens(Token("op", <<c>>))
        /\ ~EndsLine(Token("op", <<c>>))
    <3> DEFINE u == <<c>>
    <3> HIDE DEF u
    <3> QED BY <2>1, <2>2 DEF Token, Tokens, Opens, EndsLine, IsRedirect, u
  <2>4. x.i + 1 \in (x.i + 1)..(Len(s) + 1)
    BY <1>1
  <2> QED BY <1>1, <2>3, <2>4, EmitTurn
<1>8. ASSUME c \in Digits, At(s, j) \in {"<", ">"}
      PROVE  Turn(s, x, LexRedirect(s, x, j))
  <2>1. j \in i..(Len(s) + 1)
    BY <1>1, SkipsWithin
  <2>2. At(s, j) # "&" /\ At(s, j) # End
    BY <1>8 DEF End
  <2> HIDE DEF j
  <2>3. j \in x.i..Len(s)
    <3>1. j \in Nat \ {0}
      BY <1>1, <2>1
    <3>2. At(s, j) = End <=> j > Len(s)
      BY <3>1, ReadableProperties
    <3> QED BY <1>1, <2>1, <2>2, <3>2
  <2> QED BY <1>8, <2>2, <2>3, LexRedirectTurn
<1> DEFINE plain == ~(\/ c = "\n" \/ c \in Blanks \ {"\n"} \/ c \in {"|", ";"}
                      \/ c = "&" \/ c \in {"(", ")"}
                      \/ (c \in {"<", ">"} /\ ~Substitutes(s, i)))
<1>9. plain => Turn(s, x, LexWord(s, x))
  <2> HAVE plain
  <2>1. ~EndsWord(s, i)
    BY <1>2 DEF EndsWord, Blanks
  <2> QED BY <2>1, LexWordTurn
<1> DEFINE word == ~(\/ c = "\n" \/ c \in Blanks \ {"\n"}
                     \/ c \in {"|", ";"} \/ (c = "&" /\ At(s, i + 1) # ">")
                     \/ (c = "&" /\ At(s, i + 1) = ">")
                     \/ c \in {"(", ")"}
                     \/ (c \in {"<", ">"} /\ ~Substitutes(s, i)))
<1>10. word => plain
  BY Zenon
<1> HIDE DEF c, j, plain
<1>11. LexStep(s, x) =
         CASE c = "\n" -> LexNewline(s, x)
           [] c \in Blanks \ {"\n"} -> [x EXCEPT !.i = x.i + 1]
           [] c \in {"|", ";"} \/ (c = "&" /\ At(s, i + 1) # ">") -> LexControl(s, x)
           [] c = "&" /\ At(s, i + 1) = ">" -> LexRedirect(s, x, i)
           [] c \in {"(", ")"} -> Emit(x, x.i + 1, Token("op", <<c>>))
           [] c \in {"<", ">"} /\ ~Substitutes(s, i) -> LexRedirect(s, x, i)
           [] c \in Digits /\ At(s, j) \in {"<", ">"} -> LexRedirect(s, x, j)
           [] OTHER -> LexWord(s, x)
  BY DEF LexStep, c, j
<1> DEFINE b1 == c = "\n"
           b2 == c \in Blanks \ {"\n"}
           b3 == c \in {"|", ";"} \/ (c = "&" /\ At(s, i + 1) # ">")
           b4 == c = "&" /\ At(s, i + 1) = ">"
           b5 == c \in {"(", ")"}
           b6 == c \in {"<", ">"} /\ ~Substitutes(s, i)
           b7 == c \in Digits /\ At(s, j) \in {"<", ">"}
<1>12. /\ b1 => Turn(s, x, LexNewline(s, x))
       /\ b2 => Turn(s, x, [x EXCEPT !.i = x.i + 1])
       /\ b3 => Turn(s, x, LexControl(s, x))
       /\ b4 => Turn(s, x, LexRedirect(s, x, i))
       /\ b5 => Turn(s, x, Emit(x, x.i + 1, Token("op", <<c>>)))
       /\ b6 => Turn(s, x, LexRedirect(s, x, i))
       /\ b7 => Turn(s, x, LexRedirect(s, x, j))
       /\ ~(b1 \/ b2 \/ b3 \/ b4 \/ b5 \/ b6) => Turn(s, x, LexWord(s, x))
  <2>1. "\n" \notin {"|", ";"} /\ "\n" # "&" /\ "\n" \notin {"(", ")"} /\ "&" \notin {"<", ">"}
    BY Zenon
  <2>2. b3 => c # "\n"
    BY <2>1, Zenon
  <2>3. b5 => c # "\n"
    BY <2>1, Zenon
  <2>4. b6 => c # "&"
    BY <2>1, Zenon
  <2>5. b3 => Turn(s, x, LexControl(s, x))
    BY <1>5, <2>2
  <2>6. b4 => Turn(s, x, LexRedirect(s, x, i))
    BY <1>6, Zenon
  <2>7. b6 => Turn(s, x, LexRedirect(s, x, i))
    BY <1>6, <2>4, Zenon
  <2>8. b5 => Turn(s, x, Emit(x, x.i + 1, Token("op", <<c>>)))
    BY <1>7, <2>3, Zenon
  <2>9. b7 => Turn(s, x, LexRedirect(s, x, j))
    BY <1>8, Zenon
  <2>10. ~(b1 \/ b2 \/ b3 \/ b4 \/ b5 \/ b6) => Turn(s, x, LexWord(s, x))
    BY <1>9, <1>10, Zenon
  <2> HIDE DEF b1, b2, b3, b4, b5, b6, b7
  <2> QED BY <1>3, <1>4, <2>5, <2>6, <2>7, <2>8, <2>9, <2>10, Zenon
<1>13. LexStep(s, x) =
         CASE b1 -> LexNewline(s, x)
           [] b2 -> [x EXCEPT !.i = x.i + 1]
           [] b3 -> LexControl(s, x)
           [] b4 -> LexRedirect(s, x, i)
           [] b5 -> Emit(x, x.i + 1, Token("op", <<c>>))
           [] b6 -> LexRedirect(s, x, i)
           [] b7 -> LexRedirect(s, x, j)
           [] OTHER -> LexWord(s, x)
  BY <1>11
<1> HIDE DEF b1, b2, b3, b4, b5, b6, b7, i
<1> QED BY <1>12, <1>13

-----------------------------------------------------------------------------
(* The lexer in a check *)

\* After the redirection that opens a heredoc, no token ends a line.
Held(s, x) ==
  /\ x \in Lexers(s)
  /\ \A k \in DOMAIN x.tokens : Opens(x.tokens[k]) =>
       x.pendingHeredoc /\ \A j \in (k + 1)..Len(x.tokens) : ~EndsLine(x.tokens[j])

\* A turn keeps it so.
LEMMA TurnHolds ==
  ASSUME NEW s, NEW x, Held(s, x), NEW y, Turn(s, x, y)
  PROVE  Held(s, y)
<1>1. y \in Lexers(s) /\ (x.pendingHeredoc => y.pendingHeredoc)
  BY DEF Turn
<1>2. CASE y.tokens = x.tokens
  BY <1>1, <1>2 DEF Held
<1>3. ASSUME NEW t \in Tokens(s), y.tokens = Append(x.tokens, t), Opens(t) => y.pendingHeredoc,
             EndsLine(t) => ~x.pendingHeredoc
      PROVE  Held(s, y)
  <2> DEFINE n == Len(x.tokens)
             v == y.tokens
  <2>1. /\ n \in Nat /\ Len(v) = n + 1 /\ v[n + 1] = t
        /\ \A k \in 1..n : v[k] = x.tokens[k]
        /\ DOMAIN v = 1..(n + 1) /\ DOMAIN x.tokens = 1..n
    <3>1. x.tokens \in Seq(Tokens(s))
      BY DEF Held, Lexers
    <3>2. v \in Seq(Tokens(s))
      BY <1>3, <3>1, AppendProperties
    <3> QED BY <1>3, <3>1, <3>2, AppendProperties, LenProperties
  <2> HIDE DEF n, v
  <2>2. ASSUME NEW k \in 1..(n + 1), Opens(v[k])
        PROVE  y.pendingHeredoc /\ \A j \in (k + 1)..Len(v) : ~EndsLine(v[j])
    <3>1. CASE k = n + 1
      BY <1>3, <2>1, <2>2, <3>1
    <3>2. CASE k \in 1..n
      <4>1. x.pendingHeredoc /\ \A j \in (k + 1)..n : ~EndsLine(x.tokens[j])
        BY <2>1, <2>2, <3>2 DEF Held, n
      <4>2. \A j \in (k + 1)..Len(v) : j = n + 1 \/ (j \in (k + 1)..n /\ j \in 1..n)
        BY <2>1, <3>2
      <4> QED BY <1>1, <1>3, <2>1, <4>1, <4>2
    <3> QED BY <2>1, <3>1, <3>2
  <2> QED BY <1>1, <2>1, <2>2 DEF Held, v
<1> QED BY <1>2, <1>3 DEF Turn

\* What the line and the lexer always are.
Reading == Readable(line) /\ Held(line, lx)

\* A lexer that starts has read nothing.
LEMMA StartHeld ==
  ASSUME NEW s, Readable(s)
  PROVE  Held(s, Start)
<1>1. Len(s) \in Nat
  BY ReadableProperties
<1>2. 1 \in 1..(Len(s) + 1) /\ <<>> \in Seq(Tokens(s)) /\ {} \in SUBSET Notes
  BY <1>1, EmptySeq
<1>3. Start \in Lexers(s)
  BY <1>2 DEF Start, Lexers
<1>4. DOMAIN Start.tokens = {}
  BY DEF Start
<1> QED BY <1>3, <1>4 DEF Held

\* Every step of a check keeps what the line and the lexer are.
LEMMA ReadingStep == Reading /\ [Next]_vars => Reading'
<1> SUFFICES ASSUME Reading, [Next]_vars PROVE Reading'
  OBVIOUS
<1>1. CASE LexNext
  <2>1. Len(line) \in Nat /\ lx \in Lexers(line) /\ lx.i <= Len(line)
    BY <1>1, ReadableProperties DEF Reading, Held, LexNext
  <2>2. Held(line, LexStep(line, lx))
    BY <2>1, LexStepTurn, TurnHolds DEF Reading
  <2> QED BY <1>1, <2>2 DEF Reading, LexNext, proposal
<1>2. CASE UNCHANGED <<line, lx>>
  BY <1>2 DEF Reading
<1>3. CASE Lexed \/ SearchNames \/ OpenDir \/ ScanEntry \/ Searched
  BY <1>2, <1>3 DEF Lexed, SearchNames, OpenDir, ScanEntry, Searched, proposal
<1>4. CASE NextSegment \/ CollectContext \/ Warrant \/ ConsultModel
  BY <1>2, <1>4 DEF NextSegment, CollectContext, Warrant, ConsultModel, proposal
<1>5. ASSUME NEW mode \in Modes, Decide(mode) PROVE Reading'
  BY <1>2, <1>5 DEF Decide, proposal
<1>6. CASE UNCHANGED vars
  BY <1>2, <1>6 DEF vars, proposal
<1> QED BY <1>1, <1>3, <1>4, <1>5, <1>6 DEF Next, Step, Over

\* The lexer stands within the line and has read text of it, and after the
\* redirection that opens a heredoc it has read no further line.
THEOREM ReadingInvariant == Spec => []Reading
<1>1. Init => Reading
  <2> SUFFICES ASSUME Init PROVE Reading
    OBVIOUS
  <2>1. PICK in \in Inputs : line = in.line /\ lx = Start
    BY DEF Init, CheckStart
  <2>2. Readable(line)
    BY <2>1, AnalysisAssumption DEF Readable, Chars
  <2> QED BY <2>1, <2>2, StartHeld DEF Reading
<1> QED BY <1>1, ReadingStep, PTL DEF Spec

\* The body of a heredoc is data, whatever the line: none of its lines becomes a
\* command the layers would judge (lexer.rs:139-150).
THEOREM HeredocBodyStaysData == Spec => []HeredocBodyIsData
<1>1. Reading => HeredocBodyIsData
  BY DEF Reading, Held, HeredocBodyIsData, Opens, EndsLine
<1> QED BY <1>1, ReadingInvariant, PTL

\* Every turn of the lexer's loop moves on, whatever the line: the loop ends
\* (lexer.rs:132-133).
THEOREM LexerEnds == Spec => []LexerAdvances
<1>1. Reading => LexerAdvances
  <2> SUFFICES ASSUME Reading, lx.i <= Len(line) PROVE LexStep(line, lx).i > lx.i
    BY DEF LexerAdvances
  <2> DEFINE y == LexStep(line, lx)
  <2>1. lx.i \in 1..(Len(line) + 1) /\ y.i \in 1..(Len(line) + 1) /\ lx.i < y.i
    BY LexStepTurn DEF Reading, Held, Turn, Lexers
  <2>2. Len(line) \in Nat
    BY ReadableProperties DEF Reading
  <2> HIDE DEF y
  <2>3. y.i > lx.i
    BY <2>1, <2>2
  <2> QED BY <2>3 DEF y
<1> QED BY <1>1, ReadingInvariant, PTL

-----------------------------------------------------------------------------
(* The order of names *)

\* a comes before b by what they have at k, the first place they differ in.
Before(a, b, k) ==
  /\ k <= Len(b)
  /\ \A j \in Nat \ {0} : j < k => j <= Len(a) /\ a[j] = b[j]
  /\ k > Len(a) \/ LetterRank(a[k]) < LetterRank(b[k])

\* Letters have ranks, and different letters different ones.
LEMMA RankProperties ==
  /\ \A c \in LetterSet : LetterRank(c) \in Nat
  /\ \A c, d \in LetterSet : LetterRank(c) = LetterRank(d) => c = d
<1>1. ASSUME NEW c \in LetterSet PROVE LetterRank(c) \in DOMAIN Letters /\ Letters[LetterRank(c)] = c
  BY <1>1 DEF LetterSet, LetterRank
<1>2. DOMAIN Letters \subseteq Nat
  BY TypoAssumption
<1> QED BY <1>1, <1>2

\* The letters of names are letters.
LEMMA NameLetters ==
  ASSUME NEW a \in Seq(LetterSet)
  PROVE  Len(a) \in Nat /\ \A k \in Nat \ {0} : k <= Len(a) => a[k] \in LetterSet
BY LenProperties, ElementOfSeq

\* Names in order differ first where one ends or has the earlier letter; of two
\* names that differ, one comes first.
LEMMA PrecedesBefore ==
  ASSUME NEW a \in Seq(LetterSet), NEW b \in Seq(LetterSet)
  PROVE  /\ Precedes(a, b) <=> \E k \in Nat \ {0} : Before(a, b, k)
         /\ a # b => Precedes(a, b) \/ \E k \in Nat \ {0} : Before(b, a, k)
<1> DEFINE K == {i \in 1..(Len(a) + 1) : i > Len(a) \/ i > Len(b) \/ a[i] # b[i]}
           m == Min(K)
<1>1. Len(a) \in Nat /\ Len(b) \in Nat
  BY NameLetters
<1>2. Len(a) + 1 \in K /\ K \in SUBSET Nat
  BY <1>1
<1>3. m \in K /\ \A i \in K : m <= i
  <2> HIDE DEF K
  <2> QED BY <1>2, MinProperties
<1>4. Precedes(a, b) <=> a # b /\ (m > Len(a) \/ (m <= Len(b) /\ LetterRank(a[m]) < LetterRank(b[m])))
  BY DEF Precedes
<1> HIDE DEF m
<1>5. m \in Nat \ {0} /\ m <= Len(a) + 1 /\ (m > Len(a) \/ m > Len(b) \/ a[m] # b[m])
  BY <1>1, <1>3
<1>6. \A j \in Nat \ {0} : j < m => j <= Len(a) /\ j <= Len(b) /\ a[j] = b[j]
  <2> TAKE j \in Nat \ {0}
  <2> HAVE j < m
  <2>1. j \in 1..(Len(a) + 1) /\ ~(m <= j)
    BY <1>1, <1>5
  <2>2. j \notin K
    BY <1>3, <2>1
  <2> QED BY <1>1, <2>1, <2>2
<1>7. ASSUME a # b, m > Len(a) PROVE m <= Len(b)
  <2> SUFFICES ASSUME m > Len(b) PROVE FALSE
    BY <1>1, <1>5
  <2>1. Len(b) = Len(a)
    <3>1. m = Len(a) + 1
      BY <1>1, <1>5, <1>7
    <3>2. Len(b) <= Len(a)
      BY <1>1, <3>1
    <3>3. CASE Len(a) = 0
      BY <1>1, <3>2, <3>3
    <3>4. CASE Len(a) # 0
      <4>1. Len(a) \in Nat \ {0} /\ Len(a) < m
        BY <1>1, <3>1, <3>4
      <4>2. Len(a) <= Len(b)
        BY <1>6, <4>1
      <4> QED BY <1>1, <3>2, <4>2
    <3> QED BY <3>3, <3>4
  <2>2. \A j \in 1..Len(a) : a[j] = b[j]
    <3> TAKE j \in 1..Len(a)
    <3>1. j \in Nat \ {0} /\ j < m
      BY <1>1, <1>5, <1>7
    <3> QED BY <1>6, <3>1
  <2> QED BY <1>7, <2>1, <2>2, SeqEqual
<1>8. Precedes(a, b) => Before(a, b, m)
  BY <1>4, <1>6, <1>7 DEF Before
<1>9. ASSUME NEW k \in Nat \ {0}, Before(a, b, k) PROVE Precedes(a, b)
  <2>1. k <= m
    <3> SUFFICES ASSUME m < k PROVE FALSE
      BY <1>5, <1>9
    <3>1. m <= Len(a) /\ a[m] = b[m] /\ k <= Len(b)
      BY <1>5, <1>9 DEF Before
    <3> QED BY <1>1, <1>5, <3>1
  <2>2. CASE k > Len(a)
    <3>1. k <= Len(b)
      BY <1>9 DEF Before
    <3>2. Len(a) < Len(b) /\ m > Len(a)
      BY <1>1, <1>5, <2>1, <2>2, <3>1
    <3>3. a # b
      BY <1>1, <3>2
    <3> QED BY <1>4, <3>2, <3>3
  <2>3. CASE k <= Len(a)
    <3>1. LetterRank(a[k]) < LetterRank(b[k]) /\ k <= Len(b)
      BY <1>1, <1>9, <2>3 DEF Before
    <3>2. LetterRank(a[k]) \in Nat /\ LetterRank(b[k]) \in Nat
      BY <2>3, <3>1, NameLetters, RankProperties
    <3>3. a[k] # b[k]
      BY <3>1, <3>2
    <3>4. k \in K
      BY <1>1, <2>3, <3>3
    <3>5. k = m
      BY <1>3, <1>5, <2>1, <3>4
    <3> QED BY <1>4, <3>1, <3>3, <3>5
  <2> QED BY <1>1, <2>2, <2>3
<1>10. ASSUME a # b, ~Precedes(a, b) PROVE Before(b, a, m)
  <2>1. m <= Len(a)
    BY <1>1, <1>4, <1>5, <1>10
  <2>2. m > Len(b) \/ LetterRank(b[m]) < LetterRank(a[m])
    <3> SUFFICES ASSUME m <= Len(b) PROVE LetterRank(b[m]) < LetterRank(a[m])
      BY <1>1, <1>5
    <3>1. a[m] # b[m] /\ a[m] \in LetterSet /\ b[m] \in LetterSet
      BY <1>1, <1>5, <2>1, NameLetters
    <3>2. LetterRank(a[m]) \in Nat /\ LetterRank(b[m]) \in Nat /\ LetterRank(a[m]) # LetterRank(b[m])
      BY <3>1, RankProperties
    <3>3. ~(LetterRank(a[m]) < LetterRank(b[m]))
      BY <1>4, <1>10
    <3> QED BY <3>2, <3>3
  <2> QED BY <1>6, <2>1, <2>2 DEF Before
<1> QED BY <1>5, <1>8, <1>9, <1>10

\* The order of names is a strict total order.
LEMMA PrecedesOrders ==
  ASSUME NEW a \in Seq(LetterSet), NEW b \in Seq(LetterSet)
  PROVE  /\ a # b => Precedes(a, b) \/ Precedes(b, a)
         /\ \A c \in Seq(LetterSet) : Precedes(a, b) /\ Precedes(b, c) => Precedes(a, c)
<1>1. a # b => Precedes(a, b) \/ Precedes(b, a)
  BY PrecedesBefore
<1>2. ASSUME NEW c \in Seq(LetterSet), Precedes(a, b), Precedes(b, c) PROVE Precedes(a, c)
  <2>1. PICK k \in Nat \ {0} : Before(a, b, k)
    BY <1>2, PrecedesBefore
  <2>2. PICK l \in Nat \ {0} : Before(b, c, l)
    BY <1>2, PrecedesBefore
  <2>3. Len(a) \in Nat /\ Len(b) \in Nat /\ Len(c) \in Nat
    BY NameLetters
  <2>4. CASE k < l
    <3>1. k <= Len(b) /\ b[k] = c[k] /\ k <= Len(c)
      BY <2>2, <2>3, <2>4 DEF Before
    <3>2. \A j \in Nat \ {0} : j < k => j <= Len(a) /\ a[j] = c[j]
      BY <2>1, <2>2, <2>4 DEF Before
    <3>3. k > Len(a) \/ LetterRank(a[k]) < LetterRank(c[k])
      BY <2>1, <3>1 DEF Before
    <3>4. Before(a, c, k)
      BY <3>1, <3>2, <3>3 DEF Before
    <3> QED BY <3>4, PrecedesBefore
  <2>5. CASE k = l
    <3>1. k <= Len(b) /\ k <= Len(c)
      BY <2>1, <2>2, <2>5 DEF Before
    <3>2. \A j \in Nat \ {0} : j < k => j <= Len(a) /\ a[j] = c[j]
      BY <2>1, <2>2, <2>5 DEF Before
    <3>3. LetterRank(b[k]) < LetterRank(c[k])
      BY <2>2, <2>3, <2>5, <3>1 DEF Before
    <3>4. k > Len(a) \/ LetterRank(a[k]) < LetterRank(c[k])
      <4> SUFFICES ASSUME k <= Len(a) PROVE LetterRank(a[k]) < LetterRank(c[k])
        BY <2>3
      <4>1. LetterRank(a[k]) < LetterRank(b[k])
        BY <2>1, <2>3 DEF Before
      <4>2. LetterRank(a[k]) \in Nat /\ LetterRank(b[k]) \in Nat /\ LetterRank(c[k]) \in Nat
        BY <3>1, NameLetters, RankProperties
      <4> QED BY <3>3, <4>1, <4>2
    <3>5. Before(a, c, k)
      BY <3>1, <3>2, <3>4 DEF Before
    <3> QED BY <3>5, PrecedesBefore
  <2>6. CASE l < k
    <3>1. l <= Len(a) /\ a[l] = b[l] /\ l <= Len(b) /\ l <= Len(c)
      BY <2>1, <2>2, <2>3, <2>6 DEF Before
    <3>2. \A j \in Nat \ {0} : j < l => j <= Len(a) /\ a[j] = c[j]
      BY <2>1, <2>2, <2>6 DEF Before
    <3>3. LetterRank(a[l]) < LetterRank(c[l])
      BY <2>2, <2>3, <3>1 DEF Before
    <3>4. Before(a, c, l)
      BY <3>1, <3>2, <3>3 DEF Before
    <3> QED BY <3>4, PrecedesBefore
  <2> QED BY <2>4, <2>5, <2>6
<1> QED BY <1>1, <1>2

-----------------------------------------------------------------------------
(* The typo search *)

\* A word of a line and a name are words of one alphabet.
Typed(w) == \E T : w \in Seq(T) /\ LetterSet \subseteq T

Admissible(n) == Plausible(n) /\ Len(n) <= MaxNameBytes
Near(w, n) == Admissible(n) /\ AlignmentCost(w, n) <= MaxDistance(Len(w))
Nearer(w, n, o) ==
  \/ AlignmentCost(w, n) < AlignmentCost(w, o)
  \/ AlignmentCost(w, n) = AlignmentCost(w, o) /\ Precedes(n, o)

Searches ==
  [best : Seq(LetterSet) \cup {NoName}, distance : Nat, exact : BOOLEAN, stats : Nat]

\* What a search has found is among the names S, near the word but not the word.
Sound(r, w, S) ==
  /\ r \in Searches
  /\ r.best # NoName => /\ r.best \in S /\ Near(w, r.best)
                        /\ r.distance = AlignmentCost(w, r.best) /\ r.distance > 0
  /\ r.exact => w \in S /\ Admissible(w)

\* Of the names S it has missed none: not the word, and while the budget lasts
\* none that is nearer than the best or as near and before it.
Complete(r, w, S) ==
  \A n \in S : Near(w, n) =>
    /\ n = w => r.exact
    /\ n # w /\ r.stats < MaxStats => r.best # NoName /\ (n = r.best \/ Nearer(w, r.best, n))

\* The distance of a name from a word.
LEMMA NameDistance ==
  ASSUME NEW w, Typed(w), NEW n \in Seq(LetterSet)
  PROVE  /\ AlignmentCost(w, n) \in Nat
         /\ AlignmentCost(w, n) = 0 <=> n = w
         /\ BoundedOsa(w, n, MaxDistance(Len(w))) =
              IF AlignmentCost(w, n) <= MaxDistance(Len(w)) THEN AlignmentCost(w, n) ELSE NoDistance
         /\ MaxDistance(Len(w)) < NoDistance /\ MaxDistance(Len(w)) \in Nat
<1>1. MaxDistance(Len(w)) \in Nat /\ MaxDistance(Len(w)) < NoDistance
  BY DEF MaxDistance, NoDistance
<1>2. PICK T : w \in Seq(T) /\ LetterSet \subseteq T
  BY DEF Typed
<1>3. n \in Seq(T)
  BY <1>2, SeqMonotonic
<1> QED BY <1>1, <1>2, <1>3, BoundedIsExact

\* Nearer is transitive, and of two names as near one comes first.
LEMMA NearerOrders ==
  ASSUME NEW w, Typed(w), NEW a \in Seq(LetterSet), NEW b \in Seq(LetterSet)
  PROVE  /\ a # b => Nearer(w, a, b) \/ Nearer(w, b, a)
         /\ \A c \in Seq(LetterSet) : Nearer(w, a, b) /\ Nearer(w, b, c) => Nearer(w, a, c)
<1>1. AlignmentCost(w, a) \in Nat /\ AlignmentCost(w, b) \in Nat
  BY NameDistance
<1>2. a # b => Precedes(a, b) \/ Precedes(b, a)
  BY PrecedesOrders
<1>3. ASSUME NEW c \in Seq(LetterSet), Nearer(w, a, b), Nearer(w, b, c) PROVE Nearer(w, a, c)
  <2>1. AlignmentCost(w, c) \in Nat
    BY NameDistance
  <2>2. Precedes(a, b) /\ Precedes(b, c) => Precedes(a, c)
    BY PrecedesOrders
  <2> QED BY <1>1, <1>3, <2>1, <2>2 DEF Nearer
<1> QED BY <1>1, <1>2, <1>3 DEF Nearer

\* What a useful distance says of a name, and what it says that there is none.
LEMMA UsefulProperties ==
  ASSUME NEW w, Typed(w), NEW n \in Seq(LetterSet), NEW r \in Searches
  PROVE  LET d == UsefulDistance(r, w, n)
         IN  /\ d # NoDistance => /\ Near(w, n) /\ d = AlignmentCost(w, n) /\ d \in Nat
                                  /\ d = 0 <=> n = w
                                  /\ d = 0 \/ Improves(r, d, n)
             /\ d = NoDistance /\ Near(w, n) => n # w /\ ~Improves(r, AlignmentCost(w, n), n)
<1> DEFINE d == BoundedOsa(w, n, MaxDistance(Len(w)))
           x == AlignmentCost(w, n)
           max == MaxDistance(Len(w))
<1>1. /\ x \in Nat /\ (x = 0 <=> n = w) /\ d = (IF x <= max THEN x ELSE NoDistance)
      /\ max < NoDistance /\ max \in Nat
  BY NameDistance
<1>2. UsefulDistance(r, w, n) =
        IF Len(n) <= MaxNameBytes /\ Plausible(n) /\ d # NoDistance /\ (d = 0 \/ Improves(r, d, n))
        THEN d ELSE NoDistance
  BY DEF UsefulDistance
<1>3. Near(w, n) <=> Len(n) <= MaxNameBytes /\ Plausible(n) /\ x <= max
  BY DEF Near, Admissible
<1>4. d # NoDistance <=> x <= max
  <2> HIDE DEF d, x, max
  <2> QED BY <1>1 DEF NoDistance
<1> HIDE DEF d, x, max
<1> QED BY <1>1, <1>2, <1>3, <1>4 DEF x

\* A search that takes a name stays sound and complete.
LEMMA AcceptKeeps ==
  ASSUME NEW w, Typed(w), NEW n \in Seq(LetterSet), NEW S \in SUBSET Seq(LetterSet),
         NEW C \in SUBSET Seq(LetterSet),
         NEW r, Sound(r, w, S), NEW d, d = AlignmentCost(w, n), Near(w, n),
         d = 0 \/ Improves(r, d, n)
  PROVE  /\ Sound(Accept(r, d, n), w, S \cup {n}) /\ Accept(r, d, n).stats = r.stats
         /\ Complete(r, w, C) => Complete(Accept(r, d, n), w, C \cup {n})
<1> DEFINE y == Accept(r, d, n)
<1>1. d \in Nat /\ (d = 0 <=> n = w) /\ n # NoName
  BY NameDistance, TypoAssumption
<1>2. CASE d = 0
  <2>1. y = [r EXCEPT !.exact = TRUE] /\ n = w
    BY <1>1, <1>2 DEF Accept
  <2>2. /\ y \in Searches /\ y.best = r.best /\ y.distance = r.distance /\ y.exact
        /\ y.stats = r.stats
    BY <2>1 DEF Sound, Searches
  <2> HIDE DEF y
  <2>3. Sound(y, w, S \cup {n})
    BY <2>1, <2>2 DEF Sound, Near
  <2>4. Complete(r, w, C) => Complete(y, w, C \cup {n})
    BY <2>1, <2>2 DEF Complete
  <2> QED BY <2>2, <2>3, <2>4 DEF y
<1>3. CASE d # 0
  <2>1. y = [r EXCEPT !.best = n, !.distance = d]
    BY <1>3 DEF Accept
  <2>2. /\ y \in Searches /\ y.best = n /\ y.distance = d /\ y.exact = r.exact
        /\ y.stats = r.stats
    BY <1>1, <2>1 DEF Sound, Searches
  <2>3. Sound(y, w, S \cup {n})
    <3> HIDE DEF y
    <3> QED BY <1>1, <1>3, <2>2 DEF Sound
  <2>4. ASSUME Complete(r, w, C) PROVE Complete(y, w, C \cup {n})
    <3>1. ASSUME NEW o \in C, Near(w, o), o # w, r.stats < MaxStats PROVE o = n \/ Nearer(w, n, o)
      <4>1. r.best # NoName /\ (o = r.best \/ Nearer(w, r.best, o))
        BY <2>4, <3>1 DEF Complete
      <4>2. d < r.distance \/ (d = r.distance /\ Precedes(n, r.best))
        BY <1>3, <4>1 DEF Improves
      <4>3. r.best \in Seq(LetterSet) /\ r.distance = AlignmentCost(w, r.best)
        BY <4>1 DEF Sound
      <4>4. Nearer(w, n, r.best)
        BY <4>2, <4>3 DEF Nearer
      <4>5. o \in Seq(LetterSet)
        OBVIOUS
      <4> QED BY <4>1, <4>3, <4>4, <4>5, NearerOrders
    <3>2. \A o \in C : Near(w, o) /\ o = w => r.exact
      BY <2>4 DEF Complete
    <3> HIDE DEF y
    <3> QED BY <1>1, <1>3, <2>2, <3>1, <3>2 DEF Complete
  <2> QED BY <2>2, <2>3, <2>4
<1> QED BY <1>2, <1>3

\* A search that passes over a name that is no improvement has missed nothing.
LEMMA PassingKeeps ==
  ASSUME NEW w, Typed(w), NEW n \in Seq(LetterSet), NEW S \in SUBSET Seq(LetterSet),
         NEW C \in SUBSET Seq(LetterSet),
         NEW r, Sound(r, w, S), Complete(r, w, C),
         Near(w, n) => n # w /\ ~Improves(r, AlignmentCost(w, n), n)
  PROVE  Complete(r, w, C \cup {n})
<1> SUFFICES ASSUME Near(w, n) PROVE r.best # NoName /\ (n = r.best \/ Nearer(w, r.best, n))
  BY DEF Complete
<1> DEFINE d == AlignmentCost(w, n)
<1>1. r.best # NoName /\ ~(d < r.distance) /\ ~(d = r.distance /\ Precedes(n, r.best))
  BY DEF Improves
<1>2. r.best \in Seq(LetterSet) /\ r.distance = AlignmentCost(w, r.best)
  BY <1>1 DEF Sound
<1>3. d \in Nat /\ r.distance \in Nat
  BY <1>2, NameDistance
<1>4. ~Nearer(w, n, r.best)
  BY <1>1, <1>2 DEF Nearer
<1> QED BY <1>1, <1>2, <1>4, NearerOrders

\* A name of the shell is taken or passed over.
LEMMA TakeNameKeeps ==
  ASSUME NEW w, Typed(w), NEW n \in Seq(LetterSet), NEW S \in SUBSET Seq(LetterSet),
         NEW r, Sound(r, w, S), Complete(r, w, S)
  PROVE  Sound(TakeName(r, w, n), w, S \cup {n}) /\ Complete(TakeName(r, w, n), w, S \cup {n})
<1> DEFINE d == UsefulDistance(r, w, n)
<1>1. r \in Searches
  BY DEF Sound
<1>2. /\ d # NoDistance => Near(w, n) /\ d = AlignmentCost(w, n) /\ (d = 0 \/ Improves(r, d, n))
      /\ d = NoDistance /\ Near(w, n) => n # w /\ ~Improves(r, AlignmentCost(w, n), n)
  BY <1>1, UsefulProperties
<1>3. TakeName(r, w, n) = IF d = NoDistance THEN r ELSE Accept(r, d, n)
  BY DEF TakeName
<1> HIDE DEF d
<1>4. CASE d = NoDistance
  <2>1. Sound(r, w, S \cup {n})
    BY DEF Sound
  <2>2. Complete(r, w, S \cup {n})
    BY <1>2, <1>4, PassingKeeps
  <2> QED BY <1>3, <1>4, <2>1, <2>2
<1>5. CASE d # NoDistance
  <2>1. Sound(Accept(r, d, n), w, S \cup {n}) /\ Complete(Accept(r, d, n), w, S \cup {n})
    BY <1>2, <1>5, AcceptKeeps
  <2> QED BY <1>3, <1>5, <2>1
<1> QED BY <1>4, <1>5

\* An entry counts among the names when it would run.
Runs(e) == IF e.exec THEN {e.name} ELSE {}

\* An entry of a directory is taken or passed over, within the budget.
LEMMA TakeEntryKeeps ==
  ASSUME NEW w, Typed(w), NEW e, e.name \in Seq(LetterSet), NEW S \in SUBSET Seq(LetterSet),
         NEW C \in SUBSET Seq(LetterSet),
         NEW r, Sound(r, w, S)
  PROVE  /\ Sound(TakeEntry(r, w, e), w, S \cup Runs(e))
         /\ Complete(r, w, C) => Complete(TakeEntry(r, w, e), w, C \cup Runs(e))
<1> DEFINE n == e.name
           d == UsefulDistance(r, w, n)
           spent == IF d = 0 THEN r ELSE [r EXCEPT !.stats = r.stats + 1]
<1>1. r \in Searches
  BY DEF Sound
<1>2. /\ d # NoDistance => /\ Near(w, n) /\ d = AlignmentCost(w, n) /\ (d = 0 \/ Improves(r, d, n))
                           /\ (d = 0 <=> n = w)
      /\ d = NoDistance /\ Near(w, n) => n # w /\ ~Improves(r, AlignmentCost(w, n), n)
  BY <1>1, UsefulProperties
<1>3. TakeEntry(r, w, e) = IF d = NoDistance \/ (d # 0 /\ r.stats >= MaxStats) THEN r
                           ELSE IF e.exec THEN Accept(spent, d, n) ELSE spent
  BY DEF TakeEntry
<1>4. n \in Seq(LetterSet) /\ Runs(e) \subseteq {n} /\ (e.exec => Runs(e) = {n}) /\ (~e.exec => Runs(e) = {})
  BY DEF Runs
<1> HIDE DEF d, n
<1>5. /\ spent \in Searches /\ spent.best = r.best /\ spent.distance = r.distance
      /\ spent.exact = r.exact /\ r.stats <= spent.stats /\ r.stats \in Nat /\ spent.stats \in Nat
  BY <1>1 DEF Searches
<1> HIDE DEF spent
<1>6. Sound(spent, w, S) /\ (Complete(r, w, C) => Complete(spent, w, C))
  <2>1. Sound(spent, w, S)
    BY <1>5 DEF Sound
  <2>2. spent.stats < MaxStats => r.stats < MaxStats
    BY <1>5, TypoAssumption
  <2>3. Complete(r, w, C) => Complete(spent, w, C)
    BY <1>5, <2>2 DEF Complete
  <2> QED BY <2>1, <2>3
<1>7. CASE d = NoDistance
  <2>1. Sound(r, w, S \cup Runs(e))
    BY DEF Sound
  <2>2. Complete(r, w, C) => Complete(r, w, C \cup {n})
    BY <1>2, <1>4, <1>7, PassingKeeps
  <2>3. Complete(r, w, C) => Complete(r, w, C \cup Runs(e))
    BY <1>4, <2>2 DEF Complete
  <2> QED BY <1>3, <1>7, <2>1, <2>3
<1>8. CASE d # NoDistance /\ d # 0 /\ r.stats >= MaxStats
  <2>1. Sound(r, w, S \cup Runs(e))
    BY DEF Sound
  <2>2. ~(r.stats < MaxStats)
    BY <1>5, <1>8, TypoAssumption
  <2>3. Complete(r, w, C) => Complete(r, w, C \cup Runs(e))
    BY <1>2, <1>4, <1>8, <2>2 DEF Complete
  <2> QED BY <1>3, <1>8, <2>1, <2>3
<1>9. CASE d # NoDistance /\ (d = 0 \/ ~(r.stats >= MaxStats))
  <2>1. CASE e.exec
    <3>1. d = 0 \/ Improves(spent, d, n)
      BY <1>2, <1>5, <1>9 DEF Improves
    <3>2. /\ Sound(Accept(spent, d, n), w, S \cup {n})
          /\ Complete(spent, w, C) => Complete(Accept(spent, d, n), w, C \cup {n})
      BY <1>2, <1>4, <1>6, <1>9, <3>1, AcceptKeeps
    <3> QED BY <1>3, <1>4, <1>6, <1>9, <2>1, <3>2
  <2>2. CASE ~e.exec
    <3>1. S \cup Runs(e) = S /\ C \cup Runs(e) = C
      BY <1>4, <2>2
    <3> QED BY <1>3, <1>6, <1>9, <2>2, <3>1
  <2> QED BY <2>1, <2>2
<1> QED BY <1>7, <1>8, <1>9

\* The names of the shell are searched one after the other.
LEMMA TakeNamesKeeps ==
  ASSUME NEW w, Typed(w), NEW names \in Seq(Seq(LetterSet))
  PROVE  LET S == {names[j] : j \in DOMAIN names}
         IN  Sound(TakeNames(w, names), w, S) /\ Complete(TakeNames(w, names), w, S)
<1> DEFINE N == Len(names)
           D == 0..N
           F == [k \in 1..N |-> [r \in Searches |-> TakeName(r, w, names[k])]]
           body(f) == [k \in D |-> IF k = 0 THEN NoSearch ELSE TakeName(f[k - 1], w, names[k])]
           f == CHOOSE f : f = body(f)
           upto(k) == {names[j] : j \in 1..k}
<1>1. N \in Nat /\ DOMAIN names = 1..N /\ \A k \in 1..N : names[k] \in Seq(LetterSet)
  BY LenProperties, ElementOfSeq
<1>2. TakeNames(w, names) = f[N]
  BY DEF TakeNames
<1>3. NoSearch \in Searches
  BY DEF NoSearch, Searches, NoDistance
<1>4. ASSUME NEW r \in Searches, NEW k \in 1..N PROVE TakeName(r, w, names[k]) \in Searches
  <2> DEFINE n == names[k]
             d == UsefulDistance(r, w, n)
  <2>1. n \in Seq(LetterSet)
    BY <1>1
  <2>2. d # NoDistance => d \in Nat
    BY <2>1, UsefulProperties
  <2> HIDE DEF d, n
  <2>3. d \in Nat => Accept(r, d, n) \in Searches
    BY <2>1 DEF Accept, Searches
  <2> QED BY <2>2, <2>3 DEF TakeName, d, n
<1> HIDE DEF D, body
<1>5. \E g : g = body(g)
  <2>1. \A k \in 1..N : \A r \in Searches : F[k][r] \in Searches /\ F[k][r] = TakeName(r, w, names[k])
    BY <1>4
  <2> HIDE DEF F, N
  <2>2. StepsIn(N, Searches, NoSearch, F)
    BY <1>3, <2>1 DEF StepsIn
  <2>3. PICK g : Steps(g, N, Searches, NoSearch, F)
    BY <1>1, <2>2, ForwardRecursion
  <2>4. g \in [0..N -> Searches] /\ g[0] = NoSearch /\ \A k \in 1..N : g[k] = F[k][g[k - 1]]
    BY <2>3 DEF Steps
  <2>5. ASSUME NEW k \in 0..N, k # 0 PROVE g[k] = TakeName(g[k - 1], w, names[k])
    <3>1. k \in 1..N /\ k - 1 \in 0..N
      BY <1>1, <2>5
    <3> QED BY <2>1, <2>4, <3>1
  <2>6. g = body(g)
    BY <2>4, <2>5 DEF body, D
  <2> QED BY <2>6
<1>6. f = body(f)
  BY <1>5
<1> HIDE DEF f
<1>7. f[0] = NoSearch /\ \A k \in 0..(N - 1) : f[k + 1] = TakeName(f[k], w, names[k + 1])
  <2>1. f[0] = NoSearch
    <3>1. 0 \in D
      BY <1>1 DEF D
    <3> QED BY <1>6, <3>1 DEF body
  <2>2. ASSUME NEW k \in 0..(N - 1) PROVE f[k + 1] = TakeName(f[k], w, names[k + 1])
    <3>1. k + 1 \in D /\ k + 1 # 0 /\ (k + 1) - 1 = k
      BY <1>1 DEF D
    <3> QED BY <1>6, <3>1 DEF body
  <2> QED BY <2>1, <2>2
<1> DEFINE Ok == {k \in 0..N : Sound(f[k], w, upto(k)) /\ Complete(f[k], w, upto(k))}
<1>8. 0 \in Ok
  <2>1. upto(0) = {}
    OBVIOUS
  <2>2. Sound(NoSearch, w, {}) /\ Complete(NoSearch, w, {})
    BY <1>3 DEF Sound, Complete, NoSearch
  <2> HIDE DEF upto, N
  <2>3. Sound(f[0], w, upto(0)) /\ Complete(f[0], w, upto(0))
    BY <1>7, <2>1, <2>2
  <2>4. 0 \in 0..N
    BY <1>1
  <2> QED BY <2>3, <2>4
<1>9. ASSUME NEW k \in 0..(N - 1), k \in Ok PROVE k + 1 \in Ok
  <2>1. k + 1 \in 1..N /\ k + 1 \in 0..N
    BY <1>1
  <2>2. upto(k + 1) = upto(k) \cup {names[k + 1]}
    <3>1. 1..(k + 1) = (1..k) \cup {k + 1}
      BY <1>1
    <3> QED BY <3>1
  <2>3. upto(k) \in SUBSET Seq(LetterSet)
    <3>1. \A j \in 1..k : j \in 1..N
      BY <1>1
    <3> QED BY <1>1, <3>1
  <2>4. names[k + 1] \in Seq(LetterSet)
    BY <1>1, <2>1
  <2> HIDE DEF upto, N
  <2>5. Sound(f[k], w, upto(k)) /\ Complete(f[k], w, upto(k))
    BY <1>9
  <2>6. /\ Sound(TakeName(f[k], w, names[k + 1]), w, upto(k) \cup {names[k + 1]})
        /\ Complete(TakeName(f[k], w, names[k + 1]), w, upto(k) \cup {names[k + 1]})
    BY <2>3, <2>4, <2>5, TakeNameKeeps
  <2> QED BY <1>7, <2>1, <2>2, <2>6
<1> HIDE DEF Ok, N, upto
<1>10. 0..N \subseteq Ok
  BY <1>1, <1>8, <1>9, NatSteps
<1>11. N \in Ok
  BY <1>1, <1>10
<1>12. Sound(f[N], w, upto(N)) /\ Complete(f[N], w, upto(N))
  BY <1>11 DEF Ok
<1> QED BY <1>1, <1>2, <1>12 DEF upto

-----------------------------------------------------------------------------
(* The search in a check *)

\* The entries of the first n directories on PATH, as far as they can be read,
\* and the names the shell and some entries give.
Listed(sh, n) == UNION {sh.dirs[d] : d \in {sh.path[k] : k \in 1..n} \cap DOMAIN sh.dirs}
NamesOf(sh, E) == ToSet(sh.names) \cup UNION {Runs(e) : e \in E}
WithinCaps(sh) == \A d \in DOMAIN sh.dirs : Cardinality(sh.dirs[d]) <= MaxDirEntries

\* While directories are read, ds still to come and the entries es of the one at
\* hand: what was found is a name that is there, and no name that was listed and
\* has come is missed.
InScan(sh, w, ds, es, ex, r) ==
  LET n == Len(sh.path) - Len(ds)
  IN  /\ n \in 0..Len(sh.path) /\ ds = SubSeq(sh.path, n + 1, Len(sh.path))
      /\ es \subseteq Listed(sh, n)
      /\ Sound(r, w, NamesOf(sh, Listed(sh, n)))
      /\ WithinCaps(sh) =>
           /\ IsFiniteSet(es) /\ ex \in Nat /\ ex + Cardinality(es) <= MaxDirEntries
           /\ Complete(r, w, NamesOf(sh, Listed(sh, n) \ es))

\* When the search is over the same is so of all directories.
AfterScan(sh, w, r) ==
  /\ Sound(r, w, NamesOf(sh, Listed(sh, Len(sh.path))))
  /\ WithinCaps(sh) => Complete(r, w, NamesOf(sh, Listed(sh, Len(sh.path))))

SearchInv ==
  /\ Reading
  /\ stage \in {"lex", "names"} => shell = NoShell /\ entries = {} /\ examined = 0
  /\ stage \in {"names", "scan"} => Word # NoName
  /\ stage = "scan" => shell \in Shells /\ InScan(shell, Word, dirs, entries, examined, search)
  /\ stage = "danger" /\ shell # NoShell =>
       /\ shell \in Shells /\ Word # NoName /\ AfterScan(shell, Word, search)
       /\ suggestion = Suggestion(search)

\* What the assumptions say of a shell.
LEMMA ShellProperties ==
  ASSUME NEW sh \in Shells
  PROVE  /\ sh.names \in Seq(Seq(LetterSet)) /\ Len(sh.path) \in Nat
         /\ sh.path \in Seq({sh.path[k] : k \in DOMAIN sh.path})
         /\ \A d \in DOMAIN sh.dirs : /\ IsFiniteSet(sh.dirs[d])
                                      /\ \A e \in sh.dirs[d] : e.name \in Seq(LetterSet)
         /\ \A n : \A e \in Listed(sh, n) : e.name \in Seq(LetterSet)
         /\ \A n : \A E \in SUBSET Listed(sh, n) : NamesOf(sh, E) \in SUBSET Seq(LetterSet)
<1>1. /\ sh.names \in Seq(Seq(LetterSet)) /\ Len(sh.path) \in Nat
      /\ sh.path \in Seq({sh.path[k] : k \in DOMAIN sh.path})
      /\ \A d \in DOMAIN sh.dirs : /\ IsFiniteSet(sh.dirs[d])
                                   /\ \A e \in sh.dirs[d] : e.name \in Seq(LetterSet)
  BY AnalysisAssumption, LenProperties
<1>2. \A n : \A e \in Listed(sh, n) : e.name \in Seq(LetterSet)
  BY <1>1 DEF Listed
<1>3. \A n \in ToSet(sh.names) : n \in Seq(LetterSet)
  BY <1>1, LenProperties, ElementOfSeq DEF ToSet
<1>4. ASSUME NEW n, NEW E \in SUBSET Listed(sh, n) PROVE NamesOf(sh, E) \in SUBSET Seq(LetterSet)
  BY <1>2, <1>3 DEF NamesOf, Runs
<1> QED BY <1>1, <1>2, <1>4

\* Opening one more directory lists its entries.
LEMMA ListedNext ==
  ASSUME NEW sh, NEW n \in Nat
  PROVE  /\ Listed(sh, n) \subseteq Listed(sh, n + 1)
         /\ sh.path[n + 1] \in DOMAIN sh.dirs =>
              Listed(sh, n + 1) = Listed(sh, n) \cup sh.dirs[sh.path[n + 1]]
         /\ sh.path[n + 1] \notin DOMAIN sh.dirs => Listed(sh, n + 1) = Listed(sh, n)
         /\ \A k \in 1..n : sh.path[k] \in DOMAIN sh.dirs => sh.dirs[sh.path[k]] \subseteq Listed(sh, n)
<1> DEFINE some(m) == {sh.path[k] : k \in 1..m}
<1>1. 1..(n + 1) = (1..n) \cup {n + 1}
  OBVIOUS
<1>2. some(n + 1) = some(n) \cup {sh.path[n + 1]}
  BY <1>1
<1>3. \A m : Listed(sh, m) = UNION {sh.dirs[d] : d \in some(m) \cap DOMAIN sh.dirs}
  BY DEF Listed
<1>4. \A k \in 1..n : sh.path[k] \in some(n)
  OBVIOUS
<1> HIDE DEF some
<1> QED BY <1>2, <1>3, <1>4

\* More names are available, fewer are missed.
LEMMA NamesGrow ==
  ASSUME NEW w, NEW r, NEW S, NEW U, S \subseteq U
  PROVE  (Sound(r, w, S) => Sound(r, w, U)) /\ (Complete(r, w, U) => Complete(r, w, S))
BY DEF Sound, Complete

\* The word of a line is text.
LEMMA WordTyped ==
  ASSUME Reading, Word # NoName
  PROVE  Typed(Word)
<1> DEFINE t == lx.tokens
<1>1. t \in Seq(Tokens(line))
  BY DEF Reading, Held, Lexers
<1>2. t # <<>> /\ Word = t[1].text
  BY DEF Word, LiteralCommandWord
<1>3. t[1] \in Tokens(line)
  BY <1>1, <1>2, EmptySeq, ElementOfSeq
<1>4. Word \in Seq(Chars(line) \cup Signs)
  BY <1>2, <1>3 DEF Tokens, Text
<1>5. Word \in Seq(Chars(line) \cup Signs \cup LetterSet)
  BY <1>4, SeqMonotonic
<1> QED BY <1>5 DEF Typed

\* The search begins with the names of the shell.
LEMMA ScanBegins ==
  ASSUME NEW sh \in Shells, NEW w, Typed(w)
  PROVE  InScan(sh, w, sh.path, {}, 0, TakeNames(w, sh.names))
<1> DEFINE r == TakeNames(w, sh.names)
           N == Len(sh.path)
<1>1. N \in Nat /\ N - N = 0 /\ 0 \in 0..N /\ sh.path = SubSeq(sh.path, 0 + 1, N)
  <2>1. N \in Nat /\ sh.path = SubSeq(sh.path, 1, N)
    BY ShellProperties, SubSeqFull
  <2>2. 0 + 1 = 1
    OBVIOUS
  <2> HIDE DEF N
  <2> QED BY <2>1, <2>2
<1>2. Sound(r, w, ToSet(sh.names)) /\ Complete(r, w, ToSet(sh.names))
  BY ShellProperties, TakeNamesKeeps DEF ToSet
<1>3. Listed(sh, 0) = {}
  BY DEF Listed
<1>4. NamesOf(sh, {}) = ToSet(sh.names)
  BY DEF NamesOf
<1>5. IsFiniteSet({}) /\ 0 + Cardinality({}) <= MaxDirEntries /\ 0 \in Nat
  BY FS_EmptySet, AnalysisAssumption
<1>6. {} \ {} = {}
  OBVIOUS
<1> HIDE DEF r, N
<1> QED BY <1>1, <1>2, <1>3, <1>4, <1>5, <1>6 DEF InScan, r, N

\* Within the caps a directory is left when all its entries have come.
LEMMA AllCome ==
  ASSUME NEW sh, NEW w, NEW ds, NEW es, NEW ex, NEW r, InScan(sh, w, ds, es, ex, r),
         WithinCaps(sh), ~(es # {} /\ ex < MaxDirEntries)
  PROVE  es = {}
<1>1. IsFiniteSet(es) /\ ex \in Nat /\ ex + Cardinality(es) <= MaxDirEntries
  BY DEF InScan
<1>2. Cardinality(es) \in Nat /\ (Cardinality(es) = 0 => es = {}) /\ MaxDirEntries \in Nat
  BY <1>1, FS_CardinalityType, FS_EmptySet, AnalysisAssumption
<1> QED BY <1>1, <1>2

\* The directories still to come are the rest of the path.
LEMMA RestOfPath ==
  ASSUME NEW P, NEW path \in Seq(P), NEW n \in 0..Len(path), NEW ds,
         ds = SubSeq(path, n + 1, Len(path)), ds # <<>>
  PROVE  /\ n + 1 \in 1..Len(path) /\ Head(ds) = path[n + 1]
         /\ Tail(ds) = SubSeq(path, n + 1 + 1, Len(path))
         /\ Len(path) - Len(Tail(ds)) = n + 1
<1> DEFINE N == Len(path)
           m == n + 1
<1>1. N \in Nat /\ n \in 0..N /\ m \in Int /\ N \in Int /\ m + 1 \in Int
  OBVIOUS
<1>2. ~(N < m)
  BY <1>1, SubSeqEmpty
<1>3. m \in 1..N /\ N \in m..N
  BY <1>1, <1>2
<1>4. Head(ds) = path[m] /\ Tail(ds) = SubSeq(path, m + 1, N)
  BY <1>3, HeadTailOfSubSeq
<1>5. \A k \in (m + 1)..N : path[k] \in P
  <2>1. \A k \in (m + 1)..N : k \in 1..N
    BY <1>1
  <2> QED BY <2>1, ElementOfSeq
<1>6. Len(Tail(ds)) = IF m + 1 <= N THEN N - (m + 1) + 1 ELSE 0
  BY <1>1, <1>4, <1>5, SubSeqProperties
<1> DEFINE len == Len(Tail(ds))
<1>7. N - len = m
  <2> HIDE DEF len, N, m
  <2> QED BY SMTT(60), <1>3, <1>6 DEF len
<1> QED BY <1>3, <1>4, <1>7

\* A directory with nothing in it is within the cap on entries.
LEMMA NoneIsWithin == \A S : S = {} => /\ IsFiniteSet(S) /\ Cardinality(S) \in Nat
                                       /\ Cardinality(S) <= MaxDirEntries
<1> SUFFICES ASSUME NEW S, S = {}
             PROVE  IsFiniteSet(S) /\ Cardinality(S) \in Nat /\ Cardinality(S) <= MaxDirEntries
  OBVIOUS
<1>1. IsFiniteSet(S) /\ Cardinality(S) = 0
  BY FS_EmptySet
<1>2. MaxDirEntries \in Nat
  BY AnalysisAssumption
<1> DEFINE c == Cardinality(S)
<1> HIDE DEF c
<1>3. c = 0
  BY <1>1 DEF c
<1>4. c \in Nat /\ c <= MaxDirEntries
  BY <1>2, <1>3
<1> QED BY <1>1, <1>4 DEF c

\* The next directory is opened, or passed over.
LEMMA ScanOpens ==
  ASSUME NEW sh \in Shells, NEW w, NEW ds, NEW es, NEW ex, NEW r, InScan(sh, w, ds, es, ex, r),
         ~(es # {} /\ ex < MaxDirEntries), ds # <<>>, NEW new,
         new = IF Head(ds) \in DOMAIN sh.dirs \ {sh.path[k] : k \in 1..(Len(sh.path) - Len(ds))}
               THEN sh.dirs[Head(ds)] ELSE {}
  PROVE  InScan(sh, w, Tail(ds), new, 0, r)
<1> DEFINE N == Len(sh.path)
           n == N - Len(ds)
           d == Head(ds)
           before == {sh.path[k] : k \in 1..n}
<1>1. N \in Nat /\ sh.path \in Seq({sh.path[k] : k \in DOMAIN sh.path})
  BY ShellProperties
<1>2. /\ n \in 0..N /\ ds = SubSeq(sh.path, n + 1, N) /\ es \subseteq Listed(sh, n)
      /\ Sound(r, w, NamesOf(sh, Listed(sh, n)))
      /\ WithinCaps(sh) => Complete(r, w, NamesOf(sh, Listed(sh, n) \ es))
  BY DEF InScan
<1>3. new = IF d \in DOMAIN sh.dirs \ before THEN sh.dirs[d] ELSE {}
  OBVIOUS
<1> HIDE DEF n
<1>4. /\ n + 1 \in 1..N /\ d = sh.path[n + 1] /\ Tail(ds) = SubSeq(sh.path, n + 1 + 1, N)
      /\ N - Len(Tail(ds)) = n + 1
  BY <1>1, <1>2, RestOfPath
<1> HIDE DEF d
<1>5. n \in Nat /\ n + 1 \in 0..N
  BY <1>1, <1>2, <1>4
<1>6. /\ Listed(sh, n) \subseteq Listed(sh, n + 1)
      /\ d \in DOMAIN sh.dirs => Listed(sh, n + 1) = Listed(sh, n) \cup sh.dirs[d]
      /\ d \notin DOMAIN sh.dirs => Listed(sh, n + 1) = Listed(sh, n)
      /\ \A k \in 1..n : sh.path[k] \in DOMAIN sh.dirs => sh.dirs[sh.path[k]] \subseteq Listed(sh, n)
  BY <1>4, <1>5, ListedNext
<1>7. d \in DOMAIN sh.dirs \cap before => sh.dirs[d] \subseteq Listed(sh, n)
  BY <1>6
<1> HIDE DEF before
<1>8. new \subseteq Listed(sh, n + 1) /\ Listed(sh, n + 1) \ new \subseteq Listed(sh, n)
  BY <1>3, <1>6, <1>7
<1>9. Sound(r, w, NamesOf(sh, Listed(sh, n + 1)))
  <2>1. NamesOf(sh, Listed(sh, n)) \subseteq NamesOf(sh, Listed(sh, n + 1))
    BY <1>6 DEF NamesOf
  <2> QED BY <1>2, <2>1, NamesGrow
<1>10. ASSUME WithinCaps(sh)
       PROVE  /\ IsFiniteSet(new) /\ 0 \in Nat /\ 0 + Cardinality(new) <= MaxDirEntries
              /\ Complete(r, w, NamesOf(sh, Listed(sh, n + 1) \ new))
  <2>1. es = {}
    BY <1>10, AllCome
  <2>2. Complete(r, w, NamesOf(sh, Listed(sh, n)))
    BY <1>2, <1>10, <2>1
  <2>3. NamesOf(sh, Listed(sh, n + 1) \ new) \subseteq NamesOf(sh, Listed(sh, n))
    BY <1>8 DEF NamesOf
  <2>4. IsFiniteSet(new) /\ Cardinality(new) \in Nat /\ Cardinality(new) <= MaxDirEntries
    <3>1. CASE new = {}
      BY <3>1, NoneIsWithin
    <3>2. CASE new = sh.dirs[d] /\ d \in DOMAIN sh.dirs
      BY <1>10, <3>2, ShellProperties, FS_CardinalityType DEF WithinCaps
    <3> QED BY <1>3, <3>1, <3>2
  <2>5. 0 + Cardinality(new) = Cardinality(new)
    BY <2>4
  <2> QED BY <2>2, <2>3, <2>4, <2>5, NamesGrow
<1> HIDE DEF N
<1>11. N - Len(Tail(ds)) \in 0..N
  BY <1>4, <1>5
<1> QED BY <1>4, <1>8, <1>9, <1>10, <1>11 DEF InScan, N

\* An entry comes.
LEMMA ScanReads ==
  ASSUME NEW sh \in Shells, NEW w, Typed(w), NEW ds, NEW es, NEW ex, NEW r,
         InScan(sh, w, ds, es, ex, r), NEW e \in es
  PROVE  InScan(sh, w, ds, es \ {e}, ex + 1, TakeEntry(r, w, e))
<1> DEFINE n == Len(sh.path) - Len(ds)
           all == Listed(sh, n)
           y == TakeEntry(r, w, e)
<1>1. es \subseteq all /\ Sound(r, w, NamesOf(sh, all))
      /\ (WithinCaps(sh) => Complete(r, w, NamesOf(sh, all \ es)))
  BY DEF InScan
<1>2. /\ e.name \in Seq(LetterSet) /\ NamesOf(sh, all) \in SUBSET Seq(LetterSet)
      /\ NamesOf(sh, all \ es) \in SUBSET Seq(LetterSet)
  BY <1>1, ShellProperties
<1> HIDE DEF all
<1>3. /\ Sound(y, w, NamesOf(sh, all) \cup Runs(e))
      /\ Complete(r, w, NamesOf(sh, all \ es)) => Complete(y, w, NamesOf(sh, all \ es) \cup Runs(e))
  BY <1>1, <1>2, TakeEntryKeeps
<1> HIDE DEF y
<1>4. NamesOf(sh, all) \cup Runs(e) = NamesOf(sh, all)
  BY <1>1 DEF NamesOf
<1>5. NamesOf(sh, all \ es) \cup Runs(e) = NamesOf(sh, all \ (es \ {e}))
  <2>1. all \ (es \ {e}) = (all \ es) \cup {e}
    BY <1>1
  <2> QED BY <2>1 DEF NamesOf
<1>6. Sound(y, w, NamesOf(sh, all))
      /\ (WithinCaps(sh) => Complete(y, w, NamesOf(sh, all \ (es \ {e}))))
  BY <1>1, <1>3, <1>4, <1>5
<1>7. ASSUME WithinCaps(sh)
      PROVE  /\ IsFiniteSet(es \ {e}) /\ ex + 1 \in Nat
             /\ ex + 1 + Cardinality(es \ {e}) <= MaxDirEntries
  <2>1. IsFiniteSet(es) /\ ex \in Nat /\ ex + Cardinality(es) <= MaxDirEntries
    BY <1>7 DEF InScan
  <2>2. IsFiniteSet(es \ {e}) /\ Cardinality(es \ {e}) = Cardinality(es) - 1 /\ Cardinality(es) \in Nat
    BY <2>1, FS_RemoveElement, FS_CardinalityType
  <2> QED BY <2>1, <2>2
<1>8. es \ {e} \subseteq all
  BY <1>1
<1>9. n \in 0..Len(sh.path) /\ ds = SubSeq(sh.path, n + 1, Len(sh.path))
  BY DEF InScan
<1> HIDE DEF n
<1> QED BY <1>6, <1>7, <1>8, <1>9 DEF InScan, all, n, y

\* All directories have been read.
LEMMA ScanOver ==
  ASSUME NEW sh \in Shells, NEW w, NEW es, NEW ex, NEW r, InScan(sh, w, <<>>, es, ex, r),
         ~(es # {} /\ ex < MaxDirEntries)
  PROVE  AfterScan(sh, w, r)
<1> DEFINE N == Len(sh.path)
<1>1. N - Len(<<>>) = N
  BY ShellProperties
<1>2. /\ Sound(r, w, NamesOf(sh, Listed(sh, N)))
      /\ WithinCaps(sh) => Complete(r, w, NamesOf(sh, Listed(sh, N) \ es))
  BY <1>1 DEF InScan
<1>3. WithinCaps(sh) => es = {}
  BY AllCome
<1> QED BY <1>2, <1>3 DEF AfterScan

\* A step that leaves the line and the search alone keeps the invariant, where
\* the stage stays or is past the search.
LEMMA SearchRests ==
  ASSUME SearchInv, Reading', UNCHANGED <<lx, shell, search, dirs, entries, examined, suggestion>>,
         stage' = stage \/ stage' \notin {"lex", "names", "scan", "danger"}
  PROVE  SearchInv'
<1>1. Word' = Word
  BY DEF Word
<1>2. CASE stage' = stage
  BY <1>1, <1>2 DEF SearchInv
<1>3. CASE stage' \notin {"lex", "names", "scan", "danger"}
  BY <1>3 DEF SearchInv
<1> QED BY <1>2, <1>3

\* Before the search nothing is searched.
LEMMA LexSearches ==
  ASSUME SearchInv, Reading', LexNext \/ Lexed
  PROVE  SearchInv'
<1>1. CASE LexNext
  <2>1. stage' = "lex" /\ stage = "lex" /\ UNCHANGED <<shell, entries, examined>>
    BY <1>1 DEF LexNext, typo
  <2> QED BY <2>1 DEF SearchInv
<1>2. CASE Lexed
  <2>1. /\ stage = "lex" /\ UNCHANGED <<lx, shell, entries, examined>>
        /\ stage' = IF ~resolved /\ Word # NoName THEN "names" ELSE "danger"
    BY <1>2 DEF Lexed, typo
  <2>2. Word' = Word /\ shell = NoShell /\ entries = {} /\ examined = 0
    BY <2>1 DEF SearchInv, Word
  <2> QED BY <2>1, <2>2 DEF SearchInv
<1> QED BY <1>1, <1>2

\* Each step of the search keeps the invariant.
LEMMA SearchSearches ==
  ASSUME SearchInv, Reading', SearchNames \/ OpenDir \/ ScanEntry \/ Searched
  PROVE  SearchInv'
<1>1. CASE SearchNames
  <2>1. PICK sh \in Shells : shell' = sh /\ dirs' = sh.path /\ search' = TakeNames(Word, sh.names)
    BY <1>1 DEF SearchNames
  <2>2. /\ stage = "names" /\ stage' = "scan" /\ lx' = lx /\ entries' = entries
        /\ examined' = examined
    BY <1>1 DEF SearchNames
  <2>3. Reading /\ Word # NoName /\ entries = {} /\ examined = 0 /\ Word' = Word
    BY <2>2 DEF SearchInv, Word
  <2>4. InScan(sh, Word, sh.path, {}, 0, TakeNames(Word, sh.names))
    BY <2>3, WordTyped, ScanBegins
  <2>5. shell' \in Shells /\ InScan(shell', Word', dirs', entries', examined', search')
    BY <2>1, <2>2, <2>3, <2>4
  <2> QED BY <2>2, <2>3, <2>5 DEF SearchInv
<1>2. CASE OpenDir
  <2>1. /\ stage = "scan" /\ stage' = "scan" /\ ~ReadOn /\ dirs # <<>>
        /\ UNCHANGED <<lx, shell, search>> /\ examined' = 0 /\ dirs' = Tail(dirs)
        /\ entries' = IF Head(dirs) \in DOMAIN shell.dirs
                                        \ {shell.path[k] : k \in 1..(Len(shell.path) - Len(dirs))}
                      THEN shell.dirs[Head(dirs)] ELSE {}
    BY <1>2 DEF OpenDir
  <2>2. /\ Word # NoName /\ Word' = Word /\ shell \in Shells
        /\ InScan(shell, Word, dirs, entries, examined, search)
    BY <2>1 DEF SearchInv, Word
  <2>3. InScan(shell, Word, Tail(dirs), entries', 0, search)
    BY <2>1, <2>2, ScanOpens DEF ReadOn
  <2>4. shell' \in Shells /\ InScan(shell', Word', dirs', entries', examined', search')
    BY <2>1, <2>2, <2>3
  <2> QED BY <2>1, <2>2, <2>4 DEF SearchInv
<1>3. CASE ScanEntry
  <2>1. PICK e \in entries : search' = TakeEntry(search, Word, e) /\ entries' = entries \ {e}
    BY <1>3 DEF ScanEntry
  <2>2. /\ stage = "scan" /\ stage' = "scan" /\ UNCHANGED <<lx, shell, dirs>>
        /\ examined' = examined + 1
    BY <1>3 DEF ScanEntry
  <2>3. /\ Reading /\ Word # NoName /\ Word' = Word /\ shell \in Shells
        /\ InScan(shell, Word, dirs, entries, examined, search)
    BY <2>2 DEF SearchInv, Word
  <2>4. InScan(shell, Word, dirs, entries \ {e}, examined + 1, TakeEntry(search, Word, e))
    BY <2>3, WordTyped, ScanReads
  <2>5. shell' \in Shells /\ InScan(shell', Word', dirs', entries', examined', search')
    BY <2>1, <2>2, <2>3, <2>4
  <2> QED BY <2>2, <2>3, <2>5 DEF SearchInv
<1>4. CASE Searched
  <2>1. /\ stage = "scan" /\ stage' = "danger" /\ ~ReadOn /\ dirs = <<>>
        /\ UNCHANGED <<lx, shell, search>> /\ suggestion' = Suggestion(search)
    BY <1>4 DEF Searched
  <2>2. /\ Word # NoName /\ Word' = Word /\ shell \in Shells
        /\ InScan(shell, Word, <<>>, entries, examined, search)
    BY <2>1 DEF SearchInv, Word
  <2>3. AfterScan(shell, Word, search)
    BY <2>1, <2>2, ScanOver DEF ReadOn
  <2>4. AfterScan(shell', Word', search') /\ suggestion' = Suggestion(search') /\ shell' \in Shells
    BY <2>1, <2>2, <2>3
  <2> QED BY <2>1, <2>2, <2>4 DEF SearchInv
<1> QED BY <1>1, <1>2, <1>3, <1>4

\* Every step of a check does.
LEMMA SearchStep == SearchInv /\ [Next]_vars => SearchInv'
<1> SUFFICES ASSUME SearchInv, [Next]_vars PROVE SearchInv'
  OBVIOUS
<1>1. Reading'
  BY ReadingStep DEF SearchInv
<1> DEFINE still == UNCHANGED <<lx, shell, search, dirs, entries, examined, suggestion>>
<1>2. CASE NextSegment
  <2>1. still
    BY <1>2 DEF NextSegment, typo
  <2>2. stage = "danger" /\ stage' \in {"panicked", "danger", "matrix", "collect"}
    BY <1>2 DEF NextSegment
  <2> QED BY <1>1, <2>1, <2>2, SearchRests
<1>3. CASE CollectContext \/ Warrant \/ ConsultModel
  <2>1. still /\ stage' \in {"matrix", "model", "decide"}
    BY <1>3 DEF CollectContext, Warrant, ConsultModel, typo
  <2> QED BY <1>1, <2>1, SearchRests
<1>4. ASSUME NEW mode \in Modes, Decide(mode) PROVE SearchInv'
  <2>1. still /\ stage' = "done"
    BY <1>4 DEF Decide, typo
  <2> QED BY <1>1, <2>1, SearchRests
<1>5. CASE UNCHANGED vars
  BY <1>1, <1>5, SearchRests DEF vars, typo
<1> HIDE DEF still
<1> QED BY <1>1, <1>2, <1>3, <1>4, <1>5, LexSearches, SearchSearches DEF Next, Step, Over

\* What the typo search has found at every step of it, for every line, shell and
\* order in which the directories list their entries.
THEOREM SearchInvariant == Spec => []SearchInv
<1>1. Init => SearchInv
  <2> SUFFICES ASSUME Init PROVE SearchInv
    OBVIOUS
  <2>1. PICK in \in Inputs : CheckStart(in)
    BY DEF Init
  <2>2. line = in.line /\ lx = Start /\ stage = "lex" /\ shell = NoShell /\ entries = {} /\ examined = 0
    BY <2>1 DEF CheckStart
  <2>3. Readable(line)
    BY <2>2, AnalysisAssumption DEF Readable, Chars
  <2> QED BY <2>2, <2>3, StartHeld DEF SearchInv, Reading
<1> QED BY <1>1, SearchStep, PTL DEF Spec

\* In whatever order the directories list their entries, a search within its
\* limits suggests the nearest name there is, and nothing when the word is one;
\* the word is recognised even when the budget is spent (typo.rs:86-147).
THEOREM NearestSuggested == Spec => []SuggestionIsNearest
<1> SUFFICES SearchInv => SuggestionIsNearest
  BY SearchInvariant, PTL
<1> SUFFICES ASSUME SearchInv PROVE SuggestionIsNearest
  OBVIOUS
<1> SUFFICES ASSUME stage = "danger", shell # NoShell PROVE SuggestionIsNearest
  BY DEF SuggestionIsNearest, NearestWins, ExactMatchSilences
<1> DEFINE all == NamesOf(shell, Listed(shell, Len(shell.path)))
           max == MaxDistance(Len(Word))
           near == {n \in Available : AlignmentCost(Word, n) <= max}
<1>1. /\ shell \in Shells /\ Word # NoName /\ Reading /\ suggestion = Suggestion(search)
      /\ Sound(search, Word, all) /\ (WithinCaps(shell) => Complete(search, Word, all))
  BY DEF SearchInv, AfterScan
<1>2. Typed(Word) /\ all \in SUBSET Seq(LetterSet)
  BY <1>1, WordTyped, ShellProperties
<1>3. Available = {n \in all : Admissible(n)}
  <2>1. Len(shell.path) \in Nat /\ DOMAIN shell.path = 1..Len(shell.path)
    BY <1>1, ShellProperties, LenProperties
  <2>2. PathEntries = Listed(shell, Len(shell.path))
    BY <2>1 DEF PathEntries, Listed
  <2>3. all = ToSet(shell.names) \cup {e.name : e \in {x \in PathEntries : x.exec}}
    BY <2>2 DEF NamesOf, Runs
  <2> HIDE DEF all
  <2> QED BY <2>3 DEF Available, Admissible
<1> HIDE DEF all
<1>4. near = {n \in all : Near(Word, n)}
  BY <1>3 DEF Near
<1>5. Word \in Available <=> Word \in near
  <2>1. Word \in Available => AlignmentCost(Word, Word) = 0 /\ max \in Nat
    BY <1>2, <1>3, NameDistance
  <2> QED BY <2>1
<1> HIDE DEF near, max
<1>6. /\ search.exact => Word \in near
      /\ search.best # NoName => search.best \in near /\ search.best # Word
  <2>1. search.exact => Word \in near
    BY <1>1, <1>3, <1>5 DEF Sound
  <2>2. ASSUME search.best # NoName PROVE search.best \in near /\ search.best # Word
    <3>1. /\ search.best \in all /\ Near(Word, search.best) /\ AlignmentCost(Word, search.best) > 0
      BY <1>1, <2>2 DEF Sound
    <3>2. search.best # Word
      BY <1>2, <3>1, NameDistance
    <3> QED BY <1>4, <3>1, <3>2
  <2> QED BY <2>1, <2>2
<1>7. WithinCaps(shell) /\ Word \in near => search.exact
  BY <1>1, <1>4 DEF Complete
<1>8. ExactMatchSilences
  BY <1>1, <1>5, <1>7 DEF ExactMatchSilences, WithinCaps, Suggestion
<1>9. NearestWins
  <2> SUFFICES ASSUME ~Limited
               PROVE  IF near = {} \/ Word \in near THEN suggestion = NoName
                      ELSE /\ suggestion \in near
                           /\ \A o \in near : \/ AlignmentCost(Word, suggestion) < AlignmentCost(Word, o)
                                              \/ o = suggestion
                                              \/ /\ AlignmentCost(Word, suggestion) = AlignmentCost(Word, o)
                                                 /\ Precedes(suggestion, o)
    BY DEF NearestWins, near, max
  <2>1. WithinCaps(shell)
    <3>1. \A d \in DOMAIN shell.dirs : Cardinality(shell.dirs[d]) \in Nat
      BY <1>1, ShellProperties, FS_CardinalityType
    <3>2. MaxDirEntries \in Nat
      BY AnalysisAssumption
    <3> QED BY <3>1, <3>2 DEF Limited, WithinCaps
  <2>2. search.stats < MaxStats
    <3>1. search.stats \in Nat
      BY <1>1 DEF Sound, Searches
    <3> QED BY <3>1, TypoAssumption DEF Limited
  <2>3. CASE Word \in near
    BY <1>1, <1>7, <2>1, <2>3 DEF Suggestion
  <2>4. CASE near = {}
    BY <1>1, <1>6, <2>4 DEF Suggestion
  <2>5. CASE Word \notin near /\ near # {}
    <3>1. suggestion = search.best
      BY <1>1, <1>6, <2>5 DEF Suggestion
    <3>2. \A o \in near : /\ search.best # NoName
                          /\ o = search.best \/ Nearer(Word, search.best, o)
      BY <1>1, <1>4, <2>1, <2>2, <2>5 DEF Complete
    <3> QED BY <1>6, <2>5, <3>1, <3>2 DEF Nearer
  <2> QED BY <2>3, <2>4, <2>5
<1> QED BY <1>8, <1>9 DEF SuggestionIsNearest
==============================================================================
