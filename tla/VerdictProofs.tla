---------------------------- MODULE VerdictProofs ----------------------------
(***************************************************************************)
(* Proofs about the verdict on a line, of any length, in any shell and any *)
(* world.                                                                  *)
(*                                                                         *)
(* The danger layer hands one analysis from segment to segment, so what it *)
(* makes of a segment could depend on what went before.  The argument is   *)
(* that it does not: every rule is Additive - it adds the same codes, and  *)
(* is catastrophic or not, whatever analysis it is given (only priv.sudo   *)
(* is added or not according to what was there).  Hence each segment is    *)
(* Heard, its operands being among the targets, and Unshielded, what it is *)
(* alone being found; and as the layer walks from cut to cut of the tokens *)
(* this is so of all of them at the end.  VerdictInv says so of the states *)
(* in between, and that facts, assessment and answer are those of this     *)
(* line; the two last theorems are read off it.                            *)
(*                                                                         *)
(* The layer's recursive functions are unfolded by the lemmas of           *)
(* Recursions: a function on a finite domain whose arguments grow smaller  *)
(* exists and satisfies its equation.                                      *)
(***************************************************************************)
EXTENDS Analysis, Recursions, FiniteSetTheorems

-----------------------------------------------------------------------------
(* Words that are kept, and where flags end *)

Elements(s) == {s[k] : k \in DOMAIN s}

\* The empty sequence has no elements.
LEMMA EmptyElements == Elements(<<>>) = {}
BY DEF Elements

\* What Append adds to the elements is the new one.
LEMMA AppendElements ==
  ASSUME NEW W, NEW s \in Seq(W), NEW e \in W
  PROVE  /\ Append(s, e) \in Seq(W) /\ Len(Append(s, e)) = Len(s) + 1
         /\ Elements(Append(s, e)) = Elements(s) \cup {e}
         /\ \A k \in DOMAIN s : Append(s, e)[k] = s[k]
<1>1. /\ Append(s, e) \in Seq(W) /\ Len(Append(s, e)) = Len(s) + 1
      /\ \A k \in 1..Len(s) : Append(s, e)[k] = s[k]
      /\ Append(s, e)[Len(s) + 1] = e
  BY AppendProperties
<1>2. DOMAIN s = 1..Len(s) /\ DOMAIN Append(s, e) = 1..(Len(s) + 1) /\ Len(s) \in Nat
  BY <1>1, LenProperties
<1>3. Elements(Append(s, e)) = Elements(s) \cup {e}
  BY <1>1, <1>2 DEF Elements
<1> QED BY <1>1, <1>2, <1>3

\* Kept keeps the elements at the places K and no others.
LEMMA KeptProperties ==
  ASSUME NEW W, NEW ws \in Seq(W), NEW K
  PROVE  Kept(ws, K) \in Seq(W) /\ Elements(Kept(ws, K)) = {ws[k] : k \in K \cap DOMAIN ws}
<1> DEFINE D == 0..Len(ws)
           kept == CHOOSE f : f = [k \in D |-> IF k = 0 THEN <<>> ELSE IF k \in K
                                               THEN Append(f[k - 1], ws[k]) ELSE f[k - 1]]
           F == [k \in D |-> [v \in Seq(W) |-> IF k \in K THEN Append(v, ws[k]) ELSE v]]
<1>0. Len(ws) \in Nat /\ DOMAIN ws = 1..Len(ws) /\ \A k \in 1..Len(ws) : ws[k] \in W
  BY LenProperties, ElementOfSeq
<1>1. PICK f : Steps(f, Len(ws), Seq(W), <<>>, F)
  <2>1. \A k \in 1..Len(ws) : \A v \in Seq(W) : F[k][v] \in Seq(W)
    BY <1>0, AppendProperties
  <2>2. <<>> \in Seq(W)
    BY EmptySeq
  <2> HIDE DEF F
  <2>3. StepsIn(Len(ws), Seq(W), <<>>, F)
    BY <2>1, <2>2 DEF StepsIn
  <2> QED BY <1>0, <2>3, ForwardRecursion
<1>2. f = [k \in D |-> IF k = 0 THEN <<>> ELSE IF k \in K THEN Append(f[k - 1], ws[k]) ELSE f[k - 1]]
  <2>1. ASSUME NEW k \in 1..Len(ws)
        PROVE  f[k] = IF k \in K THEN Append(f[k - 1], ws[k]) ELSE f[k - 1]
    <3>1. k - 1 \in D /\ k \in D
      BY <1>0
    <3>2. f[k - 1] \in Seq(W)
      BY <1>1, <3>1 DEF Steps
    <3>3. F[k][f[k - 1]] = IF k \in K THEN Append(f[k - 1], ws[k]) ELSE f[k - 1]
      BY <3>1, <3>2
    <3>4. f[k] = F[k][f[k - 1]]
      <4> HIDE DEF F
      <4> QED BY <1>1 DEF Steps
    <3> QED BY <3>3, <3>4
  <2> HIDE DEF F
  <2>2. f \in [D -> Seq(W)] /\ f[0] = <<>>
    BY <1>1 DEF Steps
  <2>3. \A k \in D : k # 0 => k \in 1..Len(ws)
    BY <1>0
  <2> QED BY <2>1, <2>2, <2>3
<1>3. kept = [k \in D |-> IF k = 0 THEN <<>> ELSE IF k \in K
                          THEN Append(kept[k - 1], ws[k]) ELSE kept[k - 1]]
  BY <1>2
<1>4. Kept(ws, K) = kept[Len(ws)]
  BY DEF Kept
<1> HIDE DEF kept
<1> DEFINE S == {k \in D : kept[k] \in Seq(W) /\ Elements(kept[k]) = {ws[j] : j \in K \cap (1..k)}}
<1>5. 0 \in S
  BY <1>0, <1>3, EmptySeq, EmptyElements
<1>6. ASSUME NEW k \in 0..(Len(ws) - 1), k \in S PROVE k + 1 \in S
  <2>1. k + 1 \in D /\ k + 1 \in 1..Len(ws) /\ k + 1 # 0 /\ (k + 1) - 1 = k /\ ws[k + 1] \in W
    BY <1>0
  <2>2. kept[k + 1] = IF k + 1 \in K THEN Append(kept[k], ws[k + 1]) ELSE kept[k]
    BY <1>3, <2>1
  <2>3. kept[k] \in Seq(W) /\ Elements(kept[k]) = {ws[j] : j \in K \cap (1..k)}
    BY <1>6
  <2>4. K \cap (1..(k + 1)) = (K \cap (1..k)) \cup (IF k + 1 \in K THEN {k + 1} ELSE {})
    BY <1>0
  <2>5. kept[k + 1] \in Seq(W)
        /\ Elements(kept[k + 1]) = Elements(kept[k]) \cup (IF k + 1 \in K THEN {ws[k + 1]} ELSE {})
    BY <2>1, <2>2, <2>3, AppendElements
  <2> QED BY <2>1, <2>3, <2>4, <2>5
<1> HIDE DEF S
<1>7. 0..Len(ws) \subseteq S
  BY <1>0, <1>5, <1>6, NatSteps
<1>8. Len(ws) \in S
  BY <1>0, <1>7
<1> QED BY <1>0, <1>4, <1>8 DEF S

\* The place where strip_wrapper_flags ends is a number, the first argument's or later.
LEMMA FlagsEndProperties ==
  ASSUME NEW W, NEW args \in Seq(W), NEW argFlags
  PROVE  FlagsEnd(args, argFlags) \in Nat \ {0}
<1> DEFINE D == 1..(Len(args) + 2)
           Stop == {k \in D : k > Len(args) \/ (k <= Len(args) /\ ~LooksLikeFlag(args[k]))}
           nxt == [k \in D |-> IF TextIn(args[k], argFlags) THEN k + 2 ELSE k + 1]
           val == [k \in D |-> k]
           m == [k \in D |-> Len(args) + 2 - k]
           F == [k \in D |-> [v \in Nat \ {0} |-> v]]
           end == CHOOSE f : f = [k \in D |->
                     IF k > Len(args) \/ (k <= Len(args) /\ ~LooksLikeFlag(args[k])) THEN k
                     ELSE f[IF TextIn(args[k], argFlags) THEN k + 2 ELSE k + 1]]
<1>0. Len(args) \in Nat
  BY LenProperties
<1>1. m \in [D -> 0..(Len(args) + 2)]
  BY <1>0
<1>2. \A k \in D \cap Stop : val[k] \in Nat \ {0}
  BY <1>0
<1>3. \A k \in D \ Stop : nxt[k] \in D /\ m[nxt[k]] < m[k]
  <2> TAKE k \in D \ Stop
  <2>1. k \in 1..Len(args)
    BY <1>0
  <2>2. nxt[k] \in {k + 1, k + 2}
    BY <1>0
  <2>3. k + 1 \in D /\ k + 2 \in D
    BY <1>0, <2>1
  <2> HIDE DEF nxt, Stop
  <2> QED BY <1>0, <2>1, <2>2, <2>3
<1>4. \A k \in D \ Stop : \A v \in Nat \ {0} : F[k][v] \in Nat \ {0} /\ F[k][v] = v
  OBVIOUS
<1>5. \A k \in D : val[k] = k
  OBVIOUS
<1>6. \A k \in D : nxt[k] = IF TextIn(args[k], argFlags) THEN k + 2 ELSE k + 1
  OBVIOUS
<1>7. \A k \in D : k \in Stop <=> k > Len(args) \/ (k <= Len(args) /\ ~LooksLikeFlag(args[k]))
  OBVIOUS
<1>8. 1 \in D
  BY <1>0
<1>9. FlagsEnd(args, argFlags) = end[1]
  BY DEF FlagsEnd
<1> HIDE DEF m, nxt, val, Stop, F, D
<1>10. PICK f : Made(f, D, Nat \ {0}, Stop, val, nxt, F)
  <2>1. WellMade(D, Nat \ {0}, Len(args) + 2, m, Stop, val, nxt, F)
    BY <1>1, <1>2, <1>3, <1>4 DEF WellMade
  <2>2. Len(args) + 2 \in Nat
    BY <1>0
  <2> QED BY <2>1, <2>2, Recursion
<1>11. ASSUME NEW k \in D
       PROVE  f[k] = IF k > Len(args) \/ (k <= Len(args) /\ ~LooksLikeFlag(args[k])) THEN k
                     ELSE f[IF TextIn(args[k], argFlags) THEN k + 2 ELSE k + 1]
  <2>1. CASE k \in Stop
    BY <1>5, <1>7, <1>10, <2>1 DEF Made
  <2>2. CASE k \notin Stop
    <3>1. nxt[k] \in D /\ f[nxt[k]] \in Nat \ {0}
      BY <1>3, <1>10, <2>2 DEF Made
    <3>2. f[k] = f[nxt[k]]
      BY <1>4, <1>10, <2>2, <3>1 DEF Made
    <3> QED BY <1>6, <1>7, <2>2, <3>2
  <2> QED BY <2>1, <2>2
<1>12. end = [k \in D |-> IF k > Len(args) \/ (k <= Len(args) /\ ~LooksLikeFlag(args[k])) THEN k
                          ELSE end[IF TextIn(args[k], argFlags) THEN k + 2 ELSE k + 1]]
  <2>1. f = [k \in D |-> f[k]]
    BY <1>10 DEF Made
  <2>2. f = [k \in D |-> IF k > Len(args) \/ (k <= Len(args) /\ ~LooksLikeFlag(args[k])) THEN k
                          ELSE f[IF TextIn(args[k], argFlags) THEN k + 2 ELSE k + 1]]
    BY <1>11, <2>1
  <2> QED BY <2>2
<1> HIDE DEF end
<1>13. D \subseteq {k \in D : end[k] \in Nat \ {0}}
  <2> DEFINE S == {k \in D : end[k] \in Nat \ {0}}
  <2>1. ASSUME NEW k \in D, \A j \in D : m[j] < m[k] => j \in S PROVE k \in S
    <3>1. CASE k \in Stop
      BY <1>2, <1>5, <1>7, <1>12, <3>1
    <3>2. CASE k \notin Stop
      <4>1. nxt[k] \in S /\ end[k] = end[nxt[k]]
        BY <1>3, <1>6, <1>7, <1>12, <2>1, <3>2
      <4> QED BY <4>1
    <3> QED BY <3>1, <3>2
  <2>2. Len(args) + 2 \in Nat
    BY <1>0
  <2> HIDE DEF S
  <2>3. D \subseteq S
    BY <1>1, <2>1, <2>2, MeasureInduction
  <2> QED BY <2>3 DEF S
<1> QED BY <1>8, <1>9, <1>13

-----------------------------------------------------------------------------
(* Analyses of the words in W, and how rules add to them *)

TargetCodes ==
  {"fs.target_home", "fs.target_root", "fs.target_cwd", "fs.target_parent", "fs.target_blockdev"}
Codes ==
  TargetCodes \cup
  {"fs.chmod_recursive", "fs.chown_recursive", "fs.force_overwrite", "fs.redirect_truncate",
   "fs.rm_force", "fs.rm_recursive", "fs.rm_target_unknown", "git.branch_delete_force",
   "git.clean_force", "git.filter_branch", "git.push_delete", "git.push_force",
   "git.reset_hard", "priv.sudo", "system.dd_of", "system.kill_all", "system.mkfs",
   "system.pkg_remove", "system.pkill_broad", "system.service_stop"}

Texts(W) == {w.text : w \in W} \cup {Drop(w.text, 2) : w \in W}
Analyses(W) ==
  [codes : SUBSET Codes, catastrophic : BOOLEAN, targets : Seq(Texts(W)), panicked : BOOLEAN]

\* b is a with the codes in X, catastrophic if Y, and perhaps more targets.
\* Only priv.sudo may come unasked.
Adds(a, b, X, Y) ==
  /\ a.codes \cup X \subseteq b.codes /\ b.codes \subseteq a.codes \cup X \cup {"priv.sudo"}
  /\ b.catastrophic <=> a.catastrophic \/ Y
  /\ Len(a.targets) <= Len(b.targets)
  /\ Elements(a.targets) \subseteq Elements(b.targets)

\* The word w, unless its value is unknown, is a target or there is no room.
Noted(w, a) ==
  ~w.expands => w.text = <<>> \/ w.text \in Elements(a.targets) \/ Len(a.targets) >= MaxTargets

\* An analysis adds nothing to itself.
LEMMA AddsNothing == ASSUME NEW W, NEW a \in Analyses(W) PROVE Adds(a, a, {}, FALSE)
<1>1. a.targets \in Seq(Texts(W))
  BY DEF Analyses
<1>2. Len(a.targets) \in Nat
  BY <1>1, LenProperties
<1> QED BY <1>2 DEF Adds

\* What two steps add is what both add.
LEMMA AddsBoth ==
  ASSUME NEW W, NEW a \in Analyses(W), NEW b \in Analyses(W), NEW c \in Analyses(W),
         NEW X, NEW Y, NEW X2, NEW Y2, Adds(a, b, X, Y), Adds(b, c, X2, Y2)
  PROVE  Adds(a, c, X \cup X2, Y \/ Y2)
<1>1. a.targets \in Seq(Texts(W)) /\ b.targets \in Seq(Texts(W)) /\ c.targets \in Seq(Texts(W))
  BY DEF Analyses
<1>2. Len(a.targets) \in Nat /\ Len(b.targets) \in Nat /\ Len(c.targets) \in Nat
  BY <1>1, LenProperties
<1>3. Len(a.targets) <= Len(c.targets) /\ Elements(a.targets) \subseteq Elements(c.targets)
  BY <1>2 DEF Adds
<1>4. c.catastrophic <=> a.catastrophic \/ (Y \/ Y2)
  BY DEF Adds
<1>5. /\ a.codes \cup (X \cup X2) \subseteq c.codes
      /\ c.codes \subseteq a.codes \cup (X \cup X2) \cup {"priv.sudo"}
  BY DEF Adds
<1> QED BY <1>3, <1>4, <1>5 DEF Adds

\* Analysis::note adds its codes and leaves the rest.
LEMMA NoteAdds ==
  ASSUME NEW W, NEW a \in Analyses(W), NEW X \in SUBSET Codes
  PROVE  /\ Note(a, X) \in Analyses(W) /\ Adds(a, Note(a, X), X, FALSE)
         /\ Note(a, X).targets = a.targets
<1> DEFINE b == Note(a, X)
<1>1. /\ b \in Analyses(W) /\ b.codes = a.codes \cup X /\ b.catastrophic = a.catastrophic
      /\ b.targets = a.targets
  BY DEF Note, Analyses
<1>2. Len(a.targets) \in Nat
  <2>1. a.targets \in Seq(Texts(W))
    BY DEF Analyses
  <2> QED BY <2>1, LenProperties
<1> HIDE DEF b
<1>3. Adds(a, b, X, FALSE)
  BY <1>1, <1>2 DEF Adds
<1> QED BY <1>1, <1>3 DEF b

\* note_target_text adds at most the text, and no code.
LEMMA NoteTextAdds ==
  ASSUME NEW W, NEW a \in Analyses(W), NEW w, w.text \in Texts(W)
  PROVE  LET b == NoteText(a, w.text, w.expands)
         IN  b \in Analyses(W) /\ Adds(a, b, {}, FALSE) /\ Noted(w, b)
<1> DEFINE b == NoteText(a, w.text, w.expands)
           new == Append(a.targets, w.text)
<1>1. a.targets \in Seq(Texts(W))
  BY DEF Analyses
<1>2. /\ new \in Seq(Texts(W)) /\ Len(new) = Len(a.targets) + 1
      /\ Elements(new) = Elements(a.targets) \cup {w.text}
  BY <1>1, AppendElements
<1>3. Len(a.targets) \in Nat
  BY <1>1, LenProperties
<1>4. CASE ~w.expands /\ w.text # <<>> /\ Len(a.targets) < MaxTargets /\ w.text \notin Elements(a.targets)
  <2>1. b = [a EXCEPT !.targets = new]
    BY <1>4 DEF NoteText, Elements
  <2> HIDE DEF b, new
  <2>2. b \in Analyses(W) /\ b.targets = new /\ b.codes = a.codes /\ b.catastrophic = a.catastrophic
    BY <1>2, <2>1 DEF Analyses
  <2>3. Adds(a, b, {}, FALSE)
    BY <1>2, <1>3, <2>2 DEF Adds
  <2>4. Noted(w, b)
    BY <1>2, <2>2 DEF Noted
  <2> QED BY <2>2, <2>3, <2>4 DEF b
<1>5. CASE ~(~w.expands /\ w.text # <<>> /\ Len(a.targets) < MaxTargets /\ w.text \notin Elements(a.targets))
  <2>1. b = a
    BY <1>5 DEF NoteText, Elements
  <2> HIDE DEF b
  <2>2. Noted(w, a)
    BY <1>3, <1>5, DangerAssumption DEF Noted
  <2> QED BY <2>1, <2>2, AddsNothing DEF b
<1> QED BY <1>4, <1>5

\* A target that was noted stays so, whatever is added.
LEMMA StaysNoted ==
  ASSUME NEW W, NEW a \in Analyses(W), NEW b \in Analyses(W), NEW X, NEW Y, Adds(a, b, X, Y),
         NEW w, Noted(w, a)
  PROVE  Noted(w, b)
<1>1. a.targets \in Seq(Texts(W)) /\ b.targets \in Seq(Texts(W))
  BY DEF Analyses
<1>2. Len(a.targets) \in Nat /\ Len(b.targets) \in Nat
  BY <1>1, LenProperties
<1> QED BY <1>2, DangerAssumption DEF Adds, Noted

\* Noting words as targets adds no code, and each word is noted.
LEMMA NoteTargetsAdds ==
  ASSUME NEW W, NEW a \in Analyses(W), NEW ws, Len(ws) \in Nat,
         \A k \in 1..Len(ws) : ws[k].text \in Texts(W)
  PROVE  LET b == NoteTargets(a, ws)
         IN  /\ b \in Analyses(W) /\ Adds(a, b, {}, FALSE)
             /\ \A k \in 1..Len(ws) : Noted(ws[k], b)
<1> DEFINE N == Len(ws)
           D == 0..N
           noted == CHOOSE f : f = [k \in D |-> IF k = 0 THEN a
                                   ELSE NoteText(f[k - 1], ws[k].text, ws[k].expands)]
           F == [k \in D |-> [v \in Analyses(W) |-> NoteText(v, ws[k].text, ws[k].expands)]]
<1>1. PICK f : Steps(f, N, Analyses(W), a, F)
  <2>1. ASSUME NEW k \in 1..N, NEW v \in Analyses(W) PROVE F[k][v] \in Analyses(W)
    <3>1. F[k][v] = NoteText(v, ws[k].text, ws[k].expands)
      OBVIOUS
    <3>2. ws[k].text \in Texts(W)
      OBVIOUS
    <3> QED BY <3>1, <3>2, NoteTextAdds
  <2> HIDE DEF F
  <2>2. StepsIn(N, Analyses(W), a, F)
    BY <2>1 DEF StepsIn
  <2> QED BY <2>2, ForwardRecursion
<1>2. f = [k \in D |-> IF k = 0 THEN a ELSE NoteText(f[k - 1], ws[k].text, ws[k].expands)]
  <2>1. ASSUME NEW k \in 1..N PROVE f[k] = NoteText(f[k - 1], ws[k].text, ws[k].expands)
    <3>1. k - 1 \in D /\ k \in D
      OBVIOUS
    <3>2. f[k - 1] \in Analyses(W)
      BY <1>1, <3>1 DEF Steps
    <3>3. F[k][f[k - 1]] = NoteText(f[k - 1], ws[k].text, ws[k].expands)
      BY <3>1, <3>2
    <3>4. f[k] = F[k][f[k - 1]]
      <4> HIDE DEF F
      <4> QED BY <1>1 DEF Steps
    <3> QED BY <3>3, <3>4
  <2> HIDE DEF F
  <2>2. f \in [D -> Analyses(W)] /\ f[0] = a
    BY <1>1 DEF Steps
  <2>3. \A k \in D : k # 0 => k \in 1..N
    OBVIOUS
  <2> QED BY <2>1, <2>2, <2>3
<1>3. noted = [k \in D |-> IF k = 0 THEN a
                          ELSE NoteText(noted[k - 1], ws[k].text, ws[k].expands)]
  BY <1>2
<1>4. NoteTargets(a, ws) = noted[N]
  BY DEF NoteTargets
<1> HIDE DEF noted
<1> DEFINE Done(k) == /\ noted[k] \in Analyses(W) /\ Adds(a, noted[k], {}, FALSE)
                      /\ \A j \in 1..k : Noted(ws[j], noted[k])
           S == {k \in D : Done(k)}
<1>5. 0 \in S
  <2>1. noted[0] = a /\ 0 \in D
    BY <1>3
  <2>2. Adds(a, a, {}, FALSE)
    BY AddsNothing
  <2>3. \A j \in 1..0 : Noted(ws[j], noted[0])
    OBVIOUS
  <2>4. noted[0] \in Analyses(W) /\ Adds(a, noted[0], {}, FALSE)
    BY <2>1, <2>2
  <2>5. Done(0)
    BY <2>3, <2>4
  <2> HIDE DEF Done
  <2> QED BY <2>1, <2>5
<1>6. ASSUME NEW k \in 0..(N - 1), k \in S PROVE k + 1 \in S
  <2> DEFINE b == noted[k]
             c == noted[k + 1]
             w == ws[k + 1]
  <2>1. k + 1 \in D /\ k + 1 \in 1..N /\ k + 1 # 0 /\ (k + 1) - 1 = k
    OBVIOUS
  <2>2. c = NoteText(b, w.text, w.expands)
    BY <1>3, <2>1
  <2>3. b \in Analyses(W) /\ Adds(a, b, {}, FALSE) /\ \A j \in 1..k : Noted(ws[j], b)
    BY <1>6
  <2>4. w.text \in Texts(W)
    BY <2>1
  <2> HIDE DEF b, c, w
  <2>5. c \in Analyses(W) /\ Adds(b, c, {}, FALSE) /\ Noted(w, c)
    BY <2>2, <2>3, <2>4, NoteTextAdds
  <2>6. Adds(a, c, {} \cup {}, FALSE \/ FALSE)
    BY <2>3, <2>5, AddsBoth
  <2>7. Adds(a, c, {}, FALSE)
    BY <2>6 DEF Adds
  <2>8. \A j \in 1..k : Noted(ws[j], c)
    BY <2>3, <2>5, StaysNoted
  <2>9. \A j \in 1..(k + 1) : j \in 1..k \/ j = k + 1
    OBVIOUS
  <2> QED BY <2>1, <2>5, <2>7, <2>8, <2>9 DEF c, w
<1> HIDE DEF S
<1>7. 0..N \subseteq S
  BY <1>5, <1>6, NatSteps
<1>8. N \in S
  BY <1>7
<1>9. Done(N)
  BY <1>8 DEF S
<1> DEFINE b == NoteTargets(a, ws)
<1>10. b = noted[N]
  BY <1>4
<1> HIDE DEF b
<1>11. /\ b \in Analyses(W) /\ Adds(a, b, {}, FALSE)
       /\ \A k \in 1..Len(ws) : Noted(ws[k], b)
  BY <1>9, <1>10
<1> QED BY <1>11 DEF b

\* f, from analyses to analyses, adds the same whatever it is given.
Additive(W, f) ==
  \E X \in SUBSET Codes, Y \in BOOLEAN :
    /\ Y => X # {}
    /\ \A a \in Analyses(W) : f[a] \in Analyses(W) /\ Adds(a, f[a], X, Y)

\* Targets and codes noted together.
LEMMA NotesAdd ==
  ASSUME NEW W, NEW a \in Analyses(W), NEW ws, Len(ws) \in Nat,
         \A k \in 1..Len(ws) : ws[k].text \in Texts(W), NEW X \in SUBSET Codes
  PROVE  LET b == Note(NoteTargets(a, ws), X)
         IN  /\ b \in Analyses(W) /\ Adds(a, b, X, FALSE)
             /\ \A k \in 1..Len(ws) : Noted(ws[k], b)
<1> DEFINE c == NoteTargets(a, ws)
           b == Note(c, X)
<1>1. /\ c \in Analyses(W) /\ Adds(a, c, {}, FALSE)
      /\ \A k \in 1..Len(ws) : Noted(ws[k], c)
  BY NoteTargetsAdds
<1> HIDE DEF c
<1>2. b \in Analyses(W) /\ Adds(c, b, X, FALSE)
  BY <1>1, NoteAdds
<1> HIDE DEF b
<1>3. Adds(a, b, {} \cup X, FALSE \/ FALSE)
  BY <1>1, <1>2, AddsBoth
<1>4. Adds(a, b, X, FALSE)
  BY <1>3 DEF Adds
<1>5. \A k \in 1..Len(ws) : Noted(ws[k], b)
  BY <1>1, <1>2, StaysNoted
<1> QED BY <1>2, <1>4, <1>5 DEF b, c

\* Noting targets and codes adds the same to whatever it is given.
LEMMA NotesAdditive ==
  ASSUME NEW W, NEW ws, Len(ws) \in Nat, \A k \in 1..Len(ws) : ws[k].text \in Texts(W),
         NEW X \in SUBSET Codes
  PROVE  Additive(W, [a \in Analyses(W) |-> Note(NoteTargets(a, ws), X)])
<1> DEFINE f == [a \in Analyses(W) |-> Note(NoteTargets(a, ws), X)]
<1>1. ASSUME NEW a \in Analyses(W) PROVE f[a] \in Analyses(W) /\ Adds(a, f[a], X, FALSE)
  <2>1. f[a] = Note(NoteTargets(a, ws), X)
    OBVIOUS
  <2> HIDE DEF f
  <2> QED BY <2>1, NotesAdd
<1> HIDE DEF f
<1>2. Additive(W, f)
  BY <1>1 DEF Additive
<1> QED BY <1>2 DEF f

\* Noting codes adds the same to whatever it is given.
LEMMA NoteAdditive ==
  ASSUME NEW W, NEW X \in SUBSET Codes
  PROVE  Additive(W, [a \in Analyses(W) |-> Note(a, X)])
<1> DEFINE f == [a \in Analyses(W) |-> Note(a, X)]
<1>1. ASSUME NEW a \in Analyses(W) PROVE f[a] \in Analyses(W) /\ Adds(a, f[a], X, FALSE)
  <2>1. f[a] = Note(a, X)
    OBVIOUS
  <2> HIDE DEF f
  <2> QED BY <2>1, NoteAdds
<1> HIDE DEF f
<1>2. Additive(W, f)
  BY <1>1 DEF Additive
<1> QED BY <1>2 DEF f

\* A rule that does not apply adds nothing to whatever it is given.
LEMMA NothingAdditive == ASSUME NEW W PROVE Additive(W, [a \in Analyses(W) |-> a])
<1> DEFINE f == [a \in Analyses(W) |-> a]
<1>1. ASSUME NEW a \in Analyses(W) PROVE f[a] \in Analyses(W) /\ Adds(a, f[a], {}, FALSE)
  BY AddsNothing
<1> HIDE DEF f
<1>2. Additive(W, f)
  BY <1>1 DEF Additive
<1> QED BY <1>2 DEF f

-----------------------------------------------------------------------------
(* The rules *)

\* The texts of words are among Texts.
LEMMA WordTexts ==
  ASSUME NEW W, NEW ws \in Seq(W)
  PROVE  /\ Len(ws) \in Nat /\ DOMAIN ws = 1..Len(ws)
         /\ \A k \in 1..Len(ws) : ws[k] \in W /\ ws[k].text \in Texts(W)
<1>1. /\ Len(ws) \in Nat /\ DOMAIN ws = 1..Len(ws)
      /\ \A k \in 1..Len(ws) : ws[k] \in W
  BY LenProperties, ElementOfSeq
<1> QED BY <1>1 DEF Texts

\* What Drop leaves of a sequence.
LEMMA DropProperties ==
  ASSUME NEW W, NEW ws \in Seq(W), NEW n \in Nat
  PROVE  /\ Drop(ws, n) \in Seq(W)
         /\ Len(Drop(ws, n)) = IF n <= Len(ws) THEN Len(ws) - n ELSE 0
         /\ \A k \in 1..(Len(ws) - n) : Drop(ws, n)[k] = ws[n + k]
<1>1. Len(ws) \in Nat /\ \A k \in 1..Len(ws) : ws[k] \in W
  BY LenProperties, ElementOfSeq
<1>2. \A k \in (n + 1)..Len(ws) : ws[k] \in W
  BY <1>1
<1>3. n + 1 \in Int /\ Len(ws) \in Int
  BY <1>1
<1> DEFINE d == SubSeq(ws, n + 1, Len(ws))
<1>4. /\ d \in Seq(W) /\ Len(d) = IF n + 1 <= Len(ws) THEN Len(ws) - (n + 1) + 1 ELSE 0
      /\ \A k \in 1..(Len(ws) - (n + 1) + 1) : d[k] = ws[(n + 1) + k - 1]
  BY <1>2, <1>3, SubSeqProperties
<1> HIDE DEF d
<1>5. /\ d \in Seq(W) /\ Len(d) = IF n <= Len(ws) THEN Len(ws) - n ELSE 0
      /\ \A k \in 1..(Len(ws) - n) : d[k] = ws[n + k]
  BY <1>1, <1>4
<1> QED BY <1>5 DEF d, Drop

\* classify_target finds codes of targets only.
LEMMA Classified ==
  ASSUME NEW text, NEW expands
  PROVE  Blockdev(text) \subseteq TargetCodes /\ Classify(text, expands) \subseteq TargetCodes
<1>1. Blockdev(text) \subseteq TargetCodes
  BY DEF Blockdev, TargetCodes
<1>2. \A q \in ExpandingShapes \cup LiteralShapes : q[2] \in TargetCodes
  BY DEF ExpandingShapes, LiteralShapes, TargetCodes
<1>3. Classify(text, expands) \subseteq TargetCodes
  <2>1. "fs.target_home" \in TargetCodes
    BY DEF TargetCodes
  <2>2. CASE Evaluated(text)
    BY <2>1, <2>2 DEF Classify
  <2>3. CASE ~Evaluated(text)
    BY <1>1, <1>2, <2>3 DEF Classify
  <2> QED BY <2>2, <2>3
<1> QED BY <1>1, <1>3

\* What the operands of a command are classified as are known codes.
LEMMA CodesAreKnown ==
  /\ TargetCodes \in SUBSET Codes
  /\ \A ws : ClassifyAll(ws) \subseteq TargetCodes
  /\ \A condition : \A code \in Codes : If(condition, code) \in SUBSET Codes
<1>1. TargetCodes \in SUBSET Codes
  BY DEF Codes
<1>2. \A ws : ClassifyAll(ws) \subseteq TargetCodes
  BY Classified DEF ClassifyAll
<1>3. ASSUME NEW condition, NEW code \in Codes PROVE If(condition, code) \in SUBSET Codes
  BY DEF If
<1> QED BY <1>1, <1>2, <1>3

\* The flags and operands a rule sees are words of its command.
LEMMA OperandProperties ==
  ASSUME NEW W, NEW args \in Seq(W)
  PROVE  Flags(args) \in Seq(W) /\ Operands(args) \in Seq(W)
BY KeptProperties DEF Flags, Operands

RmRecursive(args) == AnyFlag(Flags(args), {"--recursive"}, {"r", "R"}, RmLetters)
RmForce(args) == AnyFlag(Flags(args), {"--force"}, {"f"}, RmLetters)
RmFound(args) ==
  If(RmRecursive(args), "fs.rm_recursive") \cup If(RmForce(args), "fs.rm_force")
    \cup ClassifyAll(Operands(args))
    \cup If(\E k \in DOMAIN Operands(args) : Unknown(Operands(args)[k]), "fs.rm_target_unknown")
RmCatastrophic(args) ==
  RmRecursive(args) /\ ClassifyAll(Operands(args)) \cap {"fs.target_root", "fs.target_home"} # {}

\* What rm adds, and every operand is noted.
LEMMA RmAdds ==
  ASSUME NEW W, NEW args \in Seq(W), RmRecursive(args) \/ RmForce(args), NEW a \in Analyses(W)
  PROVE  LET b == RuleRm(args, a)
         IN  /\ RmFound(args) \in SUBSET Codes
             /\ b \in Analyses(W) /\ Adds(a, b, RmFound(args), RmCatastrophic(args))
             /\ \A w \in Elements(Operands(args)) : Noted(w, b)
<1> DEFINE ops == Operands(args)
           X == RmFound(args)
           Y == RmCatastrophic(args)
           c == Note(NoteTargets(a, ops), X)
           b == RuleRm(args, a)
<1>1. ops \in Seq(W)
  BY OperandProperties
<1>3. X \in SUBSET Codes
  <2>1. /\ If(RmRecursive(args), "fs.rm_recursive") \in SUBSET Codes
        /\ If(RmForce(args), "fs.rm_force") \in SUBSET Codes
        /\ If(\E k \in DOMAIN ops : Unknown(ops[k]), "fs.rm_target_unknown") \in SUBSET Codes
    BY DEF If, Codes
  <2>2. ClassifyAll(ops) \in SUBSET Codes
    BY CodesAreKnown
  <2> QED BY <2>1, <2>2 DEF RmFound
<1>4. b = [c EXCEPT !.catastrophic = @ \/ Y]
  BY DEF RuleRm, RmRecursive, RmForce, RmFound, RmCatastrophic
<1> HIDE DEF X, Y, ops
<1>5. c \in Analyses(W) /\ Adds(a, c, X, FALSE) /\ \A k \in 1..Len(ops) : Noted(ops[k], c)
  BY <1>1, <1>3, WordTexts, NotesAdd
<1> HIDE DEF b, c
<1>6. Y \in BOOLEAN
  BY DEF Y, RmCatastrophic, RmRecursive, AnyFlag
<1>7. /\ b \in Analyses(W) /\ b.codes = c.codes /\ b.targets = c.targets
      /\ b.catastrophic = (c.catastrophic \/ Y)
  BY <1>4, <1>5, <1>6 DEF Analyses
<1>8. Adds(a, b, X, Y)
  BY <1>5, <1>7 DEF Adds
<1>9. \A w \in Elements(ops) : Noted(w, b)
  BY <1>1, <1>5, <1>7, WordTexts DEF Elements, Noted
<1> QED BY <1>3, <1>7, <1>8, <1>9 DEF b, X, Y, ops

\* rule_rm adds the same to whatever it is given.
LEMMA RmAdditive ==
  ASSUME NEW W, NEW args \in Seq(W)
  PROVE  Additive(W, [a \in Analyses(W) |-> RuleRm(args, a)])
<1> DEFINE f == [a \in Analyses(W) |-> RuleRm(args, a)]
<1>1. CASE ~(RmRecursive(args) \/ RmForce(args))
  <2>1. \A a \in Analyses(W) : RuleRm(args, a) = a
    BY <1>1 DEF RuleRm, RmRecursive, RmForce
  <2>2. f = [a \in Analyses(W) |-> a]
    BY <2>1
  <2> QED BY <2>2, NothingAdditive
<1>2. CASE RmRecursive(args) \/ RmForce(args)
  <2> DEFINE X == RmFound(args)
             Y == RmCatastrophic(args)
  <2>1. ASSUME NEW a \in Analyses(W)
        PROVE  X \in SUBSET Codes /\ f[a] \in Analyses(W) /\ Adds(a, f[a], X, Y)
    <3>1. f[a] = RuleRm(args, a)
      OBVIOUS
    <3> HIDE DEF f
    <3> QED BY <1>2, <3>1, RmAdds
  <2>2. Nowhere \in Analyses(W)
    <3>1. <<>> \in Seq(Texts(W))
      BY EmptySeq
    <3> QED BY <3>1 DEF Nowhere, Analyses
  <2>3. Y \in BOOLEAN /\ (Y => X # {})
    BY DEF RmCatastrophic, RmFound, RmRecursive, AnyFlag, If
  <2> HIDE DEF f, X, Y
  <2>4. Additive(W, f)
    BY <2>1, <2>2, <2>3 DEF Additive
  <2> QED BY <2>4 DEF f
<1> QED BY <1>1, <1>2

\* rule_recursive_perm adds the same to whatever it is given.
LEMMA PermAdditive ==
  ASSUME NEW W, NEW args \in Seq(W), NEW code \in Codes
  PROVE  Additive(W, [a \in Analyses(W) |-> RulePerm(args, code, a)])
<1> DEFINE f == [a \in Analyses(W) |-> RulePerm(args, code, a)]
           ops == Operands(args)
           recursive == AnyFlag(Flags(args), {"--recursive"}, {"R"}, PermLetters)
           X == {code} \cup ClassifyAll(ops)
<1>1. CASE ~recursive
  <2>1. f = [a \in Analyses(W) |-> a]
    BY <1>1 DEF RulePerm
  <2> QED BY <2>1, NothingAdditive
<1>2. CASE recursive
  <2>1. f = [a \in Analyses(W) |-> Note(NoteTargets(a, Drop(ops, 1)), X)]
    BY <1>2 DEF RulePerm
  <2>2. X \in SUBSET Codes
    BY CodesAreKnown
  <2>3. ops \in Seq(W)
    BY OperandProperties
  <2> DEFINE ws == Drop(ops, 1)
  <2> HIDE DEF X, ops
  <2>4. ws \in Seq(W)
    BY <2>3, DropProperties
  <2> HIDE DEF ws
  <2>5. Additive(W, [a \in Analyses(W) |-> Note(NoteTargets(a, ws), X)])
    BY <2>2, <2>4, WordTexts, NotesAdditive
  <2> QED BY <2>1, <2>5 DEF ws
<1> QED BY <1>1, <1>2

\* rule_copy_move adds the same to whatever it is given.
LEMMA CopyMoveAdditive ==
  ASSUME NEW W, NEW args \in Seq(W)
  PROVE  Additive(W, [a \in Analyses(W) |-> RuleCopyMove(args, a)])
<1> DEFINE f == [a \in Analyses(W) |-> RuleCopyMove(args, a)]
           ops == Operands(args)
           force == AnyFlag(Flags(args), {"--force"}, {"f"}, CopyLetters)
           dest == SubSeq(ops, Len(ops), Len(ops))
           device == IF ops = <<>> THEN {} ELSE Blockdev(dest[1].text)
           X == If(force, "fs.force_overwrite") \cup device
           noting == ops # <<>> /\ (force \/ device # {})
<1>1. X \in SUBSET Codes
  BY Classified DEF Codes, If
<1>2. ops \in Seq(W)
  BY OperandProperties
<1>3. \A a \in Analyses(W) :
        f[a] = IF noting THEN NoteTargets(Note(a, X), dest) ELSE Note(a, X)
  BY DEF RuleCopyMove
<1> HIDE DEF X, f
<1>4. CASE ~noting
  <2>1. ASSUME NEW a \in Analyses(W) PROVE f[a] \in Analyses(W) /\ Adds(a, f[a], X, FALSE)
    <3>1. f[a] = Note(a, X)
      BY <1>3, <1>4
    <3> QED BY <1>1, <3>1, NoteAdds
  <2>2. Additive(W, f)
    BY <1>1, <2>1 DEF Additive
  <2> QED BY <2>2 DEF f
<1>5. CASE noting
  <2>1. Len(ops) \in Nat \ {0} /\ \A k \in Len(ops)..Len(ops) : ops[k] \in W
    BY <1>2, <1>5, EmptySeq, WordTexts
  <2> HIDE DEF ops
  <2>2. dest \in Seq(W)
    BY <2>1, SubSeqProperties
  <2> HIDE DEF dest, noting
  <2>3. ASSUME NEW a \in Analyses(W) PROVE f[a] \in Analyses(W) /\ Adds(a, f[a], X, FALSE)
    <3> DEFINE b == Note(a, X)
    <3>1. b \in Analyses(W) /\ Adds(a, b, X, FALSE)
      BY <1>1, NoteAdds
    <3>2. f[a] = NoteTargets(b, dest)
      BY <1>3, <1>5
    <3> HIDE DEF b
    <3>3. f[a] \in Analyses(W) /\ Adds(b, f[a], {}, FALSE)
      <4>1. Len(dest) \in Nat /\ \A k \in 1..Len(dest) : dest[k].text \in Texts(W)
        BY <2>2, WordTexts
      <4> DEFINE c == NoteTargets(b, dest)
      <4>2. c \in Analyses(W) /\ Adds(b, c, {}, FALSE)
        BY <3>1, <4>1, NoteTargetsAdds
      <4> QED BY <3>2, <4>2
    <3>4. Adds(a, f[a], X \cup {}, FALSE \/ FALSE)
      BY <3>1, <3>3, AddsBoth
    <3> QED BY <3>3, <3>4 DEF Adds
  <2>4. Additive(W, f)
    BY <1>1, <2>3 DEF Additive
  <2> QED BY <2>4 DEF f
<1> QED BY <1>4, <1>5

\* rule_git adds the same to whatever it is given.
LEMMA GitAdditive ==
  ASSUME NEW W, NEW args
  PROVE  Additive(W, [a \in Analyses(W) |-> RuleGit(args, a)])
<1>1. CASE PastFlags(args, GitArgFlags) = <<>>
  <2>1. \A a : RuleGit(args, a) = a
    BY <1>1 DEF RuleGit
  <2> QED BY <2>1, NothingAdditive
<1>2. CASE PastFlags(args, GitArgFlags) # <<>>
  <2>1. PICK X \in SUBSET Codes : \A a : RuleGit(args, a) = Note(a, X)
    BY <1>2 DEF RuleGit, If, Codes
  <2> QED BY <2>1, NoteAdditive
<1> QED BY <1>1, <1>2

\* rule_dd adds the same to whatever it is given.
LEMMA DdAdditive ==
  ASSUME NEW W, NEW args \in Seq(W)
  PROVE  Additive(W, [a \in Analyses(W) |-> RuleDd(args, a)])
<1> DEFINE outs == Kept(args, {k \in DOMAIN args : Len(args[k].text) >= 2
                                                /\ SubSeq(args[k].text, 1, 2) = <<"of", "=">>})
           files == [k \in DOMAIN outs |-> [text |-> Drop(outs[k].text, 2), expands |-> outs[k].expands]]
           X == If(outs # <<>>, "system.dd_of") \cup UNION {Blockdev(files[k].text) : k \in DOMAIN files}
<1>1. \A a : RuleDd(args, a) = Note(NoteTargets(a, files), X)
  BY DEF RuleDd
<1>2. outs \in Seq(W)
  BY KeptProperties
<1> HIDE DEF X, outs
<1>3. Len(outs) \in Nat /\ DOMAIN outs = 1..Len(outs) /\ \A k \in 1..Len(outs) : outs[k] \in W
  BY <1>2, WordTexts
<1>4. Len(files) = Len(outs) /\ \A k \in 1..Len(outs) : files[k].text = Drop(outs[k].text, 2)
  BY <1>3
<1> HIDE DEF files
<1>5. X \in SUBSET Codes
  <2>1. If(outs # <<>>, "system.dd_of") \in SUBSET Codes
    BY DEF If, Codes
  <2>2. UNION {Blockdev(files[k].text) : k \in DOMAIN files} \in SUBSET Codes
    BY Classified, CodesAreKnown
  <2> QED BY <2>1, <2>2 DEF X
<1>6. \A k \in 1..Len(files) : files[k].text \in Texts(W)
  BY <1>3, <1>4 DEF Texts
<1> HIDE DEF X
<1>7. Additive(W, [a \in Analyses(W) |-> Note(NoteTargets(a, files), X)])
  BY <1>5, <1>3, <1>4, <1>6, NotesAdditive
<1> QED BY <1>1, <1>7

\* rule_mkfs adds the same to whatever it is given.
LEMMA MkfsAdditive ==
  ASSUME NEW W, NEW args \in Seq(W)
  PROVE  Additive(W, [a \in Analyses(W) |-> RuleMkfs(args, a)])
<1> DEFINE first == Kept(Operands(args), {1})
           X == {"system.mkfs"} \cup UNION {Blockdev(first[k].text) : k \in DOMAIN first}
<1>1. X \in SUBSET Codes
  BY Classified DEF Codes
<1>2. \A a : RuleMkfs(args, a) = Note(NoteTargets(a, first), X)
  BY DEF RuleMkfs
<1> HIDE DEF X
<1>3. first \in Seq(W)
  BY OperandProperties, KeptProperties
<1> HIDE DEF first
<1>4. Len(first) \in Nat /\ \A k \in 1..Len(first) : first[k].text \in Texts(W)
  BY <1>3, WordTexts
<1>5. Additive(W, [a \in Analyses(W) |-> Note(NoteTargets(a, first), X)])
  BY <1>1, <1>4, NotesAdditive
<1> QED BY <1>2, <1>5

\* The rules that only note a code.
LEMMA CodeAdditive ==
  ASSUME NEW W, NEW code \in Codes, NEW condition
  PROVE  Additive(W, [a \in Analyses(W) |-> Note(a, If(condition, code))])
BY CodesAreKnown, NoteAdditive

\* A rule is one of these, by the name alone.
LEMMA OneRule ==
  ASSUME NEW name, NEW args
  PROVE  \/ \A a : RuleOf(name, args, a) = RuleRm(args, a)
         \/ \A a : RuleOf(name, args, a) = RulePerm(args, "fs.chmod_recursive", a)
         \/ \A a : RuleOf(name, args, a) = RulePerm(args, "fs.chown_recursive", a)
         \/ \A a : RuleOf(name, args, a) = RuleCopyMove(args, a)
         \/ \A a : RuleOf(name, args, a) = RuleGit(args, a)
         \/ \A a : RuleOf(name, args, a) = RuleDd(args, a)
         \/ \A a : RuleOf(name, args, a) = RuleMkfs(args, a)
         \/ \E condition : \E code \in Codes : \A a : RuleOf(name, args, a) = Note(a, If(condition, code))
         \/ \A a : RuleOf(name, args, a) = a
<1> DEFINE is(S) == Len(name) = 1 /\ name[1] \in S
<1>1. CASE is({"rm"})
  <2>1. \A a : RuleOf(name, args, a) = RuleRm(args, a)
    BY <1>1 DEF RuleOf
  <2> QED BY <2>1
<1>2. CASE is({"chmod"})
  <2>1. \A a : RuleOf(name, args, a) = RulePerm(args, "fs.chmod_recursive", a)
    BY <1>2 DEF RuleOf
  <2> QED BY <2>1
<1>3. CASE is({"chown"})
  <2>1. \A a : RuleOf(name, args, a) = RulePerm(args, "fs.chown_recursive", a)
    BY <1>3 DEF RuleOf
  <2> QED BY <2>1
<1>4. CASE is({"cp", "mv"})
  <2>1. \A a : RuleOf(name, args, a) = RuleCopyMove(args, a)
    BY <1>4 DEF RuleOf
  <2> QED BY <2>1
<1>5. CASE is({"git"})
  <2>1. \A a : RuleOf(name, args, a) = RuleGit(args, a)
    BY <1>5 DEF RuleOf
  <2> QED BY <2>1
<1>6. CASE is({"dd"})
  <2>1. \A a : RuleOf(name, args, a) = RuleDd(args, a)
    BY <1>6 DEF RuleOf
  <2> QED BY <2>1
<1>7. CASE is({"kill"})
  <2>1. \A a : RuleOf(name, args, a) = RuleKill(args, a)
    BY <1>7 DEF RuleOf
  <2>2. \E condition : \A a : RuleOf(name, args, a) = Note(a, If(condition, "system.kill_all"))
    BY <2>1 DEF RuleKill
  <2> QED BY <2>2 DEF Codes
<1>8. CASE is({"pkill"})
  <2>1. \A a : RuleOf(name, args, a) = RulePkill(args, {".", "sh"}, a)
    BY <1>8 DEF RuleOf
  <2>2. \E condition : \A a : RuleOf(name, args, a) = Note(a, If(condition, "system.pkill_broad"))
    BY <2>1 DEF RulePkill
  <2> QED BY <2>2 DEF Codes
<1>9. CASE is({"systemctl"})
  <2>1. \A a : RuleOf(name, args, a) = RuleStop(Subcommand(args, {}, {"stop", "disable", "mask"}), a)
    BY <1>9 DEF RuleOf
  <2>2. \E condition : \A a : RuleOf(name, args, a) = Note(a, If(condition, "system.service_stop"))
    BY <2>1 DEF RuleStop
  <2> QED BY <2>2 DEF Codes
<1>10. CASE is({"service"})
  <2>1. \A a : RuleOf(name, args, a) = RuleStop(Len(args) >= 2 /\ TextIn(args[2], {"stop"}), a)
    BY <1>10 DEF RuleOf
  <2>2. \E condition : \A a : RuleOf(name, args, a) = Note(a, If(condition, "system.service_stop"))
    BY <2>1 DEF RuleStop
  <2> QED BY <2>2 DEF Codes
<1>11. CASE is({"apt", "apt-get", "dnf", "yum"})
  <2>1. \A a : RuleOf(name, args, a) = RuleRemove(Subcommand(args, {}, {"remove", "purge", "autoremove", "erase"}), a)
    BY <1>11 DEF RuleOf
  <2>2. \E condition : \A a : RuleOf(name, args, a) = Note(a, If(condition, "system.pkg_remove"))
    BY <2>1 DEF RuleRemove
  <2> QED BY <2>2 DEF Codes
<1>12. CASE is({"pacman"})
  <2>1. \A a : RuleOf(name, args, a) = RuleRemove(\E k \in DOMAIN args : ~args[k].expands /\ TextIn(args[k], {"-R", "-Rs"}), a)
    BY <1>12 DEF RuleOf
  <2>2. \E condition : \A a : RuleOf(name, args, a) = Note(a, If(condition, "system.pkg_remove"))
    BY <2>1 DEF RuleRemove
  <2> QED BY <2>2 DEF Codes
<1>13. CASE is({"mkfs", "mkfs.ext4"})
  <2>1. \A a : RuleOf(name, args, a) = RuleMkfs(args, a)
    BY <1>13 DEF RuleOf
  <2> QED BY <2>1
<1>14. CASE ~is({"rm", "chmod", "chown", "cp", "mv", "git", "dd", "kill", "pkill", "systemctl",
                "service", "apt", "apt-get", "dnf", "yum", "pacman", "mkfs", "mkfs.ext4"})
  <2>1. \A a : RuleOf(name, args, a) = a
    BY <1>14 DEF RuleOf
  <2> QED BY <2>1
<1> QED BY <1>1, <1>2, <1>3, <1>4, <1>5, <1>6, <1>7, <1>8, <1>9, <1>10, <1>11, <1>12, <1>13, <1>14

\* Whatever the command, its rule adds the same to whatever it is given.
LEMMA RuleAdditive ==
  ASSUME NEW W, NEW name, NEW args \in Seq(W)
  PROVE  Additive(W, [a \in Analyses(W) |-> RuleOf(name, args, a)])
<1> DEFINE f == [a \in Analyses(W) |-> RuleOf(name, args, a)]
<1> SUFFICES Additive(W, f)
  OBVIOUS
<1>1. CASE \A a : RuleOf(name, args, a) = RuleRm(args, a)
  <2>1. f = [a \in Analyses(W) |-> RuleRm(args, a)]
    BY <1>1
  <2> QED BY <2>1, RmAdditive
<1>2. ASSUME NEW code \in {"fs.chmod_recursive", "fs.chown_recursive"},
             \A a : RuleOf(name, args, a) = RulePerm(args, code, a)
      PROVE  Additive(W, f)
  <2>1. f = [a \in Analyses(W) |-> RulePerm(args, code, a)]
    BY <1>2
  <2>2. code \in Codes
    BY DEF Codes
  <2> QED BY <2>1, <2>2, PermAdditive
<1>3. CASE \A a : RuleOf(name, args, a) = RuleCopyMove(args, a)
  <2>1. f = [a \in Analyses(W) |-> RuleCopyMove(args, a)]
    BY <1>3
  <2> QED BY <2>1, CopyMoveAdditive
<1>4. CASE \A a : RuleOf(name, args, a) = RuleGit(args, a)
  <2>1. f = [a \in Analyses(W) |-> RuleGit(args, a)]
    BY <1>4
  <2> QED BY <2>1, GitAdditive
<1>5. CASE \A a : RuleOf(name, args, a) = RuleDd(args, a)
  <2>1. f = [a \in Analyses(W) |-> RuleDd(args, a)]
    BY <1>5
  <2> QED BY <2>1, DdAdditive
<1>6. CASE \A a : RuleOf(name, args, a) = RuleMkfs(args, a)
  <2>1. f = [a \in Analyses(W) |-> RuleMkfs(args, a)]
    BY <1>6
  <2> QED BY <2>1, MkfsAdditive
<1>7. ASSUME NEW condition, NEW code \in Codes,
             \A a : RuleOf(name, args, a) = Note(a, If(condition, code))
      PROVE  Additive(W, f)
  <2>1. f = [a \in Analyses(W) |-> Note(a, If(condition, code))]
    BY <1>7
  <2> QED BY <2>1, CodeAdditive
<1>8. CASE \A a : RuleOf(name, args, a) = a
  <2>1. f = [a \in Analyses(W) |-> a]
    BY <1>8
  <2> QED BY <2>1, NothingAdditive
<1> HIDE DEF f
<1> QED BY <1>1, <1>2, <1>3, <1>4, <1>5, <1>6, <1>7, <1>8, OneRule

-----------------------------------------------------------------------------
(* Commands *)

\* from[k] is the analysis a with what the command at the kth word adds.
Ended(ws, k) == k > Len(ws) \/ (k <= Len(ws) /\ ws[k].expands)
NextCommand(ws, k) == FlagsEnd(Drop(ws, k), WrapperArgFlags)
Wraps(ws, k) ==
  /\ ~Ended(ws, k) /\ CommandName(ws[k].text) \in Wrappers
  /\ ~(NextCommand(ws, k) > Len(Drop(ws, k)) + 1)
Found(ws, a, k) ==
  IF Ended(ws, k) THEN a
  ELSE IF CommandName(ws[k].text) \notin Wrappers
  THEN RuleOf(CommandName(ws[k].text), Drop(ws, k), a)
  ELSE [a EXCEPT !.panicked = TRUE]
Wrapped(a, inner) == IF inner.codes # a.codes THEN Note(inner, {"priv.sudo"}) ELSE inner
Commands(W, ws, a, from) ==
  /\ from \in [1..(Len(ws) + 1) -> Analyses(W)]
  /\ \A k \in 1..(Len(ws) + 1) :
       from[k] = IF ~Wraps(ws, k) THEN Found(ws, a, k)
                 ELSE Wrapped(a, from[k + NextCommand(ws, k)])

\* Behind a wrapper the next command begins further on, at most one past the end.
LEMMA WrapsOnward ==
  ASSUME NEW W, NEW ws \in Seq(W), NEW k \in 1..(Len(ws) + 1), Wraps(ws, k)
  PROVE  k + NextCommand(ws, k) \in (k + 1)..(Len(ws) + 1)
<1>1. Len(ws) \in Nat
  BY LenProperties
<1>2. k \in 1..Len(ws)
  BY <1>1 DEF Wraps, Ended
<1>3. Drop(ws, k) \in Seq(W) /\ Len(Drop(ws, k)) = Len(ws) - k
  <2>1. k \in Nat /\ k <= Len(ws)
    BY <1>1, <1>2
  <2>2. /\ Drop(ws, k) \in Seq(W)
        /\ Len(Drop(ws, k)) = IF k <= Len(ws) THEN Len(ws) - k ELSE 0
    BY <2>1, DropProperties
  <2> QED BY <2>1, <2>2
<1>4. NextCommand(ws, k) \in Nat \ {0}
  BY <1>3, FlagsEndProperties DEF NextCommand
<1> DEFINE e == NextCommand(ws, k)
           n == Len(Drop(ws, k))
<1>5. ~(e > n + 1)
  BY DEF Wraps
<1> HIDE DEF e, n
<1>6. e \in Nat \ {0} /\ n = Len(ws) - k
  BY <1>3, <1>4 DEF e, n
<1>7. k + e \in (k + 1)..(Len(ws) + 1)
  BY <1>1, <1>2, <1>5, <1>6
<1> QED BY <1>7 DEF e

\* Where no wrapper leads further, the same is added to whatever is given.
LEMMA FoundProperties ==
  ASSUME NEW W, NEW ws \in Seq(W), NEW k \in 1..(Len(ws) + 1)
  PROVE  Additive(W, [a \in Analyses(W) |-> Found(ws, a, k)])
<1> DEFINE f == [a \in Analyses(W) |-> Found(ws, a, k)]
<1> SUFFICES Additive(W, f)
  OBVIOUS
<1>0. Len(ws) \in Nat
  BY LenProperties
<1>1. CASE Ended(ws, k)
  <2>1. f = [a \in Analyses(W) |-> a]
    BY <1>1 DEF Found
  <2> QED BY <2>1, NothingAdditive
<1>2. CASE ~Ended(ws, k) /\ CommandName(ws[k].text) \notin Wrappers
  <2> DEFINE name == CommandName(ws[k].text)
             args == Drop(ws, k)
  <2>1. f = [a \in Analyses(W) |-> RuleOf(name, args, a)]
    BY <1>2 DEF Found
  <2>2. args \in Seq(W)
    BY <1>0, DropProperties
  <2> HIDE DEF name, args
  <2> QED BY <2>1, <2>2, RuleAdditive
<1>3. CASE ~Ended(ws, k) /\ CommandName(ws[k].text) \in Wrappers
  <2>1. ASSUME NEW a \in Analyses(W) PROVE f[a] \in Analyses(W) /\ Adds(a, f[a], {}, FALSE)
    <3>1. f[a] = [a EXCEPT !.panicked = TRUE]
      BY <1>3 DEF Found
    <3> HIDE DEF f
    <3>2. /\ f[a] \in Analyses(W) /\ f[a].codes = a.codes /\ f[a].targets = a.targets
          /\ f[a].catastrophic = a.catastrophic
      BY <3>1 DEF Analyses
    <3>3. Adds(a, a, {}, FALSE)
      BY AddsNothing
    <3> QED BY <3>2, <3>3 DEF Adds
  <2> HIDE DEF f
  <2> QED BY <2>1 DEF Additive
<1> QED BY <1>1, <1>2, <1>3

\* A wrapper adds to its command's findings priv.sudo or nothing.
LEMMA WrappedProperties ==
  ASSUME NEW W, NEW a \in Analyses(W), NEW v \in Analyses(W)
  PROVE  /\ Wrapped(a, v) \in Analyses(W)
         /\ \A X, Y : Adds(a, v, X, Y) => Adds(a, Wrapped(a, v), X, Y)
<1>1. {"priv.sudo"} \in SUBSET Codes
  BY DEF Codes
<1> DEFINE n == Note(v, {"priv.sudo"})
<1>2. n \in Analyses(W) /\ Adds(v, n, {"priv.sudo"}, FALSE)
  BY <1>1, NoteAdds
<1>3. Wrapped(a, v) \in {v, n}
  BY DEF Wrapped
<1>4. v.targets = n.targets /\ (n.catastrophic <=> v.catastrophic)
      /\ n.codes = v.codes \cup {"priv.sudo"}
  BY DEF Note, Analyses
<1> HIDE DEF n
<1>5. ASSUME NEW X, NEW Y, Adds(a, v, X, Y) PROVE Adds(a, n, X, Y)
  BY <1>4, <1>5 DEF Adds
<1> QED BY <1>2, <1>3, <1>5

\* analyze_command, a recursion through wrappers, ends and satisfies its equation.
LEMMA CommandsExist ==
  ASSUME NEW W, NEW ws \in Seq(W), NEW a \in Analyses(W)
  PROVE  \E from : Commands(W, ws, a, from) /\ AnalyzeCommand(ws, a) = from[1]
<1> DEFINE N == Len(ws) + 1
           D == 1..N
           Stop == {k \in D : ~Wraps(ws, k)}
           nxt == [k \in D |-> k + NextCommand(ws, k)]
           val == [k \in D |-> Found(ws, a, k)]
           m == [k \in D |-> N - k]
           F == [k \in D |-> [v \in Analyses(W) |-> Wrapped(a, v)]]
           Body(g, k) ==
             LET name == CommandName(ws[k].text)
                 args == Drop(ws, k)
                 end == FlagsEnd(args, WrapperArgFlags)
                 inner == g[k + end]
             IN  IF k > Len(ws) \/ (k <= Len(ws) /\ ws[k].expands) THEN a
                 ELSE IF name \notin Wrappers THEN RuleOf(name, args, a)
                 ELSE IF end > Len(args) + 1 THEN [a EXCEPT !.panicked = TRUE]
                 ELSE IF inner.codes # a.codes THEN Note(inner, {"priv.sudo"}) ELSE inner
           Unfolded(g, k) == IF ~Wraps(ws, k) THEN Found(ws, a, k)
                         ELSE Wrapped(a, g[k + NextCommand(ws, k)])
           from == CHOOSE g : g = [k \in D |-> Body(g, k)]
<1>0. N \in Nat /\ 1 \in D
  BY LenProperties
<1>1. m \in [D -> 0..N]
  BY <1>0
<1>2. ASSUME NEW k \in D PROVE val[k] \in Analyses(W)
  <2>1. Additive(W, [b \in Analyses(W) |-> Found(ws, b, k)])
    BY FoundProperties
  <2> QED BY <2>1 DEF Additive
<1>3. ASSUME NEW k \in D \ Stop PROVE nxt[k] \in D /\ m[nxt[k]] < m[k]
  <2>1. k \in D /\ Wraps(ws, k) /\ nxt[k] = k + NextCommand(ws, k)
    OBVIOUS
  <2>2. nxt[k] \in (k + 1)..N
    BY <2>1, WrapsOnward
  <2> HIDE DEF nxt, Stop
  <2> QED BY <1>0, <2>1, <2>2
<1>4. ASSUME NEW k \in D, NEW v \in Analyses(W)
      PROVE  F[k][v] \in Analyses(W) /\ F[k][v] = Wrapped(a, v)
  BY WrappedProperties
<1>5. \A k \in D : val[k] = Found(ws, a, k) /\ nxt[k] = k + NextCommand(ws, k)
  OBVIOUS
<1>6. \A k \in D : k \in Stop <=> ~Wraps(ws, k)
  OBVIOUS
<1>7. AnalyzeCommand(ws, a) = from[1]
  BY DEF AnalyzeCommand
<1> HIDE DEF m, nxt, val, Stop, F
<1>8. PICK f : Made(f, D, Analyses(W), Stop, val, nxt, F)
  <2>1. WellMade(D, Analyses(W), N, m, Stop, val, nxt, F)
    BY <1>1, <1>2, <1>3, <1>4 DEF WellMade
  <2> QED BY <1>0, <2>1, Recursion
<1>9. ASSUME NEW k \in D PROVE f[k] = Unfolded(f, k)
  <2>1. CASE k \in Stop
    BY <1>5, <1>6, <1>8, <2>1 DEF Made
  <2>2. CASE k \notin Stop
    <3>1. nxt[k] \in D /\ f[nxt[k]] \in Analyses(W)
      BY <1>3, <1>8, <2>2 DEF Made
    <3>2. f[k] = Wrapped(a, f[nxt[k]])
      BY <1>4, <1>8, <2>2, <3>1 DEF Made
    <3> QED BY <1>5, <1>6, <2>2, <3>2
  <2> QED BY <2>1, <2>2
<1>10. \A g, k : Body(g, k) = Unfolded(g, k)
  BY DEF Wraps, Ended, Found, Wrapped, NextCommand
<1> HIDE DEF Body, Unfolded
<1>11. from = [k \in D |-> Body(from, k)]
  <2>1. f = [k \in D |-> f[k]]
    BY <1>8 DEF Made
  <2>2. f = [k \in D |-> Body(f, k)]
    BY <1>9, <1>10, <2>1
  <2> QED BY <2>2
<1> HIDE DEF from
<1>12. \A k \in D : from[k] = Unfolded(from, k)
  BY <1>10, <1>11
<1> DEFINE S == {k \in D : from[k] \in Analyses(W)}
<1>13. ASSUME NEW k \in D, \A j \in D : m[j] < m[k] => j \in S PROVE k \in S
  <2>1. CASE k \in Stop
    BY <1>2, <1>5, <1>6, <1>12, <2>1 DEF Unfolded
  <2>2. CASE k \notin Stop
    <3>1. nxt[k] \in S
      BY <1>3, <1>13, <2>2
    <3>2. from[k] = Wrapped(a, from[nxt[k]])
      BY <1>5, <1>6, <1>12, <2>2 DEF Unfolded
    <3> QED BY <3>1, <3>2, WrappedProperties
  <2> QED BY <2>1, <2>2
<1> HIDE DEF S
<1>14. D \subseteq S
  <2> HIDE DEF D, N
  <2> QED BY <1>0, <1>1, <1>13, MeasureInduction
<1>15. Commands(W, ws, a, from)
  <2>1. from \in [D -> Analyses(W)]
    BY <1>11, <1>14 DEF S
  <2> QED BY <1>12, <2>1 DEF Commands, Unfolded
<1> QED BY <1>7, <1>15

\* analyze_command adds the same to whatever it is given, but for priv.sudo.
LEMMA CommandAdditive ==
  ASSUME NEW W, NEW ws \in Seq(W)
  PROVE  Additive(W, [a \in Analyses(W) |-> AnalyzeCommand(ws, a)])
<1> DEFINE N == Len(ws) + 1
           D == 1..N
           m == [k \in D |-> N - k]
           Same(k, X, Y) ==
             /\ X \in SUBSET Codes /\ Y \in BOOLEAN /\ (Y => X # {})
             /\ \A a \in Analyses(W) : \A from :
                  Commands(W, ws, a, from) => Adds(a, from[k], X, Y)
           S == {k \in D : \E X, Y : Same(k, X, Y)}
<1>0. N \in Nat /\ 1 \in D
  BY LenProperties
<1>1. m \in [D -> 0..N]
  BY <1>0
<1>2. ASSUME NEW k \in D, \A j \in D : m[j] < m[k] => j \in S PROVE k \in S
  <2>1. CASE ~Wraps(ws, k)
    <3>1. Additive(W, [a \in Analyses(W) |-> Found(ws, a, k)])
      BY FoundProperties
    <3>2. PICK X \in SUBSET Codes, Y \in BOOLEAN :
            /\ Y => X # {}
            /\ \A a \in Analyses(W) : Adds(a, Found(ws, a, k), X, Y)
      BY <3>1 DEF Additive
    <3>3. ASSUME NEW a \in Analyses(W), NEW from, Commands(W, ws, a, from)
          PROVE  Adds(a, from[k], X, Y)
      <4>1. from[k] = Found(ws, a, k)
        BY <2>1, <3>3 DEF Commands
      <4> QED BY <3>2, <4>1
    <3>4. Same(k, X, Y)
      BY <3>2, <3>3
    <3> QED BY <3>4
  <2>2. CASE Wraps(ws, k)
    <3> DEFINE j == k + NextCommand(ws, k)
    <3>1. j \in (k + 1)..N
      BY <2>2, WrapsOnward
    <3>2. j \in S
      BY <1>0, <1>2, <3>1
    <3>3. PICK X, Y : Same(j, X, Y)
      BY <3>2
    <3>4. ASSUME NEW a \in Analyses(W), NEW from, Commands(W, ws, a, from)
          PROVE  Adds(a, from[k], X, Y)
      <4>1. from[k] = Wrapped(a, from[j])
        BY <2>2, <3>4 DEF Commands
      <4>2. from[j] \in Analyses(W)
        BY <1>0, <3>1, <3>4 DEF Commands
      <4>3. Adds(a, from[j], X, Y)
        BY <3>3, <3>4
      <4> QED BY <4>1, <4>2, <4>3, WrappedProperties
    <3>5. Same(k, X, Y)
      BY <3>3, <3>4
    <3> QED BY <3>5
  <2> QED BY <2>1, <2>2
<1>3. 1 \in S
  <2> HIDE DEF S, m, D, N
  <2> QED BY <1>0, <1>1, <1>2, MeasureInduction
<1>4. PICK X, Y : Same(1, X, Y)
  BY <1>3
<1> DEFINE f == [a \in Analyses(W) |-> AnalyzeCommand(ws, a)]
<1>5. ASSUME NEW a \in Analyses(W) PROVE f[a] \in Analyses(W) /\ Adds(a, f[a], X, Y)
  <2>1. PICK from : Commands(W, ws, a, from) /\ AnalyzeCommand(ws, a) = from[1]
    BY CommandsExist
  <2>2. f[a] = from[1] /\ from[1] \in Analyses(W)
    BY <1>0, <2>1 DEF Commands
  <2> QED BY <1>4, <2>1, <2>2
<1> HIDE DEF f
<1>6. Additive(W, f)
  BY <1>4, <1>5 DEF Additive
<1> QED BY <1>6 DEF f

-----------------------------------------------------------------------------
(* Redirections and segments *)

SegmentAnalyses(W, t) == [a \in Analyses(W) |-> AnalyzeSegment(t, a)]

\* The words and redirections of a segment are of its tokens.
LEMMA SegmentParts ==
  ASSUME NEW W, NEW t \in Seq(W)
  PROVE  /\ SegmentWords(t) \in Seq(W)
         /\ \E R : /\ SegmentRedirects(t) \in Seq(R)
                  /\ \A r \in R : r[2] \in W
<1>1. SegmentWords(t) \in Seq(W)
  BY KeptProperties DEF SegmentWords
<1> DEFINE D == DOMAIN t
           all == [k \in D |-> k]
           K == {k \in D : IsTarget(t, k)}
           at == Kept(all, K)
           R == {<<t[k - 1].text, t[k]>> : k \in D}
<1>2. Len(t) \in Nat /\ D = 1..Len(t) /\ \A k \in D : t[k] \in W
  BY WordTexts
<1>3. all \in Seq(D)
  BY <1>2, SeqDef
<1> HIDE DEF all, K
<1>4. at \in Seq(D)
  BY <1>3, KeptProperties
<1> HIDE DEF at
<1>5. Len(at) \in Nat /\ DOMAIN at = 1..Len(at) /\ \A n \in 1..Len(at) : at[n] \in D
  BY <1>4, WordTexts
<1>6. SegmentRedirects(t) = [n \in DOMAIN at |-> <<t[at[n] - 1].text, t[at[n]]>>]
  BY DEF SegmentRedirects, at, all, K
<1>7. SegmentRedirects(t) \in Seq(R)
  BY <1>5, <1>6, SeqDef
<1>8. \A r \in R : r[2] \in W
  BY <1>2
<1> QED BY <1>1, <1>7, <1>8

\* What redirections add does not look like a recursive rm.
LEMMA RedirectsAdd ==
  ASSUME NEW W, NEW R, \A r \in R : r[2] \in W, NEW rs \in Seq(R)
  PROVE  \E X \in SUBSET Codes :
           /\ "fs.rm_recursive" \notin X
           /\ \A a \in Analyses(W) :
                RuleRedirects(rs, a) \in Analyses(W) /\ Adds(a, RuleRedirects(rs, a), X, FALSE)
<1> DEFINE cut == Kept(rs, {k \in DOMAIN rs : Truncates(rs[k][1], rs[k][2])})
           files == [k \in DOMAIN cut |-> cut[k][2]]
           X == If(cut # <<>>, "fs.redirect_truncate")
                  \cup UNION {Blockdev(files[k].text) : k \in DOMAIN files}
<1>1. \A a : RuleRedirects(rs, a) = Note(NoteTargets(a, files), X)
  BY DEF RuleRedirects
<1>2. X \in SUBSET Codes /\ "fs.rm_recursive" \notin X
  <2>1. If(cut # <<>>, "fs.redirect_truncate") \subseteq {"fs.redirect_truncate"}
    BY DEF If
  <2>2. UNION {Blockdev(files[k].text) : k \in DOMAIN files} \subseteq TargetCodes
    BY Classified
  <2>3. X \subseteq TargetCodes \cup {"fs.redirect_truncate"}
    BY <2>1, <2>2
  <2> HIDE DEF X
  <2> QED BY <2>3 DEF Codes, TargetCodes
<1> HIDE DEF X
<1>3. cut \in Seq(R)
  BY KeptProperties
<1> HIDE DEF cut
<1>4. Len(cut) \in Nat /\ DOMAIN cut = 1..Len(cut) /\ \A k \in 1..Len(cut) : cut[k] \in R
  BY <1>3, WordTexts
<1>5. Len(files) \in Nat /\ \A k \in 1..Len(files) : files[k] \in W
  BY <1>4
<1> HIDE DEF files
<1>6. \A k \in 1..Len(files) : files[k].text \in Texts(W)
  BY <1>5 DEF Texts
<1>7. ASSUME NEW a \in Analyses(W)
      PROVE  RuleRedirects(rs, a) \in Analyses(W) /\ Adds(a, RuleRedirects(rs, a), X, FALSE)
  BY <1>1, <1>2, <1>5, <1>6, NotesAdd
<1> QED BY <1>2, <1>7

\* analyze_segment adds the same to whatever it is given, but for priv.sudo.
LEMMA SegmentAdditive ==
  ASSUME NEW W, NEW t \in Seq(W)
  PROVE  Additive(W, SegmentAnalyses(W, t))
<1> DEFINE ws == SegmentWords(t)
           rs == SegmentRedirects(t)
           f == SegmentAnalyses(W, t)
           g == [a \in Analyses(W) |-> AnalyzeCommand(ws, a)]
<1>1. ws \in Seq(W)
  BY SegmentParts
<1>2. PICK R : rs \in Seq(R) /\ \A r \in R : r[2] \in W
  BY SegmentParts
<1>3. \A a \in Analyses(W) : f[a] = RuleRedirects(rs, g[a])
  BY DEF SegmentAnalyses, AnalyzeSegment
<1> HIDE DEF ws, rs, f
<1>4. Additive(W, g)
  BY <1>1, CommandAdditive
<1> HIDE DEF g
<1>5. PICK X \in SUBSET Codes, Y \in BOOLEAN :
        /\ Y => X # {}
        /\ \A a \in Analyses(W) : g[a] \in Analyses(W) /\ Adds(a, g[a], X, Y)
  BY <1>4 DEF Additive
<1>6. PICK X2 \in SUBSET Codes :
        \A a \in Analyses(W) :
          RuleRedirects(rs, a) \in Analyses(W) /\ Adds(a, RuleRedirects(rs, a), X2, FALSE)
  BY <1>2, RedirectsAdd
<1>7. ASSUME NEW a \in Analyses(W) PROVE f[a] \in Analyses(W) /\ Adds(a, f[a], X \cup X2, Y)
  <2>1. g[a] \in Analyses(W) /\ Adds(a, g[a], X, Y)
    BY <1>5
  <2>2. f[a] \in Analyses(W) /\ Adds(g[a], f[a], X2, FALSE)
    BY <1>3, <1>6, <2>1
  <2>3. Adds(a, f[a], X \cup X2, Y \/ FALSE)
    BY <2>1, <2>2, AddsBoth
  <2> QED BY <2>2, <2>3 DEF Adds
<1>8. X \cup X2 \in SUBSET Codes /\ (Y => X \cup X2 # {})
  BY <1>5
<1>9. Additive(W, f)
  BY <1>7, <1>8 DEF Additive
<1> QED BY <1>9 DEF f

-----------------------------------------------------------------------------
(* What the analysis knows of a segment *)

\* The word w, an operand of a recursive rm, is a target or marked unknown.
Vouched(w, a) ==
  /\ w.expands => IF Classify(w.text, w.expands) = {} THEN "fs.rm_target_unknown" \in a.codes
                  ELSE /\ Classify(w.text, w.expands) \subseteq a.codes
                       /\ Classify(w.text, w.expands) \cap {"fs.target_root", "fs.target_home"} # {}
                            => a.catastrophic
  /\ Noted(w, a)
RemovesAll(t) ==
  /\ SegmentWords(t) # <<>> /\ CommandName(SegmentWords(t)[1].text) = <<"rm">>
  /\ "fs.rm_recursive" \in Alone(t).codes
Heard(t, a) ==
  RemovesAll(t) =>
    \A j \in 2..Len(SegmentWords(t)) :
      ~LooksLikeFlag(SegmentWords(t)[j]) => Vouched(SegmentWords(t)[j], a)
Unshielded(t, a) ==
  /\ Alone(t).codes \ {"priv.sudo"} \subseteq a.codes
  /\ Alone(t).catastrophic => a.catastrophic

\* An operand that is vouched for stays so, whatever is added.
LEMMA StaysVouched ==
  ASSUME NEW W, NEW a \in Analyses(W), NEW b \in Analyses(W), NEW X, NEW Y, Adds(a, b, X, Y),
         NEW w, Vouched(w, a)
  PROVE  Vouched(w, b)
<1>1. Noted(w, b)
  BY StaysNoted DEF Vouched
<1>2. a.codes \subseteq b.codes /\ (a.catastrophic => b.catastrophic)
  BY DEF Adds
<1> QED BY <1>1, <1>2 DEF Vouched

\* The analysis of nothing is an analysis.
LEMMA NowhereIsAnAnalysis == ASSUME NEW W PROVE Nowhere \in Analyses(W)
<1>1. <<>> \in Seq(Texts(W))
  BY EmptySeq
<1> QED BY <1>1 DEF Nowhere, Analyses

\* A word that is no flag is an operand, before "--" and after it.
LEMMA OperandsAreKept ==
  ASSUME NEW W, NEW args \in Seq(W), NEW k \in 1..Len(args), ~LooksLikeFlag(args[k])
  PROVE  args[k] \in Elements(Operands(args))
<1>1. Len(args) \in Nat /\ DOMAIN args = 1..Len(args)
  BY WordTexts
<1> DEFINE ends == {j \in DOMAIN args : EndOfOptions(args[j])} \cup {Len(args) + 1}
           o == OptionsEnd(args)
           K == {j \in DOMAIN args : IF j < OptionsEnd(args) THEN ~LooksLikeFlag(args[j])
                                                          ELSE j > OptionsEnd(args)}
<1>2. o = Min(ends)
  BY DEF OptionsEnd
<1>3. ends \in SUBSET Nat /\ ends # {} /\ \A j \in ends : j \in Nat
  BY <1>1
<1>4. o \in ends
  <2> HIDE DEF ends, o
  <2> QED BY <1>2, <1>3, MinProperties
<1>5. o \in Nat /\ (o = Len(args) + 1 \/ EndOfOptions(args[o]))
  BY <1>1, <1>4
<1>6. o # k
  <2>1. ASSUME EndOfOptions(args[k]) PROVE FALSE
    <3>1. "--" \in Dashed
      BY DangerAssumption DEF Dashed
    <3>2. args[k].text # <<>> /\ args[k].text[1] = "--" /\ ~args[k].expands
      BY <2>1 DEF EndOfOptions
    <3> QED BY <3>1, <3>2 DEF LooksLikeFlag
  <2> QED BY <1>1, <1>5, <2>1
<1> HIDE DEF o, ends
<1>7. k \in K
  BY <1>1, <1>5, <1>6 DEF o
<1> HIDE DEF K
<1>8. Elements(Kept(args, K)) = {args[j] : j \in K \cap DOMAIN args}
  BY KeptProperties
<1>9. Operands(args) = Kept(args, K)
  BY DEF Operands, K
<1> QED BY <1>1, <1>7, <1>8, <1>9

\* The operands of an rm are vouched for by what it adds.
LEMMA RmVouches ==
  ASSUME NEW W, NEW args \in Seq(W), RmRecursive(args), NEW a \in Analyses(W),
         NEW k \in 1..Len(args), ~LooksLikeFlag(args[k])
  PROVE  Vouched(args[k], RuleRm(args, a))
<1> DEFINE w == args[k]
           ops == Operands(args)
           b == RuleRm(args, a)
<1>1. /\ b \in Analyses(W) /\ Adds(a, b, RmFound(args), RmCatastrophic(args))
      /\ \A o \in Elements(ops) : Noted(o, b)
  BY RmAdds
<1>2. w \in Elements(ops)
  BY OperandsAreKept
<1>3. PICK j \in DOMAIN ops : ops[j] = w
  BY <1>2 DEF Elements
<1> HIDE DEF b, w
<1>4. RmFound(args) \subseteq b.codes /\ (RmCatastrophic(args) => b.catastrophic)
  BY <1>1 DEF Adds
<1>5. Classify(w.text, w.expands) \subseteq ClassifyAll(ops)
  BY <1>3 DEF ClassifyAll
<1>6. ClassifyAll(ops) \subseteq b.codes
  BY <1>4 DEF RmFound
<1>7. ASSUME w.expands, Classify(w.text, w.expands) = {} PROVE "fs.rm_target_unknown" \in b.codes
  BY <1>3, <1>4, <1>7 DEF RmFound, Unknown, If
<1>8. ASSUME Classify(w.text, w.expands) \cap {"fs.target_root", "fs.target_home"} # {}
      PROVE  b.catastrophic
  BY <1>4, <1>5, <1>8 DEF RmCatastrophic
<1>9. Noted(w, b)
  BY <1>1, <1>2
<1>10. Vouched(w, b)
  BY <1>5, <1>6, <1>7, <1>8, <1>9 DEF Vouched
<1> QED BY <1>10 DEF w, b

\* An rm that is recursive is found to be, and by itself.
LEMMA RmIsRecursive ==
  ASSUME NEW W, NEW args \in Seq(W), NEW a \in Analyses(W),
         "fs.rm_recursive" \notin a.codes, "fs.rm_recursive" \in RuleRm(args, a).codes
  PROVE  RmRecursive(args)
<1>1. CASE ~(RmRecursive(args) \/ RmForce(args))
  <2>1. RuleRm(args, a) = a
    BY <1>1 DEF RuleRm, RmRecursive, RmForce
  <2> QED BY <2>1
<1>2. CASE RmRecursive(args) \/ RmForce(args)
  <2> DEFINE b == RuleRm(args, a)
  <2>1. Adds(a, b, RmFound(args), RmCatastrophic(args))
    BY <1>2, RmAdds
  <2> HIDE DEF b
  <2>2. b.codes \subseteq a.codes \cup RmFound(args) \cup {"priv.sudo"}
    BY <2>1 DEF Adds
  <2>3. "fs.rm_recursive" \in RmFound(args)
    BY <2>2 DEF b
  <2>4. "fs.rm_recursive" \notin ClassifyAll(Operands(args))
    BY CodesAreKnown DEF TargetCodes
  <2> QED BY <2>3, <2>4 DEF RmFound, If
<1> QED BY <1>1, <1>2

\* The command rm is what its rule makes of its arguments.
LEMMA RmCommand ==
  ASSUME NEW W, NEW ws \in Seq(W), ws # <<>>, CommandName(ws[1].text) = <<"rm">>,
         NEW a \in Analyses(W)
  PROVE  /\ 1 <= Len(ws) /\ Drop(ws, 1) \in Seq(W)
         /\ AnalyzeCommand(ws, a) = IF ws[1].expands THEN a ELSE RuleRm(Drop(ws, 1), a)
<1>1. Len(ws) \in Nat /\ Len(ws) >= 1
  BY EmptySeq, WordTexts
<1>2. PICK from : Commands(W, ws, a, from) /\ AnalyzeCommand(ws, a) = from[1]
  BY CommandsExist
<1>3. <<"rm">> \notin Wrappers
  BY DEF Wrappers
<1>4. from[1] = Found(ws, a, 1)
  BY <1>1, <1>2, <1>3 DEF Commands, Wraps
<1>5. RuleOf(<<"rm">>, Drop(ws, 1), a) = RuleRm(Drop(ws, 1), a)
  BY DEF RuleOf
<1>6. Found(ws, a, 1) = IF ws[1].expands THEN a ELSE RuleRm(Drop(ws, 1), a)
  BY <1>1, <1>3, <1>5 DEF Found, Ended
<1>7. Drop(ws, 1) \in Seq(W)
  BY DropProperties
<1> QED BY <1>1, <1>2, <1>4, <1>6, <1>7

\* Whatever went before, a segment is heard and what it is by itself shows; what
\* was so of other segments stays so.
LEMMA SegmentIsHeard ==
  ASSUME NEW W, NEW t \in Seq(W), NEW a \in Analyses(W)
  PROVE  LET b == AnalyzeSegment(t, a)
         IN  /\ b \in Analyses(W) /\ Heard(t, b) /\ Unshielded(t, b)
             /\ \A u : Heard(u, a) => Heard(u, b)
             /\ \A u : Unshielded(u, a) => Unshielded(u, b)
             /\ (a.catastrophic => a.codes # {}) => (b.catastrophic => b.codes # {})
<1> DEFINE b == AnalyzeSegment(t, a)
           alone == Alone(t)
           ws == SegmentWords(t)
           rs == SegmentRedirects(t)
           args == Drop(ws, 1)
<1>1. Additive(W, SegmentAnalyses(W, t))
  BY SegmentAdditive
<1>2. Nowhere \in Analyses(W)
  BY NowhereIsAnAnalysis
<1>3. PICK X \in SUBSET Codes, Y \in BOOLEAN :
        /\ Y => X # {}
        /\ b \in Analyses(W) /\ Adds(a, b, X, Y)
        /\ alone \in Analyses(W) /\ Adds(Nowhere, alone, X, Y)
  BY <1>1, <1>2 DEF Additive, SegmentAnalyses, Alone
<1>4. ws \in Seq(W)
  BY SegmentParts
<1>5. PICK R : rs \in Seq(R) /\ \A r \in R : r[2] \in W
  BY SegmentParts
<1>6. PICK X2 \in SUBSET Codes :
        /\ "fs.rm_recursive" \notin X2
        /\ \A c \in Analyses(W) :
             RuleRedirects(rs, c) \in Analyses(W) /\ Adds(c, RuleRedirects(rs, c), X2, FALSE)
  BY <1>5, RedirectsAdd
<1>7. /\ b = RuleRedirects(rs, AnalyzeCommand(ws, a))
      /\ alone = RuleRedirects(rs, AnalyzeCommand(ws, Nowhere))
  BY DEF AnalyzeSegment, Alone
<1> HIDE DEF b, alone, ws, rs, args
<1>8. Nowhere.codes = {} /\ Nowhere.catastrophic = FALSE
  BY DEF Nowhere
<1>9. Unshielded(t, b)
  BY <1>3, <1>8 DEF Adds, Unshielded, alone
<1>10. \A u : Unshielded(u, a) => Unshielded(u, b)
  BY <1>3 DEF Adds, Unshielded
<1>11. \A u : Heard(u, a) => Heard(u, b)
  BY <1>3, StaysVouched DEF Heard
<1>12. (a.catastrophic => a.codes # {}) => (b.catastrophic => b.codes # {})
  BY <1>3 DEF Adds
<1>13. ASSUME RemovesAll(t), NEW j \in 2..Len(ws), ~LooksLikeFlag(ws[j])
       PROVE  Vouched(ws[j], b)
  <2> DEFINE c == AnalyzeCommand(ws, a)
             first == AnalyzeCommand(ws, Nowhere)
  <2>1. ws # <<>> /\ CommandName(ws[1].text) = <<"rm">> /\ "fs.rm_recursive" \in alone.codes
    BY <1>13 DEF RemovesAll, ws, alone
  <2>2. /\ 1 <= Len(ws) /\ args \in Seq(W)
        /\ first = IF ws[1].expands THEN Nowhere ELSE RuleRm(args, Nowhere)
        /\ c = IF ws[1].expands THEN a ELSE RuleRm(args, a)
    BY <1>2, <1>4, <2>1, RmCommand DEF args
  <2>3. c \in Analyses(W) /\ first \in Analyses(W)
    <3>1. Additive(W, [d \in Analyses(W) |-> AnalyzeCommand(ws, d)])
      BY <1>4, CommandAdditive
    <3> QED BY <1>2, <3>1 DEF Additive
  <2> HIDE DEF c, first
  <2>4. "fs.rm_recursive" \in first.codes
    <3>1. Adds(first, alone, X2, FALSE)
      BY <1>6, <1>7, <2>3 DEF first
    <3> QED BY <1>6, <2>1, <3>1 DEF Adds
  <2>5. ~ws[1].expands
    BY <1>8, <2>2, <2>4
  <2>6. RmRecursive(args)
    BY <1>2, <1>8, <2>2, <2>4, <2>5, RmIsRecursive
  <2>7. j - 1 \in 1..Len(args) /\ args[j - 1] = ws[j]
    <3>1. Len(ws) \in Nat /\ 1 \in Nat
      BY <1>4, WordTexts
    <3>2. /\ Len(args) = IF 1 <= Len(ws) THEN Len(ws) - 1 ELSE 0
          /\ \A k \in 1..(Len(ws) - 1) : args[k] = ws[1 + k]
      BY <1>4, <3>1, DropProperties DEF args
    <3>3. j - 1 \in 1..(Len(ws) - 1) /\ 1 + (j - 1) = j
      BY <3>1
    <3> QED BY <2>2, <3>1, <3>2, <3>3
  <2>8. Vouched(ws[j], c)
    <3>1. ~LooksLikeFlag(args[j - 1])
      BY <1>13, <2>7
    <3>2. Vouched(args[j - 1], RuleRm(args, a))
      BY <2>2, <2>6, <2>7, <3>1, RmVouches
    <3> QED BY <2>2, <2>5, <2>7, <3>2
  <2>9. Adds(c, b, X2, FALSE)
    BY <1>6, <1>7, <2>3 DEF c
  <2> QED BY <1>3, <2>3, <2>8, <2>9, StaysVouched
<1>14. Heard(t, b)
  BY <1>13 DEF Heard, ws
<1> QED BY <1>3, <1>9, <1>10, <1>11, <1>12, <1>14 DEF b

-----------------------------------------------------------------------------
(* The tokens of a line *)

Fields == {"i", "tokens", "uncertainty", "pendingHeredoc"}
Grows(x, y) ==
  /\ DOMAIN y = Fields
  /\ y.tokens = x.tokens \/ \E t : y.tokens = Append(x.tokens, t)

\* Emitting a token adds it; the other steps of the lexer leave the tokens alone.
LEMMA LexerGrows ==
  ASSUME NEW s, NEW x, DOMAIN x = Fields
  PROVE  Grows(x, LexStep(s, x))
<1>1. ASSUME NEW to, NEW t PROVE Grows(x, Emit(x, to, t))
  BY DEF Emit, Grows, Fields
<1>2. ASSUME NEW y, Grows(x, y)
      PROVE  Grows(x, [y EXCEPT !.pendingHeredoc = TRUE, !.uncertainty = @ \cup {"syntax.heredoc"}])
  BY <1>2 DEF Grows, Fields
<1>3. Grows(x, LexWord(s, x))
  <2> DEFINE p == WordFrom(s, x.i)
             read == [x EXCEPT !.i = p.to, !.uncertainty = @ \cup p.notes]
  <2>1. DOMAIN read = Fields /\ read.tokens = x.tokens
    BY DEF Fields
  <2>2. LexWord(s, x) = IF p.has THEN Emit(read, p.to, WordToken(p)) ELSE read
    BY DEF LexWord
  <2> HIDE DEF read, p
  <2>3. Grows(x, Emit(read, p.to, WordToken(p)))
    BY <2>1 DEF Emit, Grows, Fields
  <2>4. Grows(x, read)
    BY <2>1 DEF Grows
  <2> QED BY <2>2, <2>3, <2>4
<1>4. Grows(x, LexControl(s, x))
  BY <1>1 DEF LexControl
<1>5. ASSUME NEW j PROVE Grows(x, LexRedirect(s, x, j))
  <2> DEFINE e == RedirectEnd(s, j)
             read == Emit(x, e, Token("redirect", Raw(s, x.i, e)))
  <2>1. Grows(x, read)
    BY <1>1
  <2>2. \/ LexRedirect(s, x, j) = read
        \/ LexRedirect(s, x, j)
             = [read EXCEPT !.pendingHeredoc = TRUE, !.uncertainty = @ \cup {"syntax.heredoc"}]
    BY DEF LexRedirect
  <2> HIDE DEF read
  <2> QED BY <1>2, <2>1, <2>2
<1>6. Grows(x, LexNewline(s, x))
  <2>1. Grows(x, [x EXCEPT !.i = Len(s) + 1])
    BY DEF Grows, Fields
  <2> QED BY <1>1, <2>1 DEF LexNewline
<1>7. Grows(x, [x EXCEPT !.i = @ + 1])
  BY DEF Grows, Fields
<1> DEFINE c == At(s, x.i)
           j == SkipAll(s, x.i, Digits)
<1> QED BY <1>1, <1>3, <1>4, <1>5, <1>6, <1>7 DEF LexStep

\* Tokens are a sequence, whatever they are.
Tokens(x) == DOMAIN x = Fields /\ x.tokens \in Seq(Elements(x.tokens))

\* Every step of the lexer keeps its tokens a sequence.
LEMMA LexerSteps ==
  ASSUME NEW s, NEW x, Tokens(x)
  PROVE  Tokens(LexStep(s, x))
<1> DEFINE y == LexStep(s, x)
           W == Elements(x.tokens)
<1>1. Grows(x, y)
  BY LexerGrows DEF Tokens
<1> HIDE DEF y
<1>2. ASSUME NEW t, y.tokens = Append(x.tokens, t) PROVE y.tokens \in Seq(Elements(y.tokens))
  <2>1. x.tokens \in Seq(W \cup {t})
    BY SeqMonotonic DEF Tokens
  <2>2. Append(x.tokens, t) \in Seq(W \cup {t}) /\ Elements(Append(x.tokens, t)) = W \cup {t}
    BY <2>1, AppendElements
  <2> QED BY <1>2, <2>2
<1> QED BY <1>1, <1>2 DEF Tokens, Grows, y

-----------------------------------------------------------------------------
(* The segments of a line *)

\* The cuts of a line are its two ends and its operators.
LEMMA CutProperties ==
  ASSUME NEW W, NEW t \in Seq(W)
  PROVE  /\ Len(t) \in Nat /\ DOMAIN t = 1..Len(t)
         /\ Cuts(t) \subseteq 0..(Len(t) + 1) /\ 0 \in Cuts(t) /\ Len(t) + 1 \in Cuts(t)
         /\ \A k \in 1..Len(t) : k \in Cuts(t) <=> IsOp(t[k])
<1>1. Len(t) \in Nat /\ DOMAIN t = 1..Len(t)
  BY WordTexts
<1> QED BY <1>1 DEF Cuts

\* The rest of a line from a cut on ends its first segment at the next cut.
LEMMA NextCut ==
  ASSUME NEW W, NEW t \in Seq(W), NEW j \in Cuts(t), j # Len(t) + 1
  PROVE  LET r == Drop(t, j)
             e == SegmentEnd(r)
         IN  /\ r \in Seq(W) /\ e \in Nat
             /\ j + e \in Cuts(t) /\ \A i \in Cuts(t) : i < j + e => i <= j
             /\ SubSeq(r, 1, e - 1) = SegmentAt(t, j) /\ SegmentAt(t, j) \in Seq(W)
             /\ e <= Len(r) => j + e # Len(t) + 1 /\ Drop(r, e) = Drop(t, j + e)
             /\ ~(e <= Len(r)) => j + e = Len(t) + 1
<1> DEFINE N == Len(t)
           r == Drop(t, j)
           ends == {k \in DOMAIN r : IsOp(r[k])} \cup {Len(r) + 1}
           e == SegmentEnd(r)
           next == {k \in Cuts(t) : k > j}
<1>1. /\ N \in Nat /\ Cuts(t) \subseteq 0..(N + 1) /\ N + 1 \in Cuts(t)
      /\ \A k \in 1..N : k \in Cuts(t) <=> IsOp(t[k])
  BY CutProperties
<1>2. j \in 0..N
  BY <1>1
<1>3. /\ r \in Seq(W) /\ Len(r) = N - j
      /\ \A k \in 1..(N - j) : r[k] = t[j + k]
  BY <1>1, <1>2, DropProperties
<1>4. Len(r) \in Nat /\ DOMAIN r = 1..Len(r)
  BY <1>3, WordTexts
<1>5. e = Min(ends)
  BY DEF SegmentEnd
<1>6. SegmentAt(t, j) = SubSeq(t, j + 1, Min(next) - 1)
  BY DEF SegmentAt
<1> HIDE DEF N, r, e
<1>7. ASSUME NEW k \in Nat PROVE k \in ends <=> j + k \in next
  <2>1. k \in ends <=> (k \in 1..(N - j) /\ IsOp(r[k])) \/ k = (N - j) + 1
    BY <1>3, <1>4
  <2>2. j + k \in next <=> j + k \in Cuts(t) /\ j + k > j
    OBVIOUS
  <2>3. CASE k \in 1..(N - j)
    <3>1. j + k \in 1..N /\ j + k > j /\ k # (N - j) + 1
      BY <1>1, <1>2, <2>3
    <3> QED BY <1>1, <1>3, <2>1, <2>2, <2>3, <3>1
  <2>4. CASE k = (N - j) + 1
    <3>1. j + k = N + 1 /\ N + 1 > j
      BY <1>1, <1>2, <2>4
    <3> QED BY <1>1, <2>1, <2>2, <2>4, <3>1
  <2>5. CASE k = 0
    <3>1. k \notin 1..(N - j) /\ k # (N - j) + 1 /\ ~(j + k > j)
      BY <1>1, <1>2, <2>5
    <3> QED BY <2>1, <2>2, <3>1
  <2>6. CASE k > (N - j) + 1
    <3>1. k \notin 1..(N - j) /\ k # (N - j) + 1 /\ j + k \notin 0..(N + 1)
      BY <1>1, <1>2, <2>6
    <3> QED BY <1>1, <2>1, <2>2, <3>1
  <2> QED BY <1>1, <1>2, <2>3, <2>4, <2>5, <2>6
<1>8. e \in ends /\ \A k \in ends : e <= k
  <2>1. ends \in SUBSET Nat /\ ends # {}
    BY <1>4
  <2> HIDE DEF ends
  <2> QED BY <1>5, <2>1, MinProperties
<1>9. e \in Nat /\ e \in 1..(N - j + 1)
  BY <1>1, <1>2, <1>3, <1>4, <1>8
<1>10. j + e \in next
  BY <1>7, <1>8, <1>9
<1>11. ASSUME NEW i \in next PROVE j + e <= i
  <2>1. i \in Nat /\ i - j \in Nat /\ j + (i - j) = i
    BY <1>1, <1>2
  <2>2. i - j \in ends
    BY <1>7, <2>1
  <2>3. e <= i - j
    BY <1>8, <2>2
  <2> QED BY <1>2, <1>9, <2>1, <2>3
<1>12. Min(next) = j + e
  <2>1. next \in SUBSET Nat /\ next # {}
    BY <1>1, <1>10
  <2> HIDE DEF next
  <2>2. Min(next) \in next /\ \A i \in next : Min(next) <= i
    BY <2>1, MinProperties
  <2>3. Min(next) <= j + e /\ j + e <= Min(next) /\ Min(next) \in Nat /\ j + e \in Nat
    BY <1>10, <1>11, <2>1, <2>2
  <2> QED BY <2>3
<1>13. \A i \in Cuts(t) : i < j + e => i <= j
  <2> TAKE i \in Cuts(t)
  <2>1. i \in Nat /\ j \in Nat
    BY <1>1, <1>2
  <2>2. i > j => j + e <= i
    BY <1>11
  <2> QED BY <1>9, <2>1, <2>2
<1>14. ~(e <= Len(r)) => j + e = N + 1
  BY <1>1, <1>2, <1>3, <1>9
<1>15. /\ SubSeq(t, j + 1, j + e - 1) \in Seq(W)
       /\ SubSeq(r, 1, e - 1) = SubSeq(t, j + 1, j + e - 1)
  <2> DEFINE a == SubSeq(r, 1, e - 1)
             b == SubSeq(t, j + 1, j + e - 1)
  <2>1. \A k \in 1..(e - 1) : r[k] \in W /\ r[k] = t[j + k]
    BY <1>1, <1>2, <1>3, <1>4, <1>9, WordTexts
  <2>2. \A k \in (j + 1)..(j + e - 1) : t[k] \in W
    <3> TAKE k \in (j + 1)..(j + e - 1)
    <3>1. k \in 1..N
      BY <1>1, <1>2, <1>9
    <3> QED BY <3>1, WordTexts DEF N
  <2>3. e - 1 \in Int /\ j + 1 \in Int /\ j + e - 1 \in Int /\ 1 \in Int
    BY <1>2, <1>9
  <2>4. /\ a \in Seq(W) /\ Len(a) = IF 1 <= e - 1 THEN (e - 1) - 1 + 1 ELSE 0
        /\ \A k \in 1..((e - 1) - 1 + 1) : a[k] = r[1 + k - 1]
    BY <2>1, <2>3, SubSeqProperties
  <2>5. /\ b \in Seq(W) /\ Len(b) = IF j + 1 <= j + e - 1 THEN (j + e - 1) - (j + 1) + 1 ELSE 0
        /\ \A k \in 1..((j + e - 1) - (j + 1) + 1) : b[k] = t[(j + 1) + k - 1]
    BY <2>2, <2>3, SubSeqProperties
  <2> HIDE DEF a, b
  <2>6. Len(a) = e - 1 /\ Len(b) = e - 1
    BY <1>2, <1>9, <2>4, <2>5
  <2>7. \A k \in 1..(e - 1) : a[k] = b[k]
    <3> TAKE k \in 1..(e - 1)
    <3>1. a[k] = r[k]
      BY <1>9, <2>4
    <3>2. b[k] = t[j + k]
      BY <1>2, <1>9, <2>5
    <3> QED BY <2>1, <3>1, <3>2
  <2>8. a = b
    BY <2>4, <2>5, <2>6, <2>7, SeqEqual
  <2> QED BY <2>5, <2>8 DEF a, b
<1>16. e <= Len(r) => j + e # N + 1 /\ Drop(r, e) = Drop(t, j + e)
  <2> HAVE e <= Len(r)
  <2> DEFINE a == Drop(r, e)
             b == Drop(t, j + e)
  <2>1. j + e \in Nat /\ j + e <= N
    BY <1>1, <1>2, <1>3, <1>9
  <2>2. /\ a \in Seq(W) /\ Len(a) = IF e <= Len(r) THEN Len(r) - e ELSE 0
        /\ \A k \in 1..(Len(r) - e) : a[k] = r[e + k]
    BY <1>3, <1>9, DropProperties
  <2>3. /\ b \in Seq(W) /\ Len(b) = IF j + e <= N THEN N - (j + e) ELSE 0
        /\ \A k \in 1..(N - (j + e)) : b[k] = t[(j + e) + k]
    BY <2>1, DropProperties DEF N
  <2> HIDE DEF a, b
  <2>4. Len(a) = N - (j + e) /\ Len(b) = N - (j + e)
    BY <1>1, <1>2, <1>3, <1>9, <2>1, <2>2, <2>3
  <2>5. \A k \in 1..(N - (j + e)) : a[k] = b[k]
    <3> TAKE k \in 1..(N - (j + e))
    <3>1. a[k] = r[e + k]
      BY <1>1, <1>2, <1>3, <1>9, <2>2
    <3>2. e + k \in 1..(N - j) /\ j + (e + k) = (j + e) + k
      BY <1>1, <1>2, <1>9
    <3>3. r[e + k] = t[j + (e + k)]
      BY <1>3, <3>2
    <3> QED BY <2>3, <3>1, <3>2, <3>3
  <2>6. a = b
    BY <2>2, <2>3, <2>4, <2>5, SeqEqual
  <2> QED BY <1>1, <2>1, <2>6 DEF a, b
<1>17. j + e \in Cuts(t)
  BY <1>10
<1>18. SegmentAt(t, j) = SubSeq(t, j + 1, j + e - 1)
  <2>1. Min(next) - 1 = j + e - 1
    BY <1>2, <1>9, <1>12
  <2> HIDE DEF next
  <2> QED BY <1>6, <2>1
<1>19. /\ r \in Seq(W) /\ e \in Nat
       /\ j + e \in Cuts(t) /\ \A i \in Cuts(t) : i < j + e => i <= j
       /\ SubSeq(r, 1, e - 1) = SegmentAt(t, j) /\ SegmentAt(t, j) \in Seq(W)
       /\ e <= Len(r) => j + e # N + 1 /\ Drop(r, e) = Drop(t, j + e)
       /\ ~(e <= Len(r)) => j + e = N + 1
  BY <1>3, <1>9, <1>13, <1>14, <1>15, <1>16, <1>17, <1>18
<1> QED BY <1>19 DEF N, r, e

-----------------------------------------------------------------------------
(* The invariant of the analysis *)

Reading == {"names", "scan", "danger"}
Known == {"collect", "matrix", "model", "decide", "done"}
Weighed == {"model", "decide", "done"}
Settled == {"decide", "done"}

\* Of every segment of t that begins before its jth token the analysis a knows all.
Covered(t, a, j) ==
  \A i \in Cuts(t) : i < j => Heard(SegmentAt(t, i), a) /\ Unshielded(SegmentAt(t, i), a)

TypeInv ==
  /\ stage \in {"lex", "panicked"} \cup Reading \cup Known
  /\ Tokens(lx) /\ an \in Analyses(Elements(lx.tokens))
  /\ an.catastrophic => an.codes # {}
  /\ stage = "lex" => an = Nowhere

\* What the danger layer has not seen begins at a cut, and all before it was heard.
HeardInv ==
  /\ stage \in Reading =>
       \E j \in Cuts(lx.tokens) :
         j # Len(lx.tokens) + 1 /\ rest = Drop(lx.tokens, j) /\ Covered(lx.tokens, an, j)
  /\ stage \in Known => Covered(lx.tokens, an, Len(lx.tokens) + 1)

\* The context is one of this line, the assessment of this context, the answer one
\* to a question the facts left open.
FactsInv ==
  /\ stage \in Known \ {"collect"} /\ an.codes # {} =>
       world \in Worlds /\ ctx = Collect(world, an.targets)
  /\ warranted = IF stage \in Weighed THEN Warranted(an, ctx) ELSE Assess("allow", "none")
  /\ stage \in Settled => answer \in Answers /\ (answer # "none" => L4Gate(an, warranted))

VerdictInv == TypeInv /\ HeardInv /\ FactsInv

\* Before the first cut there is nothing to cover.
LEMMA NothingToCover ==
  ASSUME Tokens(lx)
  PROVE  /\ 0 \in Cuts(lx.tokens) /\ 0 # Len(lx.tokens) + 1 /\ Covered(lx.tokens, an, 0)
         /\ lx.tokens = Drop(lx.tokens, 0)
<1> DEFINE t == lx.tokens
           W == Elements(t)
<1>1. t \in Seq(W)
  BY DEF Tokens
<1> HIDE DEF t, W
<1>2. Len(t) \in Nat /\ Cuts(t) \subseteq 0..(Len(t) + 1) /\ 0 \in Cuts(t)
  BY <1>1, CutProperties
<1>3. 0 # Len(t) + 1 /\ \A i \in Cuts(t) : ~(i < 0)
  BY <1>2
<1>4. t = Drop(t, 0)
  <2> DEFINE d == Drop(t, 0)
  <2>1. /\ d \in Seq(W) /\ Len(d) = IF 0 <= Len(t) THEN Len(t) - 0 ELSE 0
        /\ \A k \in 1..(Len(t) - 0) : d[k] = t[0 + k]
    BY <1>1, DropProperties
  <2> HIDE DEF d
  <2>2. Len(d) = Len(t) /\ \A k \in 1..Len(t) : t[k] = d[k]
    BY <1>2, <2>1
  <2> QED BY <1>1, <2>1, <2>2, SeqEqual DEF d
<1> QED BY <1>2, <1>3, <1>4 DEF Covered, t

\* A check starts within the invariant.
LEMMA InitVerdict == Init => VerdictInv
<1> SUFFICES ASSUME NEW in \in Inputs, CheckStart(in) PROVE VerdictInv
  BY DEF Init
<1>1. DOMAIN lx = Fields /\ lx.tokens = <<>>
  BY DEF CheckStart, Start, Fields
<1>2. Tokens(lx)
  BY <1>1, EmptySeq DEF Tokens
<1>3. an = Nowhere /\ stage = "lex" /\ warranted = Assess("allow", "none")
  BY DEF CheckStart
<1>4. an \in Analyses(Elements(lx.tokens))
  BY <1>3, NowhereIsAnAnalysis
<1>5. ~an.catastrophic
  BY <1>3 DEF Nowhere
<1>6. TypeInv
  BY <1>2, <1>3, <1>4, <1>5 DEF TypeInv
<1>7. HeardInv
  BY <1>3 DEF HeardInv, Reading, Known
<1>8. FactsInv
  BY <1>3 DEF FactsInv, Known, Weighed, Settled
<1> QED BY <1>6, <1>7, <1>8 DEF VerdictInv

\* The typo search leaves what the other layers know alone.
LEMMA SearchKeeps ==
  ASSUME VerdictInv, stage \in Reading, stage' \in Reading,
         UNCHANGED <<lx, rest, an, world, ctx, warranted, answer>>
  PROVE  VerdictInv'
<1>1. TypeInv'
  BY DEF VerdictInv, TypeInv, Reading, Known, Tokens, Fields
<1>2. HeardInv'
  BY DEF VerdictInv, HeardInv, Covered, Reading, Known
<1>3. FactsInv'
  BY DEF VerdictInv, FactsInv, Reading, Known, Weighed, Settled
<1> QED BY <1>1, <1>2, <1>3 DEF VerdictInv

\* The lexer's steps keep the invariant.
LEMMA LexKeeps ==
  ASSUME VerdictInv, LexNext \/ Lexed
  PROVE  VerdictInv'
<1>1. /\ stage = "lex" /\ an = Nowhere /\ Tokens(lx)
      /\ warranted = Assess("allow", "none")
  BY DEF VerdictInv, TypeInv, FactsInv, LexNext, Lexed, Weighed
<1>2. CASE LexNext
  <2>1. lx' = LexStep(line, lx) /\ UNCHANGED <<stage, rest, an, world, ctx, warranted, answer>>
    BY <1>2 DEF LexNext, facts
  <2>2. Tokens(lx')
    BY <1>1, <2>1, LexerSteps
  <2>3. an' \in Analyses(Elements(lx'.tokens)) /\ ~an'.catastrophic
    BY <1>1, <2>1, NowhereIsAnAnalysis DEF Nowhere
  <2>4. TypeInv'
    BY <1>1, <2>1, <2>2, <2>3 DEF TypeInv
  <2>5. HeardInv'
    BY <1>1, <2>1 DEF HeardInv, Reading, Known
  <2>6. FactsInv'
    BY <1>1, <2>1 DEF FactsInv, Known, Weighed, Settled
  <2> QED BY <2>4, <2>5, <2>6 DEF VerdictInv
<1>3. CASE Lexed
  <2>1. /\ stage' \in Reading /\ rest' = lx.tokens
        /\ UNCHANGED <<lx, an, world, ctx, warranted, answer>>
    BY <1>3 DEF Lexed, facts, Reading
  <2>2. TypeInv'
    BY <1>1, <2>1 DEF VerdictInv, TypeInv, Reading
  <2>3. /\ 0 \in Cuts(lx.tokens) /\ 0 # Len(lx.tokens) + 1 /\ Covered(lx.tokens, an, 0)
        /\ rest' = Drop(lx.tokens, 0)
    BY <1>1, <2>1, NothingToCover
  <2>4. HeardInv'
    BY <2>1, <2>3 DEF HeardInv, Covered, Reading, Known
  <2>5. FactsInv'
    BY <1>1, <2>1 DEF FactsInv, Reading, Known, Weighed, Settled
  <2> QED BY <2>2, <2>4, <2>5 DEF VerdictInv
<1> QED BY <1>2, <1>3

\* Reading a segment keeps the invariant: it is heard and unshielded, and the walk
\* goes on at the next cut.
LEMMA SegmentKeeps ==
  ASSUME VerdictInv, NextSegment
  PROVE  VerdictInv'
<1> DEFINE t == lx.tokens
           W == Elements(t)
           e == SegmentEnd(rest)
           found == AnalyzeSegment(SubSeq(rest, 1, e - 1), an)
<1>1. /\ t \in Seq(W) /\ an \in Analyses(W) /\ (an.catastrophic => an.codes # {})
      /\ stage = "danger" /\ Tokens(lx)
  BY DEF VerdictInv, TypeInv, Tokens, NextSegment
<1>2. PICK j \in Cuts(t) : j # Len(t) + 1 /\ rest = Drop(t, j) /\ Covered(t, an, j)
  BY <1>1 DEF VerdictInv, HeardInv, Reading
<1>3. /\ an' = found /\ rest' = Drop(rest, e)
      /\ stage' = IF found.panicked THEN "panicked"
                  ELSE IF e <= Len(rest) THEN "danger"
                  ELSE IF found.codes = {} THEN "matrix" ELSE "collect"
      /\ UNCHANGED <<lx, world, ctx, warranted, answer>>
  BY DEF NextSegment, facts
<1> DEFINE seg == SegmentAt(t, j)
<1>4. /\ rest \in Seq(W) /\ e \in Nat
      /\ j + e \in Cuts(t) /\ \A i \in Cuts(t) : i < j + e => i <= j
      /\ SubSeq(rest, 1, e - 1) = seg /\ seg \in Seq(W)
      /\ e <= Len(rest) => j + e # Len(t) + 1 /\ Drop(rest, e) = Drop(t, j + e)
      /\ ~(e <= Len(rest)) => j + e = Len(t) + 1
  BY <1>1, <1>2, NextCut
<1>5. found = AnalyzeSegment(seg, an)
  BY <1>4
<1>6. Cuts(t) \subseteq Nat
  BY <1>1, CutProperties
<1> HIDE DEF t, W, e, found, seg
<1>7. /\ found \in Analyses(W) /\ Heard(seg, found) /\ Unshielded(seg, found)
      /\ \A u : Heard(u, an) => Heard(u, found)
      /\ \A u : Unshielded(u, an) => Unshielded(u, found)
      /\ found.catastrophic => found.codes # {}
  BY <1>1, <1>4, <1>5, SegmentIsHeard
<1>8. Covered(t, found, j + e)
  <2> SUFFICES ASSUME NEW i \in Cuts(t), i < j + e
               PROVE  Heard(SegmentAt(t, i), found) /\ Unshielded(SegmentAt(t, i), found)
    BY DEF Covered
  <2>1. CASE i < j
    <3>1. Heard(SegmentAt(t, i), an) /\ Unshielded(SegmentAt(t, i), an)
      BY <1>2, <2>1 DEF Covered
    <3> QED BY <1>7, <3>1
  <2>2. CASE i = j
    BY <1>7, <2>2 DEF seg
  <2>3. i < j \/ i = j
    BY <1>4, <1>6
  <2> QED BY <2>1, <2>2, <2>3
<1>9. TypeInv'
  <2>1. stage' \in {"panicked"} \cup Reading \cup Known /\ stage' # "lex"
    BY <1>3 DEF Reading, Known
  <2>2. Tokens(lx') /\ an' \in Analyses(Elements(lx'.tokens)) /\ (an'.catastrophic => an'.codes # {})
    BY <1>1, <1>3, <1>7 DEF t, W
  <2> QED BY <2>1, <2>2 DEF TypeInv
<1>10. HeardInv'
  <2>1. CASE stage' = "danger"
    <3>1. e <= Len(rest)
      BY <1>3, <2>1
    <3>2. j + e \in Cuts(t) /\ j + e # Len(t) + 1 /\ rest' = Drop(t, j + e)
      BY <1>3, <1>4, <3>1
    <3> QED BY <1>3, <1>8, <2>1, <3>2 DEF HeardInv, Known, t
  <2>2. CASE stage' \in {"matrix", "collect"}
    <3>1. ~(e <= Len(rest))
      BY <1>3, <2>2
    <3>2. j + e = Len(t) + 1
      BY <1>4, <3>1
    <3>3. Covered(t, found, Len(t) + 1)
      BY <1>8, <3>2
    <3> QED BY <1>3, <2>2, <3>3 DEF HeardInv, Reading, t
  <2>3. CASE stage' = "panicked"
    BY <2>3 DEF HeardInv, Reading, Known
  <2> QED BY <1>3, <2>1, <2>2, <2>3
<1>11. FactsInv'
  <2>1. warranted = Assess("allow", "none")
    BY <1>1 DEF VerdictInv, FactsInv, Weighed
  <2>2. stage' \in {"panicked", "danger", "collect"} \/ (stage' = "matrix" /\ an'.codes = {})
    BY <1>3
  <2> QED BY <1>3, <2>1, <2>2 DEF FactsInv, Known, Weighed, Settled
<1> QED BY <1>9, <1>10, <1>11 DEF VerdictInv

\* Collecting context, weighing, asking and deciding keep the invariant.
LEMMA LaterKeeps ==
  ASSUME VerdictInv, CollectContext \/ Warrant \/ ConsultModel \/ \E mode \in Modes : Decide(mode)
  PROVE  VerdictInv'
<1>1. UNCHANGED <<lx, rest, an>>
  BY DEF CollectContext, Warrant, ConsultModel, Decide
<1>2. stage \in Known /\ stage' \in Known
  BY DEF CollectContext, Warrant, ConsultModel, Decide, Known
<1>3. TypeInv'
  BY <1>1, <1>2 DEF VerdictInv, TypeInv, Tokens, Known
<1>4. HeardInv'
  BY <1>1, <1>2 DEF VerdictInv, HeardInv, Covered, Reading, Known
<1>5. CASE CollectContext
  <2>1. stage = "collect" /\ stage' = "matrix" /\ warranted' = warranted
    BY <1>5 DEF CollectContext
  <2>2. world' \in Worlds /\ ctx' = Collect(world', an'.targets)
    BY <1>5 DEF CollectContext
  <2>3. FactsInv'
    BY <2>1, <2>2 DEF VerdictInv, FactsInv, Weighed, Settled
  <2> QED BY <1>3, <1>4, <2>3 DEF VerdictInv
<1>6. CASE Warrant
  <2>1. /\ stage = "matrix" /\ stage' = "model" /\ warranted' = Warranted(an', ctx')
        /\ UNCHANGED <<an, world, ctx>>
    BY <1>6 DEF Warrant, facts
  <2>2. FactsInv'
    BY <2>1 DEF VerdictInv, FactsInv, Known, Weighed, Settled
  <2> QED BY <1>3, <1>4, <2>2 DEF VerdictInv
<1>7. CASE ConsultModel
  <2>1. /\ stage = "model" /\ stage' = "decide" /\ UNCHANGED <<an, world, ctx, warranted>>
        /\ answer' \in IF L4Gate(an, warranted) THEN Answers ELSE {"none"}
    BY <1>7 DEF ConsultModel, facts
  <2>2. answer' \in Answers /\ (answer' # "none" => L4Gate(an, warranted))
    BY <2>1 DEF Answers
  <2>3. FactsInv'
    BY <2>1, <2>2 DEF VerdictInv, FactsInv, Known, Weighed, Settled
  <2> QED BY <1>3, <1>4, <2>3 DEF VerdictInv
<1>8. ASSUME NEW mode \in Modes, Decide(mode) PROVE VerdictInv'
  <2>1. /\ stage = "decide" /\ stage' = "done"
        /\ UNCHANGED <<an, world, ctx, warranted, answer>>
    BY <1>8 DEF Decide, facts
  <2>2. FactsInv'
    BY <2>1 DEF VerdictInv, FactsInv, Known, Weighed, Settled
  <2> QED BY <1>3, <1>4, <2>2 DEF VerdictInv
<1> QED BY <1>5, <1>6, <1>7, <1>8

\* Every step keeps the invariant.
LEMMA VerdictSteps ==
  ASSUME VerdictInv, [Next]_vars
  PROVE  VerdictInv'
<1>1. CASE LexNext \/ Lexed
  BY <1>1, LexKeeps
<1>2. CASE SearchNames \/ OpenDir \/ ScanEntry \/ Searched
  <2>1. /\ stage \in Reading /\ stage' \in Reading
        /\ UNCHANGED <<lx, rest, an, world, ctx, warranted, answer>>
    BY <1>2 DEF SearchNames, OpenDir, ScanEntry, Searched, facts, Reading
  <2> QED BY <2>1, SearchKeeps
<1>3. CASE NextSegment
  BY <1>3, SegmentKeeps
<1>4. CASE CollectContext \/ Warrant \/ ConsultModel \/ \E mode \in Modes : Decide(mode)
  BY <1>4, LaterKeeps
<1>5. CASE UNCHANGED vars
  <2>1. UNCHANGED <<stage, lx, rest, an, world, ctx, warranted, answer>>
    BY <1>5 DEF vars, facts
  <2>2. TypeInv'
    BY <2>1 DEF VerdictInv, TypeInv, Tokens
  <2>3. HeardInv'
    BY <2>1 DEF VerdictInv, HeardInv, Covered
  <2>4. FactsInv'
    BY <2>1 DEF VerdictInv, FactsInv
  <2> QED BY <2>2, <2>3, <2>4 DEF VerdictInv
<1> QED BY <1>1, <1>2, <1>3, <1>4, <1>5 DEF Next, Step, Over

\* Every reachable state of the analysis has the invariant.
THEOREM VerdictInvariant == Spec => []VerdictInv
<1>1. VerdictInv /\ [Next]_vars => VerdictInv'
  BY VerdictSteps
<1> QED BY <1>1, InitVerdict, PTL DEF Spec

-----------------------------------------------------------------------------
(* What follows of the verdict *)

\* When the danger layer is done, every segment of the line is heard and unshielded.
LEMMA SegmentsCovered ==
  ASSUME VerdictInv, stage \in Known, NEW t \in Segments(lx.tokens)
  PROVE  Heard(t, an) /\ Unshielded(t, an)
<1> DEFINE toks == lx.tokens
<1>1. toks \in Seq(Elements(toks)) /\ Covered(toks, an, Len(toks) + 1)
  BY DEF VerdictInv, TypeInv, HeardInv, Tokens
<1> HIDE DEF toks
<1>2. PICK i \in Cuts(toks) : i # Len(toks) + 1 /\ t = SegmentAt(toks, i)
  BY DEF Segments, toks
<1>3. Len(toks) \in Nat /\ Cuts(toks) \subseteq 0..(Len(toks) + 1)
  BY <1>1, CutProperties
<1>4. i < Len(toks) + 1
  BY <1>2, <1>3
<1> QED BY <1>1, <1>2, <1>4 DEF Covered

\* The verdicts there are; a confirmation comes from the catastrophic rules.
LEMMA WarrantedVerdicts ==
  ASSUME NEW a, NEW c, a.catastrophic => a.codes # {}
  PROVE  /\ Warranted(a, c).verdict \in {"allow", "observe", "warn", "confirm"}
         /\ Warranted(a, c).verdict = "confirm" <=> a.catastrophic
<1>1. \A v, r : Assess(v, r).verdict = v
  BY DEF Assess
<1>2. Unknowable.verdict = "observe" /\ Clear.verdict = "allow"
  BY <1>1 DEF Unknowable, Clear
<1>3. ASSUME NEW git PROVE WorkLoss(a, git).verdict \in {"allow", "observe", "warn"}
  BY <1>1, <1>2 DEF WorkLoss
<1>4. ASSUME NEW ts PROVE RmVerdict(a, ts).verdict \in {"allow", "observe", "warn"}
  BY <1>1, <1>2 DEF RmVerdict
<1> QED BY <1>1, <1>2, <1>3, <1>4 DEF Warranted

\* What a cleared line was found to be.
LEMMA ClearedHow ==
  ASSUME NEW a, NEW c, Warranted(a, c) = Clear
  PROVE  /\ a.codes # {} /\ ~a.catastrophic
         /\ a.codes \cap {"git.reset_hard", "git.clean_force"} # {} => WorkLoss(a, c.git) = Clear
         /\ a.codes \cap {"git.reset_hard", "git.clean_force", "git.push_force"} = {} =>
              "fs.target_blockdev" \notin a.codes /\ RmVerdict(a, c.targets) = Clear
<1>1. \A v, r : v # "allow" => Assess(v, r) # Clear
  BY DEF Assess, Clear
<1>2. Assess("allow", "shadow.observed") # Clear
  BY DEF Assess, Clear
<1> QED BY <1>1, <1>2 DEF Warranted

\* The lines that are parsed are the first ones, some if there are any, and all
\* below the caps.
LEMMA ParsedProperties ==
  ASSUME NEW S, NEW status \in Seq(S)
  PROVE  LET lines == Parsed(status)
         IN  /\ Len(lines) \in Nat /\ DOMAIN lines = 1..Len(lines)
             /\ \A k \in 1..Len(lines) : k \in 1..Len(status) /\ lines[k] = status[k]
             /\ Len(status) >= 1 => Len(lines) >= 1
             /\ Len(status) < Min({LineCap, OutputCap}) => Len(lines) = Len(status)
<1> DEFINE N == Len(status)
           caps == {LineCap, OutputCap}
           all == {N, OutputCap, LineCap}
           m == Min(all)
           cut == N >= OutputCap
           n == IF cut THEN m - 1 ELSE m
           lines == Parsed(status)
<1>1. /\ N \in Nat /\ LineCap \in Nat /\ OutputCap \in Nat /\ LineCap > 1 /\ OutputCap > 1
      /\ \A k \in 1..N : status[k] \in S
  BY WordTexts, AnalysisAssumption
<1>2. m \in all /\ \A k \in all : m <= k
  <2>1. all \in SUBSET Nat /\ all # {}
    BY <1>1
  <2> HIDE DEF all
  <2> QED BY <2>1, MinProperties
<1>3. Min(caps) \in caps /\ \A k \in caps : Min(caps) <= k
  <2>1. caps \in SUBSET Nat /\ caps # {}
    BY <1>1
  <2> HIDE DEF caps
  <2> QED BY <2>1, MinProperties
<1> DEFINE first == SubSeq(status, 1, m)
<1>4. lines = IF cut THEN SubSeq(first, 1, Len(first) - 1) ELSE first
  BY DEF Parsed
<1> HIDE DEF m, N, lines
<1>5. m \in Nat /\ m <= N /\ m <= OutputCap /\ m <= LineCap
  BY <1>1, <1>2
<1>6. /\ first \in Seq(S) /\ Len(first) = m
      /\ \A k \in 1..m : first[k] = status[k]
  <2>1. \A k \in 1..m : status[k] \in S
    BY <1>1, <1>5
  <2>2. 1 \in Int /\ m \in Int
    BY <1>5
  <2>3. /\ first \in Seq(S) /\ Len(first) = IF 1 <= m THEN m - 1 + 1 ELSE 0
        /\ \A k \in 1..(m - 1 + 1) : first[k] = status[1 + k - 1]
    BY <2>1, <2>2, SubSeqProperties
  <2> HIDE DEF first
  <2> QED BY <1>5, <2>3
<1> HIDE DEF first
<1>7. cut => m >= 2
  BY <1>1, <1>2
<1>8. lines \in Seq(S) /\ Len(lines) = n /\ \A k \in 1..n : lines[k] = status[k]
  <2>1. CASE ~cut
    BY <1>4, <1>6, <2>1
  <2>2. CASE cut
    <3>1. n = m - 1 /\ n \in Nat /\ n >= 1
      BY <1>5, <1>7, <2>2
    <3>2. \A k \in 1..n : first[k] \in S
      BY <1>6, <3>1, WordTexts
    <3>3. lines = SubSeq(first, 1, n)
      BY <1>4, <1>6, <2>2, <3>1
    <3> HIDE DEF n
    <3>4. 1 \in Int /\ n \in Int
      BY <3>1
    <3>5. /\ lines \in Seq(S) /\ Len(lines) = IF 1 <= n THEN n - 1 + 1 ELSE 0
          /\ \A k \in 1..(n - 1 + 1) : lines[k] = first[1 + k - 1]
      BY <3>2, <3>3, <3>4, SubSeqProperties
    <3> QED BY <1>5, <1>6, <3>1, <3>5
  <2> QED BY <2>1, <2>2
<1>9. n \in Nat /\ n <= N /\ (N >= 1 => n >= 1)
  BY <1>1, <1>2, <1>5, <1>7
<1>10. N < Min(caps) => n = N
  BY <1>1, <1>2, <1>3, <1>5
<1>11. DOMAIN lines = 1..Len(lines)
  BY <1>8, WordTexts
<1> HIDE DEF n
<1>12. /\ Len(lines) \in Nat /\ DOMAIN lines = 1..Len(lines)
       /\ \A k \in 1..Len(lines) : k \in 1..N /\ lines[k] = status[k]
       /\ N >= 1 => Len(lines) >= 1
       /\ N < Min(caps) => Len(lines) = N
  BY <1>1, <1>8, <1>9, <1>10, <1>11
<1> QED BY <1>12 DEF N, lines

\* A cleared reset or clean has nothing to lose.
LEMMA ClearedWork ==
  ASSUME NEW a, NEW w \in Worlds, WorkLoss(a, GitFacts(w)) = Clear
  PROVE  /\ "git.reset_hard" \in a.codes => ~Contains(w.status, "M")
         /\ "git.clean_force" \in a.codes /\ Len(w.status) < Min({LineCap, OutputCap})
              => ~Contains(w.status, "??")
<1> DEFINE git == GitFacts(w)
           status == w.status
           lines == Parsed(status)
           changed == {k \in DOMAIN lines : lines[k] # "??"}
<1>1. git # NoRepo /\ git.dirty # Unavailable
      /\ ("git.reset_hard" \in a.codes => git.dirty = 0)
      /\ ("git.clean_force" \in a.codes => git.untracked # TRUE)
  <2> HIDE DEF git
  <2>1. Unknowable # Clear /\ Assess("warn", "policy.dirty_work_at_risk") # Clear
    BY DEF Unknowable, Clear, Assess
  <2> QED BY <2>1 DEF WorkLoss, git
<1>2. /\ git.dirty = IF status # Unavailable THEN Cardinality(changed) ELSE Unavailable
      /\ git.untracked = IF status # Unavailable THEN \E k \in DOMAIN lines : lines[k] = "??"
                         ELSE Unavailable
  BY <1>1 DEF GitFacts
<1>3. status # Unavailable
  BY <1>1, <1>2
<1>4. /\ status \in Seq({"M", "??"})
      /\ \A j, k \in DOMAIN status : j < k /\ status[k] = "M" => status[j] = "M"
  BY <1>3, AnalysisAssumption
<1> HIDE DEF git, status
<1>5. /\ Len(lines) \in Nat /\ DOMAIN lines = 1..Len(lines)
      /\ \A k \in 1..Len(lines) : k \in 1..Len(status) /\ lines[k] = status[k]
      /\ Len(status) >= 1 => Len(lines) >= 1
  BY <1>4, ParsedProperties
<1>6. Len(status) < Min({LineCap, OutputCap}) => Len(lines) = Len(status)
  BY <1>4, ParsedProperties
<1> HIDE DEF lines
<1>7. Len(status) \in Nat /\ DOMAIN status = 1..Len(status)
  BY <1>4, WordTexts
<1>8. ASSUME "git.reset_hard" \in a.codes, NEW k \in 1..Len(status), status[k] = "M" PROVE FALSE
  <2>1. IsFiniteSet(changed)
    <3>1. 1 \in Int /\ Len(lines) \in Int
      BY <1>5
    <3>2. IsFiniteSet(1..Len(lines))
      BY <3>1, FS_Interval
    <3>3. changed \subseteq 1..Len(lines)
      BY <1>5
    <3> HIDE DEF changed
    <3> QED BY <3>2, <3>3, FS_Subset
  <2>2. Cardinality(changed) = 0
    BY <1>1, <1>2, <1>3, <1>8
  <2>3. changed = {}
    <3> HIDE DEF changed
    <3> QED BY <2>1, <2>2, FS_EmptySet
  <2>4. 1 \in 1..Len(lines) /\ 1 \in 1..Len(status)
    <3>1. Len(status) >= 1
      BY <1>7
    <3> QED BY <1>5, <1>7, <3>1
  <2>5. status[1] = "M"
    BY <1>4, <1>7, <1>8, <2>4
  <2>6. 1 \in changed
    BY <1>5, <2>4, <2>5
  <2> QED BY <2>3, <2>6
<1>9. ASSUME "git.clean_force" \in a.codes, Len(status) < Min({LineCap, OutputCap}),
             NEW k \in 1..Len(status), status[k] = "??"
      PROVE  FALSE
  <2>1. k \in 1..Len(lines) /\ lines[k] = "??"
    BY <1>5, <1>6, <1>9
  <2>2. git.untracked = TRUE
    BY <1>2, <1>3, <1>5, <2>1
  <2> QED BY <1>1, <1>9, <2>2
<1> QED BY <1>8, <1>9 DEF Contains, status

\* Of a cleared rm every operand that was heard has a known value and exists.
LEMMA ClearedOperand ==
  ASSUME NEW W, NEW a \in Analyses(W), NEW wd,
         ~a.catastrophic, "fs.target_blockdev" \notin a.codes,
         RmVerdict(a, Collect(wd, a.targets).targets) = Clear, Len(a.targets) < MaxTargets,
         NEW w, Vouched(w, a)
  PROVE  ~w.expands /\ (w.text = <<>> \/ w.text \in DOMAIN wd.fs)
<1> DEFINE facts1 == Collect(wd, a.targets).targets
<1>1. Unknowable # Clear /\ Assess("warn", "policy.target_context") # Clear
  BY DEF Unknowable, Clear, Assess
<1>2. /\ a.codes \cap {"fs.target_cwd", "fs.target_parent"} = {}
      /\ "fs.rm_target_unknown" \notin a.codes
      /\ \A k \in DOMAIN facts1 : facts1[k].exists
  <2> HIDE DEF facts1
  <2> QED BY <1>1 DEF RmVerdict, facts1
<1>3. facts1 = [k \in DOMAIN a.targets |-> TargetFact(wd, a.targets[k])]
  BY DEF Collect
<1>4. \A k \in DOMAIN a.targets : a.targets[k] \in DOMAIN wd.fs
  <2> TAKE k \in DOMAIN a.targets
  <2>1. TargetFact(wd, a.targets[k]).exists
    BY <1>2, <1>3
  <2> QED BY <2>1 DEF TargetFact
<1>5. ~w.expands
  <2>1. Classify(w.text, w.expands) \subseteq TargetCodes
    BY Classified
  <2> HIDE DEF facts1
  <2> QED BY <1>2, <2>1 DEF Vouched, TargetCodes
<1>6. Len(a.targets) \in Nat
  <2>1. a.targets \in Seq(Texts(W))
    BY DEF Analyses
  <2> QED BY <2>1, LenProperties
<1>7. w.text = <<>> \/ w.text \in Elements(a.targets)
  BY <1>5, <1>6, DangerAssumption DEF Vouched, Noted
<1> QED BY <1>4, <1>5, <1>7 DEF Elements

\* A line is cleared only by facts that are so.
LEMMA ClearedIsVouched ==
  ASSUME VerdictInv
  PROVE  AllowIsVouched
<1> SUFFICES ASSUME warranted = Clear PROVE AllowIsVouched
  BY DEF AllowIsVouched
<1>1. Assess("allow", "none") # Clear
  BY DEF Assess, Clear
<1>2. stage \in Weighed /\ Warranted(an, ctx) = Clear
  BY <1>1 DEF VerdictInv, FactsInv
<1>3. /\ an.codes # {} /\ ~an.catastrophic
      /\ an.codes \cap {"git.reset_hard", "git.clean_force"} # {} => WorkLoss(an, ctx.git) = Clear
      /\ an.codes \cap {"git.reset_hard", "git.clean_force", "git.push_force"} = {} =>
           "fs.target_blockdev" \notin an.codes /\ RmVerdict(an, ctx.targets) = Clear
  BY <1>2, ClearedHow
<1>4. world \in Worlds /\ ctx = Collect(world, an.targets)
  BY <1>2, <1>3 DEF VerdictInv, FactsInv, Weighed, Known
<1>5. ctx.git = GitFacts(world)
  BY <1>4 DEF Collect
<1>6. /\ "git.reset_hard" \in an.codes => ~Contains(world.status, "M")
      /\ "git.clean_force" \in an.codes /\ Len(world.status) < Min({LineCap, OutputCap})
           => ~Contains(world.status, "??")
  <2>1. CASE an.codes \cap {"git.reset_hard", "git.clean_force"} # {}
    BY <1>3, <1>4, <1>5, <2>1, ClearedWork
  <2>2. CASE an.codes \cap {"git.reset_hard", "git.clean_force"} = {}
    BY <2>2
  <2> QED BY <2>1, <2>2
<1>7. ASSUME an.codes \cap {"git.reset_hard", "git.clean_force", "git.push_force"} = {},
             Len(an.targets) < MaxTargets, NEW w \in RmOperands
      PROVE  ~w.expands /\ (w.text = <<>> \/ w.text \in DOMAIN world.fs)
  <2>1. PICK t \in Segments(lx.tokens) :
          /\ RemovesAll(t)
          /\ w \in {SegmentWords(t)[k] :
                      k \in {j \in 2..Len(SegmentWords(t)) : ~LooksLikeFlag(SegmentWords(t)[j])}}
    BY DEF RmOperands, RemovesAll
  <2>2. Heard(t, an)
    BY <1>2, SegmentsCovered DEF Weighed, Known
  <2>3. Vouched(w, an)
    BY <2>1, <2>2 DEF Heard
  <2>4. an \in Analyses(Elements(lx.tokens))
    BY DEF VerdictInv, TypeInv
  <2> QED BY <1>3, <1>4, <1>7, <2>3, <2>4, ClearedOperand
<1> QED BY <1>6, <1>7 DEF AllowIsVouched

\* The model raises a verdict to a warning at most, and only where it was asked.
LEMMA ModelDecidesNothing ==
  ASSUME VerdictInv
  PROVE  EvidenceNeverDecides
<1> SUFFICES ASSUME stage = "done" PROVE EvidenceNeverDecides
  BY DEF EvidenceNeverDecides
<1>1. /\ warranted = Warranted(an, ctx) /\ (an.catastrophic => an.codes # {})
      /\ (answer # "none" => L4Gate(an, warranted))
  BY DEF VerdictInv, TypeInv, FactsInv, Weighed, Settled
<1>2. /\ warranted.verdict \in {"allow", "observe", "warn", "confirm"}
      /\ warranted.verdict = "confirm" <=> an.catastrophic
  BY <1>1, WarrantedVerdicts
<1>3. answer # "none" => an.codes # {} /\ warranted.verdict = "observe"
  BY <1>1 DEF L4Gate
<1>4. Assessed = warranted \/ (answer # "none" /\ Assessed.verdict = "warn")
  BY DEF Assessed, ApplyModelEvidence, Assess
<1>5. \A v \in {"allow", "observe", "warn", "confirm"} : Rank[v] \in 0..3
  BY DEF Rank
<1>6. Rank["warn"] >= Rank["observe"]
  BY DEF Rank
<1>7. Rank[Assessed.verdict] >= Rank[warranted.verdict]
  BY <1>2, <1>3, <1>4, <1>5, <1>6
<1>8. Assessed.verdict = "confirm" <=> an.catastrophic
  BY <1>2, <1>3, <1>4
<1> QED BY <1>3, <1>7, <1>8 DEF EvidenceNeverDecides

\* Whatever the line, the files and the model's answer: a line is cleared only by
\* facts that are so, and the model neither lowers a verdict nor asks for a
\* confirmation, nor is it asked where the facts leave no question.
THEOREM VerdictEarned == Spec => []VerdictIsEarned
<1>1. VerdictInv => VerdictIsEarned
  BY ClearedIsVouched, ModelDecidesNothing DEF VerdictIsEarned
<1> QED BY <1>1, VerdictInvariant, PTL

\* In a line of any length, no segment hides what another is by itself: its codes
\* are found, and it is direct-catastrophic if the segment alone is.
THEOREM NothingShields == Spec => []NoSegmentShields
<1>1. ASSUME VerdictInv PROVE NoSegmentShields
  <2>1. ASSUME stage = "matrix", NEW t \in Segments(lx.tokens) PROVE Unshielded(t, an)
    BY <1>1, <2>1, SegmentsCovered DEF Known
  <2> QED BY <2>1 DEF NoSegmentShields, Unshielded
<1> QED BY <1>1, VerdictInvariant, PTL

=============================================================================
