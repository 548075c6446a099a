---------------------------- MODULE AdmissionProofs ----------------------------
(***************************************************************************)
(* Proofs about admission, for any number of shells, any budget and any    *)
(* lengths of the windows.                                                 *)
(*                                                                         *)
(* The budget is decided from what the log says, and promised of what the  *)
(* user saw.  BookInv ties the two: every warning that was visible within  *)
(* the retention window is backed in the log by its reservation, or by an  *)
(* outcome no older than it.  So the ids that are live, reserved or seen   *)
(* within a window, are never more than the gate counts, and a step that   *)
(* adds one passed the gate.                                               *)
(***************************************************************************)
EXTENDS Admission, FiniteSetTheorems, FunctionTheorems, TLAPS

USE DEF NoId

Active(p) == At(p, "admitted") \/ At(p, "asking")

-----------------------------------------------------------------------------
(* The books *)

\* A shell has an id from its admission to its leave, unless its warning is
\* catastrophic.
ShellShape ==
  \A p \in Shells :
    /\ ~At(p, "idle") => sh[p].rule \in Rules
    /\ sh[p].id # NoId <=> Active(p) /\ ~sh[p].cat
    /\ sh[p].id < nextId
    /\ sh[p].stamp <= now
    /\ At(p, "waiting") => now <= sh[p].stamp + 1

\* An id is handed out once.
OneOwner ==
  /\ \A p, q \in Shells : sh[p].id = sh[q].id /\ sh[p].id # NoId => p = q
  /\ \A i \in orphans : i < nextId /\ \A p \in Shells : sh[p].id # i
  /\ \A s, u \in reserved : s.id = u.id => s = u
  /\ \A s, u \in seen : s.id = u.id => s = u
  /\ \A o \in shown : o.id < nextId

\* A slot has the stamp of the shell that holds it, and was reserved by now.
SlotOfShell ==
  /\ \A s \in reserved : s.ts <= now
  /\ \A s \in reserved, p \in Shells : s.id = sh[p].id => s.ts = sh[p].stamp

\* A shell about to ask has a slot and has shown nothing, one that is asking has
\* shown its warning; the slot is missing only when it was swept.
SlotKept ==
  \A p \in Shells : sh[p].id # NoId =>
    \/ \E s \in reserved : s.id = sh[p].id
    \/ now - sh[p].stamp > Retention
Visible ==
  \A p \in Shells : sh[p].id # NoId =>
    \A s \in seen : s.id = sh[p].id => At(p, "asking") /\ s.stamp = sh[p].stamp

\* What was seen is in the log, as a slot or as an outcome, until it is swept.
Slotted(s) == \E u \in reserved : u.id = s.id /\ u.ts = s.stamp
Settled(s) == \E o \in shown : o.id = s.id /\ o.ts >= s.at
Backed ==
  \A s \in seen :
    /\ s.stamp <= s.at /\ s.at <= now
    /\ Slotted(s) \/ Settled(s) \/ now - s.stamp > Retention

\* Without faults a slot has its shell, and that shell is in time.
InTime ==
  Faults = {} =>
    /\ orphans = {}
    /\ \A p \in Shells : Active(p) => now <= sh[p].stamp + PromptMax
    /\ \A s \in seen : s.at <= s.stamp + PromptMax

Finite == IsFiniteSet(shown) /\ IsFiniteSet(reserved) /\ IsFiniteSet(seen)

BookInv ==
  /\ TypeOK
  /\ ShellShape
  /\ OneOwner
  /\ SlotOfShell
  /\ SlotKept
  /\ Visible
  /\ Backed
  /\ NoSlotLeaks
  /\ InTime
  /\ Finite

\* The warnings of a window, dated by their admission or by when they became
\* visible, and the ids that count: of these and of the slots reserved within TTL.
Dates == {"admitted", "visible"}
Date(s, dated) == IF dated = "visible" THEN s.at ELSE s.stamp
Within(window, dated) == {s \in seen : now - Date(s, dated) < window}
Live(window, dated) ==
  {s.id : s \in {u \in reserved : now - u.ts < TTL}}
    \cup {s.id : s \in Within(window, dated)}
Bounded(window, dated) == Cardinality(Live(window, dated)) <= Budget

\* Deliberate runs that the log has of a rule.
RunsLogged(r) == {o \in shown : o.rule = r /\ o.answer = "run"}
RunsCounted ==
  \A r \in Rules : runs[r] = Trigger \/ Cardinality(RunsLogged(r)) <= runs[r]

-----------------------------------------------------------------------------
(* Types *)

\* The types at the start.
LEMMA TypeInit == Init => TypeOK
BY TimesAssumption, BoundsAssumption DEF Init, TypeOK, Ids, Idle

ShellType ==
  [pc : {"idle", "waiting", "admitted", "asking"}, stamp : 0..MaxNow,
   rule : Rules \cup {"none"}, cat : BOOLEAN, id : Ids \cup {NoId}, quiet : BOOLEAN]

\* A shell that leaves, or is told that its rule is in cooldown.
LEMMA LeaveType ==
  ASSUME TypeOK, NEW p \in Shells, Leave(p) \/ Silence(p)
  PROVE  sh' \in [Shells -> ShellType]
<1>1. sh \in [Shells -> ShellType] /\ sh[p] \in ShellType
  BY DEF TypeOK, ShellType
<1>2. Idle \in ShellType
  BY BoundsAssumption DEF Idle, ShellType
<1>3. CASE Leave(p)
  BY <1>1, <1>2, <1>3 DEF Leave
<1>4. CASE Silence(p)
  <2> DEFINE new == [Idle EXCEPT !.quiet = TRUE, !.rule = sh[p].rule]
  <2>1. new \in ShellType
    <3>1. sh[p].rule \in Rules \cup {"none"}
      BY <1>1 DEF ShellType
    <3> QED BY <1>2, <3>1 DEF ShellType
  <2>2. sh' = [sh EXCEPT ![p] = new]
    BY <1>4 DEF Silence
  <2> HIDE DEF new
  <2> QED BY <1>1, <2>1, <2>2
<1> QED BY <1>3, <1>4

\* A shell that is admitted.
LEMMA HoldType ==
  ASSUME sh \in [Shells -> ShellType], NEW p \in Shells, NEW i \in Ids,
         sh' = [sh EXCEPT ![p].pc = "admitted", ![p].id = i]
  PROVE  sh' \in [Shells -> ShellType]
BY DEF ShellType

\* The ids whose owner is gone are ids.
LEMMA OrphanedType ==
  ASSUME TypeOK, NEW p \in Shells, Orphaned(p)
  PROVE  orphans' \subseteq Ids
<1>1. sh[p].id \in Ids \cup {NoId}
  BY DEF TypeOK
<1> QED BY <1>1 DEF TypeOK, Orphaned

\* Every step keeps the types.
LEMMA TypeStep == TypeOK /\ ShellShape /\ [Next]_vars => TypeOK'
<1> SUFFICES ASSUME TypeOK, ShellShape, [Next]_vars PROVE TypeOK'
  OBVIOUS
<1> USE TimesAssumption, BoundsAssumption
    DEF TypeOK, Ids, Answers, At, Leave, Idle, log, ghosts
<1>1. ASSUME NEW p \in Shells, NEW r \in Rules, NEW c \in Severities, Submit(p, r, c)
      PROVE  TypeOK'
  BY <1>1 DEF Submit
<1>2. ASSUME NEW p \in Shells, AdmitCatastrophic(p) PROVE TypeOK'
  BY <1>2 DEF AdmitCatastrophic
<1>3. ASSUME NEW p \in Shells, NEW sweep \in BOOLEAN, AdmitFails(p, sweep) PROVE TypeOK'
  <2>1. /\ shown' \subseteq shown /\ UNCHANGED <<written, now, seen, runs>>
        /\ sh[p].rule \in Rules /\ Leave(p)
    BY <1>3 DEF AdmitFails, ShellShape, Swept
  <2>2. sh' \in [Shells -> ShellType]
    BY <2>1, LeaveType
  <2> HIDE DEF Idle
  <2>3. CASE UNCHANGED <<nextId, orphans>>
    <3>1. reserved' \subseteq reserved
      BY <1>3, <2>3 DEF AdmitFails, Swept, Advance
    <3> QED BY <2>1, <2>2, <2>3, <3>1 DEF ShellType
  <2>4. CASE nextId' # nextId
    <3>1. /\ nextId \in Ids /\ nextId' = nextId + 1 /\ orphans' = orphans \cup {nextId}
          /\ reserved' \subseteq reserved
                \cup {[id |-> nextId, rule |-> sh[p].rule, ts |-> sh[p].stamp]}
      BY <1>3, <2>4 DEF AdmitFails, Swept, Advance, Slot
    <3>2. /\ reserved' \subseteq [id : Ids, rule : Rules, ts : 0..MaxNow]
          /\ \A s \in reserved' : s.id < nextId'
      BY <2>1, <3>1
    <3>3. nextId' \in 1..(MaxAdmissions + 1) /\ \A s \in seen : s.id < nextId'
      BY <2>1, <3>1
    <3> QED BY <2>1, <2>2, <3>1, <3>2, <3>3 DEF ShellType
  <2>5. UNCHANGED <<nextId, orphans>> \/ nextId' # nextId
    BY <1>3 DEF AdmitFails, Advance
  <2> QED BY <2>3, <2>4, <2>5
<1>4. ASSUME NEW p \in Shells, NEW sweep \in BOOLEAN, Admit(p, sweep) PROVE TypeOK'
  <2>1. /\ shown' \subseteq shown /\ UNCHANGED <<written, now, ghosts>>
        /\ sh[p].rule \in Rules
    BY <1>4 DEF Admit, ShellShape, Swept
  <2>2. CASE nextId' = nextId
    <3>1. reserved' \subseteq reserved /\ (Leave(p) \/ Silence(p))
      BY <1>4, <2>2 DEF Admit, Advance, Swept
    <3>2. sh' \in [Shells -> ShellType]
      BY <3>1, LeaveType
    <3> HIDE DEF Idle
    <3> QED BY <2>1, <2>2, <3>1, <3>2 DEF ShellType
  <2>3. CASE nextId' # nextId
    <3>1. /\ nextId \in Ids /\ nextId' = nextId + 1
          /\ reserved' \subseteq reserved
                \cup {[id |-> nextId, rule |-> sh[p].rule, ts |-> sh[p].stamp]}
          /\ sh' = [sh EXCEPT ![p].pc = "admitted", ![p].id = nextId]
      BY <1>4, <2>3 DEF Admit, Advance, Swept, Slot
    <3>2. sh' \in [Shells -> ShellType]
      <4>1. sh \in [Shells -> ShellType]
        BY DEF ShellType
      <4> QED BY <3>1, <4>1, HoldType
    <3>3. /\ reserved' \subseteq [id : Ids, rule : Rules, ts : 0..MaxNow]
          /\ \A s \in reserved' : s.id < nextId'
      BY <2>1, <3>1
    <3>4. nextId' \in 1..(MaxAdmissions + 1) /\ \A s \in seen : s.id < nextId'
      BY <2>1, <3>1
    <3> QED BY <2>1, <3>2, <3>3, <3>4 DEF ShellType
  <2> QED BY <2>2, <2>3
<1>5. ASSUME NEW p \in Shells, Show(p) PROVE TypeOK'
  <2>1. ~sh[p].cat => sh[p].id \in Ids /\ sh[p].id < nextId
    BY <1>5 DEF Show, ShellShape, Active
  <2> QED BY <1>5, <2>1 DEF Show
<1>6. ASSUME NEW p \in Shells, NotShown(p) PROVE TypeOK'
  <2>1. sh' \in [Shells -> ShellType]
    BY <1>6, LeaveType DEF NotShown
  <2>2. orphans' \subseteq Ids /\ reserved' \subseteq reserved
    BY <1>6, OrphanedType DEF NotShown, Without
  <2> QED BY <1>6, <2>1, <2>2 DEF NotShown, ShellType
<1>7. ASSUME NEW p \in Shells, NEW a \in Answers, Answer(p, a) PROVE TypeOK'
  <2>1. sh[p].rule \in Rules
    BY <1>7 DEF Answer, ShellShape
  <2>2. runs' \in [Rules -> 0..Trigger]
    BY <1>7, <2>1 DEF Answer
  <2>3. sh' \in [Shells -> ShellType]
    BY <1>7, LeaveType DEF Answer
  <2>4. orphans' \subseteq Ids /\ reserved' \subseteq reserved
    BY <1>7, OrphanedType DEF Answer, Without
  <2>5. written' \in Nat
        /\ shown' \subseteq shown \cup {[place |-> written', id |-> sh[p].id,
                                        rule |-> sh[p].rule, ts |-> now, answer |-> a]}
    BY <1>7 DEF Answer
  <2>6. shown' \subseteq [place : Nat, id : Ids \cup {NoId}, rule : Rules, ts : 0..MaxNow,
                          answer : Answers]
    BY <2>1, <2>5
  <2> QED BY <1>7, <2>2, <2>3, <2>4, <2>5, <2>6 DEF Answer, ShellType
<1>8. ASSUME NEW p \in Shells, Crash(p) PROVE TypeOK'
  <2>1. sh' \in [Shells -> ShellType] /\ orphans' \subseteq Ids
    BY <1>8, LeaveType, OrphanedType DEF Crash
  <2> QED BY <1>8, <2>1 DEF Crash, ShellType
<1>9. CASE Tick
  BY <1>9 DEF Tick
<1>10. CASE UNCHANGED vars
  BY <1>10 DEF vars
<1> QED BY <1>1, <1>2, <1>3, <1>4, <1>5, <1>6, <1>7, <1>8, <1>9, <1>10 DEF Next

-----------------------------------------------------------------------------
(* The books are kept *)

\* The books agree at the start.
LEMMA BookInit == Init => BookInv
<1> SUFFICES ASSUME Init PROVE BookInv
  OBVIOUS
<1>1. TypeOK
  BY TypeInit
<1>2. Finite
  BY FS_EmptySet DEF Init, Finite
<1> QED BY <1>1, <1>2 DEF Init, BookInv, ShellShape, OneOwner, SlotOfShell, SlotKept,
     Visible, Backed, NoSlotLeaks, InTime, Idle, Active, At

\* What the proof of a step uses of the types.
Typed ==
  /\ now \in Nat /\ nextId \in Nat /\ sh \in [Shells -> ShellType]
  /\ \A p \in Shells :
       /\ sh[p].pc \in {"idle", "waiting", "admitted", "asking"}
       /\ sh[p].stamp \in Nat /\ sh[p].id \in Nat /\ sh[p].cat \in BOOLEAN
  /\ \A s \in reserved : s.id \in Nat \ {0} /\ s.ts \in Nat /\ s.id < nextId
  /\ \A s \in seen : s.id \in Nat \ {0} /\ s.stamp \in Nat /\ s.at \in Nat /\ s.id < nextId
  /\ \A o \in shown : o.id \in Nat /\ o.ts \in Nat
  /\ \A i \in orphans : i \in Nat \ {0}
  /\ nextId # 0

\* What the types say of a shell, a slot and an outcome.
LEMMA TypedBooks == ASSUME TypeOK PROVE Typed
<1>1. sh \in [Shells -> ShellType]
  BY DEF TypeOK, ShellType
<1>2. \A p \in Shells :
        /\ sh[p].pc \in {"idle", "waiting", "admitted", "asking"}
        /\ sh[p].stamp \in Nat /\ sh[p].id \in Nat /\ sh[p].cat \in BOOLEAN
  <2> TAKE p \in Shells
  <2>1. sh[p] \in ShellType
    BY <1>1
  <2>2. /\ sh[p].pc \in {"idle", "waiting", "admitted", "asking"}
        /\ sh[p].stamp \in 0..MaxNow /\ sh[p].cat \in BOOLEAN
        /\ sh[p].id \in (1..MaxAdmissions) \cup {0}
    BY <2>1 DEF ShellType, Ids
  <2> QED BY <2>2, BoundsAssumption
<1>3. now \in Nat /\ nextId \in Nat \ {0}
  BY BoundsAssumption DEF TypeOK
<1>4. /\ \A s \in reserved : s.id \in Nat \ {0} /\ s.ts \in Nat /\ s.id < nextId
      /\ \A s \in seen : s.id \in Nat \ {0} /\ s.stamp \in Nat /\ s.at \in Nat /\ s.id < nextId
      /\ \A o \in shown : o.id \in Nat /\ o.ts \in Nat
      /\ \A i \in orphans : i \in Nat \ {0}
  BY BoundsAssumption DEF TypeOK, Ids
<1> QED BY <1>1, <1>2, <1>3, <1>4 DEF Typed

Books ==
  ShellShape /\ OneOwner /\ SlotOfShell /\ SlotKept /\ Visible /\ Backed /\ NoSlotLeaks /\ InTime

\* A shell is replaced by another record, and the other shells stay.
LEMMA OtherShells ==
  ASSUME Typed, NEW p \in Shells, NEW new, sh' = [sh EXCEPT ![p] = new]
  PROVE  sh'[p] = new /\ \A q \in Shells : q # p => sh'[q] = sh[q]
<1>1. DOMAIN sh = Shells
  BY DEF Typed
<1> QED BY <1>1

\* The shells after a step that changes the stage of one.
LEMMA StageOfShell ==
  ASSUME Typed, NEW p \in Shells, NEW stage, sh' = [sh EXCEPT ![p].pc = stage]
  PROVE  /\ sh'[p].pc = stage /\ sh'[p].cat = sh[p].cat /\ sh'[p].id = sh[p].id
         /\ sh'[p].stamp = sh[p].stamp /\ sh'[p].rule = sh[p].rule
         /\ \A q \in Shells : q # p => sh'[q] = sh[q]
BY DEF Typed, ShellType

LEMMA AdmittedShell ==
  ASSUME Typed, NEW p \in Shells, NEW i, sh' = [sh EXCEPT ![p].pc = "admitted", ![p].id = i]
  PROVE  /\ sh'[p].pc = "admitted" /\ sh'[p].cat = sh[p].cat /\ sh'[p].id = i
         /\ sh'[p].stamp = sh[p].stamp /\ sh'[p].rule = sh[p].rule
         /\ \A q \in Shells : q # p => sh'[q] = sh[q]
BY DEF Typed, ShellType

\* The shells after a step in which one leaves.
LEMMA LeavingShell ==
  ASSUME Typed, NEW p \in Shells, Leave(p) \/ Silence(p)
  PROVE  /\ sh'[p].pc = "idle" /\ sh'[p].id = 0 /\ sh'[p].stamp = 0
         /\ \A q \in Shells : q # p => sh'[q] = sh[q]
<1> DEFINE silent == [Idle EXCEPT !.quiet = TRUE, !.rule = sh[p].rule]
<1>1. \/ sh'[p] = Idle /\ \A q \in Shells : q # p => sh'[q] = sh[q]
      \/ sh'[p] = silent /\ \A q \in Shells : q # p => sh'[q] = sh[q]
  <2> HIDE DEF Idle, silent
  <2>1. sh' = [sh EXCEPT ![p] = Idle] \/ sh' = [sh EXCEPT ![p] = silent]
    BY DEF Leave, Silence, silent
  <2> QED BY <2>1, OtherShells
<1>2. Idle.pc = "idle" /\ Idle.id = 0 /\ Idle.stamp = 0
  BY DEF Idle
<1>3. silent.pc = "idle" /\ silent.id = 0 /\ silent.stamp = 0
  BY DEF Idle
<1> QED BY <1>1, <1>2, <1>3

\* A warning that is only wanted changes no book.
LEMMA SubmitKeepsBooks ==
  ASSUME Typed, Books, NEW p \in Shells, NEW r \in Rules, NEW c \in Severities, Submit(p, r, c)
  PROVE  Books'
<1> USE DEF Typed, Books, At, Active, Idle, log, ghosts
<1> DEFINE new == [Idle EXCEPT !.pc = "waiting", !.stamp = now, !.rule = r, !.cat = c]
<1>1. /\ sh' = [sh EXCEPT ![p] = new] /\ sh[p].pc = "idle"
      /\ UNCHANGED <<now, log, nextId, ghosts>>
  BY DEF Submit
<1>2. new.pc = "waiting" /\ new.stamp = now /\ new.rule = r /\ new.id = 0
  OBVIOUS
<1> HIDE DEF new
<1>3. sh'[p] = new /\ \A q \in Shells : q # p => sh'[q] = sh[q]
  BY <1>1, OtherShells
<1>4. sh[p].id = 0
  BY <1>1 DEF ShellShape
<1>5. ShellShape'
  BY <1>1, <1>2, <1>3 DEF ShellShape
<1>6. OneOwner'
  BY <1>1, <1>2, <1>3 DEF OneOwner
<1>7. SlotOfShell' /\ SlotKept' /\ Visible'
  BY <1>1, <1>2, <1>3 DEF SlotOfShell, SlotKept, Visible
<1>8. Backed'
  BY <1>1 DEF Backed, Slotted, Settled
<1>9. NoSlotLeaks'
  BY <1>1, <1>2, <1>3, <1>4 DEF NoSlotLeaks
<1>10. InTime'
  BY <1>1, <1>2, <1>3 DEF InTime
<1> QED BY <1>5, <1>6, <1>7, <1>8, <1>9, <1>10

\* A catastrophic warning has no slot and changes no book.
LEMMA CatastrophicKeepsBooks ==
  ASSUME Typed, Books, NEW p \in Shells, AdmitCatastrophic(p)
  PROVE  Books'
<1> USE DEF Typed, Books, At, Active, log, ghosts
<1>1. /\ sh[p].pc = "waiting" /\ sh[p].cat
      /\ UNCHANGED <<now, log, nextId, ghosts>>
  BY DEF AdmitCatastrophic
<1>2. /\ sh'[p].pc = "admitted" /\ sh'[p].cat = sh[p].cat /\ sh'[p].id = sh[p].id
      /\ sh'[p].stamp = sh[p].stamp /\ sh'[p].rule = sh[p].rule
      /\ \A q \in Shells : q # p => sh'[q] = sh[q]
  BY StageOfShell DEF AdmitCatastrophic
<1>3. sh[p].id = 0
  BY <1>1 DEF ShellShape
<1>4. ShellShape'
  BY <1>1, <1>2, <1>3 DEF ShellShape
<1>5. OneOwner'
  BY <1>1, <1>2, <1>3 DEF OneOwner
<1>6. SlotOfShell' /\ SlotKept' /\ Visible'
  BY <1>1, <1>2, <1>3 DEF SlotOfShell, SlotKept, Visible
<1>7. Backed'
  BY <1>1 DEF Backed, Slotted, Settled
<1>8. NoSlotLeaks'
  BY <1>1, <1>2, <1>3 DEF NoSlotLeaks
<1>9. InTime'
  BY <1>1, <1>2, TimesAssumption DEF InTime, ShellShape
<1> QED BY <1>4, <1>5, <1>6, <1>7, <1>8, <1>9

\* A shell leaves, and its id, if it has one, leaves the reservations or is an
\* orphan's; an outcome that takes the place of a slot is not older than it.
LEMMA LeavingKeepsBooks ==
  ASSUME Typed, Books, NEW p \in Shells, Leave(p) \/ Silence(p),
         UNCHANGED <<now, nextId, seen>>,
         \/ UNCHANGED <<reserved, shown>> /\ Orphaned(p) /\ (Faults = {} => sh[p].id = NoId)
         \/ UNCHANGED <<shown, orphans>> /\ reserved' = Without(reserved, sh[p].id)
              /\ ~At(p, "asking")
         \/ /\ UNCHANGED orphans /\ reserved' = Without(reserved, sh[p].id)
            /\ \E o : /\ shown' = shown \cup {o} /\ o.id = sh[p].id /\ o.ts = now
  PROVE  Books'
<1> USE DEF Typed, Books, At, Active
<1>1. /\ sh'[p].pc = "idle" /\ sh'[p].id = 0 /\ sh'[p].stamp = 0
      /\ \A q \in Shells : q # p => sh'[q] = sh[q]
  BY LeavingShell
<1>2. ShellShape'
  BY <1>1 DEF ShellShape
<1>3. /\ shown' = shown \/ \E o : shown' = shown \cup {o} /\ o.id = sh[p].id /\ o.ts = now
      /\ \A s \in reserved' : s \in reserved
      /\ \A s \in reserved : s.id # sh[p].id => s \in reserved'
  BY DEF Without
<1>4. sh[p].id < nextId
  BY DEF ShellShape
<1>5. OneOwner'
  <2>1. \A i \in orphans' : i < nextId' /\ \A q \in Shells : sh'[q].id # i
    BY <1>1, <1>4 DEF OneOwner, Orphaned
  <2>2. \A q, r \in Shells : sh'[q].id = sh'[r].id /\ sh'[q].id # NoId => q = r
    BY <1>1 DEF OneOwner
  <2>3. \A o \in shown' : o.id < nextId'
    BY <1>3, <1>4 DEF OneOwner
  <2> QED BY <1>3, <2>1, <2>2, <2>3 DEF OneOwner
<1>6. SlotOfShell'
  BY <1>1, <1>3 DEF SlotOfShell
<1>7. SlotKept'
  BY <1>1, <1>3 DEF SlotKept, OneOwner
<1>8. Visible'
  BY <1>1 DEF Visible
<1>9. Backed'
  <2> SUFFICES ASSUME NEW s \in seen
               PROVE  Slotted(s)' \/ Settled(s)' \/ now - s.stamp > Retention
    BY DEF Backed
  <2>1. CASE s.id = sh[p].id
    <3>1. At(p, "asking") /\ s.stamp = sh[p].stamp
      BY <2>1 DEF Visible
    <3>2. CASE UNCHANGED <<reserved, shown>>
      BY <3>2 DEF Backed, Slotted, Settled
    <3>3. CASE \E o : shown' = shown \cup {o} /\ o.id = sh[p].id /\ o.ts = now
      BY <2>1, <3>3 DEF Backed, Settled
    <3> QED BY <3>1, <3>2, <3>3
  <2>2. CASE s.id # sh[p].id
    BY <1>3, <2>2 DEF Backed, Slotted, Settled
  <2> QED BY <2>1, <2>2
<1>10. NoSlotLeaks'
  <2> SUFFICES ASSUME NEW s \in reserved'
               PROVE  s.id \in orphans' \/ \E q \in Shells : Active(q)' /\ s.id = sh'[q].id
    BY DEF NoSlotLeaks
  <2>1. CASE s.id = sh[p].id
    BY <2>1 DEF Without, Orphaned
  <2>2. CASE s.id # sh[p].id
    BY <1>1, <1>3, <2>2 DEF NoSlotLeaks, Orphaned
  <2> QED BY <2>1, <2>2
<1>11. InTime'
  BY <1>1 DEF InTime, Orphaned
<1> QED BY <1>2, <1>5, <1>6, <1>7, <1>8, <1>9, <1>10, <1>11

\* A sweep drops only what is older than the retention window, and a slot that is
\* added has an id nobody had.
LEMMA AdmitKeepsBooks ==
  ASSUME Typed, Books, NEW p \in Shells, NEW sweep \in BOOLEAN,
         Admit(p, sweep) \/ AdmitFails(p, sweep)
  PROVE  Books'
<1> USE TimesAssumption DEF Typed, Books, At, Active, ghosts
<1> DEFINE t == sh[p].stamp
           new == [id |-> nextId, rule |-> sh[p].rule, ts |-> t]
<1>1. /\ t \in Nat /\ t <= now /\ now <= t + 1
      /\ sh[p].pc = "waiting" /\ sh[p].id = 0 /\ ~sh[p].cat
      /\ UNCHANGED <<now, seen>>
  BY DEF Admit, AdmitFails, ShellShape
<1>2. /\ \A o \in shown' : o \in shown
      /\ \A o \in shown : Kept(o.ts, t) => o \in shown'
  BY DEF Admit, AdmitFails, Swept
<1>3. \A s \in reserved : Kept(s.ts, t) => s \in reserved'
  BY DEF Admit, AdmitFails, Swept
<1>4. Backed'
  <2> SUFFICES ASSUME NEW s \in seen
               PROVE  Slotted(s)' \/ Settled(s)' \/ now - s.stamp > Retention
    BY <1>1 DEF Backed
  <2>1. CASE Slotted(s)
    BY <1>1, <1>3, <2>1 DEF Backed, Slotted, Kept
  <2>2. CASE Settled(s)
    BY <1>1, <1>2, <2>2 DEF Backed, Settled, Kept
  <2> QED BY <2>1, <2>2 DEF Backed
<1>5. ASSUME Leave(p) \/ Silence(p), nextId' = nextId, reserved' \subseteq reserved,
             UNCHANGED orphans
      PROVE  Books'
  <2>1. /\ sh'[p].pc = "idle" /\ sh'[p].id = 0 /\ sh'[p].stamp = 0
        /\ \A q \in Shells : q # p => sh'[q] = sh[q]
    BY <1>5, LeavingShell
  <2>2. ShellShape' /\ Visible' /\ InTime'
    BY <1>1, <1>5, <2>1 DEF ShellShape, Visible, InTime
  <2>3. OneOwner'
    BY <1>1, <1>2, <1>5, <2>1 DEF OneOwner
  <2>4. SlotOfShell' /\ NoSlotLeaks'
    BY <1>1, <1>5, <2>1 DEF SlotOfShell, NoSlotLeaks
  <2>5. SlotKept'
    BY <1>1, <1>3, <2>1 DEF SlotKept, SlotOfShell, Kept
  <2> QED BY <1>4, <2>2, <2>3, <2>4, <2>5
<1>6. ASSUME /\ sh' = [sh EXCEPT ![p].pc = "admitted", ![p].id = nextId]
             /\ nextId' = nextId + 1
             /\ reserved' \subseteq reserved \cup {new} /\ new \in reserved'
             /\ UNCHANGED orphans
      PROVE  Books'
  <2>1. /\ sh'[p].pc = "admitted" /\ sh'[p].cat = sh[p].cat /\ sh'[p].id = nextId
        /\ sh'[p].stamp = t /\ sh'[p].rule = sh[p].rule
        /\ \A q \in Shells : q # p => sh'[q] = sh[q]
    BY <1>6, AdmittedShell
  <2>2. new.id = nextId /\ new.ts = t
    OBVIOUS
  <2> HIDE DEF new
  <2>3. ShellShape'
    BY <1>1, <1>6, <2>1 DEF ShellShape
  <2>4. Visible' /\ InTime'
    BY <1>1, <1>6, <2>1 DEF Visible, InTime
  <2>5. OneOwner'
    BY <1>1, <1>2, <1>6, <2>1, <2>2 DEF OneOwner, ShellShape
  <2>6. SlotOfShell'
    BY <1>1, <1>6, <2>1, <2>2 DEF SlotOfShell, ShellShape
  <2>7. NoSlotLeaks'
    BY <1>1, <1>6, <2>1, <2>2 DEF NoSlotLeaks
  <2>8. SlotKept'
    BY <1>1, <1>3, <1>6, <2>1, <2>2 DEF SlotKept, SlotOfShell, Kept
  <2> QED BY <1>4, <2>3, <2>4, <2>5, <2>6, <2>7, <2>8
<1>7. ASSUME /\ Leave(p) /\ nextId' = nextId + 1 /\ Faults # {}
             /\ reserved' \subseteq reserved \cup {new} /\ new \in reserved'
             /\ orphans' = orphans \cup {nextId}
      PROVE  Books'
  <2>1. /\ sh'[p].pc = "idle" /\ sh'[p].id = 0 /\ sh'[p].stamp = 0
        /\ \A q \in Shells : q # p => sh'[q] = sh[q]
    BY <1>7, LeavingShell
  <2>2. new.id = nextId /\ new.ts = t
    OBVIOUS
  <2> HIDE DEF new
  <2>3. ShellShape' /\ Visible' /\ InTime'
    BY <1>1, <1>7, <2>1 DEF ShellShape, Visible, InTime
  <2>4. OneOwner'
    BY <1>1, <1>2, <1>7, <2>1, <2>2 DEF OneOwner, ShellShape
  <2>5. SlotOfShell'
    BY <1>1, <1>7, <2>1, <2>2 DEF SlotOfShell, ShellShape
  <2>6. NoSlotLeaks'
    BY <1>1, <1>7, <2>1, <2>2 DEF NoSlotLeaks
  <2>7. SlotKept'
    BY <1>1, <1>3, <1>7, <2>1 DEF SlotKept, SlotOfShell, Kept
  <2> QED BY <1>4, <2>3, <2>4, <2>5, <2>6, <2>7
<1>8. \/ /\ Leave(p) \/ Silence(p)
         /\ nextId' = nextId /\ reserved' \subseteq reserved /\ UNCHANGED orphans
      \/ /\ sh' = [sh EXCEPT ![p].pc = "admitted", ![p].id = nextId]
         /\ nextId' = nextId + 1 /\ UNCHANGED orphans
         /\ reserved' \subseteq reserved \cup {new} /\ new \in reserved'
      \/ /\ Leave(p) /\ nextId' = nextId + 1 /\ Faults # {}
         /\ reserved' \subseteq reserved \cup {new} /\ new \in reserved'
         /\ orphans' = orphans \cup {nextId}
  BY DEF Admit, AdmitFails, Advance, Swept, Slot
<1> QED BY <1>5, <1>6, <1>7, <1>8

\* A warning that becomes visible has its slot.
LEMMA ShowKeepsBooks ==
  ASSUME Typed, Books, NEW p \in Shells, Show(p)
  PROVE  Books'
<1> USE DEF Typed, Books, At, Active, log
<1>1. /\ sh[p].pc = "admitted" /\ UNCHANGED <<now, log, nextId, orphans>>
      /\ sh'[p].pc = "asking" /\ sh'[p].cat = sh[p].cat /\ sh'[p].id = sh[p].id
      /\ sh'[p].stamp = sh[p].stamp /\ sh'[p].rule = sh[p].rule
      /\ \A q \in Shells : q # p => sh'[q] = sh[q]
  BY StageOfShell DEF Show
<1>2. ShellShape' /\ SlotOfShell' /\ SlotKept' /\ NoSlotLeaks'
  BY <1>1 DEF ShellShape, SlotOfShell, SlotKept, NoSlotLeaks
<1>3. CASE sh[p].cat
  BY <1>1, <1>2, <1>3 DEF Show, ShellShape, OneOwner, Visible, Backed, Slotted, Settled, InTime
<1>4. CASE ~sh[p].cat
  <2> DEFINE new == [id |-> sh[p].id, stamp |-> sh[p].stamp, at |-> now]
  <2>1. /\ seen' = seen \cup {new} /\ sh[p].id # 0
        /\ new.id = sh[p].id /\ new.stamp = sh[p].stamp /\ new.at = now
    BY <1>1, <1>4 DEF Show, ShellShape
  <2> HIDE DEF new
  <2>2. \A s \in seen : s.id # sh[p].id
    BY <1>1, <2>1 DEF Visible
  <2>3. OneOwner'
    BY <1>1, <2>1, <2>2 DEF OneOwner
  <2>4. Visible'
    BY <1>1, <2>1 DEF Visible, OneOwner
  <2>5. Backed'
    BY <1>1, <2>1 DEF Backed, Slotted, Settled, SlotKept, SlotOfShell, ShellShape
  <2>6. InTime'
    BY <1>1, <2>1 DEF InTime
  <2> QED BY <1>2, <2>3, <2>4, <2>5, <2>6
<1> QED BY <1>3, <1>4

\* Time makes records old, and a record that backs a warning not before it.
LEMMA TickKeepsBooks ==
  ASSUME Typed, Books, Tick
  PROVE  Books'
<1> USE DEF Typed, Books, At, Active, Tick, log, ghosts
<1>1. ShellShape' /\ OneOwner' /\ SlotOfShell' /\ Visible' /\ NoSlotLeaks'
  BY DEF ShellShape, OneOwner, SlotOfShell, Visible, NoSlotLeaks
<1>2. SlotKept' /\ Backed'
  BY TimesAssumption DEF SlotKept, Backed, Slotted, Settled
<1>3. InTime'
  BY TimesAssumption DEF InTime
<1> QED BY <1>1, <1>2, <1>3

\* Every step keeps the books.
LEMMA BooksStep == BookInv /\ [Next]_vars => Books'
<1> SUFFICES ASSUME BookInv, [Next]_vars PROVE Books'
  OBVIOUS
<1>1. Typed /\ Books
  BY TypedBooks DEF BookInv, Books
<1>2. ASSUME NEW p \in Shells, NEW r \in Rules, NEW c \in Severities, Submit(p, r, c)
      PROVE  Books'
  BY <1>1, <1>2, SubmitKeepsBooks
<1>3. ASSUME NEW p \in Shells, AdmitCatastrophic(p) PROVE Books'
  BY <1>1, <1>3, CatastrophicKeepsBooks
<1>5. ASSUME NEW p \in Shells, NEW sweep \in BOOLEAN, Admit(p, sweep) \/ AdmitFails(p, sweep)
      PROVE  Books'
  BY <1>1, <1>5, AdmitKeepsBooks
<1>6. ASSUME NEW p \in Shells, Show(p) PROVE Books'
  BY <1>1, <1>6, ShowKeepsBooks
<1>7. ASSUME NEW p \in Shells, NotShown(p) PROVE Books'
  <2>1. Leave(p) /\ UNCHANGED <<now, shown, nextId, seen>> /\ ~At(p, "asking")
    BY <1>7 DEF NotShown, At
  <2>2. CASE reserved' = Without(reserved, sh[p].id) /\ UNCHANGED orphans
    BY <1>1, <2>1, <2>2, LeavingKeepsBooks
  <2>3. CASE Orphaned(p) /\ UNCHANGED reserved /\ "lost" \in Faults
    BY <1>1, <2>1, <2>3, LeavingKeepsBooks
  <2> QED BY <1>7, <2>2, <2>3 DEF NotShown, Appended
<1>8. ASSUME NEW p \in Shells, NEW a \in Answers, Answer(p, a) PROVE Books'
  <2>1. Leave(p) /\ UNCHANGED <<now, nextId, seen>>
    BY <1>8 DEF Answer
  <2>2. CASE /\ shown' = shown \cup {[place |-> written', id |-> sh[p].id,
                                      rule |-> sh[p].rule, ts |-> now, answer |-> a]}
             /\ reserved' = Without(reserved, sh[p].id) /\ UNCHANGED orphans
    <3> DEFINE new == [place |-> written', id |-> sh[p].id, rule |-> sh[p].rule, ts |-> now,
                       answer |-> a]
    <3>1. shown' = shown \cup {new} /\ new.id = sh[p].id /\ new.ts = now
      BY <2>2
    <3> HIDE DEF new
    <3>2. \E o : shown' = shown \cup {o} /\ o.id = sh[p].id /\ o.ts = now
      BY <3>1
    <3> QED BY <1>1, <2>1, <2>2, <3>2, LeavingKeepsBooks
  <2>3. CASE Orphaned(p) /\ UNCHANGED log /\ "lost" \in Faults
    BY <1>1, <2>1, <2>3, LeavingKeepsBooks DEF log
  <2> QED BY <1>8, <2>2, <2>3 DEF Answer, Appended
<1>9. ASSUME NEW p \in Shells, Crash(p) PROVE Books'
  BY <1>1, <1>9, LeavingKeepsBooks DEF Crash, log
<1>10. CASE Tick
  BY <1>1, <1>10, TickKeepsBooks
<1>11. CASE UNCHANGED vars
  BY <1>1, <1>11 DEF vars, log, Books, ShellShape, OneOwner, SlotOfShell, SlotKept, Visible,
     Backed, Slotted, Settled, NoSlotLeaks, InTime, Active, At
<1> QED BY <1>2, <1>3, <1>5, <1>6, <1>7, <1>8, <1>9, <1>10, <1>11 DEF Next

\* The log stays finite.
LEMMA FiniteStep == Finite /\ [Next]_vars => Finite'
<1> SUFFICES ASSUME Finite, [Next]_vars PROVE Finite'
  OBVIOUS
<1>1. ASSUME NEW S, NEW T, NEW x, IsFiniteSet(S), T \subseteq S \cup {x} PROVE IsFiniteSet(T)
  BY <1>1, FS_AddElement, FS_Subset
<1>2. /\ \E x : shown' \subseteq shown \cup {x}
      /\ \E x : reserved' \subseteq reserved \cup {x}
      /\ \E x : seen' \subseteq seen \cup {x}
  BY DEF Next, vars, log, ghosts, Submit, AdmitCatastrophic, AdmitFails, Admit, Show, NotShown,
     Answer, Crash, Tick, Without, Swept
<1> QED BY <1>1, <1>2 DEF Finite

\* The books agree in every reachable state: what the user saw within the retention
\* window is backed by the log of policy.jsonl (policy.rs:402-421, 544-556).
THEOREM BookInvariant == Spec => []BookInv
<1>1. BookInv /\ [Next]_vars => BookInv'
  <2> SUFFICES ASSUME BookInv, [Next]_vars PROVE BookInv'
    OBVIOUS
  <2>1. TypeOK'
    BY TypeStep DEF BookInv
  <2>2. Books'
    BY BooksStep
  <2>3. Finite'
    BY FiniteStep DEF BookInv
  <2> QED BY <2>1, <2>2, <2>3 DEF BookInv, Books
<1> QED BY <1>1, BookInit, PTL DEF Spec

\* Every variable keeps its type.
THEOREM TypeCorrect == Spec => []TypeOK
<1>1. BookInv => TypeOK
  BY DEF BookInv
<1> QED BY <1>1, BookInvariant, PTL

\* A warning nobody saw spends nothing, and an answered one not twice: a slot that
\* is reserved has its shell, unless what would have freed it was lost
\* (policy.rs:544-556).
THEOREM SlotsAreHeld == Spec => []NoSlotLeaks
<1>1. BookInv => NoSlotLeaks
  BY DEF BookInv
<1> QED BY <1>1, BookInvariant, PTL

-----------------------------------------------------------------------------
(* The budget *)

\* No more records than ids.
LEMMA IdsOfRecords ==
  ASSUME NEW R, IsFiniteSet(R)
  PROVE  /\ IsFiniteSet({s.id : s \in R})
         /\ Cardinality({s.id : s \in R}) <= Cardinality(R)
<1> DEFINE f == [s \in R |-> s.id]
<1>1. f \in Surjection(R, {s.id : s \in R})
  BY DEF Surjection
<1> QED BY <1>1, FS_Surjection

\* The windows the gate is sound for, and how their warnings are dated.
Sound(window, dated) ==
  \/ window = TTL /\ dated = "admitted"
  \/ window = Hour /\ dated = "visible" /\ Faults = {}

\* The live ids are finitely many.
LEMMA LiveFinite ==
  ASSUME BookInv, NEW window, NEW dated
  PROVE  IsFiniteSet(Live(window, dated))
<1>1. Typed
  BY TypedBooks DEF BookInv
<1>2. Live(window, dated) \subseteq 1..nextId
  BY <1>1 DEF Typed, Live, Within
<1>3. IsFiniteSet(1..nextId)
  BY <1>1, FS_Interval DEF Typed
<1> QED BY <1>2, <1>3, FS_Subset

\* A step that makes no id live keeps the bound.
LEMMA FewerAreBounded ==
  ASSUME BookInv, NEW window, NEW dated, Bounded(window, dated), Live(window, dated)' \subseteq Live(window, dated), BookInv'
  PROVE  Bounded(window, dated)'
<1>1. IsFiniteSet(Live(window, dated)) /\ Cardinality(Live(window, dated)) <= Budget
  BY LiveFinite DEF Bounded
<1>2. /\ Cardinality(Live(window, dated)') <= Cardinality(Live(window, dated))
      /\ Cardinality(Live(window, dated)') \in Nat /\ Cardinality(Live(window, dated)) \in Nat
  BY <1>1, FS_Subset, FS_CardinalityType
<1>3. Cardinality(Live(window, dated)') <= Budget
  BY <1>1, <1>2, BoundsAssumption
<1> QED BY <1>3 DEF Bounded

\* The shell that is admitted at t found every live id among what it counted.
LEMMA LiveIsCounted ==
  ASSUME BookInv, NEW window, NEW dated, Sound(window, dated), NEW p \in Shells, At(p, "waiting"),
         NEW outcomes, NEW slots,
         \A o \in shown : Kept(o.ts, sh[p].stamp) => o \in outcomes,
         \A s \in reserved : Kept(s.ts, sh[p].stamp) => s \in slots
  PROVE  Live(window, dated) \subseteq
           {o.id : o \in {u \in outcomes : Age(sh[p].stamp, u.ts) < Hour}}
             \cup {s.id : s \in {u \in slots : Age(sh[p].stamp, u.ts) < TTL}}
<1>1. Typed
  BY TypedBooks DEF BookInv
<1> USE <1>1, TimesAssumption DEF BookInv, Typed
<1> DEFINE t == sh[p].stamp
<1>2. t \in Nat /\ t <= now /\ now <= t + 1 /\ window \in Nat /\ window <= Retention
  BY DEF ShellShape, Sound
<1>3. ASSUME NEW s \in reserved, now - s.ts < TTL
      PROVE  s \in slots /\ Age(t, s.ts) < TTL
  BY <1>2, <1>3 DEF Kept, Age
<1>4. ASSUME NEW s \in seen, now - Date(s, dated) < window
      PROVE  \/ \E u \in slots : u.id = s.id /\ Age(t, u.ts) < TTL
             \/ \E o \in outcomes : o.id = s.id /\ Age(t, o.ts) < Hour
  <2>1. /\ Date(s, dated) <= s.at /\ now - s.stamp <= Retention
        /\ window = TTL => Date(s, dated) = s.stamp
        /\ window <= Hour
    <3>1. CASE window = TTL /\ dated = "admitted"
      BY <1>4, <3>1 DEF Date, Backed
    <3>2. CASE window = Hour /\ dated = "visible" /\ Faults = {}
      <4>1. s.at <= s.stamp + PromptMax
        BY <3>2 DEF InTime
      <4> QED BY <1>4, <3>2, <4>1 DEF Date
    <3> QED BY <3>1, <3>2 DEF Sound
  <2>2. CASE Slotted(s)
    <3>1. PICK u \in reserved : u.id = s.id /\ u.ts = s.stamp
      BY <2>2 DEF Slotted
    <3>2. now - u.ts < TTL
      <4>1. CASE window = TTL
        BY <1>4, <2>1, <3>1, <4>1
      <4>2. CASE Faults = {}
        <5>1. PICK q \in Shells : u.id = sh[q].id /\ Active(q)
          BY <4>2 DEF NoSlotLeaks, InTime, Active
        <5>2. now <= u.ts + PromptMax
          BY <4>2, <5>1 DEF InTime, SlotOfShell
        <5> QED BY <5>2
      <4> QED BY <4>1, <4>2 DEF Sound
    <3> QED BY <1>3, <3>1, <3>2
  <2>3. CASE Settled(s)
    <3>1. PICK o \in shown : o.id = s.id /\ o.ts >= s.at
      BY <2>3 DEF Settled
    <3>2. /\ o.ts \in Nat /\ s.at \in Nat /\ s.stamp \in Nat /\ Date(s, dated) \in Nat
          /\ s.stamp <= s.at
      BY DEF Date, Backed
    <3>3. Kept(o.ts, t)
      BY <1>2, <2>1, <3>1, <3>2 DEF Kept
    <3>4. Age(t, o.ts) < Hour
      BY <1>2, <1>4, <2>1, <3>1, <3>2 DEF Age
    <3> QED BY <3>1, <3>3, <3>4
  <2> QED BY <2>1, <2>2, <2>3 DEF Backed
<1> QED BY <1>3, <1>4 DEF Live, Within

\* A step that adds a live id passed the gate.
LEMMA AdmitIsBounded ==
  ASSUME BookInv, NEW window, NEW dated, Sound(window, dated), Bounded(window, dated),
         NEW p \in Shells, NEW sweep \in BOOLEAN,
         Admit(p, sweep) \/ AdmitFails(p, sweep), BookInv'
  PROVE  Bounded(window, dated)'
<1> DEFINE t == sh[p].stamp
           outcomes == Swept(shown, sweep, t)
           slots == Swept(reserved, sweep, t)
           new == [id |-> nextId, rule |-> sh[p].rule, ts |-> t]
           told == {o \in outcomes : Age(t, o.ts) < Hour}
           held == {s \in slots : Age(t, s.ts) < TTL}
           live == {o.id : o \in told} \cup {s.id : s \in held}
<1>1. /\ UNCHANGED <<now, seen>> /\ At(p, "waiting")
      /\ \/ reserved' = slots
         \/ ShownWithinHour(t, outcomes, slots) < Budget /\ reserved' = slots \cup {new}
  <2>1. Cardinality(told) + Cardinality(held) \in Nat
    <3>1. IsFiniteSet(shown) /\ IsFiniteSet(reserved)
      BY DEF BookInv, Finite
    <3>2. told \subseteq shown /\ held \subseteq reserved
      BY DEF Swept
    <3> HIDE DEF told, held
    <3>3. IsFiniteSet(told) /\ IsFiniteSet(held)
      BY <3>1, <3>2, FS_Subset
    <3> QED BY <3>3, FS_CardinalityType
  <2>2. ShownWithinHour(t, outcomes, slots) = Cardinality(told) + Cardinality(held)
    BY DEF ShownWithinHour
  <2> HIDE DEF told, held
  <2> HIDE DEF outcomes, slots
  <2> QED BY <2>1, <2>2, BoundsAssumption DEF Admit, AdmitFails, ghosts, Slot, outcomes, slots
<1>2. CASE reserved' = slots
  <2>1. Live(window, dated)' \subseteq Live(window, dated)
    BY <1>1, <1>2 DEF Live, Within, Date, Swept
  <2> QED BY <2>1, FewerAreBounded
<1>3. CASE ShownWithinHour(t, outcomes, slots) < Budget /\ reserved' = slots \cup {new}
  <2>1. Live(window, dated) \subseteq live
    <3>1. /\ \A o \in shown : Kept(o.ts, t) => o \in outcomes
          /\ \A s \in reserved : Kept(s.ts, t) => s \in slots
      BY DEF Swept
    <3> HIDE DEF outcomes, slots
    <3> QED BY <1>1, <3>1, LiveIsCounted
  <2>2. Live(window, dated)' \subseteq Live(window, dated) \cup {nextId}
    <3>1. new.id = nextId
      OBVIOUS
    <3> HIDE DEF new
    <3>2. \A s \in reserved' : s \in reserved \/ s = new
      BY <1>3 DEF Swept
    <3> HIDE DEF slots
    <3> QED BY <1>1, <3>1, <3>2 DEF Live, Within, Date
  <2>3. IsFiniteSet(told) /\ IsFiniteSet(held)
    <3>1. IsFiniteSet(shown) /\ IsFiniteSet(reserved) /\ told \subseteq shown /\ held \subseteq reserved
      BY DEF BookInv, Finite, Swept
    <3> HIDE DEF told, held
    <3> QED BY <3>1, FS_Subset
  <2>4. Cardinality(told) + Cardinality(held) < Budget
    BY <1>3 DEF ShownWithinHour
  <2> HIDE DEF told, held
  <2>5. IsFiniteSet(live) /\ Cardinality(live) < Budget
    <3> DEFINE A == {o.id : o \in told}
               B == {s.id : s \in held}
    <3>1. /\ IsFiniteSet(A) /\ Cardinality(A) <= Cardinality(told)
          /\ IsFiniteSet(B) /\ Cardinality(B) <= Cardinality(held)
      BY <2>3, IdsOfRecords
    <3>2. live = A \cup B
      OBVIOUS
    <3> HIDE DEF A, B, live
    <3>3. /\ IsFiniteSet(A \cup B) /\ IsFiniteSet(A \cap B)
          /\ Cardinality(A \cup B) = Cardinality(A) + Cardinality(B) - Cardinality(A \cap B)
      BY <3>1, FS_Union, FS_Intersection
    <3>4. /\ Cardinality(A) \in Nat /\ Cardinality(B) \in Nat /\ Cardinality(A \cap B) \in Nat
          /\ Cardinality(told) \in Nat /\ Cardinality(held) \in Nat
      BY <2>3, <3>1, <3>3, FS_CardinalityType
    <3> QED BY <2>4, <3>1, <3>2, <3>3, <3>4, BoundsAssumption
  <2> HIDE DEF live
  <2>6. IsFiniteSet(live \cup {nextId}) /\ Cardinality(live \cup {nextId}) <= Budget
    <3>1. Cardinality(live) \in Nat
      BY <2>5, FS_CardinalityType
    <3>2. /\ IsFiniteSet(live \cup {nextId})
          /\ \/ Cardinality(live \cup {nextId}) = Cardinality(live)
             \/ Cardinality(live \cup {nextId}) = Cardinality(live) + 1
      BY <2>5, FS_AddElement
    <3> QED BY <2>5, <3>1, <3>2, BoundsAssumption
  <2>7. Live(window, dated)' \subseteq live \cup {nextId}
    BY <2>1, <2>2
  <2>8. /\ Cardinality(Live(window, dated)') <= Cardinality(live \cup {nextId})
        /\ Cardinality(Live(window, dated)') \in Nat /\ Cardinality(live \cup {nextId}) \in Nat
    BY <2>6, <2>7, FS_Subset, FS_CardinalityType
  <2>9. Cardinality(Live(window, dated)') <= Budget
    BY <2>6, <2>8, BoundsAssumption
  <2> QED BY <2>9 DEF Bounded
<1> QED BY <1>1, <1>2, <1>3

\* Showing a warning makes no id live that was not: its slot is there.
LEMMA ShowIsBounded ==
  ASSUME BookInv, NEW window, NEW dated, Sound(window, dated), NEW p \in Shells, Show(p)
  PROVE  Live(window, dated)' \subseteq Live(window, dated)
<1>1. Typed
  BY TypedBooks DEF BookInv
<1> USE <1>1, TimesAssumption DEF BookInv, Typed, Active
<1>2. UNCHANGED <<now, reserved>> /\ sh[p].pc = "admitted"
  BY DEF Show, At, log
<1>3. CASE sh[p].cat
  BY <1>2, <1>3 DEF Show, Live, Within, Date
<1>4. CASE ~sh[p].cat
  <2> DEFINE new == [id |-> sh[p].id, stamp |-> sh[p].stamp, at |-> now]
  <2>1. /\ seen' = seen \cup {new}
        /\ new.id = sh[p].id /\ new.stamp = sh[p].stamp /\ new.at = now
    BY <1>4 DEF Show
  <2> HIDE DEF new
  <2>2. CASE now - Date(new, dated) < window
    <3>1. now - sh[p].stamp < TTL
      <4>1. CASE window = TTL /\ dated = "admitted"
        BY <2>1, <2>2, <4>1 DEF Date
      <4>2. CASE Faults = {}
        BY <1>2, <4>2 DEF InTime, At
      <4> QED BY <4>1, <4>2 DEF Sound
    <3>2. PICK u \in reserved : u.id = sh[p].id
      BY <1>2, <1>4, <3>1 DEF SlotKept, ShellShape, At
    <3>3. now - u.ts < TTL
      BY <3>1, <3>2 DEF SlotOfShell
    <3>4. sh[p].id \in Live(window, dated)
      BY <3>2, <3>3 DEF Live
    <3>5. Live(window, dated)' \subseteq Live(window, dated) \cup {sh[p].id}
      BY <1>2, <2>1 DEF Live, Within, Date
    <3> QED BY <3>4, <3>5
  <2>3. CASE ~(now - Date(new, dated) < window)
    BY <1>2, <2>1, <2>3 DEF Live, Within, Date
  <2> QED BY <2>2, <2>3
<1> QED BY <1>3, <1>4

\* Every step keeps the bound on live ids.
LEMMA BoundedStep ==
  ASSUME BookInv, NEW window, NEW dated, Sound(window, dated), Bounded(window, dated), [Next]_vars, BookInv'
  PROVE  Bounded(window, dated)'
<1>1. ASSUME NEW p \in Shells, NEW sweep \in BOOLEAN, Admit(p, sweep) \/ AdmitFails(p, sweep)
      PROVE  Bounded(window, dated)'
  BY <1>1, AdmitIsBounded
<1>2. ASSUME NEW p \in Shells, Show(p) PROVE Bounded(window, dated)'
  BY <1>2, ShowIsBounded, FewerAreBounded
<1>3. CASE now' \in {now, now + 1} /\ reserved' \subseteq reserved /\ seen' = seen
  <2>1. Typed
    BY TypedBooks DEF BookInv
  <2>2. window \in Nat
    BY TimesAssumption DEF Sound
  <2>3. Live(window, dated)' \subseteq Live(window, dated)
    BY <1>3, <2>1, <2>2, TimesAssumption DEF Live, Within, Date, Typed
  <2> QED BY <2>3, FewerAreBounded
<1>4. \/ \E p \in Shells, sweep \in BOOLEAN : Admit(p, sweep) \/ AdmitFails(p, sweep)
      \/ \E p \in Shells : Show(p)
      \/ now' \in {now, now + 1} /\ reserved' \subseteq reserved /\ seen' = seen
  BY DEF Next, vars, log, ghosts, Submit, AdmitCatastrophic, NotShown, Answer, Crash,
     Tick, Without
<1> QED BY <1>1, <1>2, <1>3, <1>4

\* The warnings that were seen are no more than their ids.
LEMMA SeenIsLive ==
  ASSUME BookInv, NEW window, NEW dated, Bounded(window, dated)
  PROVE  Cardinality(Within(window, dated)) <= Budget
<1> DEFINE f == [s \in Within(window, dated) |-> s.id]
<1>1. f \in Injection(Within(window, dated), Live(window, dated))
  BY DEF Injection, IsInjective, Live, Within, BookInv, OneOwner
<1>2. IsFiniteSet(Live(window, dated)) /\ Cardinality(Live(window, dated)) <= Budget
  BY LiveFinite DEF Bounded
<1>3. IsFiniteSet(Within(window, dated)) /\ Cardinality(Within(window, dated)) <= Cardinality(Live(window, dated))
  BY <1>1, <1>2, FS_Injection
<1>4. Cardinality(Within(window, dated)) \in Nat /\ Cardinality(Live(window, dated)) \in Nat
  BY <1>2, <1>3, FS_CardinalityType
<1> QED BY <1>2, <1>3, <1>4, BoundsAssumption

\* At the start no id is live.
LEMMA BoundedInit == ASSUME Init, NEW window, NEW dated PROVE Bounded(window, dated)
<1>1. Live(window, dated) = {}
  BY DEF Init, Live, Within
<1> QED BY <1>1, FS_EmptySet, BoundsAssumption DEF Bounded

\* Whatever is lost, killed, torn or suspended, no more than the budget of ordinary
\* warnings, each visible within PromptMax of its admission, become visible within
\* TTL less PromptMax: they were all admitted within one lifetime of a reservation.
THEOREM BurstIsHeld == Spec => []BurstHeld
<1>1. Init => Bounded(TTL, "admitted")
  BY BoundedInit
<1>2. BookInv /\ Bounded(TTL, "admitted") /\ [Next]_vars /\ BookInv' => Bounded(TTL, "admitted")'
  BY BoundedStep DEF Sound
<1>3. BookInv /\ Bounded(TTL, "admitted") => BurstHeld
  <2> SUFFICES ASSUME BookInv, Bounded(TTL, "admitted") PROVE BurstHeld
    OBVIOUS
  <2> DEFINE burst == {s \in seen : s.at <= s.stamp + PromptMax /\ now - s.at < TTL - PromptMax}
             all == Within(TTL, "admitted")
  <2>1. burst \subseteq all
    BY TypedBooks, TimesAssumption DEF BookInv, Typed, Within, Date
  <2>2. IsFiniteSet(all) /\ Cardinality(all) <= Budget
    <3>1. all \subseteq seen /\ IsFiniteSet(seen)
      BY DEF Within, BookInv, Finite
    <3>2. Cardinality(all) <= Budget
      BY SeenIsLive
    <3> QED BY <3>1, <3>2, FS_Subset
  <2>3. Cardinality(burst) <= Budget
    <3> HIDE DEF burst, all
    <3>1. /\ Cardinality(burst) <= Cardinality(all)
          /\ Cardinality(burst) \in Nat /\ Cardinality(all) \in Nat
      BY <2>1, <2>2, FS_Subset, FS_CardinalityType
    <3> QED BY <2>2, <3>1, BoundsAssumption
  <2> QED BY <2>3 DEF BurstHeld
<1> QED BY <1>1, <1>2, <1>3, BookInvariant, PTL DEF Spec

\* While nothing is lost, killed, torn or suspended, no more ordinary warnings than
\* the budget become visible in an hour, however many shells ask at once (SPEC
\* section 7, policy.rs:259-264).
THEOREM BudgetIsHeld == ASSUME Faults = {} PROVE Spec => []BudgetHeld
<1>1. Init => Bounded(Hour, "visible")
  BY BoundedInit
<1>2. BookInv /\ Bounded(Hour, "visible") /\ [Next]_vars /\ BookInv' => Bounded(Hour, "visible")'
  BY BoundedStep DEF Sound
<1>3. BookInv /\ Bounded(Hour, "visible") => BudgetHeld
  BY SeenIsLive DEF BudgetHeld, Within, Date
<1> QED BY <1>1, <1>2, <1>3, BookInvariant, PTL DEF Spec

-----------------------------------------------------------------------------
(* The cooldown *)

\* A shell that was told to be quiet names a rule with Trigger deliberate runs.
Quieted ==
  \A p \in Shells : sh[p].quiet => sh[p].rule \in Rules /\ runs[sh[p].rule] = Trigger
CooldownInv == TypeOK /\ ShellShape /\ Finite /\ RunsCounted /\ Quieted

\* The log of a rule in cooldown has Trigger deliberate runs of it.
LEMMA CooldownIsLogged ==
  ASSUME TypeOK, Finite, RunsCounted, NEW r \in Rules, NEW t,
         NEW outcomes \in SUBSET shown, RuleInCooldown(r, t, outcomes)
  PROVE  runs[r] = Trigger
<1>1. PICK last \in Latest(r, outcomes) : \A o \in last : o.answer = "run"
  BY DEF RuleInCooldown
<1>2. last \subseteq RunsLogged(r) /\ Cardinality(last) = Trigger
  BY <1>1 DEF Latest, RunsLogged
<1>3. IsFiniteSet(RunsLogged(r))
  BY FS_Subset DEF Finite, RunsLogged
<1>4. Trigger <= Cardinality(RunsLogged(r)) /\ Cardinality(RunsLogged(r)) \in Nat
  BY <1>2, <1>3, FS_Subset, FS_CardinalityType
<1>5. runs[r] \in 0..Trigger
  BY DEF TypeOK
<1> QED BY <1>4, <1>5, BoundsAssumption DEF RunsCounted

\* A smaller log counts no more runs.
LEMMA FewerRuns ==
  ASSUME TypeOK, Finite, RunsCounted, shown' \subseteq shown, UNCHANGED runs
  PROVE  RunsCounted'
<1> SUFFICES ASSUME NEW r \in Rules
             PROVE  runs[r] = Trigger \/ Cardinality(RunsLogged(r)') <= runs[r]
  BY DEF RunsCounted
<1>1. IsFiniteSet(RunsLogged(r)) /\ RunsLogged(r)' \subseteq RunsLogged(r)
  BY FS_Subset DEF Finite, RunsLogged
<1>2. /\ Cardinality(RunsLogged(r)') <= Cardinality(RunsLogged(r))
      /\ Cardinality(RunsLogged(r)') \in Nat /\ Cardinality(RunsLogged(r)) \in Nat
  BY <1>1, FS_Subset, FS_CardinalityType
<1>3. runs[r] \in Int
  BY BoundsAssumption DEF TypeOK
<1> QED BY <1>2, <1>3 DEF RunsCounted

\* An answer that is logged as a run is counted as one.
LEMMA AnswerCounts ==
  ASSUME TypeOK, ShellShape, Finite, RunsCounted, NEW p \in Shells, NEW a \in Answers,
         Answer(p, a)
  PROVE  /\ RunsCounted'
         /\ \A r \in Rules : runs[r] = Trigger => runs'[r] = Trigger
<1>1. sh[p].rule \in Rules
  BY DEF Answer, ShellShape, At
<1>2. runs' = IF a = "run" /\ runs[sh[p].rule] < Trigger
              THEN [runs EXCEPT ![sh[p].rule] = @ + 1] ELSE runs
  BY DEF Answer
<1>3. runs \in [Rules -> 0..Trigger]
  BY DEF TypeOK
<1> DEFINE new == [place |-> written', id |-> sh[p].id, rule |-> sh[p].rule, ts |-> now,
                   answer |-> a]
<1>4. new.rule = sh[p].rule /\ new.answer = a /\ shown' \subseteq shown \cup {new}
  BY DEF Answer, log
<1> HIDE DEF new
<1>5. ASSUME NEW r \in Rules
      PROVE  /\ runs'[r] = Trigger \/ Cardinality(RunsLogged(r)') <= runs'[r]
             /\ runs[r] = Trigger => runs'[r] = Trigger
  <2>1. IsFiniteSet(RunsLogged(r)) /\ Cardinality(RunsLogged(r)) \in Nat
    BY FS_Subset, FS_CardinalityType DEF Finite, RunsLogged
  <2>2. /\ Cardinality(RunsLogged(r) \cup {new}) \in Nat
        /\ Cardinality(RunsLogged(r) \cup {new}) <= Cardinality(RunsLogged(r)) + 1
        /\ IsFiniteSet(RunsLogged(r) \cup {new})
    <3>1. /\ IsFiniteSet(RunsLogged(r) \cup {new})
          /\ \/ Cardinality(RunsLogged(r) \cup {new}) = Cardinality(RunsLogged(r))
             \/ Cardinality(RunsLogged(r) \cup {new}) = Cardinality(RunsLogged(r)) + 1
      BY <2>1, FS_AddElement
    <3> QED BY <2>1, <3>1
  <2>3. runs[r] \in Nat /\ runs[r] <= Trigger /\ Trigger \in Nat
    BY <1>3, BoundsAssumption
  <2>4. runs[r] = Trigger \/ Cardinality(RunsLogged(r)) <= runs[r]
    BY DEF RunsCounted
  <2>5. CASE r = sh[p].rule /\ a = "run"
    <3>1. RunsLogged(r)' \subseteq RunsLogged(r) \cup {new}
      BY <1>4 DEF RunsLogged
    <3>2. /\ Cardinality(RunsLogged(r)') <= Cardinality(RunsLogged(r) \cup {new})
          /\ Cardinality(RunsLogged(r)') \in Nat
      BY <2>2, <3>1, FS_Subset, FS_CardinalityType
    <3>3. runs'[r] = IF runs[r] < Trigger THEN runs[r] + 1 ELSE runs[r]
      BY <1>2, <1>3, <2>5
    <3> QED BY <2>1, <2>2, <2>3, <2>4, <3>2, <3>3
  <2>6. CASE ~(r = sh[p].rule /\ a = "run")
    <3>1. RunsLogged(r)' \subseteq RunsLogged(r)
      BY <1>4, <2>6 DEF RunsLogged
    <3>2. /\ Cardinality(RunsLogged(r)') <= Cardinality(RunsLogged(r))
          /\ Cardinality(RunsLogged(r)') \in Nat
      BY <2>1, <3>1, FS_Subset, FS_CardinalityType
    <3>3. runs'[r] = runs[r]
      BY <1>1, <1>2, <1>3, <2>6
    <3> QED BY <2>1, <2>3, <2>4, <3>2, <3>3
  <2> QED BY <2>5, <2>6
<1> QED BY <1>5 DEF RunsCounted

\* The shell that leaves, and the shell that is told to be quiet.
LEMMA QuietShell ==
  ASSUME TypeOK, NEW p \in Shells
  PROVE  /\ Leave(p) => ~sh'[p].quiet /\ \A q \in Shells : q # p => sh'[q] = sh[q]
         /\ Silence(p) => /\ sh'[p].quiet /\ sh'[p].rule = sh[p].rule
                          /\ \A q \in Shells : q # p => sh'[q] = sh[q]
<1> DEFINE silent == [Idle EXCEPT !.quiet = TRUE, !.rule = sh[p].rule]
<1>1. Typed
  BY TypedBooks
<1>2. Leave(p) => sh'[p] = Idle /\ \A q \in Shells : q # p => sh'[q] = sh[q]
  <2> HIDE DEF Idle
  <2> QED BY <1>1, OtherShells DEF Leave
<1>3. Silence(p) => sh'[p] = silent /\ \A q \in Shells : q # p => sh'[q] = sh[q]
  <2>1. Silence(p) => sh' = [sh EXCEPT ![p] = silent]
    BY DEF Silence
  <2> HIDE DEF silent
  <2> QED BY <1>1, <2>1, OtherShells
<1>4. ~Idle.quiet /\ silent.quiet /\ silent.rule = sh[p].rule
  BY DEF Idle
<1> QED BY <1>2, <1>3, <1>4

\* A shell that goes on with its warning stays as quiet as it was.
LEMMA SameQuiet ==
  ASSUME Typed, NEW p \in Shells, NEW stage, NEW i,
         \/ sh' = [sh EXCEPT ![p].pc = stage]
         \/ sh' = [sh EXCEPT ![p].pc = stage, ![p].id = i]
  PROVE  \A q \in Shells : sh'[q].quiet = sh[q].quiet /\ sh'[q].rule = sh[q].rule
BY DEF Typed, ShellType

\* Every step keeps it that a quiet rule was overruled.
LEMMA QuietedStep ==
  ASSUME CooldownInv, [Next]_vars
  PROVE  RunsCounted' /\ Quieted'
<1>1. Typed
  BY TypedBooks DEF CooldownInv
<1> USE DEF CooldownInv, log, ghosts, vars
<1>2. ASSUME shown' \subseteq shown, UNCHANGED runs,
             \A q \in Shells : sh'[q].quiet => sh[q].quiet /\ sh'[q].rule = sh[q].rule
      PROVE  RunsCounted' /\ Quieted'
  BY <1>2, FewerRuns DEF Quieted
<1>3. ASSUME NEW p \in Shells, NEW r \in Rules, NEW c \in Severities, Submit(p, r, c)
      PROVE  RunsCounted' /\ Quieted'
  <2> DEFINE new == [Idle EXCEPT !.pc = "waiting", !.stamp = now, !.rule = r, !.cat = c]
  <2>1. sh' = [sh EXCEPT ![p] = new] /\ ~new.quiet /\ UNCHANGED <<shown, runs>>
    BY <1>3 DEF Submit, Idle
  <2> HIDE DEF new
  <2> QED BY <1>1, <1>2, <2>1, OtherShells
<1>4. ASSUME NEW p \in Shells, AdmitCatastrophic(p) \/ Show(p)
      PROVE  RunsCounted' /\ Quieted'
  BY <1>1, <1>2, <1>4, SameQuiet DEF AdmitCatastrophic, Show
<1>5. ASSUME NEW p \in Shells, NotShown(p) \/ Crash(p) \/ \E sweep \in BOOLEAN : AdmitFails(p, sweep)
      PROVE  RunsCounted' /\ Quieted'
  <2>1. shown' \subseteq shown /\ UNCHANGED runs /\ Leave(p)
    BY <1>5 DEF AdmitFails, NotShown, Crash, Swept
  <2> QED BY <1>2, <2>1, QuietShell
<1>6. ASSUME NEW p \in Shells, NEW sweep \in BOOLEAN, Admit(p, sweep)
      PROVE  RunsCounted' /\ Quieted'
  <2> DEFINE t == sh[p].stamp
             outcomes == Swept(shown, sweep, t)
             r == sh[p].rule
  <2>1. outcomes \in SUBSET shown /\ r \in Rules /\ shown' \subseteq shown /\ UNCHANGED runs
    BY <1>6 DEF Admit, ShellShape, At, Swept
  <2>2. \/ Leave(p)
        \/ Silence(p) /\ RuleInCooldown(r, t, outcomes)
        \/ sh' = [sh EXCEPT ![p].pc = "admitted", ![p].id = nextId]
    BY <1>6 DEF Admit
  <2> HIDE DEF outcomes
  <2>3. CASE Silence(p) /\ RuleInCooldown(r, t, outcomes)
    <3>1. runs[r] = Trigger
      BY <2>1, <2>3, CooldownIsLogged
    <3>2. RunsCounted'
      BY <2>1, FewerRuns
    <3> QED BY <2>1, <2>3, <3>1, <3>2, QuietShell DEF Quieted
  <2>4. CASE Leave(p)
    BY <1>2, <2>1, <2>4, QuietShell
  <2>5. CASE sh' = [sh EXCEPT ![p].pc = "admitted", ![p].id = nextId]
    BY <1>1, <1>2, <2>1, <2>5, SameQuiet
  <2> QED BY <2>2, <2>3, <2>4, <2>5
<1>7. ASSUME NEW p \in Shells, NEW a \in Answers, Answer(p, a)
      PROVE  RunsCounted' /\ Quieted'
  BY <1>7, AnswerCounts, QuietShell DEF Answer, Quieted
<1>8. CASE Tick \/ UNCHANGED vars
  BY <1>2, <1>8 DEF Tick
<1> QED BY <1>3, <1>4, <1>5, <1>6, <1>7, <1>8 DEF Next

\* At the start no rule is quiet.
LEMMA CooldownInit == Init => CooldownInv
<1> SUFFICES ASSUME Init PROVE CooldownInv
  OBVIOUS
<1>1. TypeOK /\ ShellShape /\ Finite
  BY BookInit DEF BookInv
<1>2. ~Idle.quiet
  BY DEF Idle
<1>3. \A r \in Rules : RunsLogged(r) = {}
  BY DEF Init, RunsLogged
<1>4. RunsCounted
  BY <1>3, FS_EmptySet DEF Init, RunsCounted
<1> QED BY <1>1, <1>2, <1>4 DEF Init, CooldownInv, Quieted

\* A rule goes quiet only after the user has overruled it Trigger times by a
\* deliberate key, whatever is swept, lost or killed (policy.rs:299-310).
THEOREM CooldownIsEarned == Spec => []CooldownEarned
<1>1. CooldownInv /\ [Next]_vars /\ BookInv' => CooldownInv'
  BY QuietedStep DEF CooldownInv, BookInv
<1>2. CooldownInv => CooldownEarned
  <2> SUFFICES ASSUME CooldownInv, NEW p \in Shells, sh[p].quiet
               PROVE  runs[sh[p].rule] >= Trigger
    BY DEF CooldownEarned
  <2> QED BY BoundsAssumption DEF CooldownInv, Quieted
<1> QED BY <1>1, <1>2, CooldownInit, BookInvariant, PTL DEF Spec
=============================================================================
