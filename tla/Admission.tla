------------------------------ MODULE Admission ------------------------------
(***************************************************************************)
(* Habituation control (src/policy.rs): the hourly budget of warnings, the *)
(* cooldown of a rule the user keeps overruling, and the reservations that *)
(* make one history serve all shells of the user.                          *)
(*                                                                         *)
(* Each locked transaction is one action here; StateLock is the module     *)
(* about what the lock itself guarantees.  policy.jsonl is kept as what    *)
(* try_load_history_from folds it to: the shown interventions, each with   *)
(* its place in the log, and the reservations neither completed nor        *)
(* released.  A torn record does not parse, so it is a lost one.           *)
(*                                                                         *)
(* Time is the wall clock in units in which a prompt lasts PromptMax, less *)
(* than TTL.  A shell reads the clock before it waits for the lock; the    *)
(* watchdog bounds that wait, here to one tick.  The clock stops at        *)
(* MaxNow, ids at MaxAdmissions and the log at MaxOutcomes outcomes.       *)
(***************************************************************************)
EXTENDS Integers, FiniteSets

CONSTANTS
  Shells,         \* the shells of one user
  Rules,          \* rules a warning can be about
  Budget,         \* budget_per_hour
  Hour,           \* HOUR_MS
  TTL,            \* RESERVATION_TTL_MS
  Cooldown,       \* COOLDOWN_MS
  Retention,      \* RETENTION_MS
  Trigger,        \* COOLDOWN_TRIGGER
  PromptMax,      \* the longest a prompt waits for its answer
  Faults,         \* a subset of {"lost", "crash", "suspend", "torn"}: an append
                  \* after a prompt is dropped, a shell's process dies, a prompt
                  \* is suspended and outlives PromptMax, the append of a
                  \* reservation fails after the record but before its newline
  Severities,     \* a subset of BOOLEAN: is a warning direct-catastrophic
  MaxNow,
  MaxAdmissions,
  MaxOutcomes

ASSUME TimesAssumption ==
  /\ Hour \in Nat /\ TTL \in Nat /\ Cooldown \in Nat /\ Retention \in Nat
  /\ PromptMax \in Nat \ {0}
  /\ PromptMax < TTL /\ TTL < Hour /\ Hour <= Cooldown /\ Cooldown <= Retention
  /\ Hour + PromptMax <= Retention
ASSUME BoundsAssumption ==
  Budget \in Nat /\ Trigger \in Nat \ {0} /\ MaxNow \in Nat /\ MaxAdmissions \in Nat
  /\ MaxOutcomes \in Nat /\ Severities \subseteq BOOLEAN

VARIABLES
  now,        \* the wall clock
  shown,      \* History.shown: the outcomes in the log
  written,    \* the place of the last outcome
  reserved,   \* History.reservations: the slots still reserved in the log
  nextId,     \* the next reservation id
  sh,         \* per shell: its warning and where it is with it
  seen,       \* history variable: the ordinary warnings that became visible,
              \* each with the stamp of its admission and when it did
  runs,       \* history variable: per rule, deliberate "run unchanged" answers,
              \* counted up to Trigger
  orphans     \* history variable: reservations no shell will complete

log == <<shown, written, reserved>>
vars == <<now, log, nextId, sh, seen, runs, orphans>>
ghosts == <<seen, runs, orphans>>

NoId == 0
\* "stop" is an edit or a cancel: neither ran the line, and history does not
\* tell them apart.
Answers == {"stop", "run", "timeout"}
Ids == 1..MaxAdmissions
Idle == [pc |-> "idle", stamp |-> 0, rule |-> "none", cat |-> FALSE, id |-> NoId,
         quiet |-> FALSE]

TypeOK ==
  /\ now \in 0..MaxNow /\ nextId \in 1..(MaxAdmissions + 1)
  /\ written \in Nat
  /\ shown \subseteq [place : Nat, id : Ids \cup {NoId}, rule : Rules, ts : 0..MaxNow,
                     answer : Answers]
  /\ reserved \subseteq [id : Ids, rule : Rules, ts : 0..MaxNow]
  /\ sh \in [Shells -> [pc : {"idle", "waiting", "admitted", "asking"},
                        stamp : 0..MaxNow, rule : Rules \cup {"none"}, cat : BOOLEAN,
                        id : Ids \cup {NoId},
                        quiet : BOOLEAN]]
  /\ seen \subseteq [id : Ids, stamp : 0..MaxNow, at : 0..MaxNow]
  /\ runs \in [Rules -> 0..Trigger]
  /\ orphans \subseteq Ids
  /\ \A s \in reserved \cup seen : s.id < nextId

Init ==
  /\ now = 0 /\ shown = {} /\ written = 0 /\ reserved = {} /\ nextId = 1
  /\ sh = [p \in Shells |-> Idle]
  /\ seen = {} /\ runs = [r \in Rules |-> 0] /\ orphans = {}

-----------------------------------------------------------------------------
(* The decision over a history *)

\* saturating_sub: a record from the future has age 0.
Age(t, ts) == IF ts <= t THEN t - ts ELSE 0

\* Faulty: only outcomes count, as before reservations existed.
OutcomesOnly(t, outcomes, slots) == Cardinality({o \in outcomes : Age(t, o.ts) < Hour})

ShownWithinHour(t, outcomes, slots) ==
  Cardinality({o \in outcomes : Age(t, o.ts) < Hour})
    + Cardinality({s \in slots : Age(t, s.ts) < TTL})

\* The last Trigger outcomes of a rule, if it has that many.
Latest(r, outcomes) ==
  LET own == {o \in outcomes : o.rule = r}
  IN  {last \in SUBSET own :
         Cardinality(last) = Trigger /\ \A o \in last, e \in own \ last : e.place < o.place}
Fresh(t, last) ==
  \E o \in last : Age(t, o.ts) < Cooldown /\ \A e \in last : e.place <= o.place

\* Faulty: a timeout that ran the line counts as "run unchanged".
RanAnyWay(r, t, outcomes) ==
  \E last \in Latest(r, outcomes) :
    (\A o \in last : o.answer \in {"run", "timeout"}) /\ Fresh(t, last)

\* The last Trigger outcomes of the rule were all deliberate runs, the newest
\* of them within the cooldown.
RuleInCooldown(r, t, outcomes) ==
  \E last \in Latest(r, outcomes) : (\A o \in last : o.answer = "run") /\ Fresh(t, last)

\* Faulty: the reservation counter is read and not advanced.
NotAdvanced(i) == i

\* RESERVATION_ID.fetch_add: with pid and clock in the id, never the same twice.
Advance(i) == i + 1

\* The retention sweep of prepare_jsonl, when its marker says it is due.
Kept(ts, t) == ts >= t - Retention
Swept(records, sweep, t) == IF sweep THEN {u \in records : Kept(u.ts, t)} ELSE records

-----------------------------------------------------------------------------
(* One shell's warning *)

At(p, stage) == sh[p].pc = stage
Leave(p) == sh' = [sh EXCEPT ![p] = Idle]
\* quiet: the last warning was refused because its rule is in cooldown.
Silence(p) == sh' = [sh EXCEPT ![p] = [Idle EXCEPT !.quiet = TRUE, !.rule = sh[p].rule]]

\* A warning is due, and the clock is read for it, before the lock is taken.
Submit(p, r, c) ==
  /\ At(p, "idle") /\ Cardinality(shown) < MaxOutcomes
  /\ sh' = [sh EXCEPT ![p] = [Idle EXCEPT !.pc = "waiting", !.stamp = now,
                                          !.rule = r, !.cat = c]]
  /\ UNCHANGED <<now, log, nextId, ghosts>>

\* Direct-catastrophic: no gate, no reservation, no lock.
AdmitCatastrophic(p) ==
  /\ At(p, "waiting") /\ sh[p].cat
  /\ sh' = [sh EXCEPT ![p].pc = "admitted"]
  /\ UNCHANGED <<now, log, nextId, ghosts>>

Slot(p) == [id |-> nextId, rule |-> sh[p].rule, ts |-> sh[p].stamp]

\* Sweep if due, load, gate and reserve, under one lock.
Admit(p, sweep) ==
  LET t == sh[p].stamp
      outcomes == Swept(shown, sweep, t)
      slots == Swept(reserved, sweep, t)
  IN  /\ At(p, "waiting") /\ ~sh[p].cat
      /\ shown' = outcomes /\ UNCHANGED written
      /\ IF RuleInCooldown(sh[p].rule, t, outcomes)
         THEN Silence(p) /\ reserved' = slots /\ UNCHANGED nextId
         ELSE IF ShownWithinHour(t, outcomes, slots) >= Budget
         THEN Leave(p) /\ reserved' = slots /\ UNCHANGED nextId
         ELSE /\ nextId \in Ids
              /\ reserved' = slots \cup {Slot(p)}
              /\ sh' = [sh EXCEPT ![p].pc = "admitted", ![p].id = nextId]
              /\ nextId' = Advance(nextId)
      /\ UNCHANGED <<now, ghosts>>

\* The lock, the sweep, the history or the append fails: no prompt.  The sweep
\* may have been made; an append that got past the gate and failed at its newline
\* leaves a record that later shells read and nobody completes.
AdmitFails(p, sweep) ==
  LET t == sh[p].stamp
      outcomes == Swept(shown, sweep, t)
      slots == Swept(reserved, sweep, t)
  IN  /\ At(p, "waiting") /\ ~sh[p].cat
      /\ Leave(p)
      /\ shown' = outcomes
      /\ \/ reserved' = slots /\ UNCHANGED <<nextId, orphans>>
         \/ /\ "torn" \in Faults /\ nextId \in Ids
            /\ ~RuleInCooldown(sh[p].rule, t, outcomes)
            /\ ShownWithinHour(t, outcomes, slots) < Budget
            /\ reserved' = slots \cup {Slot(p)}
            /\ nextId' = Advance(nextId) /\ orphans' = orphans \cup {nextId}
      /\ UNCHANGED <<now, written, seen, runs>>

\* The question is on the terminal.
Show(p) ==
  /\ At(p, "admitted")
  /\ sh' = [sh EXCEPT ![p].pc = "asking"]
  /\ seen' = IF sh[p].cat THEN seen
             ELSE seen \cup {[id |-> sh[p].id, stamp |-> sh[p].stamp, at |-> now]}
  /\ UNCHANGED <<now, log, nextId, runs, orphans>>

Without(slots, i) == {s \in slots : s.id # i}

\* Faulty: a prompt that could not be shown keeps its slot.
NotShownKeepsSlot(p) ==
  /\ At(p, "admitted")
  /\ Leave(p)
  /\ UNCHANGED <<now, log, nextId, ghosts>>

\* Whether an append after the prompt is made; one that is not leaves the
\* reservation to expire.
Appended == {TRUE} \cup (IF "lost" \in Faults THEN {FALSE} ELSE {})
Orphaned(p) == orphans' = orphans \cup ({sh[p].id} \ {NoId})

\* release_admission: terminal setup failed before the warning was visible.
NotShown(p) ==
  /\ At(p, "admitted")
  /\ Leave(p)
  /\ \E ok \in Appended :
       IF ok THEN reserved' = Without(reserved, sh[p].id) /\ UNCHANGED orphans
             ELSE Orphaned(p) /\ UNCHANGED reserved
  /\ UNCHANGED <<now, shown, written, nextId, seen, runs>>

\* record_admitted_outcome: the outcome takes the place of the reservation.
Answer(p, a) ==
  /\ At(p, "asking")
  /\ Leave(p)
  /\ runs' = IF a = "run" /\ runs[sh[p].rule] < Trigger
             THEN [runs EXCEPT ![sh[p].rule] = @ + 1] ELSE runs
  /\ \E ok \in Appended :
       IF ok THEN /\ written' = written + 1
                  /\ shown' = shown \cup {[place |-> written', id |-> sh[p].id,
                                           rule |-> sh[p].rule, ts |-> now, answer |-> a]}
                  /\ reserved' = Without(reserved, sh[p].id)
                  /\ UNCHANGED orphans
             ELSE Orphaned(p) /\ UNCHANGED log
  /\ UNCHANGED <<now, nextId, seen>>

\* The process dies: killed by its watchdog, by a closed terminal.
Crash(p) ==
  /\ "crash" \in Faults /\ ~At(p, "idle")
  /\ Leave(p) /\ Orphaned(p)
  /\ UNCHANGED <<now, log, nextId, seen, runs>>

\* Waits for the lock are short, and a prompt ends in time unless suspended.
Tick ==
  /\ now < MaxNow
  /\ \A p \in Shells :
       /\ At(p, "waiting") => sh[p].stamp = now
       /\ At(p, "admitted") \/ At(p, "asking")
            => now < sh[p].stamp + PromptMax \/ "suspend" \in Faults
  /\ now' = now + 1
  /\ UNCHANGED <<log, nextId, sh, ghosts>>

Next ==
  \/ \E p \in Shells :
       \/ \E r \in Rules, c \in Severities : Submit(p, r, c)
       \/ AdmitCatastrophic(p)
       \/ \E sweep \in BOOLEAN : Admit(p, sweep) \/ AdmitFails(p, sweep)
       \/ Show(p) \/ NotShown(p)
       \/ \E a \in Answers : Answer(p, a)
       \/ Crash(p)
  \/ Tick

Spec == Init /\ [][Next]_vars

-----------------------------------------------------------------------------
(* Properties *)

\* No more ordinary warnings become visible in an hour than the budget allows,
\* however many shells ask at once (SPEC section 7, policy.rs:259-264).
BudgetHeld == Cardinality({s \in seen : now - s.at < Hour}) <= Budget

\* Whatever is lost, killed, torn or suspended, no more than the budget become
\* visible within TTL less PromptMax, if each did so within PromptMax of its
\* admission: a burst of shells never breaks it.  A process suspended between the
\* two is not counted: when it goes on, its reservation may have expired and its
\* slot be another's, and it prompts without asking again (main.rs:447-474).
BurstHeld ==
  Cardinality({s \in seen : s.at <= s.stamp + PromptMax /\ now - s.at < TTL - PromptMax})
    <= Budget

\* A reserved slot belongs to a shell that is about to ask or asking, unless
\* its release or outcome was lost or its own append failed halfway: a warning
\* nobody saw spends nothing, and an answered one not twice (policy.rs:544-556).
NoSlotLeaks ==
  \A s \in reserved :
    s.id \in orphans \cup {sh[p].id : p \in {q \in Shells : At(q, "admitted") \/ At(q, "asking")}}

\* A rule goes quiet only after the user has overruled it Trigger times by a
\* deliberate key; timeouts never silence it (policy.rs:299-310, 223-228).
CooldownEarned ==
  \A p \in Shells : sh[p].quiet => runs[sh[p].rule] >= Trigger
=============================================================================
