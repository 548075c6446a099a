-------------------------------- MODULE Guard --------------------------------
(***************************************************************************)
(* One `oopsinput check` per submitted line (src/main.rs), the thread that *)
(* guards it with a deadline, its prompt on the terminal (src/ui.rs) and   *)
(* the zsh widget that acts on the exit code (zsh/oopsinput.zsh).          *)
(*                                                                         *)
(* The main thread analyses the proposal, may consult the model, and may   *)
(* ask one question: the L2+ warning or the L1 typo correction.  The       *)
(* watchdog ends the process with the fail-open code when analysis runs    *)
(* past the deadline, and retires once PROMPT_ACTIVE is set.  The two      *)
(* threads share PROMPT_ACTIVE and MODEL_EXTENSION_MS and nothing else.    *)
(*                                                                         *)
(* Time is a clock of Det, ModelT and Margin units.  It stops at Horizon,  *)
(* past the watchdog's last wake-up.  The watchdog is timely: the clock    *)
(* does not pass while a wake-up is due or its exit is pending.  Nothing   *)
(* else is timely: the main thread may stall between any two steps.        *)
(*                                                                         *)
(* Abstracted: what the layers compute (any verdict, any suggestion, any   *)
(* model answer), which bytes make a key (Keys has them), and the policy   *)
(* history behind an admission.                                            *)
(***************************************************************************)
EXTENDS Naturals

CONSTANTS
  Det,      \* det_timeout_ms, the deadline of deterministic analysis
  ModelT,   \* model_timeout_ms, the deadline of one consultation
  Margin,   \* what the watchdog adds to ModelT
  MaxKeys,  \* MAX_PROMPT_KEYS
  Faults    \* a subset of {"kill", "restore"}: the process is killed from
            \* outside, stty fails to restore the terminal

ASSUME TimesAssumption ==
  Det \in Nat \ {0} /\ ModelT \in Nat \ {0} /\ Margin \in Nat \ {0}
ASSUME KeysAssumption == MaxKeys \in Nat \ {0}

VARIABLES
  mode,         \* Config.mode, read once per check
  verdict,      \* the assessment; after Decide, capped by the mode
  typo,         \* the typo layer found a candidate
  capped,       \* the buffer was longer than MAX_INPUT_BYTES and was cut
  pc,           \* the main thread's next step
  wd,           \* where the watchdog thread is
  wdDue,        \* when its sleep ends
  now,          \* the clock since the watchdog was armed
  active,       \* PROMPT_ACTIVE
  extension,    \* MODEL_EXTENSION_MS
  consultDue,   \* the consultation's own deadline
  tty,          \* terminal modes: the shell's ("saved") or the prompt's
  shown,        \* the question stands complete on the terminal
  keys,         \* how many keys decided nothing
  choice,       \* what the prompt function returned
  answer,       \* the key the user pressed to decide, "expired" for none
  slot,         \* the reservation of a budget slot in policy.jsonl
  channel,      \* what fd 3 holds
  code,         \* the exit code of the action chosen so far
  reason,       \* its reason or outcome, as the event will tell it
  event,        \* the event in the log
  rc,           \* how the process ended
  line          \* what the shell did with the line

analysis == <<mode, verdict, typo, capped>>
watchdog == <<wd, wdDue>>
prompt   == <<tty, shown, keys, choice, answer>>
result   == <<code, reason, event>>
vars == <<analysis, pc, watchdog, now, active, extension, consultDue, prompt,
          slot, channel, result, rc, line>>

Modes == {"shadow", "suggest", "warn", "confirm"}

\* Exit codes (src/main.rs:9-15); Killed is the shell's view of SIGKILL.
Allow == 0
InternalError == 1
Replace == 10
Edit == 11
Cancel == 12
Killed == 137
Running == 255      \* not an exit code of the program: no exit yet

Warnings == {"warn", "confirm"}
Horizon == Det + ModelT + Margin + 1

\* Writes to the terminal: nothing bounds them while its output is stopped.
TerminalWrites == {"draw", "redraw", "ending"}
Pcs == TerminalWrites \cup
         {"analyze", "announced", "consult", "decide", "admit", "build", "present",
          "open", "ask", "restore", "act", "sentinel", "log", "done"}
Choices == {"none", "notShown", "edit", "cancel", "run", "correct",
            "original", "timeout"}

TypeOK ==
  /\ mode \in Modes /\ verdict \in Warnings \cup {"observe"}
  /\ typo \in BOOLEAN /\ capped \in BOOLEAN
  /\ pc \in Pcs
  /\ wd \in {"sleep", "expired", "granted", "exiting", "retired"}
  /\ wdDue \in Nat /\ now \in Nat /\ consultDue \in Nat
  /\ active \in BOOLEAN /\ extension \in {0, ModelT + Margin}
  /\ tty \in {"saved", "prompt"} /\ shown \in BOOLEAN
  /\ keys \in 0..MaxKeys /\ choice \in Choices
  /\ answer \in {"none", "edit", "cancel", "run", "correct", "keep", "expired"}
  /\ slot \in {"none", "held", "released", "settled"}
  /\ channel \in {"empty", "partial", "complete"}
  /\ code \in {Allow, Replace, Edit, Cancel}
  /\ reason \in {"observed", "accepted", "deliveryFailed", "declined",
                 "cancelled", "timedOut", "edited", "ranUnchanged"}
  /\ event \in {"none", reason}
  /\ rc \in {Running, Killed, InternalError, Allow, Replace, Edit, Cancel}
  /\ line \in {"pending", "original", "replacement", "returned", "discarded"}
  /\ (rc = Running) <=> (pc # "done")
  /\ (line # "pending") => (pc = "done")

\* A line is submitted: a new process, a new watchdog, fresh statics.
Fresh(m) ==
  /\ mode' = m /\ verdict' = "observe" /\ typo' = FALSE /\ capped' = FALSE
  /\ pc' = "analyze" /\ wd' = "sleep" /\ wdDue' = Det /\ now' = 0
  /\ active' = FALSE /\ extension' = 0 /\ consultDue' = 0
  /\ tty' = "saved" /\ shown' = FALSE /\ keys' = 0
  /\ choice' = "none" /\ answer' = "none" /\ slot' = "none" /\ channel' = "empty"
  /\ code' = Allow /\ reason' = "observed" /\ event' = "none"
  /\ rc' = Running /\ line' = "pending"

Init ==
  /\ mode \in Modes /\ verdict = "observe" /\ typo = FALSE /\ capped = FALSE
  /\ pc = "analyze" /\ wd = "sleep" /\ wdDue = Det /\ now = 0
  /\ active = FALSE /\ extension = 0 /\ consultDue = 0
  /\ tty = "saved" /\ shown = FALSE /\ keys = 0
  /\ choice = "none" /\ answer = "none" /\ slot = "none" /\ channel = "empty"
  /\ code = Allow /\ reason = "observed" /\ event = "none"
  /\ rc = Running /\ line = "pending"

-----------------------------------------------------------------------------
(* The main thread: analysis *)

Exit(c) == pc' = "done" /\ rc' = c

\* A proposal that cannot be read or parsed: the fail-open code.
RejectProposal ==
  /\ pc = "analyze"
  /\ Exit(InternalError)
  /\ UNCHANGED <<analysis, watchdog, now, active, extension, consultDue, prompt,
                 slot, channel, result, line>>

\* consult_model_if_gated: the extension is stored before the first socket call.
Announce == pc' = "announced" /\ extension' = ModelT + Margin

\* Lexer, typo, danger and context layers and the decision matrix.
\* `gated`: a model is configured and L4's gate is open, which it only is for
\* an observed candidate.
Analyze(v, t, cut, gated) ==
  /\ pc = "analyze"
  /\ gated => v = "observe"
  /\ verdict' = v /\ typo' = t /\ capped' = cut
  /\ IF gated
     THEN Announce
     ELSE pc' = "decide" /\ UNCHANGED extension
  /\ UNCHANGED <<mode, watchdog, now, active, consultDue, prompt, slot, channel, result,
                 rc, line>>

\* consult_with_state_at: the consultation reads the clock for its own deadline.
BeginConsult ==
  /\ pc = "announced"
  /\ consultDue' = now + ModelT /\ pc' = "consult"
  /\ UNCHANGED <<analysis, watchdog, now, active, extension, prompt, slot, channel,
                 result, rc, line>>

\* The model is evidence: it can raise an observed candidate to a warning, and
\* nothing else.  Past its deadline the consultation is Unavailable.
ModelVerdicts == {"observe"} \cup (IF now <= consultDue THEN {"warn"} ELSE {})

Consulted(v) ==
  /\ pc = "consult"
  /\ v \in ModelVerdicts
  /\ verdict' = v /\ pc' = "decide"
  /\ UNCHANGED <<mode, typo, capped, watchdog, now, active, extension, consultDue,
                 prompt, slot, channel, result, rc, line>>

\* Faulty: mode warn lets a confirmation through as such.
CapSilentModesOnly(v, m) == IF m \in {"shadow", "suggest"} THEN "observe" ELSE v

\* The mode is a ceiling, never a floor.
CapForMode(v, m) ==
  IF m \in {"shadow", "suggest"} THEN "observe"
  ELSE IF m = "warn" /\ v = "confirm" THEN "warn" ELSE v

\* The strongest intervention wins: a warning outranks the typo question.
Decide ==
  /\ pc = "decide"
  /\ verdict' = CapForMode(verdict, mode)
  /\ pc' = IF verdict' \in Warnings THEN "admit"
           ELSE IF typo /\ mode # "shadow" THEN "build" ELSE "log"
  /\ UNCHANGED <<mode, typo, capped, watchdog, now, active, extension, consultDue,
                 prompt, slot, channel, result, rc, line>>

\* Budget, cooldown or a state failure refuses the prompt; a reservation is
\* appended for it; or it is direct-catastrophic and needs none.
Admit(s) ==
  /\ pc = "admit"
  /\ s \in {"refused", "held", "none"}
  /\ IF s = "refused"
     THEN verdict' = "observe" /\ pc' = "log" /\ UNCHANGED slot
     ELSE slot' = s /\ pc' = "present" /\ UNCHANGED verdict
  /\ UNCHANGED <<mode, typo, capped, watchdog, now, active, extension, consultDue,
                 prompt, channel, result, rc, line>>

\* The replacement is built before asking; if it cannot be, nothing is offered.
Build(ok) ==
  /\ pc = "build"
  /\ pc' = IF ok THEN "present" ELSE "log"
  /\ UNCHANGED <<analysis, watchdog, now, active, extension, consultDue, prompt,
                 slot, channel, result, rc, line>>

Present ==
  /\ pc = "present"
  /\ active' = TRUE /\ pc' = "open"
  /\ UNCHANGED <<analysis, watchdog, now, extension, consultDue, prompt, slot,
                 channel, result, rc, line>>

-----------------------------------------------------------------------------
(* The main thread: the prompt and what follows it *)

Warning == verdict \in Warnings

\* What a prompt that failed before the question was complete returns.
Unasked == IF Warning THEN "notShown" ELSE "original"

\* The modes SttyRestore leaves behind on drop.
RestoredTty == {"saved"} \cup (IF "restore" \in Faults THEN {tty} ELSE {})

\* open_prompt_tty: /dev/tty, the saved modes, the guard, single-key modes.
Open ==
  /\ pc = "open"
  /\ \/ tty' = "prompt" /\ pc' = "draw" /\ UNCHANGED choice
     \/ choice' = Unasked /\ pc' = "act" /\ UNCHANGED tty
  /\ UNCHANGED <<analysis, watchdog, now, active, extension, consultDue, shown,
                 keys, answer, slot, channel, result, rc, line>>

Draw ==
  /\ pc = "draw"
  /\ \/ shown' = TRUE /\ pc' = "ask" /\ UNCHANGED choice
     \/ choice' = Unasked /\ pc' = "restore" /\ UNCHANGED shown
  /\ UNCHANGED <<analysis, watchdog, now, active, extension, consultDue, tty,
                 keys, answer, slot, channel, result, rc, line>>

\* e, c (Ctrl-C, Esc), r; no key in time, a read error or a malformed escape
\* sequence are the timeout.  A confirmation that times out cancels: the user
\* has let it expire.
Unheard == IF verdict = "confirm" THEN "expired" ELSE "none"
WarnReplies ==
  {<<"edit", "edit">>, <<"cancel", "cancel">>, <<"run", "run">>, <<"timeout", Unheard>>}

\* y or Enter on the correction; n, Enter on the original or any other key;
\* Ctrl-C; no key in time.
TypoReplies ==
  {<<"correct", "correct">>, <<"original", "keep">>, <<"cancel", "cancel">>,
   <<"timeout", "none">>}

Ask ==
  /\ pc = "ask" /\ keys < MaxKeys
  /\ \E reply \in IF Warning THEN WarnReplies ELSE TypoReplies :
       choice' = reply[1] /\ answer' = reply[2]
  /\ pc' = "ending"
  /\ UNCHANGED <<analysis, watchdog, now, active, extension, consultDue, tty, shown,
                 keys, slot, channel, result, rc, line>>

\* A key that decides nothing: an escape sequence, a key the warning does not
\* know, or the Tab that moves the focus of the typo question.
Undecided ==
  /\ pc = "ask" /\ keys < MaxKeys
  /\ keys' = keys + 1
  /\ pc' \in {"ask"} \cup (IF Warning THEN {} ELSE {"redraw"})
  /\ UNCHANGED <<analysis, watchdog, now, active, extension, consultDue, tty, shown,
                 choice, answer, slot, channel, result, rc, line>>

\* A redraw that fails is an Original nobody chose.
Redraw ==
  /\ pc = "redraw"
  /\ \/ pc' = "ask" /\ UNCHANGED <<shown, choice>>
     \/ shown' = FALSE /\ choice' = "original" /\ pc' = "ending"
  /\ UNCHANGED <<analysis, watchdog, now, active, extension, consultDue, tty, keys,
                 answer, slot, channel, result, rc, line>>

\* So is one by MAX_PROMPT_KEYS keys that decide nothing; a warning times out.
KeysSpent ==
  /\ pc = "ask" /\ keys = MaxKeys
  /\ IF Warning THEN choice' = "timeout" /\ answer' = Unheard
                ELSE choice' = "original" /\ UNCHANGED answer
  /\ pc' = "ending"
  /\ UNCHANGED <<analysis, watchdog, now, active, extension, consultDue, tty, shown,
                 keys, slot, channel, result, rc, line>>

\* The last line of the prompt, whether or not it can be written.
Ending ==
  /\ pc = "ending"
  /\ pc' = "restore"
  /\ UNCHANGED <<analysis, watchdog, now, active, extension, consultDue, prompt, slot,
                 channel, result, rc, line>>

Restore ==
  /\ pc = "restore"
  /\ tty' \in RestoredTty
  /\ pc' = "act"
  /\ UNCHANGED <<analysis, watchdog, now, active, extension, consultDue, shown,
                 keys, choice, answer, slot, channel, result, rc, line>>

\* warning_choice_action
WarnCode(c) == IF c = "edit" THEN Edit
               ELSE IF c = "cancel" \/ (c = "timeout" /\ verdict = "confirm")
               THEN Cancel ELSE Allow
\* Faulty: a timeout that runs the line is told as a deliberate run.
OutcomeByEffect(c) ==
  IF c = "edit" THEN "edited"
  ELSE IF c = "cancel" \/ (c = "timeout" /\ verdict = "confirm") THEN "cancelled"
  ELSE IF c \in {"run", "timeout"} THEN "ranUnchanged" ELSE "observed"
WarnOutcome(c) == IF c = "edit" THEN "edited"
                  ELSE IF c = "cancel" THEN "cancelled"
                  ELSE IF c = "run" THEN "ranUnchanged"
                  ELSE IF c = "timeout" THEN "timedOut" ELSE "observed"

\* Releasing the slot of a warning nobody saw, or replacing it by the outcome
\* of one that was shown, is a bounded append that may be dropped.
ActOnWarning ==
  /\ pc = "act" /\ Warning
  /\ \/ slot' = IF choice # "notShown" THEN "settled"
                ELSE IF slot = "held" THEN "released" ELSE slot
     \/ UNCHANGED slot
  /\ code' = WarnCode(choice) /\ reason' = WarnOutcome(choice)
  /\ pc' = "log"
  /\ UNCHANGED <<analysis, watchdog, now, active, extension, consultDue, prompt,
                 channel, event, rc, line>>

TypoCode(c) == IF c = "cancel" THEN Cancel ELSE Allow
TypoReason(c) == IF c = "cancel" THEN "cancelled"
                 ELSE IF c = "timeout" THEN "timedOut" ELSE "declined"

ActOnTypo ==
  /\ pc = "act" /\ ~Warning /\ choice # "correct"
  /\ code' = TypoCode(choice) /\ reason' = TypoReason(choice)
  /\ pc' = "log"
  /\ UNCHANGED <<analysis, watchdog, now, active, extension, consultDue, prompt,
                 slot, channel, event, rc, line>>

\* Delivery failed: run the original.
Undelivered == code' = Allow /\ reason' = "deliveryFailed" /\ pc' = "log"

\* write_replacement_fd3: the bytes, then the NUL; either write may fail, the
\* first one after a part of the bytes.
WriteBytes ==
  /\ pc = "act" /\ ~Warning /\ choice = "correct"
  /\ \/ channel' = "partial" /\ pc' = "sentinel" /\ UNCHANGED <<code, reason>>
     \/ channel' \in {"empty", "partial"} /\ Undelivered
  /\ UNCHANGED <<analysis, watchdog, now, active, extension, consultDue, prompt,
                 slot, event, rc, line>>

\* Faulty: the result of the last write is ignored.
SentinelUnchecked ==
  /\ pc = "sentinel"
  /\ channel' \in {channel, "complete"}
  /\ code' = Replace /\ reason' = "accepted" /\ pc' = "log"
  /\ UNCHANGED <<analysis, watchdog, now, active, extension, consultDue, prompt,
                 slot, event, rc, line>>

WriteSentinel ==
  /\ pc = "sentinel"
  /\ \/ channel' = "complete" /\ code' = Replace /\ reason' = "accepted" /\ pc' = "log"
     \/ UNCHANGED channel /\ Undelivered
  /\ UNCHANGED <<analysis, watchdog, now, active, extension, consultDue, prompt,
                 slot, event, rc, line>>

\* Faulty: a failure to report the decision fails open.
LogOrFailOpen ==
  /\ pc = "log"
  /\ event' \in {reason, "none"}
  /\ Exit(IF event' = "none" THEN Allow ELSE code)
  /\ UNCHANGED <<analysis, watchdog, now, active, extension, consultDue, prompt,
                 slot, channel, code, reason, line>>

\* events::append may drop the event; the exit code is the contract.
Log ==
  /\ pc = "log"
  /\ event' \in {reason, "none"}
  /\ Exit(code)
  /\ UNCHANGED <<analysis, watchdog, now, active, extension, consultDue, prompt,
                 slot, channel, code, reason, line>>

-----------------------------------------------------------------------------
(* The watchdog thread, the clock, the outside *)

mainState == <<analysis, active, extension, consultDue, prompt, slot, channel, result>>

\* Faulty: the extension is granted again and again.
WakeAsIfFirst ==
  /\ rc = Running /\ wd \in {"sleep", "granted"} /\ now >= wdDue
  /\ wd' = IF active THEN "retired" ELSE "expired"
  /\ UNCHANGED <<mainState, pc, wdDue, now, rc, line>>

\* Its sleep is over: it loads PROMPT_ACTIVE, and retires if it is set.
WatchdogWake ==
  /\ rc = Running /\ wd \in {"sleep", "granted"} /\ now >= wdDue
  /\ wd' = IF active THEN "retired"
           ELSE IF wd = "sleep" THEN "expired" ELSE "exiting"
  /\ UNCHANGED <<mainState, pc, wdDue, now, rc, line>>

\* Faulty: the extension is the consultation's own deadline, without margin.
ExtendWithoutMargin ==
  /\ rc = Running /\ wd = "expired"
  /\ IF extension > 0
     THEN wd' = "granted" /\ wdDue' = now + (extension - Margin)
     ELSE wd' = "exiting" /\ UNCHANGED wdDue
  /\ UNCHANGED <<mainState, pc, now, rc, line>>

\* Faulty: the watchdog leaves the consultation to its own deadline.
RetireForConsult ==
  /\ rc = Running /\ wd = "expired"
  /\ wd' = IF extension > 0 THEN "retired" ELSE "exiting"
  /\ UNCHANGED <<mainState, pc, wdDue, now, rc, line>>

\* First expiry: a consultation announced in time buys one extension.
WatchdogExtend ==
  /\ rc = Running /\ wd = "expired"
  /\ IF extension > 0
     THEN wd' = "granted" /\ wdDue' = now + extension
     ELSE wd' = "exiting" /\ UNCHANGED wdDue
  /\ UNCHANGED <<mainState, pc, now, rc, line>>

WatchdogExit ==
  /\ rc = Running /\ wd = "exiting"
  /\ Exit(InternalError)
  /\ UNCHANGED <<mainState, watchdog, now, line>>

Tick ==
  /\ rc = Running /\ now < Horizon
  /\ wd \in {"sleep", "granted"} => now < wdDue
  /\ wd \notin {"expired", "exiting"}
  /\ now' = now + 1
  /\ UNCHANGED <<mainState, pc, watchdog, rc, line>>

\* Killed from outside; the modes it set on the terminal stay.
Kill ==
  /\ "kill" \in Faults /\ rc = Running
  /\ Exit(Killed)
  /\ UNCHANGED <<mainState, watchdog, now, line>>

-----------------------------------------------------------------------------
(* The widget *)

\* The replacement runs only with its sentinel; any code the widget does not
\* know runs the original.
LineFor(c, ch) ==
  IF c = Replace /\ ch = "complete" THEN "replacement"
  ELSE IF c = Edit THEN "returned"
  ELSE IF c = Cancel THEN "discarded" ELSE "original"

\* Faulty: the widget does not wait for the process.
AcceptUnfinished ==
  /\ line = "pending"
  /\ line' = LineFor(rc, channel)
  /\ UNCHANGED <<mainState, pc, watchdog, now, rc>>

Accept ==
  /\ rc # Running /\ line = "pending"
  /\ line' = LineFor(rc, channel)
  /\ UNCHANGED <<mainState, pc, watchdog, now, rc>>

NextLine == line # "pending" /\ \E m \in Modes : Fresh(m)

-----------------------------------------------------------------------------

AnalysisStep ==
  \/ RejectProposal
  \/ \E v \in Warnings \cup {"observe"} : \E t, cut, gated \in BOOLEAN :
       Analyze(v, t, cut, gated)
  \/ BeginConsult
  \/ \E v \in {"observe", "warn"} : Consulted(v)
  \/ Decide
  \/ \E s \in {"refused", "held", "none"} : Admit(s)
  \/ \E ok \in BOOLEAN : Build(ok)
  \/ Present

PromptStep ==
  \/ Open \/ Draw \/ Ask \/ Undecided \/ Redraw \/ KeysSpent \/ Ending \/ Restore
  \/ ActOnWarning \/ ActOnTypo \/ WriteBytes \/ WriteSentinel

MainStep == AnalysisStep \/ PromptStep \/ Log
WatchdogStep == WatchdogWake \/ WatchdogExtend \/ WatchdogExit

Next == MainStep \/ WatchdogStep \/ Tick \/ Kill \/ Accept \/ NextLine

Spec == Init /\ [][Next]_vars

\* Analysis may wedge anywhere, and a write to a terminal whose output is stopped
\* waits for as long as it is.  Every other step of an active prompt is bounded by
\* construction: stty children are killed after 2 s, reads time out in the
\* terminal, appends give up after 25 ms (a disk that never answers is outside).
Fairness ==
  /\ WF_vars(WatchdogStep) /\ WF_vars(Tick) /\ WF_vars(Accept)
  /\ WF_vars(active /\ pc \notin TerminalWrites /\ MainStep)

FairSpec == Spec /\ Fairness

-----------------------------------------------------------------------------
(* Properties *)

\* The whole pipeline keeps the promise of Consent: whatever the verdicts, the
\* model, the watchdog, failed writes and kills do, the line is altered only
\* by an answer the mode allows (main.rs check, cap_for_mode, the zsh case).
ConsentSpec == INSTANCE Consent
ImplementsConsent == ConsentSpec!Spec

\* Exit 10 is returned only after the whole replacement, sentinel included,
\* was written, and after consent (main.rs:399-402).
TenMeansDelivered == rc = Replace => channel = "complete" /\ answer = "correct"

\* A process that was not cut down does what the user answered: a late failure
\* such as a dropped outcome or event never turns a cancel or an edit into a
\* run (main.rs:439-503, 280-287), unless delivery of a correction failed.
Promised(a) == IF a = "edit" THEN "returned"
               ELSE IF a \in {"cancel", "expired"} THEN "discarded"
               ELSE IF a = "correct" /\ reason # "deliveryFailed" THEN "replacement"
               ELSE "original"
AnswerHonoured ==
  line # "pending" /\ rc \notin {InternalError, Killed} => line = Promised(answer)

\* What is recorded is what happened.  A budget slot is settled only by a warning
\* that was on the screen, and given back only by one that was not (ui.rs:52-55,
\* main.rs:472-494); and an event credits the user with an answer only if that
\* answer was given: a timeout is never told as a cancel, an edit, a deliberate run
\* or a refused correction (main.rs:505-507).  The exception is `typo.declined`,
\* which main.rs:423 logs for every Original: without an answer it is told of a
\* question that never stood complete on the terminal, or that MAX_PROMPT_KEYS
\* keys left undecided, and of no other (ui.rs:27-29 excludes these as well).
Credits == [edited |-> {"edit"}, cancelled |-> {"cancel"}, ranUnchanged |-> {"run"},
            accepted |-> {"correct"}, deliveryFailed |-> {"correct"},
            timedOut |-> {"none", "expired"}, declined |-> {"keep", "none"}]
NobodyCouldAnswer == ~shown \/ keys = MaxKeys
RecordsAreTruthful ==
  /\ slot = "settled" => shown
  /\ slot = "released" => ~shown
  /\ event \in DOMAIN Credits => answer \in Credits[event]
  /\ event = "declined" /\ answer = "none" => NobodyCouldAnswer

\* The shell waits for analysis no longer than the deadline, plus the model's
\* extension if the gate opened in time (main.rs:107-115).
ReturnByDeadline ==
  rc = Running /\ ~active =>
    now <= Det + (IF extension > 0 THEN ModelT + Margin ELSE 0)

\* The watchdog cuts a consultation off only past the consultation's own deadline
\* (main.rs:130-133), if the consultation read its clock before the first deadline,
\* or, with an extension granted, less than Margin after it.  The main thread may
\* stall between the store of the extension and that reading; past Margin the
\* promise is void, and so it is when the store comes too late to be read
\* (main.rs:112-115).
Began == consultDue - ModelT
Extended == wdDue > Det
BegunInTime == Began < Det \/ (Extended /\ Began < Det + Margin)
ConsultOutlivedByGrant ==
  wd = "exiting" /\ pc = "consult" /\ BegunInTime => consultDue < now

\* However long analysis wedges, the shell gets its line back; only a terminal that
\* takes no output for ever can keep it, once the watchdog has retired.
HeldByTerminal == wd = "retired" /\ pc \in TerminalWrites
ShellRegainsControl == []<>(line # "pending") \/ <>[]HeldByTerminal

\* ui.rs:18-20, the contract of a prompt's caller: the watchdog has been
\* neutralized, so it cannot end the process before the modes are restored.
TerminalRestored == line # "pending" => tty = "saved"

\* typo.rs:154-155: the corrected line is the line that was typed, with the
\* command word replaced and every other byte preserved.
ReplacementExact == line = "replacement" => ~capped
=============================================================================
