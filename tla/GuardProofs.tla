----------------------------- MODULE GuardProofs -----------------------------
(***************************************************************************)
(* Proofs about the guard for all deadlines and faults.                    *)
(*                                                                         *)
(* That a line is altered only by the answer that asks for it needs the    *)
(* whole path from key to exit code: GuardInv says at each stage what the  *)
(* prompt's return value, the exit code chosen and the exit code delivered *)
(* know of the answer, and which question the mode allowed.  TimeInv is    *)
(* the watchdog's half: where it is tells how late it can be.              *)
(***************************************************************************)
EXTENDS Guard, TLAPS

BeforeAnswer == {"analyze", "announced", "consult", "decide", "admit", "build", "present",
                 "open", "draw", "ask", "redraw"}
AfterPresent == {"present", "open", "draw", "ask", "redraw", "ending", "restore", "act",
                 "sentinel"}

Unanswered ==
  pc \in BeforeAnswer => choice = "none" /\ answer = "none" /\ code = Allow

\* Only questions the mode allows reach the terminal.
QuestionAllowed ==
  pc \in AfterPresent =>
    IF Warning THEN mode \in Warnings /\ (verdict = "confirm" => mode = "confirm")
               ELSE mode # "shadow"
AdmitAllowed ==
  /\ pc = "admit" => Warning /\ mode \in Warnings /\ (verdict = "confirm" => mode = "confirm")
  /\ pc = "build" => ~Warning /\ mode # "shadow"

\* What the prompt returned is what the user answered.
ChoiceIsAnswer ==
  pc \in {"ending", "restore", "act", "sentinel"} =>
    <<choice, answer>> \in {<<Unasked, "none">>}
                           \cup (IF Warning THEN WarnReplies ELSE TypoReplies)
\* Only the typo question redraws its choices, and a replacement is completed
\* only for a correction.
TypoStages ==
  /\ pc = "redraw" => ~Warning
  /\ pc = "sentinel" => ~Warning /\ choice = "correct"

\* The exit code chosen is the one the answer asks for.
CodeIsAnswer ==
  /\ code = Edit => answer = "edit"
  /\ code = Cancel => answer \in {"cancel", "expired"}
  /\ code = Replace => answer = "correct" /\ channel = "complete"
  /\ pc \notin {"log", "done"} => code = Allow
  /\ pc # "done" => event = "none"

\* The process ends with that code, or is cut down.
ExitIsCode == rc \in {Running, Killed, InternalError, code}

GuardInv ==
  /\ TypeOK
  /\ Unanswered
  /\ QuestionAllowed
  /\ AdmitAllowed
  /\ ChoiceIsAnswer
  /\ TypoStages
  /\ CodeIsAnswer
  /\ ExitIsCode

USE DEF Allow, InternalError, Replace, Edit, Cancel, Killed, Running, Warnings,
        Pcs, TerminalWrites, Choices, Modes

LEMMA TypeInit == Init => TypeOK
<1> SUFFICES ASSUME Init PROVE TypeOK
  OBVIOUS
<1>1. Det \in Nat /\ 0 \in 0..MaxKeys
  BY TimesAssumption, KeysAssumption
<1> QED BY <1>1 DEF Init, TypeOK

LEMMA GuardInit == Init => GuardInv
<1> SUFFICES ASSUME Init PROVE GuardInv
  OBVIOUS
<1>1. TypeOK
  BY TypeInit
<1> QED BY <1>1 DEF Init, GuardInv, Unanswered, QuestionAllowed, AdmitAllowed,
     ChoiceIsAnswer, TypoStages, CodeIsAnswer, ExitIsCode, BeforeAnswer, AfterPresent

LEMMA TypeStep == GuardInv /\ [Next]_vars => TypeOK'
<1> SUFFICES ASSUME GuardInv, [Next]_vars PROVE TypeOK'
  OBVIOUS
<1> USE TimesAssumption, KeysAssumption DEF TypeOK, mainState, analysis, watchdog, prompt, result, Exit
<1>0. TypeOK /\ (pc # "done" => event = "none")
  BY DEF GuardInv, CodeIsAnswer
<1>1. CASE RejectProposal
  BY <1>0, <1>1 DEF RejectProposal
<1>2. ASSUME NEW v \in Warnings \cup {"observe"}, NEW t \in BOOLEAN,
             NEW cut \in BOOLEAN, NEW gated \in BOOLEAN, Analyze(v, t, cut, gated)
      PROVE  TypeOK'
  BY <1>0, <1>2 DEF Analyze, Announce
<1>25. CASE BeginConsult
  BY <1>0, <1>25 DEF BeginConsult
<1>3. ASSUME NEW v \in {"observe", "warn"}, Consulted(v)
      PROVE  TypeOK'
  BY <1>0, <1>3 DEF Consulted, ModelVerdicts
<1>4. CASE Decide
  BY <1>0, <1>4 DEF Decide, CapForMode
<1>5. ASSUME NEW s \in {"refused", "held", "none"}, Admit(s)
      PROVE  TypeOK'
  BY <1>0, <1>5 DEF Admit
<1>6. ASSUME NEW ok \in BOOLEAN, Build(ok)
      PROVE  TypeOK'
  BY <1>0, <1>6 DEF Build
<1>7. CASE Present
  BY <1>0, <1>7 DEF Present
<1>8. CASE Open
  BY <1>0, <1>8 DEF Open, Unasked
<1>9. CASE Draw
  <2>1. CASE shown' = TRUE /\ pc' = "ask" /\ UNCHANGED choice
    BY <1>0, <1>9, <2>1 DEF Draw
  <2>2. CASE choice' = Unasked /\ pc' = "restore" /\ UNCHANGED shown
    BY <1>0, <1>9, <2>2 DEF Draw, Unasked
  <2> QED BY <1>9, <2>1, <2>2 DEF Draw
<1>10. CASE Ask
  BY <1>0, <1>10 DEF Ask, WarnReplies, TypoReplies, Unheard
<1>26. CASE Undecided
  BY <1>0, <1>26 DEF Undecided
<1>27. CASE Redraw
  <2>1. CASE pc' = "ask" /\ UNCHANGED <<shown, choice>>
    BY <1>0, <1>27, <2>1 DEF Redraw
  <2>2. CASE shown' = FALSE /\ choice' = "original" /\ pc' = "ending"
    <3>1. shown' \in BOOLEAN
      BY <2>2
    <3>2. choice' \in Choices /\ pc' \in Pcs
      BY <2>2 DEF Choices, Pcs, TerminalWrites
    <3>3. UNCHANGED <<analysis, watchdog, now, active, extension, consultDue, tty, keys,
                      answer, slot, channel, result, rc, line>>
      BY <1>27 DEF Redraw
    <3>4. rc = Running /\ line = "pending"
      BY <1>0, <1>27 DEF Redraw, TypeOK
    <3> QED BY <1>0, <2>2, <3>1, <3>2, <3>3, <3>4
  <2> QED BY <1>27, <2>1, <2>2 DEF Redraw
<1>28. CASE KeysSpent
  BY <1>0, <1>28 DEF KeysSpent, Unheard
<1>29. CASE Ending
  BY <1>0, <1>29 DEF Ending
<1>11. CASE Restore
  BY <1>0, <1>11 DEF Restore, RestoredTty
<1>12. CASE ActOnWarning
  BY <1>0, <1>12 DEF ActOnWarning, WarnCode, WarnOutcome
<1>13. CASE ActOnTypo
  BY <1>0, <1>13 DEF ActOnTypo, TypoCode, TypoReason
<1>14. CASE WriteBytes
  BY <1>0, <1>14 DEF WriteBytes, Undelivered
<1>15. CASE WriteSentinel
  BY <1>0, <1>15 DEF WriteSentinel, Undelivered
<1>16. CASE Log
  BY <1>0, <1>16 DEF Log
<1>17. CASE WatchdogWake
  BY <1>0, <1>17 DEF WatchdogWake
<1>18. CASE WatchdogExtend
  BY <1>0, <1>18 DEF WatchdogExtend
<1>19. CASE WatchdogExit
  BY <1>0, <1>19 DEF WatchdogExit
<1>20. CASE Tick
  BY <1>0, <1>20 DEF Tick
<1>21. CASE Kill
  BY <1>0, <1>21 DEF Kill
<1>22. CASE Accept
  BY <1>0, <1>22 DEF Accept, LineFor
<1>23. CASE NextLine
  <2>1. PICK m \in Modes : Fresh(m)
    BY <1>23 DEF NextLine
  <2>2. Det \in Nat /\ 0 \in 0..MaxKeys
    BY TimesAssumption
  <2> QED BY <2>1, <2>2 DEF Fresh
<1>24. CASE UNCHANGED vars
  BY <1>0, <1>24 DEF vars
<1> QED
  BY <1>1, <1>2, <1>3, <1>4, <1>5, <1>6, <1>7, <1>8, <1>9, <1>10, <1>11, <1>12, <1>13,
     <1>14, <1>15, <1>16, <1>17, <1>18, <1>19, <1>20, <1>21, <1>22, <1>23, <1>24, <1>25,
     <1>26, <1>27, <1>28, <1>29
  DEF Next, MainStep, AnalysisStep, PromptStep, WatchdogStep

Stages ==
  /\ Unanswered
  /\ QuestionAllowed
  /\ AdmitAllowed
  /\ ChoiceIsAnswer
  /\ TypoStages
  /\ CodeIsAnswer
  /\ ExitIsCode

\* Every step carries the knowledge of its stage on to the next.
LEMMA StagesStep == GuardInv /\ [Next]_vars => Stages'
<1> SUFFICES ASSUME GuardInv, [Next]_vars PROVE Stages'
  OBVIOUS
<1> USE DEF GuardInv, TypeOK, Stages, Unanswered, QuestionAllowed, AdmitAllowed,
      ChoiceIsAnswer, TypoStages, CodeIsAnswer, ExitIsCode, BeforeAnswer,
      AfterPresent, Warning, Unasked, WarnReplies, TypoReplies, Unheard,
      mainState, analysis, watchdog, prompt, result, Exit
<1>1. CASE RejectProposal
  BY <1>1 DEF RejectProposal
<1>2. ASSUME NEW v \in Warnings \cup {"observe"}, NEW t \in BOOLEAN,
             NEW cut \in BOOLEAN, NEW gated \in BOOLEAN, Analyze(v, t, cut, gated)
      PROVE  Stages'
  BY <1>2 DEF Analyze, Announce
<1>25. CASE BeginConsult
  BY <1>25 DEF BeginConsult
<1>3. ASSUME NEW v \in {"observe", "warn"}, Consulted(v)
      PROVE  Stages'
  BY <1>3 DEF Consulted, ModelVerdicts
<1>4. CASE Decide
  BY <1>4 DEF Decide, CapForMode
<1>5. ASSUME NEW s \in {"refused", "held", "none"}, Admit(s)
      PROVE  Stages'
  BY <1>5 DEF Admit
<1>6. ASSUME NEW ok \in BOOLEAN, Build(ok)
      PROVE  Stages'
  BY <1>6 DEF Build
<1>7. CASE Present
  BY <1>7 DEF Present
<1>8. CASE Open
  BY <1>8 DEF Open
<1>9. CASE Draw
  BY <1>9 DEF Draw
<1>10. CASE Ask
  BY <1>10 DEF Ask
<1>26. CASE Undecided
  BY <1>26 DEF Undecided
<1>27. CASE Redraw
  <2>1. CASE pc' = "ask" /\ UNCHANGED <<shown, choice>>
    BY <1>27, <2>1 DEF Redraw
  <2>2. CASE shown' = FALSE /\ choice' = "original" /\ pc' = "ending"
    BY <1>27, <2>2 DEF Redraw
  <2> QED BY <1>27, <2>1, <2>2 DEF Redraw
<1>28. CASE KeysSpent
  BY <1>28 DEF KeysSpent
<1>29. CASE Ending
  BY <1>29 DEF Ending
<1>11. CASE Restore
  BY <1>11 DEF Restore
<1>12. CASE ActOnWarning
  BY <1>12 DEF ActOnWarning, WarnCode
<1>13. CASE ActOnTypo
  BY <1>13 DEF ActOnTypo, TypoCode
<1>14. CASE WriteBytes
  BY <1>14 DEF WriteBytes, Undelivered
<1>15. CASE WriteSentinel
  BY <1>15 DEF WriteSentinel, Undelivered
<1>16. CASE Log
  BY <1>16 DEF Log
<1>17. CASE WatchdogWake
  BY <1>17 DEF WatchdogWake
<1>18. CASE WatchdogExtend
  BY <1>18 DEF WatchdogExtend
<1>19. CASE WatchdogExit
  BY <1>19 DEF WatchdogExit
<1>20. CASE Tick
  BY <1>20 DEF Tick
<1>21. CASE Kill
  BY <1>21 DEF Kill
<1>22. CASE Accept
  BY <1>22 DEF Accept
<1>23. CASE NextLine
  BY <1>23 DEF NextLine, Fresh
<1>24. CASE UNCHANGED vars
  BY <1>24 DEF vars
<1> QED
  BY <1>1, <1>2, <1>3, <1>4, <1>5, <1>6, <1>7, <1>8, <1>9, <1>10, <1>11, <1>12, <1>13,
     <1>14, <1>15, <1>16, <1>17, <1>18, <1>19, <1>20, <1>21, <1>22, <1>23, <1>24, <1>25,
     <1>26, <1>27, <1>28, <1>29
  DEF Next, MainStep, AnalysisStep, PromptStep, WatchdogStep

LEMMA GuardInvariant == Spec => []GuardInv
<1>1. Init => GuardInv
  BY GuardInit
<1>2. GuardInv /\ [Next]_vars => GuardInv'
  BY TypeStep, StagesStep DEF GuardInv, Stages
<1> QED BY <1>1, <1>2, PTL DEF Spec

\* Every variable of the check, its watchdog and its prompt keeps its type,
\* and a line is settled only by a process that has ended.
THEOREM TypeCorrect == Spec => []TypeOK
<1>1. GuardInv => TypeOK
  BY DEF GuardInv
<1> QED BY <1>1, GuardInvariant, PTL

\* Exit code 10 is only ever seen with the complete replacement on fd 3 and
\* consent to it, whatever writes fail and whenever the process is killed.
THEOREM TenIsDelivered == Spec => []TenMeansDelivered
<1>1. GuardInv => TenMeansDelivered
  BY DEF GuardInv, CodeIsAnswer, ExitIsCode, TenMeansDelivered
<1> QED BY <1>1, GuardInvariant, PTL

-----------------------------------------------------------------------------

\* A step of the guard is a reply, a settlement, the next line or a stutter.
LEMMA ConsentStep ==
  GuardInv /\ [Next]_vars => [ConsentSpec!Next]_<<mode, answer, line>>
<1> SUFFICES ASSUME GuardInv, [Next]_vars
             PROVE  [ConsentSpec!Next]_<<mode, answer, line>>
  OBVIOUS
<1>1. CASE Ask
  <2>1. line = "pending" /\ answer = "none" /\ UNCHANGED <<mode, line>>
    BY <1>1 DEF Ask, GuardInv, TypeOK, Unanswered, BeforeAnswer, analysis
  <2>2. CASE answer' = "none"
    BY <2>1, <2>2
  <2>3. CASE answer' # "none"
    <3>1. answer' \in ConsentSpec!Offers(mode)
      <4>1. CASE Warning
        <5>1. answer' \in {"edit", "cancel", "run", "expired"}
          BY <1>1, <2>3, <4>1 DEF Ask, WarnReplies, Unheard
        <5>2. answer' = "expired" => verdict = "confirm"
          <6>1. PICK reply \in WarnReplies : answer' = reply[2]
            BY <1>1, <4>1 DEF Ask
          <6>2. reply[2] \in {"edit", "cancel", "run", Unheard}
            BY DEF WarnReplies
          <6> QED BY <6>1, <6>2 DEF Unheard
        <5>3. mode \in Warnings /\ (verdict = "confirm" => mode = "confirm")
          BY <1>1, <4>1 DEF Ask, GuardInv, QuestionAllowed, AfterPresent
        <5> QED BY <5>1, <5>2, <5>3 DEF ConsentSpec!Offers
      <4>2. CASE ~Warning
        <5>1. answer' \in {"correct", "keep", "cancel"}
          BY <1>1, <2>3, <4>2 DEF Ask, TypoReplies
        <5>2. mode \in {"suggest", "warn", "confirm"}
          BY <1>1, <4>2 DEF Ask, GuardInv, TypeOK, QuestionAllowed, AfterPresent
        <5> QED BY <5>1, <5>2 DEF ConsentSpec!Offers
      <4> QED BY <4>1, <4>2
    <3>2. ConsentSpec!Reply(answer')
      BY <2>1, <3>1 DEF ConsentSpec!Reply
    <3> QED BY <3>1, <3>2 DEF ConsentSpec!Next
  <2> QED BY <2>2, <2>3
<1>8. CASE KeysSpent
  <2>1. line = "pending" /\ answer = "none" /\ UNCHANGED <<mode, line>>
    BY <1>8 DEF KeysSpent, GuardInv, TypeOK, Unanswered, BeforeAnswer, analysis
  <2>2. CASE answer' = "none"
    BY <2>1, <2>2
  <2>3. CASE answer' # "none"
    <3>1. Warning /\ answer' = "expired" /\ verdict = "confirm"
      BY <1>8, <2>1, <2>3 DEF KeysSpent, Unheard
    <3>2. mode = "confirm"
      BY <1>8, <3>1 DEF KeysSpent, GuardInv, QuestionAllowed, AfterPresent
    <3>3. ConsentSpec!Reply("expired") /\ "expired" \in ConsentSpec!Offers(mode)
      BY <2>1, <3>1, <3>2 DEF ConsentSpec!Reply, ConsentSpec!Offers
    <3> QED BY <3>3 DEF ConsentSpec!Next
  <2> QED BY <2>2, <2>3
<1>2. CASE Accept
  <2>1. line = "pending" /\ line' = LineFor(rc, channel) /\ UNCHANGED <<mode, answer>>
    BY <1>2 DEF Accept, mainState, analysis, prompt
  <2>2. ConsentSpec!MayBecome(line', answer)
    BY <2>1 DEF GuardInv, CodeIsAnswer, ExitIsCode, LineFor, ConsentSpec!MayBecome
  <2>3. line' \in {"original", "replacement", "returned", "discarded"}
    BY <2>1 DEF LineFor
  <2>4. ConsentSpec!Settle(line')
    BY <2>1, <2>2 DEF ConsentSpec!Settle
  <2> QED BY <2>3, <2>4 DEF ConsentSpec!Next
<1>3. CASE NextLine
  BY <1>3 DEF NextLine, Fresh, ConsentSpec!Next, ConsentSpec!NextLine, ConsentSpec!Modes
<1>4. CASE AnalysisStep
  BY <1>4 DEF AnalysisStep, RejectProposal, Analyze, Announce, BeginConsult, Consulted, ModelVerdicts,
     Decide, Admit, Build,
     Present, analysis, prompt
<1>5. CASE PromptStep /\ ~Ask /\ ~KeysSpent
  BY <1>5 DEF PromptStep, Open, Draw, Undecided, Redraw, Ending, Restore, ActOnWarning, ActOnTypo, WriteBytes,
     WriteSentinel, analysis, prompt
<1>6. CASE Log \/ WatchdogStep \/ Tick \/ Kill
  BY <1>6 DEF Log, WatchdogStep, WatchdogWake, WatchdogExtend, WatchdogExit, Tick, Kill,
     mainState, analysis, prompt
<1>7. CASE UNCHANGED vars
  BY <1>7 DEF vars, analysis, prompt
<1> QED BY <1>1, <1>2, <1>3, <1>4, <1>5, <1>6, <1>7, <1>8 DEF Next, MainStep

\* The guard implements Consent: a line is altered only by the user's answer to
\* a question the configured mode allows, under every fault of the model.
THEOREM GuardImplementsConsent == Spec => ImplementsConsent
<1>1. Init => ConsentSpec!Init
  BY DEF Init, ConsentSpec!Init, ConsentSpec!Modes
<1>2. GuardInv /\ [Next]_vars => [ConsentSpec!Next]_<<mode, answer, line>>
  BY ConsentStep
<1> QED BY <1>1, <1>2, GuardInvariant, PTL
     DEF Spec, ImplementsConsent, ConsentSpec!Spec, ConsentSpec!vars

-----------------------------------------------------------------------------

\* Once the code is chosen it is the code for the answer, not just a code the
\* answer permits.
Owed(a, r) == IF a = "edit" THEN Edit
              ELSE IF a \in {"cancel", "expired"} THEN Cancel
              ELSE IF a = "correct" /\ r # "deliveryFailed" THEN Replace ELSE Allow
CodeOwed ==
  /\ pc = "log" => code = Owed(answer, reason)
  /\ pc = "done" /\ rc \notin {InternalError, Killed} => code = Owed(answer, reason)
LineFollows == line # "pending" => line = LineFor(rc, channel)
HonourInv == GuardInv /\ CodeOwed /\ LineFollows

LEMMA HonourStep == HonourInv /\ [Next]_vars => CodeOwed' /\ LineFollows'
<1> SUFFICES ASSUME HonourInv, [Next]_vars PROVE CodeOwed' /\ LineFollows'
  OBVIOUS
<1> USE DEF HonourInv, GuardInv, TypeOK, CodeOwed, Owed, LineFollows, LineFor, Exit,
      mainState, analysis, watchdog, prompt, result
<1>1. CASE AnalysisStep
  BY <1>1 DEF AnalysisStep, RejectProposal, Analyze, Announce, BeginConsult, Consulted, ModelVerdicts,
     Decide, Admit, Build,
     Present, Unanswered, BeforeAnswer
<1>2. CASE Open \/ Draw \/ Ask \/ Undecided \/ Redraw \/ KeysSpent \/ Ending \/ Restore
  BY <1>2 DEF Open, Draw, Ask, Undecided, Redraw, KeysSpent, Ending, Restore
<1>3. CASE ActOnWarning
  BY <1>3 DEF ActOnWarning, WarnCode, WarnOutcome, ChoiceIsAnswer, Warning, Unasked, WarnReplies,
     Unheard
<1>4. CASE ActOnTypo
  BY <1>4 DEF ActOnTypo, TypoCode, TypoReason, ChoiceIsAnswer, Warning, Unasked, TypoReplies
<1>5. CASE WriteBytes \/ WriteSentinel
  BY <1>5 DEF WriteBytes, WriteSentinel, Undelivered, ChoiceIsAnswer, TypoStages,
     Warning, Unasked, TypoReplies
<1>6. CASE Log
  BY <1>6 DEF Log
<1>7. CASE WatchdogStep \/ Tick \/ Kill
  BY <1>7 DEF WatchdogStep, WatchdogWake, WatchdogExtend, WatchdogExit, Tick, Kill
<1>8. CASE Accept
  BY <1>8 DEF Accept
<1>9. CASE NextLine
  BY <1>9 DEF NextLine, Fresh
<1>10. CASE UNCHANGED vars
  BY <1>10 DEF vars
<1> QED BY <1>1, <1>2, <1>3, <1>4, <1>5, <1>6, <1>7, <1>8, <1>9, <1>10
     DEF Next, MainStep, PromptStep

\* A check that ends by itself does what the user answered: no dropped outcome,
\* dropped event or failed restore turns an edit or a cancel into a run.
THEOREM AnswersHonoured == Spec => []AnswerHonoured
<1>1. Init => HonourInv
  BY GuardInit DEF Init, HonourInv, CodeOwed, LineFollows
<1>2. HonourInv /\ [Next]_vars => HonourInv'
  BY HonourStep, TypeStep, StagesStep DEF HonourInv, GuardInv, Stages
<1>3. HonourInv => AnswerHonoured
  BY DEF HonourInv, GuardInv, TypeOK, ExitIsCode, CodeIsAnswer, CodeOwed, Owed,
     LineFollows, LineFor, AnswerHonoured, Promised
<1> QED BY <1>1, <1>2, <1>3, PTL DEF Spec

-----------------------------------------------------------------------------

\* The warning was on the screen exactly when the prompt's caller is told so.
ShownIsTold ==
  /\ pc \in BeforeAnswer \ {"ask", "redraw"} => ~shown
  /\ pc \in {"ask", "redraw"} => shown
  /\ pc \in {"ending", "restore", "act"} /\ Warning => (shown <=> choice # "notShown")
\* A slot is settled or released at the end, by what was told.
SlotIsTold ==
  /\ pc \notin {"log", "done"} => slot \in {"none", "held"}
  /\ slot = "settled" => shown
  /\ slot = "released" => ~shown
\* The reason is set at the end, by the answer.
ReasonIsAnswer ==
  /\ pc \notin {"log", "done"} => reason = "observed"
  /\ reason \in DOMAIN Credits => answer \in Credits[reason]
\* An Original without an answer comes from a question nobody could answer.
OriginalIsTold ==
  /\ pc \in {"ending", "restore", "act", "sentinel"} /\ ~Warning /\ choice = "original" /\ answer = "none"
       => NobodyCouldAnswer
  /\ reason = "declined" /\ answer = "none" => NobodyCouldAnswer
RecordsInv == GuardInv /\ ShownIsTold /\ SlotIsTold /\ ReasonIsAnswer /\ OriginalIsTold

LEMMA RecordsStep == RecordsInv /\ [Next]_vars => ShownIsTold' /\ SlotIsTold' /\ ReasonIsAnswer'
<1> SUFFICES ASSUME RecordsInv, [Next]_vars
             PROVE  ShownIsTold' /\ SlotIsTold' /\ ReasonIsAnswer'
  OBVIOUS
<1> USE DEF RecordsInv, GuardInv, TypeOK, ShownIsTold, SlotIsTold, ReasonIsAnswer, Credits,
      BeforeAnswer, Warning, Exit, mainState, analysis, watchdog, prompt, result
<1>1. CASE AnalysisStep
  BY <1>1 DEF AnalysisStep, RejectProposal, Analyze, Announce, BeginConsult, Consulted, ModelVerdicts,
     Decide, Admit, Build, Present
<1>2. CASE Open \/ Draw
  BY <1>2 DEF Open, Draw, Unasked
<1>3. CASE Ask \/ KeysSpent
  <2>1. /\ shown /\ UNCHANGED <<shown, slot, verdict, reason>> /\ reason = "observed"
        /\ pc' = "ending" /\ slot \in {"none", "held"}
    BY <1>3 DEF Ask, KeysSpent
  <2>2. Warning => choice' # "notShown"
    BY <1>3 DEF Ask, WarnReplies, KeysSpent
  <2> QED BY <2>1, <2>2
<1>10. CASE Redraw
  <2>1. /\ UNCHANGED <<slot, verdict, reason>> /\ reason = "observed" /\ slot \in {"none", "held"}
        /\ ~Warning /\ \/ pc' = "ending"
                       \/ pc' = "ask" /\ shown /\ UNCHANGED shown
    BY <1>10 DEF Redraw, TypoStages
  <2> QED BY <2>1
<1>4. CASE Undecided \/ Ending \/ Restore
  BY <1>4 DEF Undecided, Ending, Restore
<1>5. CASE ActOnWarning
  <2>1. /\ pc' = "log" /\ UNCHANGED <<shown, answer>>
        /\ slot' \in {slot, "settled", "released"}
        /\ slot' = "settled" => choice # "notShown"
        /\ slot' = "released" => choice = "notShown"
        /\ shown <=> choice # "notShown"
    BY <1>5 DEF ActOnWarning
  <2>2. <<choice, answer>> \in {<<"notShown", "none">>} \cup WarnReplies
    BY <1>5 DEF ActOnWarning, ChoiceIsAnswer, Unasked
  <2>3. reason' = WarnOutcome(choice)
    BY <1>5 DEF ActOnWarning
  <2>4. reason' \in DOMAIN Credits => answer \in Credits[reason']
    BY <2>2, <2>3 DEF WarnOutcome, WarnReplies, Unheard
  <2> QED BY <2>1, <2>4
<1>6. CASE ActOnTypo \/ WriteBytes \/ WriteSentinel
  <2>1. /\ pc' \in {"log", "sentinel"} /\ UNCHANGED <<shown, answer, slot, verdict>> /\ ~Warning
        /\ slot \in {"none", "held"} /\ (pc' = "sentinel" => reason' = reason)
    BY <1>6 DEF ActOnTypo, WriteBytes, WriteSentinel, Undelivered, TypoStages
  <2>2. <<choice, answer>> \in {<<"original", "none">>} \cup TypoReplies
    BY <1>6, <2>1 DEF ActOnTypo, WriteBytes, WriteSentinel, ChoiceIsAnswer, Unasked
  <2>3. reason' \in DOMAIN Credits => answer \in Credits[reason']
    BY <1>6, <2>2 DEF ActOnTypo, WriteBytes, WriteSentinel, Undelivered, TypoReason, TypoReplies,
       TypoStages
  <2>4. pc' = "sentinel" => reason' = "observed"
    BY <1>6, <2>1 DEF ActOnTypo, WriteBytes, WriteSentinel
  <2> QED BY <2>1, <2>3, <2>4
<1>7. CASE Log \/ WatchdogStep \/ Tick \/ Kill \/ Accept
  BY <1>7 DEF Log, WatchdogStep, WatchdogWake, WatchdogExtend, WatchdogExit, Tick, Kill, Accept
<1>8. CASE NextLine
  BY <1>8 DEF NextLine, Fresh
<1>9. CASE UNCHANGED vars
  BY <1>9 DEF vars
<1> QED BY <1>1, <1>2, <1>3, <1>4, <1>5, <1>6, <1>7, <1>8, <1>9, <1>10
     DEF Next, MainStep, PromptStep

\* An Original that no key chose is returned by a failed open, draw or redraw, or
\* when the keys are spent.
LEMMA OriginalStep == RecordsInv /\ [Next]_vars => OriginalIsTold'
<1> SUFFICES ASSUME RecordsInv, [Next]_vars PROVE OriginalIsTold'
  OBVIOUS
<1> USE DEF RecordsInv, GuardInv, OriginalIsTold, NobodyCouldAnswer, Warning, Exit, mainState,
      analysis, watchdog, prompt, result
<1>0. pc \notin {"log", "done"} => reason # "declined"
  BY DEF ReasonIsAnswer
<1>1. CASE AnalysisStep
  BY <1>0, <1>1 DEF AnalysisStep, RejectProposal, Analyze, Announce, BeginConsult, Consulted,
     ModelVerdicts, Decide, Admit, Build, Present
<1>2. CASE Open \/ Draw
  <2>1. ~shown
    BY <1>2 DEF Open, Draw, ShownIsTold, BeforeAnswer
  <2>2. (pc' # "act" /\ pc' # "restore") \/ UNCHANGED shown
    BY <1>2 DEF Open, Draw
  <2> QED BY <1>0, <1>2, <2>1, <2>2 DEF Open, Draw
<1>3. CASE Ask
  <2>1. ~Warning => <<choice', answer'>> # <<"original", "none">>
    BY <1>3 DEF Ask, TypoReplies
  <2> QED BY <1>0, <1>3, <2>1 DEF Ask
<1>4. CASE KeysSpent
  BY <1>0, <1>4 DEF KeysSpent
<1>5. CASE Redraw
  <2>1. UNCHANGED reason /\ reason # "declined" /\ (pc' = "ask" \/ shown' = FALSE)
    BY <1>0, <1>5 DEF Redraw
  <2> QED BY <2>1
<1>6. CASE Undecided \/ Ending \/ Restore
  BY <1>0, <1>6 DEF Undecided, Ending, Restore
<1>7. CASE ActOnWarning
  BY <1>7 DEF ActOnWarning, WarnOutcome
<1>8. CASE ActOnTypo
  <2>1. UNCHANGED <<shown, keys, choice, answer>> /\ pc' = "log" /\ pc = "act" /\ ~Warning
    BY <1>8 DEF ActOnTypo
  <2>2. reason' = "declined" => choice \notin {"cancel", "timeout", "correct"}
    BY <1>8 DEF ActOnTypo, TypoReason
  <2>3. answer = "none" => choice \in {"original", "timeout"}
    BY <2>1 DEF ChoiceIsAnswer, Unasked, TypoReplies
  <2> QED BY <2>1, <2>2, <2>3
<1>9. CASE WriteBytes \/ WriteSentinel
  BY <1>0, <1>9 DEF WriteBytes, WriteSentinel, Undelivered
<1>10. CASE Log \/ WatchdogStep \/ Tick \/ Kill \/ Accept
  BY <1>10 DEF Log, WatchdogStep, WatchdogWake, WatchdogExtend, WatchdogExit, Tick, Kill, Accept
<1>11. CASE NextLine
  BY <1>11 DEF NextLine, Fresh
<1>12. CASE UNCHANGED vars
  BY <1>12 DEF vars
<1> QED BY <1>1, <1>2, <1>3, <1>4, <1>5, <1>6, <1>7, <1>8, <1>9, <1>10, <1>11, <1>12
     DEF Next, MainStep, PromptStep

\* A budget slot is settled only by a warning that was on the screen and given back
\* only by one that was not, and an event credits the user only with the answer that
\* was given, but for a correction told as declined because its question never stood
\* complete on the terminal or was left undecided; whichever records are dropped.
THEOREM RecordsTellTheTruth == Spec => []RecordsAreTruthful
<1>1. Init => RecordsInv
  BY GuardInit DEF Init, RecordsInv, ShownIsTold, SlotIsTold, ReasonIsAnswer, OriginalIsTold,
     Credits, BeforeAnswer
<1>2. RecordsInv /\ [Next]_vars => RecordsInv'
  BY RecordsStep, OriginalStep, TypeStep, StagesStep DEF RecordsInv, GuardInv, Stages
<1>3. RecordsInv => RecordsAreTruthful
  BY DEF RecordsInv, GuardInv, TypeOK, SlotIsTold, ReasonIsAnswer, OriginalIsTold, Credits,
     RecordsAreTruthful
<1> QED BY <1>1, <1>2, <1>3, PTL DEF Spec

-----------------------------------------------------------------------------

\* Where the watchdog is tells how late it can be, and whether it has extended.
WatchdogTimes ==
  /\ wd = "sleep" => wdDue = Det /\ now <= Det
  /\ wd = "expired" => wdDue = Det /\ now = Det
  /\ wd = "granted" => wdDue = Det + ModelT + Margin /\ now <= wdDue
                       /\ extension = ModelT + Margin
  /\ wd = "exiting" => \/ wdDue = Det /\ now = Det
                       \/ /\ wdDue = Det + ModelT + Margin /\ now = wdDue
                          /\ extension = ModelT + Margin
  /\ wd = "retired" => active
\* A consultation is announced before it begins; one the watchdog did not find
\* announced began no earlier than the first deadline.
GateInTime ==
  /\ pc = "analyze" => extension = 0 /\ ~active
  /\ pc \in {"announced", "consult"} => extension = ModelT + Margin
  /\ wd = "exiting" /\ wdDue = Det /\ pc = "consult" => consultDue >= Det + ModelT
TimeInv == TypeOK /\ (rc = Running => WatchdogTimes /\ GateInTime)

LEMMA TimeStep ==
  TypeOK /\ (rc = Running => WatchdogTimes /\ GateInTime) /\ TypeOK' /\ [Next]_vars
    => (rc = Running => WatchdogTimes /\ GateInTime)'
<1> SUFFICES ASSUME TypeOK, rc = Running => WatchdogTimes /\ GateInTime, TypeOK',
                    [Next]_vars, rc' = Running
             PROVE  WatchdogTimes' /\ GateInTime'
  OBVIOUS
<1> USE TimesAssumption DEF TypeOK, WatchdogTimes, GateInTime, Exit, mainState, watchdog
<1>1. CASE RejectProposal \/ Log \/ WatchdogExit \/ Kill
  BY <1>1 DEF RejectProposal, Log, WatchdogExit, Kill
<1>2. ASSUME NEW v \in Warnings \cup {"observe"}, NEW t \in BOOLEAN,
             NEW cut \in BOOLEAN, NEW gated \in BOOLEAN, Analyze(v, t, cut, gated)
      PROVE  WatchdogTimes' /\ GateInTime'
  <2>1. rc = Running /\ extension = 0 /\ ~active
    BY <1>2 DEF Analyze, Announce
  <2>2. wd # "granted" /\ UNCHANGED <<wd, wdDue, now, active>>
    BY <1>2, <2>1 DEF Analyze, Announce
  <2>3. pc' \in {"announced", "decide"} /\ extension' \in {0, ModelT + Margin}
        /\ (pc' = "announced" => extension' = ModelT + Margin)
    BY <1>2, <2>1 DEF Analyze, Announce
  <2> QED BY <2>1, <2>2, <2>3
<1>12. CASE BeginConsult
  BY <1>12 DEF BeginConsult
<1>3. CASE AnalysisStep /\ pc # "analyze"
  BY <1>3, <1>12 DEF AnalysisStep, RejectProposal, Analyze, Announce, Consulted, ModelVerdicts,
     Decide, Admit, Build, Present
<1>4. CASE PromptStep
  BY <1>4 DEF PromptStep, Open, Draw, Ask, Undecided, Redraw, KeysSpent, Ending, Restore, ActOnWarning, ActOnTypo, WriteBytes,
     WriteSentinel, Undelivered
<1>5. CASE WatchdogWake
  BY <1>5 DEF WatchdogWake
<1>6. CASE WatchdogExtend
  BY <1>6 DEF WatchdogExtend
<1>7. CASE Tick
  BY <1>7 DEF Tick
<1>8. CASE Accept
  BY <1>8 DEF Accept
<1>9. CASE NextLine
  BY <1>9 DEF NextLine, Fresh
<1>10. CASE UNCHANGED vars
  BY <1>10 DEF vars
<1>11. CASE AnalysisStep /\ pc = "analyze"
  BY <1>11, <1>1, <1>2, <1>12 DEF AnalysisStep, Consulted, Decide, Admit, Build, Present
<1> QED BY <1>1, <1>3, <1>4, <1>5, <1>6, <1>7, <1>8, <1>9, <1>10, <1>11
     DEF Next, MainStep, WatchdogStep

LEMMA TimeInvariant == Spec => []TimeInv
<1>1. Init => TimeInv
  BY TypeInit, TimesAssumption DEF Init, TimeInv, WatchdogTimes, GateInTime
<1>2. TimeInv /\ TypeOK' /\ [Next]_vars => TimeInv'
  BY TimeStep DEF TimeInv
<1> QED BY <1>1, <1>2, TypeCorrect, PTL DEF Spec

\* Analysis never keeps the shell waiting past the deadline, and past it only
\* by the extension of a consultation announced before it.
THEOREM AnalysisIsBounded == Spec => []ReturnByDeadline
<1>1. TimeInv => ReturnByDeadline
  BY TimesAssumption DEF TimeInv, TypeOK, WatchdogTimes, ReturnByDeadline
<1> QED BY <1>1, TimeInvariant, PTL

\* The watchdog cuts a consultation off only past the consultation's own deadline, if
\* it read its clock before the first deadline or, with the extension granted, less
\* than Margin after it.
THEOREM ConsultIsNotCutOff == Spec => []ConsultOutlivedByGrant
<1>1. TimeInv => ConsultOutlivedByGrant
  BY TimesAssumption DEF TimeInv, TypeOK, WatchdogTimes, GateInTime, ConsultOutlivedByGrant,
     BegunInTime, Began, Extended
<1> QED BY <1>1, TimeInvariant, PTL
=============================================================================
