---------------------------- MODULE StateLogProofs ----------------------------
(***************************************************************************)
(* Proofs about one state log for every set of processes and records.      *)
(*                                                                         *)
(* What is promised of the log depends on who may change it when.  LogInv  *)
(* says what the holder of the lock has established at each of its steps:  *)
(* how the file ends while a line is written, that the copy a sweep made   *)
(* is still what the log holds, how old the log's records can be once the  *)
(* marker says it was swept, and what an open report still finds.          *)
(***************************************************************************)
EXTENDS StateLog, FiniteSetTheorems, TLAPS

PurgePcs == {"rmlog", "rmmarker", "rmtemps", "clear"}
SweepPcs == {"sweep", "copy", "swap", "mark", "markswap"}
WritePcs == {"open", "write", "part", "body"}

\* What a process carries from its beginning to its end.
Carried ==
  \A p \in Procs :
    /\ proc[p].at <= now
    /\ proc[p].pc # "idle" => now <= proc[p].at + 1
    /\ proc[p].pc = "idle" <=> proc[p].op = "none"
    /\ proc[p].pc \in PurgePcs => proc[p].op = "purge"
    /\ proc[p].pc \in SweepPcs => proc[p].op = "append"
    /\ proc[p].pc \in WritePcs => proc[p].op \in Appends
    /\ IF proc[p].op \in Appends
       THEN proc[p].rec \in Records /\ stamp[proc[p].rec] = proc[p].at
       ELSE proc[p].rec = NoRecord

\* No record is written twice.
OneWriter ==
  \A p, q \in Procs : proc[p].rec = proc[q].rec /\ proc[p].rec \in Records => p = q

\* How the file ends while its line is written, and what a sweep has copied.
Knows(p) ==
  /\ proc[p].pc = "write" => log.end = Clean
  /\ proc[p].pc = "part" => log.end = Torn
  /\ proc[p].pc = "body" => log.end = proc[p].rec
  /\ proc[p].pc = "swap" => proc[p].kept = Kept(proc[p].at)
HolderKnows == \A p \in Procs : Knows(p)

TempThere == \A p \in Procs : proc[p].pc \in WithTemp => temps > 0

\* What is in the log was submitted.
Stamped == \A r \in InLog : stamp[r] # NotYet

USE DEF Times, Locked, WithTemp, Appends, PurgePcs, SweepPcs, WritePcs

\* The operations on files yield files, and files hold records.
LEMMA FileTypes ==
  /\ EmptyFile \in Files
  /\ \A f \in Files : Terminated(f) \in Files /\ Readable(f) \subseteq Records
  /\ \A f \in Files, e \in Records \cup {Clean, Torn} :
       [f EXCEPT !.end = e] \in Files /\ [f EXCEPT !.end = e].end = e
  /\ \A R \in SUBSET Records :
       Holding(R) \in Files /\ Readable(Holding(R)) = R /\ Holding(R).end = Clean
  /\ \A f \in Files : Readable(Terminated(f)) = Readable(f) /\ Terminated(f).end = Clean
  /\ Readable(EmptyFile) = {} /\ EmptyFile.end = Clean
BY NamesAssumption DEF Files, EmptyFile, Holding, Terminated, Readable

\* The type invariant makes what is in the log records.
LEMMA LogTypes == TypeOK => InLog \subseteq Records
BY FileTypes DEF TypeOK, InLog

\* A process moves on, with or without what a sweep copied.
LEMMA StepTypes ==
  \A s \in States, c \in {"idle", "wait"} \cup Locked, K \in SUBSET Records :
    /\ [s EXCEPT !.pc = c] \in States
    /\ Carrying(s, c, K) \in States
BY DEF States, Carrying

LEMMA TypeInit == Init => TypeOK
<1> SUFFICES ASSUME Init PROVE TypeOK
  OBVIOUS
<1>1. EmptyFile \in Files /\ NoReport \in [pc : {"idle", "check", "read"}, old : Files \cup {NoFile},
                                           left : SUBSET Records]
  BY FileTypes DEF NoReport
<1>2. Rest \in States
  BY BoundsAssumption DEF Rest, States
<1>3. \A p \in Procs : proc[p].pc = "idle"
  BY DEF Init, Rest
<1> QED
  BY <1>1, <1>2, <1>3, NamesAssumption, BoundsAssumption DEF Init, TypeOK, NotYet, NoMarker

\* Every variable keeps its type, and the lock belongs to whoever is at a
\* locked step.
LEMMA TypeStep == TypeOK /\ Carried /\ TempThere /\ [Next]_vars => TypeOK'
<1> SUFFICES ASSUME TypeOK, Carried, TempThere, [Next]_vars PROVE TypeOK'
  OBVIOUS
<1> USE NamesAssumption, BoundsAssumption DEF TypeOK, States, TempThere, Goto, CreateTemp, DropTemp, Return, Rest
<1>1. CASE UNCHANGED vars
  BY <1>1 DEF vars
<1>2. ASSUME NEW p \in Procs, NEW r \in Records, NEW o \in Appends, BeginAppend(p, r, o) PROVE TypeOK'
  BY <1>2 DEF BeginAppend
<1>3. ASSUME NEW p \in Procs, BeginPurge(p) PROVE TypeOK'
  BY <1>3 DEF BeginPurge
<1>4. ASSUME NEW p \in Procs, Acquire(p) PROVE TypeOK'
  BY <1>4 DEF Acquire
<1>5. ASSUME NEW p \in Procs, Sweep(p) PROVE TypeOK'
  <2>1. CASE OpenSource(p) BY <2>1 DEF OpenSource
  <2>2. CASE Copy(p)
    <3>0. Kept(proc[p].at) \in SUBSET Records
      BY LogTypes DEF Kept
    <3>1. CASE Changed(proc[p].at)
      BY <2>2, <3>0, <3>1 DEF Copy, Carrying
    <3>2. CASE ~Changed(proc[p].at)
      BY <2>2, <3>2 DEF Copy
    <3> QED BY <3>1, <3>2
  <2>3. CASE Swap(p)
    <3>0. proc[p].kept \in SUBSET Records /\ temps' \in Nat
      BY <2>3 DEF Swap
    <3>1. log' \in Files /\ log' # NoFile
      BY <2>3, <3>0, FileTypes DEF Swap, Replace
    <3>2. report' \in [pc : {"idle", "check", "read"}, old : Files \cup {NoFile},
                       left : SUBSET Records]
      BY <2>3 DEF Swap, Replace
    <3>3. proc' \in [Procs -> States] /\ \A q \in Procs : proc'[q].pc = IF q = p THEN "mark" ELSE proc[q].pc
      BY <2>3 DEF Swap, Carrying
    <3> QED BY <2>3, <3>0, <3>1, <3>2, <3>3 DEF Swap
  <2>4. CASE Mark(p) BY <2>4 DEF Mark
  <2>5. CASE SwapMarker(p) BY <2>5 DEF SwapMarker
  <2> QED BY <1>5, <2>1, <2>2, <2>3, <2>4, <2>5 DEF Sweep
<1>6. ASSUME NEW p \in Procs, AppendLine(p) PROVE TypeOK'
  <2>1. CASE OpenAppend(p)
    <3>1. log' \in Files /\ log' # NoFile
      BY <2>1, FileTypes DEF OpenAppend
    <3> QED BY <2>1, <3>1 DEF OpenAppend
  <2>2. CASE WritePart(p)
    <3>1. log' \in Files /\ log' # NoFile
      BY <2>2, FileTypes DEF WritePart, WriteEnd
    <3> QED BY <2>2, <3>1 DEF WritePart, WriteEnd
  <2>3. CASE WriteBody(p) BY <2>3, FileTypes DEF WriteBody, WriteEnd, Carried
  <2>4. CASE WriteNewline(p) BY <2>4, FileTypes DEF WriteNewline
  <2> QED BY <1>6, <2>1, <2>2, <2>3, <2>4 DEF AppendLine
<1>7. ASSUME NEW p \in Procs, Purge(p) PROVE TypeOK'
  <2>1. CASE RemoveLog(p) BY <2>1 DEF RemoveLog, Replace
  <2>2. CASE RemoveMarker(p) BY <2>2 DEF RemoveMarker, NoMarker
  <2>3. CASE RemoveTemps(p) BY <2>3 DEF RemoveTemps
  <2>4. CASE Purged(p) BY <2>4 DEF Purged
  <2> QED BY <1>7, <2>1, <2>2, <2>3, <2>4 DEF Purge
<1>8. ASSUME NEW p \in Procs, Fail(p) PROVE TypeOK'
  BY <1>8 DEF Fail
<1>9. ASSUME NEW p \in Procs, Crash(p) PROVE TypeOK'
  BY <1>9 DEF Crash
<1>10. CASE Report
  <2>1. CASE ReportOpen BY <2>1 DEF ReportOpen, NoReport
  <2>2. CASE ReportRefused BY <2>2 DEF ReportRefused, NoReport
  <2>3. CASE ReportChecked BY <2>3, LogTypes DEF ReportChecked
  <2>4. CASE ReportRead BY <2>4 DEF ReportRead
  <2>5. CASE ReportEnd BY <2>5 DEF ReportEnd, NoReport
  <2> QED BY <1>10, <2>1, <2>2, <2>3, <2>4, <2>5 DEF Report
<1>11. CASE Tick
  BY <1>11 DEF Tick
<1> QED
  BY <1>1, <1>2, <1>3, <1>4, <1>5, <1>6, <1>7, <1>8, <1>9, <1>10, <1>11 DEF Next

-------------------------------------------------------------------------------
(* What each step knows of its process. *)

LEMMA CarriedStep == TypeOK /\ Carried /\ [Next]_vars => Carried'
<1> SUFFICES ASSUME TypeOK, Carried, [Next]_vars PROVE Carried'
  OBVIOUS
<1> USE NamesAssumption, BoundsAssumption
        DEF TypeOK, States, Carried, Goto, CreateTemp, DropTemp, Return, Rest, NotYet
<1>1. CASE UNCHANGED vars
  BY <1>1 DEF vars
<1>2. ASSUME NEW p \in Procs, NEW r \in Records, NEW o \in Appends, BeginAppend(p, r, o) PROVE Carried'
  BY <1>2 DEF BeginAppend
<1>3. ASSUME NEW p \in Procs, BeginPurge(p) PROVE Carried'
  BY <1>3 DEF BeginPurge
<1>4. ASSUME NEW p \in Procs, Acquire(p) PROVE Carried'
  BY <1>4 DEF Acquire
<1>5. ASSUME NEW p \in Procs, Sweep(p) PROVE Carried'
  <2>1. CASE OpenSource(p) BY <2>1 DEF OpenSource
  <2>2. CASE Copy(p)
    <3>1. CASE Changed(proc[p].at) BY <2>2, <3>1 DEF Copy, Carrying
    <3>2. CASE ~Changed(proc[p].at) BY <2>2, <3>2 DEF Copy
    <3> QED BY <3>1, <3>2
  <2>3. CASE Swap(p) BY <2>3 DEF Swap, Carrying
  <2>4. CASE Mark(p) BY <2>4 DEF Mark
  <2>5. CASE SwapMarker(p) BY <2>5 DEF SwapMarker
  <2> QED BY <1>5, <2>1, <2>2, <2>3, <2>4, <2>5 DEF Sweep
<1>6. ASSUME NEW p \in Procs, AppendLine(p) PROVE Carried'
  BY <1>6 DEF AppendLine, OpenAppend, WritePart, WriteBody, WriteEnd, WriteNewline
<1>7. ASSUME NEW p \in Procs, Purge(p) PROVE Carried'
  BY <1>7 DEF Purge, RemoveLog, RemoveMarker, RemoveTemps, Purged
<1>8. ASSUME NEW p \in Procs, Fail(p) \/ Crash(p) PROVE Carried'
  BY <1>8 DEF Fail, Crash
<1>9. CASE Report
  BY <1>9 DEF Report, ReportOpen, ReportRefused, ReportChecked, ReportRead, ReportEnd
<1>10. CASE Tick
  BY <1>10 DEF Tick
<1> QED
  BY <1>1, <1>2, <1>3, <1>4, <1>5, <1>6, <1>7, <1>8, <1>9, <1>10 DEF Next

LEMMA OneWriterStep == TypeOK /\ Carried /\ OneWriter /\ [Next]_vars => OneWriter'
<1> SUFFICES ASSUME TypeOK, Carried, OneWriter, [Next]_vars PROVE OneWriter'
  OBVIOUS
<1> USE NamesAssumption, BoundsAssumption
        DEF TypeOK, States, OneWriter, Goto, CreateTemp, DropTemp, Return, Rest
<1>1. CASE UNCHANGED vars
  BY <1>1 DEF vars
<1>2. ASSUME NEW p \in Procs, NEW r \in Records, NEW o \in Appends, BeginAppend(p, r, o) PROVE OneWriter'
  <2>1. \A q \in Procs : proc[q].rec # r
    BY <1>2 DEF BeginAppend, Carried, NotYet
  <2> QED BY <1>2, <2>1 DEF BeginAppend
<1>3. ASSUME NEW p \in Procs, BeginPurge(p) PROVE OneWriter'
  BY <1>3 DEF BeginPurge
<1>4. ASSUME NEW p \in Procs, Acquire(p) PROVE OneWriter'
  BY <1>4 DEF Acquire
<1>5. ASSUME NEW p \in Procs, Sweep(p) PROVE OneWriter'
  <2>1. \A q \in Procs : proc'[q].rec = proc[q].rec
    <3>1. CASE OpenSource(p) BY <3>1 DEF OpenSource
    <3>2. CASE Copy(p) BY <3>2 DEF Copy, Carrying
    <3>3. CASE Swap(p) BY <3>3 DEF Swap, Carrying
    <3>4. CASE Mark(p) BY <3>4 DEF Mark
    <3>5. CASE SwapMarker(p) BY <3>5 DEF SwapMarker
    <3> QED BY <1>5, <3>1, <3>2, <3>3, <3>4, <3>5 DEF Sweep
  <2> QED BY <2>1
<1>6. ASSUME NEW p \in Procs, AppendLine(p) PROVE OneWriter'
  BY <1>6 DEF AppendLine, OpenAppend, WritePart, WriteBody, WriteEnd, WriteNewline
<1>7. ASSUME NEW p \in Procs, Purge(p) PROVE OneWriter'
  BY <1>7 DEF Purge, RemoveLog, RemoveMarker, RemoveTemps, Purged
<1>8. ASSUME NEW p \in Procs, Fail(p) \/ Crash(p) PROVE OneWriter'
  BY <1>8 DEF Fail, Crash
<1>9. CASE Report
  BY <1>9 DEF Report, ReportOpen, ReportRefused, ReportChecked, ReportRead, ReportEnd
<1>10. CASE Tick
  BY <1>10 DEF Tick
<1> QED
  BY <1>1, <1>2, <1>3, <1>4, <1>5, <1>6, <1>7, <1>8, <1>9, <1>10 DEF Next

LEMMA TempThereStep == TypeOK /\ TempThere /\ [Next]_vars => TempThere'
<1> SUFFICES ASSUME TypeOK, TempThere, [Next]_vars PROVE TempThere'
  OBVIOUS
<1> USE NamesAssumption, BoundsAssumption
        DEF TypeOK, States, TempThere, Goto, CreateTemp, DropTemp, Return, Rest
<1>1. CASE UNCHANGED vars
  BY <1>1 DEF vars
<1>2. ASSUME NEW p \in Procs, NEW r \in Records, NEW o \in Appends, BeginAppend(p, r, o) PROVE TempThere'
  BY <1>2 DEF BeginAppend
<1>3. ASSUME NEW p \in Procs, BeginPurge(p) \/ Acquire(p) PROVE TempThere'
  <2>1. CASE BeginPurge(p) BY <2>1 DEF BeginPurge
  <2>2. CASE Acquire(p) BY <2>2 DEF Acquire
  <2> QED BY <1>3, <2>1, <2>2
<1>4. ASSUME NEW p \in Procs, Sweep(p) PROVE TempThere'
  <2>1. CASE OpenSource(p) BY <2>1 DEF OpenSource
  <2>2. CASE Copy(p) BY <2>2 DEF Copy, Carrying
  <2>3. CASE Swap(p) BY <2>3 DEF Swap, Carrying
  <2>4. CASE Mark(p) BY <2>4 DEF Mark
  <2>5. CASE SwapMarker(p) BY <2>5 DEF SwapMarker
  <2> QED BY <1>4, <2>1, <2>2, <2>3, <2>4, <2>5 DEF Sweep
<1>5. ASSUME NEW p \in Procs, AppendLine(p) PROVE TempThere'
  BY <1>5 DEF AppendLine, OpenAppend, WritePart, WriteBody, WriteEnd, WriteNewline
<1>6. ASSUME NEW p \in Procs, Purge(p) PROVE TempThere'
  BY <1>6 DEF Purge, RemoveLog, RemoveMarker, RemoveTemps, Purged
<1>7. ASSUME NEW p \in Procs, Fail(p) \/ Crash(p) PROVE TempThere'
  BY <1>7 DEF Fail, Crash
<1>8. CASE Report \/ Tick
  BY <1>8 DEF Report, ReportOpen, ReportRefused, ReportChecked, ReportRead, ReportEnd, Tick
<1> QED
  BY <1>1, <1>2, <1>3, <1>4, <1>5, <1>6, <1>7, <1>8 DEF Next

-------------------------------------------------------------------------------
(* What each step does to the records a reader finds.  The steps of a      *)
(* sweep and a purge other than Swap and RemoveLog do not touch the log.   *)

LEMMA Reading ==
  ASSUME TypeOK, Carried, HolderKnows, NEW p \in Procs
  PROVE  /\ OpenAppend(p) \/ WritePart(p) \/ WriteNewline(p) => InLog' = InLog
         /\ WriteBody(p) => InLog' = InLog \cup {proc[p].rec} /\ proc[p].rec \in Records
         /\ Swap(p) => InLog' = Kept(proc[p].at)
         /\ RemoveLog(p) => InLog' = {}
<1> DEFINE s == proc[p]
<1>1. log \in Files \cup {NoFile} /\ NoFile \notin Files
  BY NamesAssumption DEF TypeOK
<1>2. s.pc \in {"write", "part", "body"} => log \in Files
  BY <1>1 DEF TypeOK
<1>3. (s.pc = "write" => log.end = Clean) /\ (s.pc = "part" => log.end = Torn)
  BY DEF HolderKnows, Knows
<1>4. ASSUME OpenAppend(p) PROVE InLog' = InLog
  <2>1. CASE log = NoFile
    <3>1. log' = EmptyFile BY <1>4, <2>1 DEF OpenAppend
    <3> QED BY <1>1, <2>1, <3>1, FileTypes DEF InLog
  <2>2. CASE log # NoFile
    <3>1. log' = Terminated(log) BY <1>4, <2>2 DEF OpenAppend
    <3> QED BY <1>1, <2>2, <3>1, FileTypes DEF InLog
  <2> QED BY <2>1, <2>2
<1>5. ASSUME WritePart(p) PROVE InLog' = InLog
  <2>1. log' = [log EXCEPT !.end = Torn] /\ log \in Files /\ log.end = Clean
    BY <1>2, <1>3, <1>5 DEF WritePart, WriteEnd
  <2>2. log' \in Files
    BY <2>1, FileTypes
  <2>3. Readable(log') = Readable(log)
    BY <2>1, NamesAssumption DEF Readable, Files
  <2> QED BY <1>1, <2>1, <2>2, <2>3 DEF InLog
<1>6. ASSUME WriteNewline(p) PROVE InLog' = InLog
  <2>1. log' = Terminated(log) /\ log \in Files
    BY <1>2, <1>6 DEF WriteNewline
  <2> QED BY <1>1, <2>1, FileTypes DEF InLog
<1>7. ASSUME WriteBody(p) PROVE InLog' = InLog \cup {s.rec} /\ s.rec \in Records
  <2>1. log' = [log EXCEPT !.end = s.rec] /\ log \in Files /\ log.end = Torn
    BY <1>2, <1>3, <1>7 DEF WriteBody, WriteEnd
  <2>2. log' # NoFile
    <3>1. s.rec \in Records
      BY <1>7 DEF WriteBody, WriteEnd, Carried
    <3>2. log' \in Files
      BY <2>1, <3>1, FileTypes
    <3> QED BY <1>1, <3>2
  <2>3. Readable(log') = Readable(log) \cup ({s.rec} \cap Records)
    BY <2>1, NamesAssumption DEF Readable, Files
  <2>4. s.rec \in Records
    BY <1>7 DEF WriteBody, WriteEnd, Carried
  <2> QED BY <1>1, <2>1, <2>2, <2>3, <2>4 DEF InLog
<1>8. ASSUME Swap(p) PROVE InLog' = Kept(s.at)
  <2>1. log' = Holding(Kept(s.at)) /\ Kept(s.at) \in SUBSET Records
    BY <1>8, LogTypes DEF Swap, Replace, Kept, HolderKnows, Knows
  <2> QED BY <1>1, <2>1, FileTypes DEF InLog
<1>9. ASSUME RemoveLog(p) PROVE InLog' = {}
  BY <1>9 DEF RemoveLog, Replace, InLog
<1> QED BY <1>4, <1>5, <1>6, <1>7, <1>8, <1>9

\* The steps that leave the log alone.
LEMMA NotReading ==
  ASSUME NEW p \in Procs,
         \/ \E r \in Records, o \in Appends : BeginAppend(p, r, o)
         \/ BeginPurge(p) \/ Acquire(p)
         \/ OpenSource(p) \/ Copy(p) \/ Mark(p) \/ SwapMarker(p)
         \/ RemoveMarker(p) \/ RemoveTemps(p) \/ Purged(p)
         \/ Fail(p) \/ Crash(p) \/ Report \/ Tick
  PROVE  log' = log /\ InLog' = InLog
BY DEF BeginAppend, BeginPurge, Acquire, OpenSource, Copy, Mark, SwapMarker, RemoveMarker,
       RemoveTemps, Purged, Fail, Crash, Report, ReportOpen, ReportRefused, ReportChecked,
       ReportRead, ReportEnd, Tick, InLog, Readable

LEMMA StampedStep == TypeOK /\ Carried /\ HolderKnows /\ Stamped /\ [Next]_vars => Stamped'
<1> SUFFICES ASSUME TypeOK, Carried, HolderKnows, Stamped, [Next]_vars PROVE Stamped'
  OBVIOUS
<1> USE NamesAssumption DEF Stamped
<1>1. CASE UNCHANGED vars
  BY <1>1 DEF vars, InLog, Readable
<1>2. ASSUME NEW p \in Procs, NEW r \in Records, NEW o \in Appends, BeginAppend(p, r, o) PROVE Stamped'
  BY <1>2, NotReading, LogTypes DEF BeginAppend, TypeOK, NotYet
<1>3. ASSUME NEW p \in Procs, BeginPurge(p) \/ Acquire(p) \/ Fail(p) \/ Crash(p) PROVE Stamped'
  BY <1>3, NotReading DEF BeginPurge, Acquire, Fail, Crash
<1>4. ASSUME NEW p \in Procs, Sweep(p) PROVE Stamped'
  <2>1. CASE Swap(p) BY <2>1, Reading DEF Swap, Kept
  <2>2. CASE OpenSource(p) \/ Copy(p) \/ Mark(p) \/ SwapMarker(p)
    BY <2>2, NotReading DEF OpenSource, Copy, Mark, SwapMarker
  <2> QED BY <1>4, <2>1, <2>2 DEF Sweep
<1>5. ASSUME NEW p \in Procs, AppendLine(p) PROVE Stamped'
  <2>1. CASE WriteBody(p)
    <3>1. stamp[proc[p].rec] = proc[p].at /\ proc[p].at \in Times /\ stamp' = stamp
      BY <2>1 DEF WriteBody, WriteEnd, Carried, TypeOK, States
    <3>2. stamp[proc[p].rec] # NotYet
      BY <3>1, BoundsAssumption DEF NotYet
    <3> QED BY <2>1, <3>1, <3>2, Reading
  <2>2. CASE OpenAppend(p) \/ WritePart(p) \/ WriteNewline(p)
    BY <2>2, Reading DEF OpenAppend, WritePart, WriteEnd, WriteNewline
  <2> QED BY <1>5, <2>1, <2>2 DEF AppendLine
<1>6. ASSUME NEW p \in Procs, Purge(p) PROVE Stamped'
  <2>1. CASE RemoveLog(p) BY <2>1, Reading
  <2>2. CASE RemoveMarker(p) \/ RemoveTemps(p) \/ Purged(p)
    BY <2>2, NotReading DEF RemoveMarker, RemoveTemps, Purged
  <2> QED BY <1>6, <2>1, <2>2 DEF Purge
<1>7. CASE Report
  BY <1>7 DEF Report, ReportOpen, ReportRefused, ReportChecked, ReportRead, ReportEnd, InLog, Readable
<1>8. CASE Tick
  BY <1>8 DEF Tick, InLog, Readable
<1> QED
  BY <1>1, <1>2, <1>3, <1>4, <1>5, <1>6, <1>7, <1>8 DEF Next

\* Two processes are never both at a locked step.
LEMMA OneHolder ==
  TypeOK => \A p, q \in Procs : proc[p].pc \in Locked /\ proc[q].pc \in Locked => p = q
BY DEF TypeOK

\* The holder's own step establishes what the next one relies on; nobody else
\* writes the file meanwhile, and no stamp of a record in the log changes.
LEMMA HolderStep ==
  TypeOK /\ Carried /\ HolderKnows /\ Stamped /\ [Next]_vars => HolderKnows'
<1> SUFFICES ASSUME TypeOK, Carried, HolderKnows, Stamped, [Next]_vars PROVE HolderKnows'
  OBVIOUS
<1> DEFINE Alone(p) == \A q \in Procs \ {p} : proc'[q] = proc[q]
           Same == log' = log /\ \A at \in Times : Kept(at)' = Kept(at)
<1> USE DEF HolderKnows, Knows
<1>0. \A q \in Procs : proc[q] \in States /\ proc[q].at \in Times
  BY DEF TypeOK, States
<1>1. ASSUME log' = log, stamp' = stamp PROVE Same
  BY <1>1 DEF Kept, Expired, InLog, Readable
<1>2. ASSUME Same, proc' = proc PROVE HolderKnows'
  BY <1>0, <1>2
<1>3. ASSUME NEW p \in Procs, Same, Alone(p), proc'[p].pc \notin {"write", "part", "body", "swap"}
      PROVE  HolderKnows'
  BY <1>0, <1>3
<1>4. ASSUME NEW p \in Procs, proc[p].pc \in Locked, Alone(p), Knows(p)' PROVE HolderKnows'
  <2>1. \A q \in Procs \ {p} : proc'[q].pc \notin Locked
    BY <1>4, OneHolder
  <2> QED BY <1>4, <2>1
<1>5. CASE UNCHANGED vars
  BY <1>1, <1>2, <1>5 DEF vars
<1>6. ASSUME NEW p \in Procs, NEW r \in Records, NEW o \in Appends, BeginAppend(p, r, o) PROVE HolderKnows'
  <2>1. Same
    BY <1>6, NotReading, LogTypes DEF BeginAppend, Kept, Expired, Stamped, TypeOK
  <2>2. Alone(p) /\ proc'[p].pc = "wait"
    BY <1>6 DEF BeginAppend, TypeOK, States, Rest
  <2> QED BY <1>3, <2>1, <2>2
<1>7. ASSUME NEW p \in Procs, BeginPurge(p) \/ Acquire(p) \/ Fail(p) \/ Crash(p) PROVE HolderKnows'
  <2>1. Same
    BY <1>1, <1>7 DEF BeginPurge, Acquire, Fail, Crash
  <2>2. Alone(p)
    BY <1>7 DEF BeginPurge, Acquire, Fail, Crash, Goto, Return, TypeOK
  <2>3. proc'[p].pc \in {"wait", "idle", "rmlog", "sweep", "open"}
    <3>1. CASE Acquire(p) BY <3>1 DEF Acquire, Goto, TypeOK, States
    <3>2. CASE BeginPurge(p) BY <3>2 DEF BeginPurge, Rest, TypeOK, States
    <3>3. CASE Fail(p) \/ Crash(p) BY <3>3 DEF Fail, Crash, Return, Rest, TypeOK
    <3> QED BY <1>7, <3>1, <3>2, <3>3
  <2> QED BY <1>3, <2>1, <2>2, <2>3
<1>8. ASSUME NEW p \in Procs, Sweep(p) PROVE HolderKnows'
  <2>1. Alone(p)
    BY <1>8 DEF Sweep, OpenSource, Copy, Swap, Mark, SwapMarker, CreateTemp, DropTemp, Goto, TypeOK
  <2>2. CASE OpenSource(p) \/ Mark(p) \/ SwapMarker(p)
    <3>1. Same
      BY <1>1, <2>2 DEF OpenSource, Mark, SwapMarker
    <3>2. proc'[p].pc \in {"mark", "copy", "markswap", "open"}
      BY <2>2 DEF OpenSource, Mark, SwapMarker, CreateTemp, DropTemp, Goto, TypeOK, States
    <3> QED BY <1>3, <2>1, <3>1, <3>2
  <2>3. CASE Copy(p)
    <3>1. Same
      BY <1>1, <2>3 DEF Copy
    <3>2. CASE Changed(proc[p].at)
      <4>1. /\ proc[p].pc = "copy"
            /\ proc'[p] = Carrying(proc[p], "swap", Kept(proc[p].at))
        BY <2>3, <3>2 DEF Copy, TypeOK
      <4>2. proc'[p].pc = "swap" /\ proc'[p].kept = Kept(proc[p].at) /\ proc'[p].at = proc[p].at
        BY <4>1 DEF Carrying
      <4>3. Knows(p)'
        BY <1>0, <3>1, <4>2
      <4> QED BY <1>4, <2>1, <4>1, <4>3
    <3>3. CASE ~Changed(proc[p].at)
      <4>1. proc'[p].pc = "mark"
        BY <2>3, <3>3 DEF Copy, DropTemp, Goto, TypeOK, States
      <4> QED BY <1>3, <2>1, <3>1, <4>1
    <3> QED BY <3>2, <3>3
  <2>4. CASE Swap(p)
    <3>1. proc[p].pc = "swap" /\ proc'[p].pc = "mark"
      BY <2>4 DEF Swap, Carrying, TypeOK
    <3> QED BY <1>4, <2>1, <3>1
  <2> QED BY <1>8, <2>2, <2>3, <2>4 DEF Sweep
<1>9. ASSUME NEW p \in Procs, AppendLine(p) PROVE HolderKnows'
  <2>1. Alone(p) /\ proc[p].pc \in Locked
    BY <1>9 DEF AppendLine, OpenAppend, WritePart, WriteBody, WriteEnd, WriteNewline, Goto, Return, TypeOK
  <2>2. CASE OpenAppend(p)
    <3>1. proc'[p].pc = "write" /\ log'.end = Clean
      BY <2>2, FileTypes DEF OpenAppend, Goto, TypeOK, States
    <3> QED BY <1>4, <2>1, <3>1
  <2>3. CASE WritePart(p)
    <3>1. proc'[p].pc = "part" /\ log'.end = Torn
      BY <2>3, FileTypes DEF WritePart, WriteEnd, Goto, TypeOK, States
    <3> QED BY <1>4, <2>1, <3>1
  <2>4. CASE WriteBody(p)
    <3>0. proc[p].rec \in Records
      BY <2>4 DEF WriteBody, WriteEnd, Carried
    <3>1. proc'[p].pc = "body" /\ proc'[p].rec = proc[p].rec /\ log'.end = proc[p].rec
      BY <2>4, <3>0, FileTypes DEF WriteBody, WriteEnd, Goto, TypeOK, States
    <3> QED BY <1>4, <2>1, <3>1
  <2>5. CASE WriteNewline(p)
    <3>1. proc'[p].pc = "idle"
      BY <2>5 DEF WriteNewline, Return, Rest, TypeOK
    <3> QED BY <1>4, <2>1, <3>1
  <2> QED BY <1>9, <2>2, <2>3, <2>4, <2>5 DEF AppendLine
<1>10. ASSUME NEW p \in Procs, Purge(p) PROVE HolderKnows'
  <2>1. Alone(p) /\ proc[p].pc \in Locked
    BY <1>10 DEF Purge, RemoveLog, RemoveMarker, RemoveTemps, Purged, Goto, Return, TypeOK
  <2>2. proc'[p].pc \in {"rmmarker", "rmtemps", "clear", "idle"}
    BY <1>10 DEF Purge, RemoveLog, RemoveMarker, RemoveTemps, Purged, Goto, Return, Rest, TypeOK, States
  <2> QED BY <1>4, <2>1, <2>2
<1>11. CASE Report \/ Tick
  <2>1. Same /\ proc' = proc
    BY <1>1, <1>11 DEF Report, ReportOpen, ReportRefused, ReportChecked, ReportRead, ReportEnd, Tick
  <2> QED BY <1>2, <2>1
<1> QED
  BY <1>5, <1>6, <1>7, <1>8, <1>9, <1>10, <1>11 DEF Next

-------------------------------------------------------------------------------
(* The invariant of every run, and the properties it carries. *)

LogInv == TypeOK /\ Carried /\ OneWriter /\ HolderKnows /\ TempThere /\ Stamped

\* In every reachable state the holder of the lock has established what its step
\* relies on, whoever died before it and wherever.
THEOREM LogInvariant == Spec => []LogInv
<1>1. Init => LogInv
  <2> SUFFICES ASSUME Init PROVE LogInv
    OBVIOUS
  <2>1. \A p \in Procs : proc[p] = Rest
    BY DEF Init
  <2>2. InLog = {}
    BY DEF Init, InLog
  <2> QED BY <2>1, <2>2, TypeInit, NamesAssumption, BoundsAssumption
          DEF LogInv, Init, Rest, Carried, OneWriter, HolderKnows, Knows, TempThere, Stamped
<1>2. LogInv /\ [Next]_vars => LogInv'
  BY TypeStep, CarriedStep, OneWriterStep, HolderStep, TempThereStep, StampedStep DEF LogInv
<1> QED BY <1>1, <1>2, PTL DEF Spec

\* Every variable keeps its type, and the lock belongs to the process at a locked
\* step and to nobody else.
THEOREM TypeCorrect == Spec => []TypeOK
BY LogInvariant, PTL DEF LogInv

\* What a purge has removed when.
Removed(p) ==
  /\ proc[p].pc \in {"rmmarker", "rmtemps", "clear"} => log = NoFile
  /\ proc[p].pc \in {"rmtemps", "clear"} => marker = NoMarker
  /\ proc[p].pc = "clear" => temps = 0
Removing == \A p \in Procs : Removed(p)

\* Nobody puts back what a purge has removed while it has the lock.
LEMMA RemovingStep == TypeOK /\ Removing /\ [Next]_vars => Removing'
<1> SUFFICES ASSUME TypeOK, Removing, [Next]_vars PROVE Removing'
  OBVIOUS
<1> DEFINE Alone(p) == \A q \in Procs \ {p} : proc'[q] = proc[q]
           Untouched == log' = log /\ marker' = marker /\ temps' = temps
<1> USE DEF Removing, Removed
<1>1. ASSUME NEW p \in Procs, proc[p].pc \in Locked, Alone(p), Removed(p)' PROVE Removing'
  <2>1. \A q \in Procs \ {p} : proc'[q].pc \notin Locked
    BY <1>1, OneHolder
  <2> QED BY <1>1, <2>1
<1>2. ASSUME NEW p \in Procs, Untouched, Alone(p), proc'[p].pc \notin {"rmmarker", "rmtemps", "clear"}
      PROVE  Removing'
  BY <1>2
<1>3. CASE UNCHANGED vars
  BY <1>3 DEF vars
<1>4. ASSUME NEW p \in Procs, NEW r \in Records, NEW o \in Appends, BeginAppend(p, r, o) PROVE Removing'
  <2>1. Untouched /\ Alone(p) /\ proc'[p].pc = "wait"
    BY <1>4 DEF BeginAppend, TypeOK, Rest
  <2> QED BY <1>2, <2>1
<1>5. ASSUME NEW p \in Procs, BeginPurge(p) PROVE Removing'
  <2>1. Untouched /\ Alone(p) /\ proc'[p].pc = "wait"
    BY <1>5 DEF BeginPurge, TypeOK, Rest
  <2> QED BY <1>2, <2>1
<1>6. ASSUME NEW p \in Procs, Acquire(p) PROVE Removing'
  <2>1. Untouched /\ Alone(p) /\ proc'[p].pc \in {"rmlog", "sweep", "open"}
    BY <1>6 DEF Acquire, Goto, TypeOK, States
  <2> QED BY <1>2, <2>1
<1>7. ASSUME NEW p \in Procs, Sweep(p) PROVE Removing'
  <2>1. Alone(p) /\ proc[p].pc \in Locked
    BY <1>7 DEF Sweep, OpenSource, Copy, Swap, Mark, SwapMarker, CreateTemp, DropTemp, Goto, TypeOK
  <2>2. proc'[p].pc \notin {"rmmarker", "rmtemps", "clear"}
    <3>1. CASE OpenSource(p) BY <3>1 DEF OpenSource, CreateTemp, Goto, TypeOK, States
    <3>2. CASE Copy(p) BY <3>2 DEF Copy, Carrying, DropTemp, Goto, TypeOK, States
    <3>3. CASE Swap(p) BY <3>3 DEF Swap, Carrying, TypeOK
    <3>4. CASE Mark(p) BY <3>4 DEF Mark, CreateTemp, Goto, TypeOK, States
    <3>5. CASE SwapMarker(p) BY <3>5 DEF SwapMarker, DropTemp, Goto, TypeOK, States
    <3> QED BY <1>7, <3>1, <3>2, <3>3, <3>4, <3>5 DEF Sweep
  <2> QED BY <1>1, <2>1, <2>2
<1>8. ASSUME NEW p \in Procs, AppendLine(p) PROVE Removing'
  <2>1. Alone(p) /\ proc[p].pc \in Locked
    BY <1>8 DEF AppendLine, OpenAppend, WritePart, WriteBody, WriteEnd, WriteNewline, Goto, Return, TypeOK
  <2>2. proc'[p].pc \in {"write", "part", "body", "idle"}
    BY <1>8 DEF AppendLine, OpenAppend, WritePart, WriteBody, WriteEnd, WriteNewline, Goto, Return, Rest, TypeOK, States
  <2> QED BY <1>1, <2>1, <2>2
<1>9. ASSUME NEW p \in Procs, Purge(p) PROVE Removing'
  <2>1. Alone(p) /\ proc[p].pc \in Locked
    BY <1>9 DEF Purge, RemoveLog, RemoveMarker, RemoveTemps, Purged, Goto, Return, TypeOK
  <2>2. CASE RemoveLog(p)
    <3>1. proc'[p].pc = "rmmarker" /\ log' = NoFile
      BY <2>2 DEF RemoveLog, Replace, Goto, TypeOK, States
    <3> QED BY <1>1, <2>1, <3>1
  <2>3. CASE RemoveMarker(p)
    <3>1. proc'[p].pc = "rmtemps" /\ marker' = NoMarker /\ log' = NoFile
      BY <2>3 DEF RemoveMarker, Goto, TypeOK, States
    <3> QED BY <1>1, <2>1, <3>1
  <2>4. CASE RemoveTemps(p)
    <3>1. /\ proc'[p].pc = "rmtemps" \/ (proc'[p].pc = "clear" /\ temps' = 0)
          /\ marker' = NoMarker /\ log' = NoFile
      BY <2>4 DEF RemoveTemps, Goto, TypeOK, States
    <3> QED BY <1>1, <2>1, <3>1
  <2>5. CASE Purged(p)
    <3>1. proc'[p].pc = "idle"
      BY <2>5 DEF Purged, Return, Rest, TypeOK
    <3> QED BY <1>1, <2>1, <3>1
  <2> QED BY <1>9, <2>2, <2>3, <2>4, <2>5 DEF Purge
<1>10. ASSUME NEW p \in Procs, Fail(p) PROVE Removing'
  <2>1. Alone(p) /\ proc'[p].pc = "idle"
    BY <1>10 DEF Fail, Return, Rest, TypeOK
  <2>2. CASE proc[p].pc \in Locked
    BY <1>1, <2>1, <2>2
  <2>3. CASE proc[p].pc \notin Locked
    <3>1. Untouched BY <1>10, <2>3 DEF Fail
    <3> QED BY <1>2, <2>1, <3>1
  <2> QED BY <2>2, <2>3
<1>11. ASSUME NEW p \in Procs, Crash(p) PROVE Removing'
  <2>1. Alone(p) /\ proc'[p].pc = "idle" /\ Untouched
    BY <1>11 DEF Crash, Return, Rest, TypeOK
  <2> QED BY <1>2, <2>1
<1>12. CASE Report \/ Tick
  BY <1>12 DEF Report, ReportOpen, ReportRefused, ReportChecked, ReportRead, ReportEnd, Tick
<1> QED
  BY <1>3, <1>4, <1>5, <1>6, <1>7, <1>8, <1>9, <1>10, <1>11, <1>12 DEF Next

\* A purge that succeeds leaves no log, no marker and no temporary file.
THEOREM PurgeCorrect == Spec => []PurgeIsTotal
<1>1. Init => Removing
  BY DEF Init, Removing, Removed, Rest
<1>2. TypeOK /\ Removing => PurgeIsTotal
  BY DEF PurgeIsTotal, Removing, Removed
<1> QED BY <1>1, <1>2, RemovingStep, TypeCorrect, PTL DEF Spec

-------------------------------------------------------------------------------
(* How old the records in the log can be. *)

\* A step that adds a record to the log is its writer's, and no step changes the
\* stamp of a record that is there.
LEMMA OnlyAppends ==
  LogInv /\ [Next]_vars =>
    /\ \A r \in InLog : stamp'[r] = stamp[r]
    /\ InLog' \subseteq InLog \/ \E p \in Procs : WriteBody(p)
<1> SUFFICES ASSUME LogInv, [Next]_vars
             PROVE  /\ \A r \in InLog : stamp'[r] = stamp[r]
                    /\ InLog' \subseteq InLog \/ \E p \in Procs : WriteBody(p)
  OBVIOUS
<1> USE DEF LogInv
<1>1. CASE UNCHANGED vars
  BY <1>1 DEF vars, InLog, Readable
<1>2. ASSUME NEW p \in Procs, NEW r \in Records, NEW o \in Appends, BeginAppend(p, r, o)
      PROVE  (\A i \in InLog : stamp'[i] = stamp[i]) /\ InLog' \subseteq InLog
  BY <1>2, NotReading, LogTypes DEF BeginAppend, Stamped, TypeOK
<1>3. ASSUME NEW p \in Procs, BeginPurge(p) \/ Acquire(p) \/ Fail(p) \/ Crash(p)
      PROVE  stamp' = stamp /\ InLog' \subseteq InLog
  BY <1>3, NotReading DEF BeginPurge, Acquire, Fail, Crash
<1>4. ASSUME NEW p \in Procs, Sweep(p)
      PROVE  stamp' = stamp /\ InLog' \subseteq InLog
  <2>1. CASE Swap(p) BY <2>1, Reading DEF Swap, Kept
  <2>2. CASE OpenSource(p) \/ Copy(p) \/ Mark(p) \/ SwapMarker(p)
    BY <2>2, NotReading DEF OpenSource, Copy, Mark, SwapMarker
  <2> QED BY <1>4, <2>1, <2>2 DEF Sweep
<1>5. ASSUME NEW p \in Procs, AppendLine(p)
      PROVE  stamp' = stamp /\ (InLog' \subseteq InLog \/ WriteBody(p))
  BY <1>5, Reading DEF AppendLine, OpenAppend, WritePart, WriteBody, WriteEnd, WriteNewline
<1>6. ASSUME NEW p \in Procs, Purge(p)
      PROVE  stamp' = stamp /\ InLog' \subseteq InLog
  <2>1. CASE RemoveLog(p) BY <2>1, Reading DEF RemoveLog
  <2>2. CASE RemoveMarker(p) \/ RemoveTemps(p) \/ Purged(p)
    BY <2>2, NotReading DEF RemoveMarker, RemoveTemps, Purged
  <2> QED BY <1>6, <2>1, <2>2 DEF Purge
<1>7. CASE Report \/ Tick
  BY <1>7 DEF Report, ReportOpen, ReportRefused, ReportChecked, ReportRead, ReportEnd, Tick, InLog, Readable
<1> QED
  BY <1>1, <1>2, <1>3, <1>4, <1>5, <1>6, <1>7 DEF Next

\* The log was swept by the time in its marker.
MarkerSwept ==
  marker # NoMarker => marker <= now /\ \A r \in InLog : marker <= stamp[r] + Retention

\* How old a record can be while a process sweeps, and while it appends.
Window(p) ==
  /\ proc[p].pc \in {"mark", "markswap"} => \A r \in InLog : proc[p].at <= stamp[r] + Retention
  /\ proc[p].op = "append" /\ proc[p].pc \in WritePcs =>
       \A r \in InLog : proc[p].at < stamp[r] + Retention + Interval
Windows == \A p \in Procs : Window(p)

LEMMA MarkerStep == LogInv /\ MarkerSwept /\ Windows /\ [Next]_vars => MarkerSwept'
<1> SUFFICES ASSUME LogInv, MarkerSwept, Windows, [Next]_vars PROVE MarkerSwept'
  OBVIOUS
<1>1. /\ now \in Nat /\ now' \in Nat /\ now <= now' /\ marker \in Int
      /\ \A r \in Records : stamp[r] \in Int
  <2>1. now' = now \/ now' = now + 1
    BY DEF Next, vars, BeginAppend, BeginPurge, Acquire, Sweep, OpenSource, Copy, Swap, Mark, SwapMarker,
           AppendLine, OpenAppend, WritePart, WriteBody, WriteEnd, WriteNewline, Purge, RemoveLog,
           RemoveMarker, RemoveTemps, Purged, Fail, Crash, Report, ReportOpen, ReportRefused,
           ReportChecked, ReportRead, ReportEnd, Tick
  <2> QED BY <2>1, BoundsAssumption DEF LogInv, TypeOK, NoMarker, NotYet
<1>2. CASE \E p \in Procs : SwapMarker(p)
  <2> PICK p \in Procs : SwapMarker(p)
    BY <1>2
  <2>1. marker' = proc[p].at /\ proc[p].pc = "markswap" /\ stamp' = stamp /\ InLog' = InLog /\ now' = now
    BY NotReading DEF SwapMarker
  <2> QED BY <2>1 DEF LogInv, Carried, Windows, Window, MarkerSwept
<1>3. CASE \E p \in Procs : RemoveMarker(p)
  BY <1>3 DEF RemoveMarker, MarkerSwept
<1>4. CASE \E p \in Procs : WriteBody(p)
  <2> PICK p \in Procs : WriteBody(p)
    BY <1>4
  <2> DEFINE r == proc[p].rec
  <2>1. marker' = marker /\ stamp' = stamp /\ now' = now /\ InLog' = InLog \cup {r} /\ r \in Records
    BY Reading DEF WriteBody, WriteEnd, LogInv
  <2>2. stamp[r] = proc[p].at /\ proc[p].at \in Int /\ now <= proc[p].at + 1
    BY BoundsAssumption DEF WriteBody, WriteEnd, LogInv, Carried, TypeOK, States
  <2>3. now <= stamp[r] + Retention
    BY <1>1, <2>2, BoundsAssumption
  <2> HIDE DEF r
  <2> QED BY <1>1, <2>1, <2>3, LogTypes, BoundsAssumption DEF MarkerSwept, LogInv
<1>5. CASE ~\E p \in Procs : SwapMarker(p) \/ RemoveMarker(p) \/ WriteBody(p)
  <2>1. marker' = marker
    BY <1>5 DEF Next, vars, BeginAppend, BeginPurge, Acquire, Sweep, OpenSource, Copy, Swap, Mark,
           AppendLine, OpenAppend, WritePart, WriteEnd, WriteNewline, Purge, RemoveLog,
           RemoveTemps, Purged, Fail, Crash, Report, ReportOpen, ReportRefused,
           ReportChecked, ReportRead, ReportEnd, Tick
  <2>2. InLog' \subseteq InLog /\ \A r \in InLog : stamp'[r] = stamp[r]
    BY <1>5, OnlyAppends
  <2> QED BY <1>1, <2>1, <2>2 DEF MarkerSwept
<1> QED BY <1>2, <1>3, <1>4, <1>5

LEMMA WindowStep == LogInv /\ MarkerSwept /\ Windows /\ [Next]_vars => Windows'
<1> SUFFICES ASSUME LogInv, MarkerSwept, Windows, [Next]_vars PROVE Windows'
  OBVIOUS
<1> DEFINE Alone(p) == \A q \in Procs \ {p} : proc'[q] = proc[q]
           Shrinks == InLog' \subseteq InLog /\ \A r \in InLog : stamp'[r] = stamp[r]
<1> USE DEF LogInv
<1>0. /\ \A q \in Procs : proc[q] \in States /\ proc[q].at \in Int
      /\ marker \in Int /\ \A r \in InLog : r \in Records /\ stamp[r] \in Int
  BY LogTypes, BoundsAssumption DEF TypeOK, States, NoMarker, NotYet
<1>1. ASSUME NEW p \in Procs, Shrinks, Alone(p), Window(p)' PROVE Windows'
  BY <1>1 DEF Windows, Window
<1>2. ASSUME NEW p \in Procs, proc[p].pc \in Locked, Alone(p), Window(p)' PROVE Windows'
  <2>1. \A q \in Procs \ {p} : proc'[q].pc \notin Locked
    BY <1>2, OneHolder
  <2> QED BY <1>2, <2>1 DEF Windows, Window
<1>3. ASSUME NEW p \in Procs, proc'[p].pc \notin {"mark", "markswap"} \cup WritePcs PROVE Window(p)'
  BY <1>3 DEF Window
<1>4. CASE UNCHANGED vars
  BY <1>4 DEF vars, Windows, Window, InLog, Readable
<1>5. ASSUME NEW p \in Procs, NEW r \in Records, NEW o \in Appends, BeginAppend(p, r, o) PROVE Windows'
  <2>1. Alone(p) /\ proc'[p].pc = "wait"
    BY <1>5 DEF BeginAppend, TypeOK, Rest
  <2>2. Shrinks
    BY <1>5, NotReading, LogTypes DEF BeginAppend, Stamped, TypeOK
  <2> QED BY <1>1, <1>3, <2>1, <2>2
<1>6. ASSUME NEW p \in Procs, BeginPurge(p) PROVE Windows'
  <2>1. Alone(p) /\ proc'[p].pc = "wait"
    BY <1>6 DEF BeginPurge, TypeOK, Rest
  <2>2. Shrinks
    BY <1>6, NotReading DEF BeginPurge
  <2> QED BY <1>1, <1>3, <2>1, <2>2
<1>7. ASSUME NEW p \in Procs, Acquire(p) PROVE Windows'
  <2>1. Alone(p) /\ proc'[p].pc \in {"rmlog", "sweep", "open"}
    BY <1>7 DEF Acquire, Goto, TypeOK, States
  <2>2. Shrinks /\ stamp' = stamp /\ InLog' = InLog
    BY <1>7, NotReading DEF Acquire
  <2>3. /\ proc'[p].op = proc[p].op /\ proc'[p].at = proc[p].at
        /\ proc'[p].pc = "open" /\ proc[p].op = "append" => ~PruneIsDue(proc[p].at)
    BY <1>7 DEF Acquire, Goto, TypeOK, States
  <2>4. ASSUME proc'[p].pc = "open", proc[p].op = "append", NEW r \in InLog
        PROVE  proc[p].at < stamp[r] + Retention + Interval
    BY <1>0, <2>3, <2>4, BoundsAssumption DEF PruneIsDue, MarkerSwept
  <2>5. Window(p)'
    BY <2>1, <2>2, <2>3, <2>4 DEF Window
  <2> QED BY <1>1, <2>1, <2>2, <2>5
<1>8. ASSUME NEW p \in Procs, Sweep(p) PROVE Windows'
  <2>1. Alone(p) /\ proc[p].pc \in Locked /\ stamp' = stamp /\ proc'[p].at = proc[p].at
    <3>1. CASE OpenSource(p) BY <3>1 DEF OpenSource, CreateTemp, Goto, TypeOK, States
    <3>2. CASE Copy(p) BY <3>2 DEF Copy, Carrying, DropTemp, Goto, TypeOK, States
    <3>3. CASE Swap(p) BY <3>3 DEF Swap, Carrying, TypeOK
    <3>4. CASE Mark(p) BY <3>4 DEF Mark, CreateTemp, Goto, TypeOK, States
    <3>5. CASE SwapMarker(p) BY <3>5 DEF SwapMarker, DropTemp, Goto, TypeOK, States
    <3> QED BY <1>8, <3>1, <3>2, <3>3, <3>4, <3>5 DEF Sweep
  <2>2. CASE OpenSource(p)
    <3>1. proc'[p].pc = "copy" \/ (proc'[p].pc = "mark" /\ InLog' = {})
      BY <2>2 DEF OpenSource, CreateTemp, Goto, TypeOK, States, InLog
    <3> QED BY <1>2, <2>1, <3>1 DEF Window
  <2>3. CASE Copy(p)
    <3>1. proc'[p].pc = "swap" \/ (proc'[p].pc = "mark" /\ ~Changed(proc[p].at))
      BY <2>3 DEF Copy, Carrying, DropTemp, Goto, TypeOK, States
    <3>2. InLog' = InLog
      BY <2>3, NotReading
    <3>3. ASSUME ~Changed(proc[p].at) PROVE InLog = Kept(proc[p].at)
      <4>1. log = Holding(Kept(proc[p].at)) /\ Kept(proc[p].at) \in SUBSET Records
        BY <3>3, LogTypes DEF Changed, Kept
      <4>2. Holding(Kept(proc[p].at)) \in Files
        BY <4>1, FileTypes
      <4> QED BY <4>1, <4>2, FileTypes, NamesAssumption DEF InLog
    <3>4. ASSUME proc'[p].pc = "mark", NEW r \in InLog PROVE proc[p].at <= stamp[r] + Retention
      BY <1>0, <3>1, <3>3, <3>4, BoundsAssumption DEF Kept, Expired
    <3>5. Window(p)'
      BY <2>1, <3>1, <3>2, <3>4 DEF Window
    <3> QED BY <1>2, <2>1, <3>5
  <2>4. CASE Swap(p)
    <3>1. proc'[p].pc = "mark" /\ InLog' = Kept(proc[p].at)
      BY <2>4, Reading DEF Swap, Carrying, TypeOK
    <3>2. ASSUME NEW r \in Kept(proc[p].at) PROVE proc[p].at <= stamp[r] + Retention
      BY <1>0, <3>2, BoundsAssumption DEF Kept, Expired
    <3>3. Window(p)'
      BY <2>1, <3>1, <3>2 DEF Window
    <3> QED BY <1>2, <2>1, <3>3
  <2>5. CASE Mark(p)
    <3>1. proc'[p].pc = "markswap" /\ proc[p].pc = "mark" /\ InLog' = InLog
      BY <2>5, NotReading DEF Mark, CreateTemp, Goto, TypeOK, States
    <3>2. Window(p)'
      BY <2>1, <3>1 DEF Windows, Window
    <3> QED BY <1>2, <2>1, <3>2
  <2>6. CASE SwapMarker(p)
    <3>1. proc'[p].pc = "open" /\ proc[p].pc = "markswap" /\ InLog' = InLog
      BY <2>6, NotReading DEF SwapMarker, DropTemp, Goto, TypeOK, States
    <3>2. ASSUME NEW r \in InLog PROVE proc[p].at < stamp[r] + Retention + Interval
      BY <1>0, <3>1, BoundsAssumption DEF Windows, Window
    <3>3. Window(p)'
      BY <2>1, <3>1, <3>2 DEF Window
    <3> QED BY <1>2, <2>1, <3>3
  <2> QED BY <1>8, <2>2, <2>3, <2>4, <2>5, <2>6 DEF Sweep
<1>9. ASSUME NEW p \in Procs, AppendLine(p) PROVE Windows'
  <2>1. /\ Alone(p) /\ proc[p].pc \in WritePcs /\ stamp' = stamp
        /\ \/ proc'[p].pc = "idle"
           \/ proc'[p].op = proc[p].op /\ proc'[p].at = proc[p].at /\ proc'[p].pc \in WritePcs
    BY <1>9 DEF AppendLine, OpenAppend, WritePart, WriteBody, WriteEnd, WriteNewline, Goto, Return, Rest, TypeOK, States
  <2>2. CASE InLog' = InLog
    <3>1. Window(p)'
      BY <2>1, <2>2 DEF Windows, Window
    <3> QED BY <1>2, <2>1, <3>1
  <2>3. CASE WriteBody(p)
    <3> DEFINE r == proc[p].rec
    <3>1. InLog' = InLog \cup {r} /\ r \in Records /\ stamp[r] = proc[p].at
      BY <2>3, Reading DEF WriteBody, WriteEnd, Carried
    <3>2. proc[p].at < stamp[r] + Retention + Interval
      BY <1>0, <3>1, BoundsAssumption
    <3> HIDE DEF r
    <3>3. Window(p)'
      BY <2>1, <3>1, <3>2 DEF Windows, Window
    <3> QED BY <1>2, <2>1, <3>3
  <2> QED BY <1>9, <2>2, <2>3, Reading DEF AppendLine
<1>10. ASSUME NEW p \in Procs, Purge(p) PROVE Windows'
  <2>1. Alone(p) /\ proc[p].pc \in Locked
    BY <1>10 DEF Purge, RemoveLog, RemoveMarker, RemoveTemps, Purged, Goto, Return, TypeOK
  <2>2. proc'[p].pc \in {"rmmarker", "rmtemps", "clear", "idle"}
    BY <1>10 DEF Purge, RemoveLog, RemoveMarker, RemoveTemps, Purged, Goto, Return, Rest, TypeOK, States
  <2> QED BY <1>2, <1>3, <2>1, <2>2
<1>11. ASSUME NEW p \in Procs, Fail(p) \/ Crash(p) PROVE Windows'
  <2>1. Alone(p) /\ proc'[p].pc = "idle"
    BY <1>11 DEF Fail, Crash, Return, Rest, TypeOK
  <2>2. Shrinks
    BY <1>11, NotReading DEF Fail, Crash
  <2> QED BY <1>1, <1>3, <2>1, <2>2
<1>12. CASE Report \/ Tick
  BY <1>12 DEF Report, ReportOpen, ReportRefused, ReportChecked, ReportRead, ReportEnd, Tick,
               Windows, Window, InLog, Readable
<1> QED
  BY <1>4, <1>5, <1>6, <1>7, <1>8, <1>9, <1>10, <1>11, <1>12 DEF Next

\* When an ordinary append writes its line, no record in the log is older than the
\* retention window and one sweep interval.
THEOREM RetentionCorrect == Spec => []RetentionHeld
<1>1. Init => MarkerSwept /\ Windows
  BY DEF Init, MarkerSwept, Windows, Window, Rest
<1>2. LogInv /\ MarkerSwept /\ Windows /\ [Next]_vars => (MarkerSwept /\ Windows)'
  BY MarkerStep, WindowStep
<1>3. Windows => RetentionHeld
  BY DEF Windows, Window, RetentionHeld
<1> QED BY <1>1, <1>2, <1>3, LogInvariant, PTL DEF Spec

-------------------------------------------------------------------------------
(* Temporary files. *)

InUse == IF \E p \in Procs : proc[p].pc \in WithTemp THEN 1 ELSE 0
Orphans == temps <= crashes + InUse

LEMMA OrphanStep == LogInv /\ Orphans /\ [Next]_vars => Orphans'
<1> SUFFICES ASSUME LogInv, Orphans, [Next]_vars PROVE Orphans'
  OBVIOUS
<1> DEFINE Alone(p) == \A q \in Procs \ {p} : proc'[q] = proc[q]
<1> USE DEF LogInv, Orphans, InUse
<1>0. temps \in Nat /\ crashes \in Nat
  BY BoundsAssumption DEF TypeOK
<1>1. ASSUME NEW p \in Procs, proc[p].pc \in Locked, Alone(p), crashes' = crashes,
             temps' <= crashes + (IF proc'[p].pc \in WithTemp THEN 1 ELSE 0)
      PROVE  Orphans'
  <2>1. \A q \in Procs \ {p} : proc'[q].pc \notin WithTemp
    BY <1>1, OneHolder
  <2> QED BY <1>0, <1>1, <2>1
<1>2. ASSUME NEW p \in Procs, proc[p].pc \in Locked
      PROVE  temps <= crashes + (IF proc[p].pc \in WithTemp THEN 1 ELSE 0)
  <2>1. \A q \in Procs \ {p} : proc[q].pc \notin WithTemp
    BY <1>2, OneHolder
  <2> QED BY <1>0, <2>1
<1>3. ASSUME NEW p \in Procs, proc[p].pc \notin WithTemp, proc'[p].pc \notin WithTemp, Alone(p),
             temps' = temps, crashes' = crashes
      PROVE  Orphans'
  BY <1>0, <1>3
<1>4. CASE UNCHANGED vars
  BY <1>4 DEF vars
<1>5. ASSUME NEW p \in Procs, NEW r \in Records, NEW o \in Appends, BeginAppend(p, r, o) PROVE Orphans'
  <2>1. Alone(p) /\ proc[p].pc = "idle" /\ proc'[p].pc = "wait" /\ temps' = temps /\ crashes' = crashes
    BY <1>5 DEF BeginAppend, TypeOK, Rest
  <2> QED BY <1>3, <2>1
<1>6. ASSUME NEW p \in Procs, BeginPurge(p) PROVE Orphans'
  <2>1. Alone(p) /\ proc[p].pc = "idle" /\ proc'[p].pc = "wait" /\ temps' = temps /\ crashes' = crashes
    BY <1>6 DEF BeginPurge, TypeOK, Rest
  <2> QED BY <1>3, <2>1
<1>7. ASSUME NEW p \in Procs, Acquire(p) PROVE Orphans'
  <2>1. /\ Alone(p) /\ proc[p].pc = "wait" /\ proc'[p].pc \in {"rmlog", "sweep", "open"}
        /\ temps' = temps /\ crashes' = crashes
    BY <1>7 DEF Acquire, Goto, TypeOK, States
  <2> QED BY <1>3, <2>1
<1>8. ASSUME NEW p \in Procs, Sweep(p) PROVE Orphans'
  <2>1. /\ Alone(p) /\ proc[p].pc \in SweepPcs /\ crashes' = crashes
        /\ \/ proc[p].pc \notin WithTemp /\ proc'[p].pc \in WithTemp /\ temps' = temps + 1
           \/ proc[p].pc \in WithTemp /\ proc'[p].pc \notin WithTemp /\ temps' = temps - 1
           \/ (proc[p].pc \in WithTemp <=> proc'[p].pc \in WithTemp) /\ temps' = temps
    <3>1. CASE OpenSource(p) BY <3>1 DEF OpenSource, CreateTemp, Goto, TypeOK, States
    <3>2. CASE Copy(p) BY <3>2 DEF Copy, Carrying, DropTemp, Goto, TypeOK, States
    <3>3. CASE Swap(p) BY <3>3 DEF Swap, Carrying, TypeOK
    <3>4. CASE Mark(p) BY <3>4 DEF Mark, CreateTemp, Goto, TypeOK, States
    <3>5. CASE SwapMarker(p) BY <3>5 DEF SwapMarker, DropTemp, Goto, TypeOK, States
    <3> QED BY <1>8, <3>1, <3>2, <3>3, <3>4, <3>5 DEF Sweep
  <2>2. temps' <= crashes + (IF proc'[p].pc \in WithTemp THEN 1 ELSE 0)
    BY <1>0, <1>2, <2>1
  <2> QED BY <1>1, <2>1, <2>2
<1>9. ASSUME NEW p \in Procs, AppendLine(p) PROVE Orphans'
  <2>1. /\ Alone(p) /\ proc[p].pc \in WritePcs /\ proc'[p].pc \notin WithTemp
        /\ temps' = temps /\ crashes' = crashes
    BY <1>9 DEF AppendLine, OpenAppend, WritePart, WriteBody, WriteEnd, WriteNewline, Goto, Return, Rest, TypeOK, States
  <2> QED BY <1>3, <2>1
<1>10. ASSUME NEW p \in Procs, Purge(p) PROVE Orphans'
  <2>1. /\ Alone(p) /\ proc[p].pc \in PurgePcs /\ proc'[p].pc \notin WithTemp
        /\ temps' \in {temps, temps - 1} /\ crashes' = crashes
    BY <1>10 DEF Purge, RemoveLog, RemoveMarker, RemoveTemps, Purged, Goto, Return, Rest, TypeOK, States
  <2>2. temps' <= crashes
    BY <1>0, <1>2, <2>1
  <2> QED BY <1>0, <1>1, <2>1, <2>2
<1>11. ASSUME NEW p \in Procs, Fail(p) PROVE Orphans'
  <2>1. Alone(p) /\ proc'[p].pc = "idle" /\ crashes' = crashes
    BY <1>11 DEF Fail, Return, Rest, TypeOK
  <2>2. CASE proc[p].pc \in WithTemp
    <3>1. temps' <= crashes
      BY <1>0, <1>2, <1>11, <2>2 DEF Fail
    <3> QED BY <1>0, <1>1, <2>1, <2>2, <3>1
  <2>3. CASE proc[p].pc \notin WithTemp
    BY <1>3, <1>11, <2>1, <2>3 DEF Fail
  <2> QED BY <2>2, <2>3
<1>12. ASSUME NEW p \in Procs, Crash(p) PROVE Orphans'
  <2>1. proc[p].pc \in Locked /\ temps' = temps /\ crashes' = crashes + 1
    BY <1>12 DEF Crash
  <2>2. temps' <= crashes'
    BY <1>0, <1>2, <2>1
  <2> QED BY <1>0, <2>1, <2>2
<1>13. CASE Report \/ Tick
  BY <1>13 DEF Report, ReportOpen, ReportRefused, ReportChecked, ReportRead, ReportEnd, Tick
<1> QED
  BY <1>4, <1>5, <1>6, <1>7, <1>8, <1>9, <1>10, <1>11, <1>12, <1>13 DEF Next

\* Temporary files do not pile up: besides the one in use there is at most one for
\* each process that died.
THEOREM OrphansCorrect == Spec => []OrphansOnlyByCrash
<1>1. Init => Orphans
  BY DEF Init, Orphans, InUse
<1>2. LogInv /\ Orphans => OrphansOnlyByCrash
  <2> SUFFICES ASSUME LogInv, Orphans PROVE OrphansOnlyByCrash
    OBVIOUS
  <2> DEFINE W == {p \in Procs : proc[p].pc \in WithTemp}
  <2>1. CASE W = {}
    BY <2>1, FS_EmptySet DEF Orphans, InUse, OrphansOnlyByCrash
  <2>2. CASE W # {}
    <3>1. PICK p : p \in W
      BY <2>2
    <3>2. W = {p}
      BY <3>1, OneHolder DEF LogInv
    <3>3. Cardinality(W) = 1
      BY <3>2, FS_Singleton
    <3> QED BY <3>1, <3>3 DEF Orphans, InUse, OrphansOnlyByCrash
  <2> QED BY <2>1, <2>2
<1> QED BY <1>1, <1>2, OrphanStep, LogInvariant, PTL DEF Spec

-------------------------------------------------------------------------------
(* The report. *)

\* What an open report still finds.
View == IF report.old = NoFile THEN InLog ELSE Readable(report.old)
StillThere == report.pc = "read" => report.left \subseteq View

LEMMA ViewStep == LogInv /\ StillThere /\ [Next]_vars => StillThere'
<1> SUFFICES ASSUME LogInv, StillThere, [Next]_vars PROVE StillThere'
  OBVIOUS
<1> USE DEF LogInv
<1>1. ASSUME report' = report, InLog \subseteq InLog' PROVE StillThere'
  BY <1>1 DEF StillThere, View, Readable
<1>2. ASSUME NEW new, Replace(new) PROVE StillThere'
  <2>1. CASE report.pc = "idle" \/ report.old # NoFile
    BY <1>2, <2>1 DEF Replace, StillThere, View, Readable
  <2>2. CASE report.pc # "idle" /\ report.old = NoFile
    <3>1. /\ report'.pc = report.pc /\ report'.left = report.left /\ report'.old = log
      BY <1>2, <2>2 DEF Replace, TypeOK
    <3>2. CASE log = NoFile
      BY <2>2, <3>1, <3>2 DEF StillThere, View, InLog
    <3>3. CASE log # NoFile
      BY <2>2, <3>1, <3>3 DEF StillThere, View, InLog, Readable
    <3> QED BY <3>2, <3>3
  <2> QED BY <2>1, <2>2
<1>3. CASE UNCHANGED vars
  BY <1>1, <1>3 DEF vars, InLog, Readable
<1>4. ASSUME NEW p \in Procs,
             (\E r \in Records, o \in Appends : BeginAppend(p, r, o)) \/ BeginPurge(p) \/ Acquire(p) \/ Fail(p) \/ Crash(p)
      PROVE  StillThere'
  BY <1>1, <1>4, NotReading DEF BeginAppend, BeginPurge, Acquire, Fail, Crash
<1>5. ASSUME NEW p \in Procs, Sweep(p) PROVE StillThere'
  <2>1. CASE Swap(p) BY <1>2, <2>1 DEF Swap
  <2>2. CASE OpenSource(p) \/ Copy(p) \/ Mark(p) \/ SwapMarker(p)
    BY <1>1, <2>2, NotReading DEF OpenSource, Copy, Mark, SwapMarker
  <2> QED BY <1>5, <2>1, <2>2 DEF Sweep
<1>6. ASSUME NEW p \in Procs, AppendLine(p) PROVE StillThere'
  BY <1>1, <1>6, Reading DEF AppendLine, OpenAppend, WritePart, WriteBody, WriteEnd, WriteNewline
<1>7. ASSUME NEW p \in Procs, Purge(p) PROVE StillThere'
  <2>1. CASE RemoveLog(p) BY <1>2, <2>1 DEF RemoveLog
  <2>2. CASE RemoveMarker(p) \/ RemoveTemps(p) \/ Purged(p)
    BY <1>1, <2>2, NotReading DEF RemoveMarker, RemoveTemps, Purged
  <2> QED BY <1>7, <2>1, <2>2 DEF Purge
<1>8. CASE Report
  <2>1. CASE ReportOpen \/ ReportRefused \/ ReportEnd
    BY <2>1 DEF ReportOpen, ReportRefused, ReportEnd, NoReport, StillThere
  <2>2. CASE ReportChecked
    <3>1. InLog' = InLog
      BY <2>2 DEF ReportChecked, InLog, Readable
    <3>2. report'.old = NoFile /\ report'.left = InLog
      BY <2>2 DEF ReportChecked, TypeOK
    <3> QED BY <3>1, <3>2 DEF StillThere, View
  <2>3. CASE ReportRead
    <3>1. InLog' = InLog
      BY <2>3 DEF ReportRead, InLog, Readable
    <3>2. report'.old = report.old /\ report'.left \subseteq report.left /\ report.pc = "read"
      BY <2>3 DEF ReportRead, TypeOK
    <3> QED BY <3>1, <3>2 DEF StillThere, View, Readable
  <2> QED BY <1>8, <2>1, <2>2, <2>3 DEF Report
<1>9. CASE Tick
  BY <1>1, <1>9 DEF Tick, InLog, Readable
<1> QED
  BY <1>3, <1>4, <1>5, <1>6, <1>7, <1>8, <1>9 DEF Next

\* A report counts every record that was in the log when it began to read, also when
\* the log is swept or purged under it.
THEOREM ReportCorrect == Spec => ReportComplete
<1>1. Init => StillThere
  BY DEF Init, NoReport, StillThere
<1>2. LogInv /\ StillThere /\ [Next]_vars =>
        [report.pc = "read" /\ report'.pc = "idle" => report.left = {}]_vars
  <2> SUFFICES ASSUME LogInv, StillThere, [Next]_vars, report.pc = "read", report'.pc = "idle"
               PROVE  report.left = {}
    OBVIOUS
  <2>1. ASSUME NEW new, Replace(new) PROVE report'.pc = report.pc
    BY <2>1 DEF Replace, LogInv, TypeOK
  <2>2. Report
    BY <2>1 DEF Next, vars, BeginAppend, BeginPurge, Acquire, Sweep, OpenSource, Copy, Swap, Mark,
           SwapMarker, AppendLine, OpenAppend, WritePart, WriteBody, WriteEnd, WriteNewline, Purge,
           RemoveLog, RemoveMarker, RemoveTemps, Purged, Fail, Crash, Tick
  <2>3. ReportEnd
    BY <2>2 DEF Report, ReportOpen, ReportRefused, ReportChecked, ReportRead, LogInv, TypeOK
  <2> QED BY <2>3 DEF ReportEnd, Unread, StillThere, View
<1> QED BY <1>1, <1>2, ViewStep, LogInvariant, PTL DEF Spec, ReportComplete

-------------------------------------------------------------------------------
(* The log keeps the promise of RecordLog. *)

Pending(p) == proc[p].op \in Appends /\ proc[p].pc # "body"

\* A process's step adds at most its own record to the pending ones, or takes it out.
LEMMA PendingChanges ==
  ASSUME LogInv, NEW p \in Procs, \A q \in Procs \ {p} : proc'[q] = proc[q]
  PROVE  /\ ~Pending(p)' /\ ~Pending(p) => Unwritten' = Unwritten
         /\ ~Pending(p)' /\ Pending(p) =>
              Unwritten' = Unwritten \ {proc[p].rec} /\ proc[p].rec \in Unwritten
         /\ Pending(p)' /\ Pending(p) /\ proc'[p].rec = proc[p].rec => Unwritten' = Unwritten
         /\ Pending(p)' /\ ~Pending(p) => Unwritten' = Unwritten \cup {proc'[p].rec}
<1> USE DEF Pending, Unwritten
<1>1. \A q \in Procs \ {p} : /\ Pending(q)' = Pending(q) /\ proc'[q].rec = proc[q].rec
                            /\ Pending(p) /\ Pending(q) => proc[q].rec # proc[p].rec
  BY DEF LogInv, Carried, OneWriter
<1>2. ASSUME ~Pending(p)', ~Pending(p) PROVE Unwritten' = Unwritten
  BY <1>1, <1>2
<1>3. ASSUME ~Pending(p)', Pending(p)
      PROVE  Unwritten' = Unwritten \ {proc[p].rec} /\ proc[p].rec \in Unwritten
  BY <1>1, <1>3
<1>4. ASSUME Pending(p)', Pending(p), proc'[p].rec = proc[p].rec PROVE Unwritten' = Unwritten
  BY <1>1, <1>4
<1>5. ASSUME Pending(p)', ~Pending(p) PROVE Unwritten' = Unwritten \cup {proc'[p].rec}
  BY <1>1, <1>5
<1> QED BY <1>2, <1>3, <1>4, <1>5

\* Every step of the log is a step of the promise, or none.
LEMMA PromiseStep == LogInv /\ [Next]_vars => [Promise!Next]_(Promise!rvars)
<1> SUFFICES ASSUME LogInv, [Next]_vars PROVE Promise!Next \/ UNCHANGED Promise!rvars
  OBVIOUS
<1> DEFINE Alone(p) == \A q \in Procs \ {p} : proc'[q] = proc[q]
<1> USE DEF LogInv
<1>1. ASSUME NEW p \in Procs, Alone(p), Pending(p)' <=> Pending(p),
             Pending(p) => proc'[p].rec = proc[p].rec
      PROVE  Unwritten' = Unwritten
  BY <1>1, PendingChanges
<1>2. CASE UNCHANGED vars
  BY <1>2 DEF vars, Promise!rvars, Unwritten, InLog, Readable
<1>3. ASSUME NEW p \in Procs, NEW r \in Records, NEW o \in Appends, BeginAppend(p, r, o)
      PROVE  Promise!Submit(r)
  <2>1. /\ Alone(p) /\ ~Pending(p) /\ Pending(p)' /\ proc'[p].rec = r
    <3>1. proc[p].pc = "idle" /\ proc[p].op = "none"
      BY <1>3 DEF BeginAppend, Carried
    <3>2. proc'[p] = [Rest EXCEPT !.pc = "wait", !.op = o, !.at = now, !.rec = r] /\ Alone(p)
      BY <1>3 DEF BeginAppend, TypeOK
    <3>3. proc'[p].pc = "wait" /\ proc'[p].op = o /\ proc'[p].rec = r
      BY <3>2 DEF Rest
    <3> QED BY <3>1, <3>2, <3>3 DEF Pending
  <2>2. Unwritten' = Unwritten \cup {r}
    BY <2>1, PendingChanges
  <2>3. InLog' = InLog
    BY <1>3, NotReading
  <2> QED BY <1>3, <2>2, <2>3 DEF BeginAppend, Promise!Submit, Promise!NotYet, NotYet
<1>4. ASSUME NEW p \in Procs, BeginPurge(p) PROVE UNCHANGED Promise!rvars
  <2>1. Alone(p) /\ ~Pending(p)
    BY <1>4 DEF BeginPurge, TypeOK, Pending, Carried
  <2>2. ~Pending(p)'
    <3>1. proc'[p] = [Rest EXCEPT !.pc = "wait", !.op = "purge", !.at = now]
      BY <1>4 DEF BeginPurge, TypeOK
    <3> QED BY <3>1 DEF Pending, Rest
  <2> QED BY <1>1, <1>4, <2>1, <2>2, NotReading DEF BeginPurge, Promise!rvars
<1>5. ASSUME NEW p \in Procs, Acquire(p) PROVE UNCHANGED Promise!rvars
  <2>1. Alone(p) /\ (Pending(p)' <=> Pending(p)) /\ proc'[p].rec = proc[p].rec
    BY <1>5 DEF Acquire, Goto, TypeOK, States, Pending
  <2> QED BY <1>1, <1>5, <2>1, NotReading DEF Acquire, Promise!rvars
<1>6. ASSUME NEW p \in Procs, Sweep(p) PROVE Promise!Expire \/ UNCHANGED Promise!rvars
  <2>1. Alone(p) /\ (Pending(p)' <=> Pending(p)) /\ proc'[p].rec = proc[p].rec
    <3>1. CASE OpenSource(p) BY <3>1 DEF OpenSource, CreateTemp, Goto, TypeOK, States, Pending
    <3>2. CASE Copy(p) BY <3>2 DEF Copy, Carrying, DropTemp, Goto, TypeOK, States, Pending
    <3>3. CASE Swap(p) BY <3>3 DEF Swap, Carrying, TypeOK, Pending
    <3>4. CASE Mark(p) BY <3>4 DEF Mark, CreateTemp, Goto, TypeOK, States, Pending
    <3>5. CASE SwapMarker(p) BY <3>5 DEF SwapMarker, DropTemp, Goto, TypeOK, States, Pending
    <3> QED BY <1>6, <3>1, <3>2, <3>3, <3>4, <3>5 DEF Sweep
  <2>2. Unwritten' = Unwritten
    BY <1>1, <2>1
  <2>3. CASE Swap(p)
    <3> DEFINE old == {r \in InLog : Expired(r, proc[p].at)}
    <3>1. InLog' = InLog \ old /\ stamp' = stamp /\ now' = now
      BY <2>3, Reading DEF Swap, Kept
    <3>2. ASSUME NEW r \in old PROVE stamp[r] + Retention < now
      <4>1. r \in Records /\ stamp[r] \in Int /\ proc[p].at \in Int /\ now \in Int /\ proc[p].at <= now
        BY LogTypes, BoundsAssumption DEF TypeOK, States, NotYet, Carried
      <4> QED BY <3>2, <4>1, BoundsAssumption DEF Expired
    <3> HIDE DEF old
    <3>3. old \in SUBSET InLog
      BY DEF old
    <3> QED BY <2>2, <3>1, <3>2, <3>3 DEF Promise!Expire
  <2>4. CASE OpenSource(p) \/ Copy(p) \/ Mark(p) \/ SwapMarker(p)
    BY <2>2, <2>4, NotReading DEF OpenSource, Copy, Mark, SwapMarker, Promise!rvars
  <2> QED BY <1>6, <2>3, <2>4 DEF Sweep
<1>7. ASSUME NEW p \in Procs, AppendLine(p)
      PROVE  (\E r \in Records : Promise!Publish(r)) \/ UNCHANGED Promise!rvars
  <2>1. CASE WriteBody(p)
    <3>1. Alone(p) /\ Pending(p) /\ ~Pending(p)'
      BY <2>1 DEF WriteBody, WriteEnd, Goto, TypeOK, States, Pending, Carried
    <3>2. Unwritten' = Unwritten \ {proc[p].rec} /\ proc[p].rec \in Unwritten
      BY <3>1, PendingChanges
    <3>3. /\ InLog' = InLog \cup {proc[p].rec} /\ proc[p].rec \in Records
          /\ stamp' = stamp /\ now' = now
      BY <2>1, Reading DEF WriteBody, WriteEnd
    <3> QED BY <3>2, <3>3 DEF Promise!Publish
  <2>2. CASE OpenAppend(p) \/ WritePart(p) \/ WriteNewline(p)
    <3>1. InLog' = InLog /\ stamp' = stamp /\ now' = now
      BY <2>2, Reading DEF OpenAppend, WritePart, WriteEnd, WriteNewline
    <3>2. Alone(p) /\ (Pending(p)' <=> Pending(p)) /\ (Pending(p) => proc'[p].rec = proc[p].rec)
      BY <2>2 DEF OpenAppend, WritePart, WriteEnd, WriteNewline, Goto, Return, Rest, TypeOK, States, Pending
    <3> QED BY <1>1, <3>1, <3>2 DEF Promise!rvars
  <2> QED BY <1>7, <2>1, <2>2 DEF AppendLine
<1>8. ASSUME NEW p \in Procs, Purge(p) PROVE Promise!Purge \/ UNCHANGED Promise!rvars
  <2>1. Alone(p) /\ ~Pending(p) /\ ~Pending(p)'
    BY <1>8 DEF Purge, RemoveLog, RemoveMarker, RemoveTemps, Purged, Goto, Return, Rest, TypeOK, States, Pending, Carried
  <2>2. Unwritten' = Unwritten
    BY <1>1, <2>1
  <2>3. CASE RemoveLog(p)
    BY <2>2, <2>3, Reading DEF RemoveLog, Promise!Purge
  <2>4. CASE RemoveMarker(p) \/ RemoveTemps(p) \/ Purged(p)
    BY <2>2, <2>4, NotReading DEF RemoveMarker, RemoveTemps, Purged, Promise!rvars
  <2> QED BY <1>8, <2>3, <2>4 DEF Purge
<1>9. ASSUME NEW p \in Procs, Fail(p) \/ Crash(p)
      PROVE  (\E r \in Records : Promise!Discard(r)) \/ UNCHANGED Promise!rvars
  <2>1. Alone(p) /\ ~Pending(p)'
    BY <1>9 DEF Fail, Crash, Return, Rest, TypeOK, Pending
  <2>2. InLog' = InLog /\ stamp' = stamp /\ now' = now
    BY <1>9, NotReading DEF Fail, Crash
  <2>3. CASE Pending(p)
    <3>1. Unwritten' = Unwritten \ {proc[p].rec} /\ proc[p].rec \in Unwritten
      BY <2>1, <2>3, PendingChanges
    <3>2. proc[p].rec \in Records
      BY <2>3 DEF Pending, Carried
    <3> QED BY <2>2, <3>1, <3>2 DEF Promise!Discard
  <2>4. CASE ~Pending(p)
    BY <1>1, <2>1, <2>2, <2>4 DEF Promise!rvars
  <2> QED BY <2>3, <2>4
<1>10. CASE Report
  BY <1>10 DEF Report, ReportOpen, ReportRefused, ReportChecked, ReportRead, ReportEnd,
               Promise!rvars, Unwritten, InLog, Readable
<1>11. CASE Tick
  <2>1. Unwritten' = Unwritten
    BY <1>11 DEF Tick, Unwritten
  <2>2. InLog' = InLog
    BY <1>11 DEF Tick, InLog, Readable
  <2>3. Promise!Tick
    BY <1>11, <2>1, <2>2 DEF Tick, Promise!Tick
  <2> QED BY <2>3 DEF Promise!Next
<1> QED
  BY <1>2, <1>3, <1>4, <1>5, <1>6, <1>7, <1>8, <1>9, <1>10, <1>11 DEF Next, Promise!Next

\* The log implements the promise of RecordLog: through sweeps, purges, failed calls
\* and deaths in the middle of a line, a record becomes readable at most once and
\* stays so until it is expired or purged.
THEOREM LogKeepsPromise == Spec => ImplementsRecordLog
<1>1. Init => Promise!Init
  BY DEF Init, Rest, Promise!Init, Promise!NotYet, NotYet, Unwritten, InLog
<1> QED BY <1>1, PromiseStep, LogInvariant, PTL DEF Spec, ImplementsRecordLog, Promise!Spec

===============================================================================
