------------------------------- MODULE StateLog -------------------------------
(***************************************************************************)
(* One JSONL log of the state directory (src/state.rs): appends, the       *)
(* retention sweep and its marker, purge, and the report that reads the    *)
(* log without the lock (src/events.rs).  StateLock is the module about    *)
(* the lock; here it is a holder, let go of when its process dies.         *)
(*                                                                         *)
(* A file is the set of records on lines of their own, whether it also has *)
(* lines that do not parse, and how it ends: after a newline, in a part of *)
(* a record, or in a whole record that lacks its newline.  The order of    *)
(* lines matters to no reader.  Temporary files are counted.  A report has *)
(* the log's file open: it sees what is appended to it, until the name     *)
(* leads to another file or to none; from then on it keeps the old content.*)
(*                                                                         *)
(* Time is the wall clock in units longer than an operation: one that is   *)
(* under way may see one tick, not two.  Bounds: the clock stops at        *)
(* MaxNow, there are as many appends as Records, and at most MaxCrashes    *)
(* processes die.                                                          *)
(***************************************************************************)
EXTENDS Integers, FiniteSets

CONSTANTS
  Procs,        \* processes that write or purge
  Records,      \* the records ever appended, one per append
  NoFile,       \* a name that is absent
  NoProc,       \* nobody
  NoRecord,     \* a process with nothing to append
  Clean,        \* a file that is empty or ends in a newline
  Torn,         \* a file that ends in a part of a record
  Retention,    \* RETENTION_MS
  Interval,     \* PRUNE_INTERVAL_MS
  MaxNow,
  MaxCrashes

Files == [recs : SUBSET Records, junk : BOOLEAN, end : Records \cup {Clean, Torn}]

ASSUME NamesAssumption ==
  /\ NoProc \notin Procs /\ NoRecord \notin Records
  /\ Clean # Torn /\ Clean \notin Records /\ Torn \notin Records
  /\ NoFile \notin Files
ASSUME BoundsAssumption ==
  /\ Retention \in Nat \ {0} /\ Interval \in Nat \ {0}
  /\ MaxNow \in Nat /\ MaxCrashes \in Nat

VARIABLES
  now,        \* the wall clock
  stamp,      \* per record its ts_ms, NotYet before its append begins
  log,        \* the file under the log's name, or NoFile
  marker,     \* the stamp in the retention marker, NoMarker when it is absent
  temps,      \* how many temporary files are in the directory
  holder,     \* the process that has the state lock
  proc,       \* per process: its operation and where it is in it
  report,     \* the reader of the log
  crashes     \* the processes that died

vars == <<now, stamp, log, marker, temps, holder, proc, report, crashes>>

NotYet == -1
NoMarker == -1
Times == 0..MaxNow
Holding(R) == [recs |-> R, junk |-> FALSE, end |-> Clean]
EmptyFile == Holding({})
Rest == [pc |-> "idle", op |-> "none", at |-> 0, rec |-> NoRecord, kept |-> {}]
NoReport == [pc |-> "idle", old |-> NoFile, left |-> {}]

Appends == {"append", "afterprompt"}
WithTemp == {"copy", "swap", "markswap"}
Locked == {"sweep", "mark", "open", "write", "part", "body",
           "rmlog", "rmmarker", "rmtemps", "clear"} \cup WithTemp

States == [pc : {"idle", "wait"} \cup Locked, op : Appends \cup {"none", "purge"},
           at : Times, rec : Records \cup {NoRecord}, kept : SUBSET Records]

\* What a reader finds: a last line without its newline parses too.
Readable(f) == f.recs \cup ({f.end} \cap Records)
InLog == IF log = NoFile THEN {} ELSE Readable(log)

TypeOK ==
  /\ now \in Times
  /\ stamp \in [Records -> Times \cup {NotYet}]
  /\ log \in Files \cup {NoFile}
  /\ marker \in Times \cup {NoMarker}
  /\ temps \in Nat
  /\ holder \in Procs \cup {NoProc}
  /\ proc \in [Procs -> States]
  /\ report \in [pc : {"idle", "check", "read"}, old : Files \cup {NoFile}, left : SUBSET Records]
  /\ crashes \in 0..MaxCrashes
  /\ \A p \in Procs : holder = p <=> proc[p].pc \in Locked
  /\ \A p \in Procs : proc[p].pc \in {"copy", "swap", "write", "part", "body"} => log # NoFile

Init ==
  /\ now = 0
  /\ stamp = [r \in Records |-> NotYet]
  /\ log = NoFile
  /\ marker = NoMarker
  /\ temps = 0
  /\ holder = NoProc
  /\ proc = [p \in Procs |-> Rest]
  /\ report = NoReport
  /\ crashes = 0

Goto(p, pc) == proc' = [proc EXCEPT ![p].pc = pc]

\* A process at a step, with the records it has copied.
Carrying(s, pc, kept) == [pc |-> pc, op |-> s.op, at |-> s.at, rec |-> s.rec, kept |-> kept]

CreateTemp(p, pc) == temps' = temps + 1 /\ Goto(p, pc)
DropTemp(p, pc) == temps' = temps - 1 /\ Goto(p, pc)

\* The log's name leads to another file, or to none: a report keeps the old one.
Replace(new) ==
  /\ log' = new
  /\ report' = IF report.pc = "idle" \/ report.old # NoFile
               THEN report ELSE [report EXCEPT !.old = log]

-------------------------------------------------------------------------------
(* Operations begin and get the lock. *)

BeginAppend(p, r, op) ==
  /\ proc[p].pc = "idle" /\ stamp[r] = NotYet
  /\ stamp' = [stamp EXCEPT ![r] = now]
  /\ proc' = [proc EXCEPT ![p] = [Rest EXCEPT !.pc = "wait", !.op = op, !.at = now, !.rec = r]]
  /\ UNCHANGED <<now, log, marker, temps, holder, report, crashes>>

BeginPurge(p) ==
  /\ proc[p].pc = "idle"
  /\ proc' = [proc EXCEPT ![p] = [Rest EXCEPT !.pc = "wait", !.op = "purge", !.at = now]]
  /\ UNCHANGED <<now, stamp, log, marker, temps, holder, report, crashes>>

\* At most one sweep an Interval, however far off the marker is.
PruneIsDue(at) ==
  \/ marker = NoMarker
  \/ at - marker >= Interval
  \/ marker - at >= Interval

Acquire(p) ==
  /\ proc[p].pc = "wait" /\ holder = NoProc
  /\ holder' = p
  /\ Goto(p, IF proc[p].op = "purge" THEN "rmlog"
             ELSE IF proc[p].op = "append" /\ PruneIsDue(proc[p].at) THEN "sweep"
             ELSE "open")
  /\ UNCHANGED <<now, stamp, log, marker, temps, report, crashes>>

-------------------------------------------------------------------------------
(* The retention sweep. *)

\* A plausible error: the marker is written before the log is swept.
OpenSourceMarked(p) ==
  /\ proc[p].pc = "sweep"
  /\ IF log = NoFile THEN Goto(p, "mark") /\ UNCHANGED temps
                     ELSE CreateTemp(p, "copy")
  /\ marker' = proc[p].at
  /\ UNCHANGED <<now, stamp, log, holder, report, crashes>>

OpenSource(p) ==
  /\ proc[p].pc = "sweep"
  /\ IF log = NoFile THEN Goto(p, "mark") /\ UNCHANGED temps
                     ELSE CreateTemp(p, "copy")
  /\ UNCHANGED <<now, stamp, log, marker, holder, report, crashes>>

Expired(r, at) == stamp[r] + Retention < at
Kept(at) == {r \in InLog : ~Expired(r, at)}
Changed(at) == log # Holding(Kept(at))

\* Only whole records inside the window are copied; when nothing would change
\* the temporary file is dropped again.
Copy(p) ==
  /\ proc[p].pc = "copy"
  /\ \/ /\ Changed(proc[p].at)
        /\ proc' = [proc EXCEPT ![p] = Carrying(@, "swap", Kept(proc[p].at))]
        /\ UNCHANGED temps
     \/ /\ ~Changed(proc[p].at)
        /\ DropTemp(p, "mark")
  /\ UNCHANGED <<now, stamp, log, marker, holder, report, crashes>>

\* A plausible error: the log is rewritten in place.
SwapInPlace(p) ==
  /\ proc[p].pc = "swap"
  /\ log' = Holding(proc[p].kept)
  /\ temps' = temps - 1
  /\ proc' = [proc EXCEPT ![p] = Carrying(@, "mark", {})]
  /\ UNCHANGED <<now, stamp, marker, holder, report, crashes>>

\* The identity check before the rename passes: only the holder of the lock
\* replaces the log.
Swap(p) ==
  /\ proc[p].pc = "swap"
  /\ Replace(Holding(proc[p].kept))
  /\ temps' = temps - 1
  /\ proc' = [proc EXCEPT ![p] = Carrying(@, "mark", {})]
  /\ UNCHANGED <<now, stamp, marker, holder, crashes>>

Mark(p) ==
  /\ proc[p].pc = "mark"
  /\ CreateTemp(p, "markswap")
  /\ UNCHANGED <<now, stamp, log, marker, holder, report, crashes>>

SwapMarker(p) ==
  /\ proc[p].pc = "markswap"
  /\ marker' = proc[p].at
  /\ DropTemp(p, "open")
  /\ UNCHANGED <<now, stamp, log, holder, report, crashes>>

-------------------------------------------------------------------------------
(* The append.  Its line reaches the file in parts, and every part may be   *)
(* the last one its process writes.                                         *)

Terminated(f) ==
  [recs |-> Readable(f), junk |-> f.junk \/ f.end = Torn, end |-> Clean]

\* A plausible error: no separator, so the line joins what is there.
OpenAppendUnseparated(p) ==
  /\ proc[p].pc = "open"
  /\ log' = IF log = NoFile THEN EmptyFile ELSE log
  /\ Goto(p, "write")
  /\ UNCHANGED <<now, stamp, marker, temps, holder, report, crashes>>

\* The log is created when it is absent; a file that does not end in a newline
\* gets one first.
OpenAppend(p) ==
  /\ proc[p].pc = "open"
  /\ log' = IF log = NoFile THEN EmptyFile ELSE Terminated(log)
  /\ Goto(p, "write")
  /\ UNCHANGED <<now, stamp, marker, temps, holder, report, crashes>>

WriteEnd(p, from, to, end) ==
  /\ proc[p].pc = from
  /\ log' = [log EXCEPT !.end = end]
  /\ Goto(p, to)
  /\ UNCHANGED <<now, stamp, marker, temps, holder, report, crashes>>

WritePart(p) == WriteEnd(p, "write", "part", Torn)
WriteBody(p) == WriteEnd(p, "part", "body", proc[p].rec)

\* The operation is over: the lock goes with the process's handle.
Return(p) ==
  /\ proc' = [proc EXCEPT ![p] = Rest]
  /\ holder' = IF holder = p THEN NoProc ELSE holder

WriteNewline(p) ==
  /\ proc[p].pc = "body"
  /\ log' = Terminated(log)
  /\ Return(p)
  /\ UNCHANGED <<now, stamp, marker, temps, report, crashes>>

-------------------------------------------------------------------------------
(* Purge removes the owned files one by one. *)

RemoveLog(p) ==
  /\ proc[p].pc = "rmlog"
  /\ Replace(NoFile)
  /\ Goto(p, "rmmarker")
  /\ UNCHANGED <<now, stamp, marker, temps, holder, crashes>>

RemoveMarker(p) ==
  /\ proc[p].pc = "rmmarker"
  /\ marker' = NoMarker
  /\ Goto(p, "rmtemps")
  /\ UNCHANGED <<now, stamp, log, temps, holder, report, crashes>>

\* A plausible error: only the fixed names count as owned.
RemoveNamedOnly(p) ==
  /\ proc[p].pc = "rmtemps"
  /\ Goto(p, "clear")
  /\ UNCHANGED <<now, stamp, log, marker, temps, holder, report, crashes>>

RemoveTemps(p) ==
  /\ proc[p].pc = "rmtemps"
  /\ \/ /\ temps > 0
        /\ temps' = temps - 1
        /\ UNCHANGED proc
     \/ /\ temps = 0
        /\ Goto(p, "clear")
        /\ UNCHANGED temps
  /\ UNCHANGED <<now, stamp, log, marker, holder, report, crashes>>

Purged(p) ==
  /\ proc[p].pc = "clear"
  /\ Return(p)
  /\ UNCHANGED <<now, stamp, log, marker, temps, report, crashes>>

-------------------------------------------------------------------------------
(* What ends an operation early. *)

\* A plausible error: no TempCleanup.
FailLeavingTemp(p) ==
  /\ proc[p].pc # "idle"
  /\ Return(p)
  /\ UNCHANGED <<now, stamp, log, marker, temps, report, crashes>>

\* A plausible error: an error path forgets that the lock is held.
FailHolding(p) ==
  /\ proc[p].pc # "idle"
  /\ temps' = IF proc[p].pc \in WithTemp THEN temps - 1 ELSE temps
  /\ proc' = [proc EXCEPT ![p] = Rest]
  /\ UNCHANGED <<now, stamp, log, marker, holder, report, crashes>>

\* A call fails, or the lock stays busy past the deadline; TempCleanup removes
\* the process's temporary file.
Fail(p) ==
  /\ proc[p].pc # "idle"
  /\ temps' = IF proc[p].pc \in WithTemp THEN temps - 1 ELSE temps
  /\ Return(p)
  /\ UNCHANGED <<now, stamp, log, marker, report, crashes>>

\* The watchdog ends the process, or it is killed: nothing is cleaned up.  Before
\* it has the lock this differs in nothing from Fail.
Crash(p) ==
  /\ proc[p].pc \in Locked /\ crashes < MaxCrashes
  /\ crashes' = crashes + 1
  /\ Return(p)
  /\ UNCHANGED <<now, stamp, log, marker, temps, report>>

-------------------------------------------------------------------------------
(* The report reads what its open file holds, without the lock.  Only the   *)
(* records that were there when it began are followed: whether it also     *)
(* counts a line appended meanwhile depends on when it meets the end.      *)

ReportOpen ==
  /\ report.pc = "idle" /\ log # NoFile
  /\ report' = [NoReport EXCEPT !.pc = "check"]
  /\ UNCHANGED <<now, stamp, log, marker, temps, holder, proc, crashes>>

\* The file was replaced or removed since: the report is an error.
ReportRefused ==
  /\ report.pc = "check" /\ report.old # NoFile
  /\ report' = NoReport
  /\ UNCHANGED <<now, stamp, log, marker, temps, holder, proc, crashes>>

ReportChecked ==
  /\ report.pc = "check" /\ report.old = NoFile
  /\ report' = [report EXCEPT !.pc = "read", !.left = InLog]
  /\ UNCHANGED <<now, stamp, log, marker, temps, holder, proc, crashes>>

Unread == report.left \cap (IF report.old = NoFile THEN InLog ELSE Readable(report.old))

ReportRead ==
  /\ report.pc = "read"
  /\ \E r \in Unread : report' = [report EXCEPT !.left = @ \ {r}]
  /\ UNCHANGED <<now, stamp, log, marker, temps, holder, proc, crashes>>

ReportEnd ==
  /\ report.pc = "read" /\ Unread = {}
  /\ report' = NoReport
  /\ UNCHANGED <<now, stamp, log, marker, temps, holder, proc, crashes>>

Tick ==
  /\ now < MaxNow
  /\ \A p \in Procs : proc[p].pc # "idle" => proc[p].at = now
  /\ now' = now + 1
  /\ UNCHANGED <<stamp, log, marker, temps, holder, proc, report, crashes>>

Sweep(p) == OpenSource(p) \/ Copy(p) \/ Swap(p) \/ Mark(p) \/ SwapMarker(p)
AppendLine(p) == OpenAppend(p) \/ WritePart(p) \/ WriteBody(p) \/ WriteNewline(p)
Purge(p) == RemoveLog(p) \/ RemoveMarker(p) \/ RemoveTemps(p) \/ Purged(p)
Report == ReportOpen \/ ReportRefused \/ ReportChecked \/ ReportRead \/ ReportEnd

Next ==
  \/ \E p \in Procs :
       \/ \E r \in Records, op \in Appends : BeginAppend(p, r, op)
       \/ BeginPurge(p) \/ Acquire(p)
       \/ Sweep(p) \/ AppendLine(p) \/ Purge(p)
       \/ Fail(p) \/ Crash(p)
  \/ Report \/ Tick

Spec == Init /\ [][Next]_vars

-------------------------------------------------------------------------------
(* Properties. *)

\* A record that was submitted and not yet written whole.
Unwritten ==
  {proc[p].rec : p \in {q \in Procs : proc[q].op \in Appends /\ proc[q].pc # "body"}}

\* The log keeps the promise of RecordLog: through sweeps, crashes in the middle
\* of a line and purges, a record whose append completed (or whose line is whole)
\* stays readable until it is older than the retention window or purged, and it
\* becomes readable once (append_private_file, prune_jsonl, purge_from_dir).
Promise == INSTANCE RecordLog WITH pending <- Unwritten, readable <- InLog
ImplementsRecordLog == Promise!Spec

\* When an ordinary append writes its line, the log holds no record older than
\* the retention window plus one sweep interval, although sweeps are skipped,
\* fail and are killed (maybe_prune_log: the marker is replaced last).
RetentionHeld ==
  \A p \in Procs :
    proc[p].op = "append" /\ proc[p].pc \in {"write", "part", "body"} =>
      \A r \in InLog : proc[p].at < stamp[r] + Retention + Interval

\* Temporary files do not pile up: besides the one in use, there is at most one
\* for each process that died (TempCleanup).
OrphansOnlyByCrash ==
  temps <= crashes + Cardinality({p \in Procs : proc[p].pc \in WithTemp})

\* A purge that succeeds leaves no log, no marker and no temporary file, those of
\* dead processes included (purge_from_dir, owned_entries).
PurgeIsTotal ==
  \A p \in Procs : proc[p].pc = "clear" =>
    log = NoFile /\ marker = NoMarker /\ temps = 0

\* A report counts every record that was in the log when it began to read, also
\* when the log is swept or purged under it (report_text_from_path).
ReportComplete ==
  [][report.pc = "read" /\ report'.pc = "idle" => report.left = {}]_vars
===============================================================================
