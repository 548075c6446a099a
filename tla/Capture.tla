-------------------------------- MODULE Capture --------------------------------
(***************************************************************************)
(* The bounded helper (run_capture in src/layers/context.rs, wait_or_kill  *)
(* in src/proc.rs): git runs as a child whose output a reader thread       *)
(* keeps, while the check waits for both, no longer than a deadline.       *)
(*                                                                         *)
(* Bytes are counted: a pipe keeps their order.  The child may leave a     *)
(* grandchild behind that holds the pipe.  A thread that is due runs at    *)
(* once; the others run whenever they like.                                *)
(***************************************************************************)
EXTENDS Integers, FiniteSets

CONSTANTS
  Limit,      \* the deadline, since the start: timeout_ms
  PollEvery,  \* the sleep between two looks
  KeepCap,    \* cap: the bytes of the output that are kept
  PipeSize,   \* what a pipe holds
  MaxOutput,  \* the bytes that are written at most
  MaxTime     \* where the clock stops

ASSUME CaptureAssumption ==
  /\ Limit \in Nat /\ PollEvery \in Nat \ {0} /\ KeepCap \in Nat \ {0}
  /\ PipeSize \in Nat \ {0} /\ MaxOutput \in Nat /\ MaxTime \in Nat

VARIABLES
  time,       \* Instant::now
  wake,       \* when the check looks next
  parent,     \* "waiting" for the child, "joining" the reader, "returned"
  child,      \* "running", "exited" and not reaped, "reaped"
  success,    \* its exit status
  holders,    \* the processes that hold the pipe's write end
  pipe,       \* bytes in the pipe
  written,    \* bytes written to it
  reader,     \* "taking", "draining", "finished"
  kept,       \* bytes the reader keeps
  captured    \* what run_capture returned

pipeVars == <<holders, pipe, written>>
readerVars == <<reader, kept>>
captureVars == <<time, wake, parent, child, success, pipeVars, readerVars, captured>>

CaptureInit ==
  /\ time = 0 /\ wake = 0 /\ parent = "waiting"
  /\ child = "running" /\ success = FALSE
  /\ holders = {"child"} /\ pipe = 0 /\ written = 0
  /\ reader = "taking" /\ kept = 0 /\ captured = "nothing"

-----------------------------------------------------------------------------
(* The child and what it leaves behind *)

ChildForks ==
  /\ child = "running"
  /\ holders' = holders \cup {"grandchild"}
  /\ UNCHANGED <<time, wake, parent, child, success, pipe, written, readerVars, captured>>

\* A write to a full pipe blocks.
HolderWrites ==
  /\ holders # {} /\ pipe < PipeSize /\ written < MaxOutput
  /\ pipe' = pipe + 1 /\ written' = written + 1
  /\ UNCHANGED <<time, wake, parent, child, success, holders, readerVars, captured>>

ChildExits(ok) ==
  /\ child = "running"
  /\ child' = "exited" /\ success' = ok
  /\ holders' = holders \ {"child"}
  /\ UNCHANGED <<time, wake, parent, pipe, written, readerVars, captured>>

GrandchildExits ==
  /\ "grandchild" \in holders
  /\ holders' = holders \ {"grandchild"}
  /\ UNCHANGED <<time, wake, parent, child, success, pipe, written, readerVars, captured>>

-----------------------------------------------------------------------------
(* The reader thread *)

\* With the cap reached the thread goes on to drain the pipe.
AfterCap == "draining"

ReaderTakes ==
  /\ reader = "taking" /\ pipe > 0
  /\ pipe' = pipe - 1 /\ kept' = kept + 1
  /\ reader' = IF kept + 1 = KeepCap THEN AfterCap ELSE reader
  /\ UNCHANGED <<time, wake, parent, child, success, holders, written, captured>>

ReaderDrains ==
  /\ reader = "draining" /\ pipe > 0
  /\ pipe' = pipe - 1
  /\ UNCHANGED <<time, wake, parent, child, success, holders, written, readerVars, captured>>

ReaderEnds ==
  /\ reader # "finished" /\ pipe = 0 /\ holders = {}
  /\ reader' = "finished"
  /\ UNCHANGED <<time, wake, parent, child, success, pipeVars, kept, captured>>

-----------------------------------------------------------------------------
(* The check *)

Due == parent # "returned" /\ time >= wake
Expired == time >= Limit
Return(result) == parent' = "returned" /\ captured' = result /\ UNCHANGED wake
Sleep == wake' = time + PollEvery /\ UNCHANGED <<parent, captured>>

\* wait_or_kill: the child is done.
Reap ==
  /\ Due /\ parent = "waiting" /\ child = "exited"
  /\ child' = "reaped"
  /\ IF success THEN parent' = "joining" /\ UNCHANGED <<wake, captured>> ELSE Return("nothing")
  /\ UNCHANGED <<time, success, pipeVars, readerVars>>

AwaitChild ==
  /\ Due /\ parent = "waiting" /\ child = "running" /\ ~Expired
  /\ Sleep
  /\ UNCHANGED <<time, child, success, pipeVars, readerVars>>

\* kill, then wait.
Kill ==
  /\ Due /\ parent = "waiting" /\ child = "running" /\ Expired
  /\ child' = "reaped" /\ holders' = holders \ {"child"}
  /\ Return("nothing")
  /\ UNCHANGED <<time, success, pipe, written, readerVars>>

\* A plausible error: an empty pipe is taken for the end of the output.
ReaderDoneEmpty == pipe = 0

ReaderDone == reader = "finished"

JoinReader ==
  /\ Due /\ parent = "joining" /\ ReaderDone
  /\ Return("output")
  /\ UNCHANGED <<time, child, success, pipeVars, readerVars>>

\* Past the deadline the reader is abandoned.
AwaitReader ==
  /\ Due /\ parent = "joining" /\ ~ReaderDone
  /\ IF Expired THEN Return("nothing") ELSE Sleep
  /\ UNCHANGED <<time, child, success, pipeVars, readerVars>>

TimePasses ==
  /\ ~Due /\ time < MaxTime
  /\ time' = time + 1
  /\ UNCHANGED <<wake, parent, child, success, pipeVars, readerVars, captured>>

CaptureOver == parent = "returned" /\ UNCHANGED captureVars

CaptureNext ==
  \/ ChildForks \/ HolderWrites \/ GrandchildExits
  \/ \E ok \in BOOLEAN : ChildExits(ok)
  \/ ReaderTakes \/ ReaderDrains \/ ReaderEnds
  \/ Reap \/ AwaitChild \/ Kill \/ JoinReader \/ AwaitReader
  \/ TimePasses \/ CaptureOver

CaptureSpec == CaptureInit /\ [][CaptureNext]_captureVars

-----------------------------------------------------------------------------
(* Properties *)

\* "No path through here outlives the timeout", but for the last sleep, not even
\* when a grandchild keeps the pipe open (context.rs:204-213).
CaptureInTime == parent # "returned" => time < Limit + PollEvery

\* The output that is returned is all of it, up to the cap: nobody can add to it
\* any more.  A cut status would be counted as a complete one.
OutputIsWhole ==
  captured = "output" =>
    /\ holders = {} /\ pipe = 0
    /\ kept = IF written < KeepCap THEN written ELSE KeepCap

\* A child that writes more than is kept never waits at a full pipe that nobody
\* empties, so that a healthy one is not taken for late (context.rs:205-207).
ChildIsDrained == pipe = PipeSize /\ holders # {} => reader # "finished"

\* A child that overruns, fails or succeeds is reaped: "never left a zombie"
\* (proc.rs:9-10).
NoZombie == parent = "returned" => child = "reaped"

\* A helper, whatever it does, costs no more than its time and yields no less
\* than its output.
HelperIsBounded == CaptureInTime /\ OutputIsWhole /\ ChildIsDrained /\ NoZombie
=============================================================================
