------------------------------ MODULE StateLock ------------------------------
(***************************************************************************)
(* The cross-process state lock of src/state.rs, system call by system     *)
(* call.                                                                   *)
(*                                                                         *)
(* The lock is an flock on an anchor file inside the state directory.      *)
(* `purge` deletes the state while holding the lock, deletes the anchor    *)
(* too, and finally the directory, so a process that waits for the lock    *)
(* may be granted a lock on a file that has no name any more.  Every       *)
(* acquisition therefore compares the inode it locked with the inode the   *)
(* path now names, and starts over when they differ.                       *)
(*                                                                         *)
(* One process is one `oopsinput` invocation at a time: a hot-path append  *)
(* (blocking lock), an append after a prompt (25 ms deadline) or a purge.  *)
(* Every process may be killed between any two system calls (by the        *)
(* watchdog, by a closed terminal), which closes its handle.               *)
(*                                                                         *)
(* Abstracted: what the owned files hold (`files` says whether there are   *)
(* any), foreign objects planted at the paths (symlinks, devices, modes),  *)
(* and I/O errors other than the NotFound and AlreadyExists of races.      *)
(***************************************************************************)
CONSTANTS
  Procs,        \* the processes
  Inodes,       \* inode numbers; one is reused once no name or handle has it
  NoInode,      \* the path has no anchor, the process has no handle
  Nobody        \* nobody has locked the inode

ASSUME NoInodeAssumption == NoInode \notin Inodes
ASSUME NobodyAssumption  == Nobody \notin Procs

VARIABLES
  dir,          \* does the state directory exist
  anchor,       \* the inode the lock path names
  files,        \* does the directory hold owned state files
  fd,           \* per process: the anchor inode it has open
  flock,        \* per inode: the process that has it locked
  pc,           \* per process: the next system call
  op,           \* per process: what it is there to do
  late,         \* per process: its 25 ms deadline has passed
  outcome       \* per process: how its last operation ended

vars == <<dir, anchor, files, fd, flock, pc, op, late, outcome>>
disk == <<dir, anchor, files>>
locks == <<fd, flock>>

Ops == {"append", "afterPrompt", "purge"}

\* Between a successful recheck and the end of the protected work.
Critical == {"held", "written", "unlink"}
\* The process holds an flock, on the current anchor or on a dead one.
Locked == Critical \cup {"recheck", "unlinked"}
\* The process has an anchor open.
Opened == Locked \cup {"verify", "lock"}
Pcs == Opened \cup {"idle", "preflight", "list", "prepare", "chmod", "ensure",
                    "open", "create", "readdir", "rmdir", "reread"}

Types ==
  /\ dir \in BOOLEAN
  /\ anchor \in Inodes \cup {NoInode}
  /\ files \in BOOLEAN
  /\ fd \in [Procs -> Inodes \cup {NoInode}]
  /\ flock \in [Inodes -> Procs \cup {Nobody}]
  /\ pc \in [Procs -> Pcs]
  /\ op \in [Procs -> Ops]
  /\ late \in [Procs -> BOOLEAN]
  /\ outcome \in [Procs -> {"none", "ok", "timeout", "changed", "gone", "killed"}]

\* A process has an anchor open exactly in the stages of acquire_until and of
\* the protected work that need one: no round leaks its handle, or its lock.
HandleDiscipline ==
  \A p \in Procs : fd[p] \in Inodes <=> pc[p] \in Opened

TypeOK == Types /\ HandleDiscipline

Init ==
  /\ dir = FALSE /\ anchor = NoInode /\ files = FALSE
  /\ fd = [p \in Procs |-> NoInode]
  /\ flock = [i \in Inodes |-> Nobody]
  /\ pc = [p \in Procs |-> "idle"]
  /\ op = [p \in Procs |-> "append"]
  /\ late = [p \in Procs |-> FALSE]
  /\ outcome = [p \in Procs |-> "none"]

-----------------------------------------------------------------------------

At(p, label) == pc[p] = label

Goto(p, label) ==
  /\ pc' = [pc EXCEPT ![p] = label]
  /\ UNCHANGED <<op, late, outcome>>

\* Dropping the File closes the handle, and closing it releases the flock.
Close(p) ==
  /\ fd' = [fd EXCEPT ![p] = NoInode]
  /\ flock' = [i \in Inodes |-> IF flock[i] = p THEN Nobody ELSE flock[i]]

Finish(p, result) ==
  /\ pc' = [pc EXCEPT ![p] = "idle"]
  /\ late' = [late EXCEPT ![p] = FALSE]
  /\ outcome' = [outcome EXCEPT ![p] = result]
  /\ Close(p)
  /\ UNCHANGED op

\* Faulty variant: the round's handle, and its lock, outlive the round.
RetryKeepingHandle(p) == UNCHANGED <<fd, flock>> /\ Goto(p, "ensure")

\* `continue` in acquire_until: the handle of this round is dropped.
Retry(p) == Close(p) /\ Goto(p, "ensure")

Start(p, o) ==
  /\ At(p, "idle")
  /\ pc' = [pc EXCEPT ![p] = IF o = "purge" THEN "preflight" ELSE "ensure"]
  /\ op' = [op EXCEPT ![p] = o]
  /\ outcome' = [outcome EXCEPT ![p] = "none"]
  /\ UNCHANGED <<disk, locks, late>>

\* Faulty variant: a lock that does not die with its holder, such as a file
\* whose existence is the lock.
KillLeavingLock(p) ==
  /\ ~At(p, "idle")
  /\ pc' = [pc EXCEPT ![p] = "idle"]
  /\ late' = [late EXCEPT ![p] = FALSE]
  /\ outcome' = [outcome EXCEPT ![p] = "killed"]
  /\ fd' = [fd EXCEPT ![p] = NoInode]
  /\ UNCHANGED <<disk, flock, op>>

Kill(p) ==
  /\ ~At(p, "idle")
  /\ Finish(p, "killed")
  /\ UNCHANGED disk

DeadlinePasses(p) ==
  /\ op[p] = "afterPrompt" /\ ~At(p, "idle") /\ ~late[p]
  /\ late' = [late EXCEPT ![p] = TRUE]
  /\ UNCHANGED <<disk, locks, pc, op, outcome>>

-----------------------------------------------------------------------------
\* StateLock::acquire_until

\* Stat, create and chmod the directory as one step: a purge that removes it
\* in between makes the code start over, which is where this process still is.
EnsureDir(p) ==
  /\ At(p, "ensure") /\ ~late[p]
  /\ dir' = TRUE
  /\ Goto(p, "open")
  /\ UNCHANGED <<anchor, files, locks>>

EnsureTimeout(p) ==
  /\ At(p, "ensure") /\ late[p]
  /\ Finish(p, "timeout")
  /\ UNCHANGED disk

OpenExisting(p) ==
  /\ At(p, "open")
  /\ IF anchor # NoInode
       THEN fd' = [fd EXCEPT ![p] = anchor] /\ Goto(p, "verify")
       ELSE UNCHANGED fd /\ Goto(p, "create")
  /\ UNCHANGED <<disk, flock>>

FreeInodes == {i \in Inodes : i # anchor /\ \A q \in Procs : fd[q] # i}

CreateNew(p) ==
  /\ At(p, "create") /\ dir /\ anchor = NoInode
  /\ \E i \in FreeInodes :
       /\ anchor' = i
       /\ fd' = [fd EXCEPT ![p] = i]
  /\ Goto(p, "verify")
  /\ UNCHANGED <<dir, files, flock>>

\* NotFound: a purge removed the directory.  AlreadyExists: another process
\* created the anchor first.
CreateRace(p) ==
  /\ At(p, "create") /\ (~dir \/ anchor # NoInode)
  /\ Goto(p, "ensure")
  /\ UNCHANGED <<disk, locks>>

\* opened_regular_file_metadata: NotFound starts over, another inode is an
\* error, and the caller drops its event.
Verify(p) ==
  /\ At(p, "verify")
  /\ \/ anchor = fd[p] /\ Goto(p, "lock") /\ UNCHANGED locks
     \/ anchor = NoInode /\ Retry(p)
     \/ anchor \notin {NoInode, fd[p]} /\ Finish(p, "changed")
  /\ UNCHANGED disk

LockFile(p) ==
  /\ At(p, "lock") /\ flock[fd[p]] = Nobody
  /\ flock' = [flock EXCEPT ![fd[p]] = p]
  /\ Goto(p, "recheck")
  /\ UNCHANGED <<disk, fd>>

\* Faulty variant: the deadline passes and the write goes ahead regardless.
LockTimeoutProceeds(p) ==
  /\ At(p, "lock") /\ late[p] /\ flock[fd[p]] # Nobody
  /\ Goto(p, "held")
  /\ UNCHANGED <<disk, locks>>

\* Faulty variant: the blocking lock() after a prompt too.
LockNeverTimesOut(p) == FALSE /\ At(p, "lock") /\ UNCHANGED vars

LockTimeout(p) ==
  /\ At(p, "lock") /\ late[p] /\ flock[fd[p]] # Nobody
  /\ Finish(p, "timeout")
  /\ UNCHANGED disk

\* Faulty variant: no look at the path after the wait.
RecheckSkipped(p) ==
  /\ At(p, "recheck")
  /\ Goto(p, "held")
  /\ UNCHANGED <<disk, locks>>

\* Faulty variant: any anchor at the path will do, whichever its inode.
RecheckExistsOnly(p) ==
  /\ At(p, "recheck")
  /\ IF anchor # NoInode
       THEN Goto(p, "held") /\ UNCHANGED locks
       ELSE Retry(p)
  /\ UNCHANGED disk

Recheck(p) ==
  /\ At(p, "recheck")
  /\ IF anchor = fd[p]
       THEN Goto(p, "held") /\ UNCHANGED locks
       ELSE Retry(p)
  /\ UNCHANGED disk

-----------------------------------------------------------------------------
\* Under the lock: an append, or a transaction that writes nothing.

Write(p) ==
  /\ At(p, "held") /\ op[p] # "purge"
  /\ files' \in {files, TRUE}
  /\ Goto(p, "written")
  /\ UNCHANGED <<dir, anchor, locks>>

Release(p) ==
  /\ At(p, "written")
  /\ Finish(p, "ok")
  /\ UNCHANGED disk

-----------------------------------------------------------------------------
\* purge_from_dir

PurgeStat(p) ==
  /\ At(p, "preflight")
  /\ IF dir THEN Goto(p, "list") /\ UNCHANGED locks ELSE Finish(p, "ok")
  /\ UNCHANGED disk

PurgeList(p) ==
  /\ At(p, "list")
  /\ IF dir THEN Goto(p, "prepare") /\ UNCHANGED locks ELSE Finish(p, "gone")
  /\ UNCHANGED disk

PrepareAnchor(p) ==
  /\ At(p, "prepare")
  /\ Goto(p, IF anchor = NoInode THEN "ensure" ELSE "chmod")
  /\ UNCHANGED <<disk, locks>>

ChmodAnchor(p) ==
  /\ At(p, "chmod")
  /\ IF anchor # NoInode
       THEN Goto(p, "ensure") /\ UNCHANGED locks
       ELSE Finish(p, "gone")
  /\ UNCHANGED disk

RemoveFiles(p) ==
  /\ At(p, "held") /\ op[p] = "purge"
  /\ files' = FALSE
  /\ Goto(p, "unlink")
  /\ UNCHANGED <<dir, anchor, locks>>

\* Its own check that the path still names the locked inode cannot fail
\* (HolderIsCurrent); a state in which it did would leave p stuck here.
UnlinkAnchor(p) ==
  /\ At(p, "unlink") /\ anchor = fd[p]
  /\ anchor' = NoInode
  /\ Goto(p, "unlinked")
  /\ UNCHANGED <<dir, files, locks>>

DropLock(p) ==
  /\ At(p, "unlinked")
  /\ Close(p)
  /\ Goto(p, "readdir")
  /\ UNCHANGED disk

Empty == anchor = NoInode /\ ~files

ReadDir(p) ==
  /\ At(p, "readdir")
  /\ IF dir /\ Empty
       THEN Goto(p, "rmdir") /\ UNCHANGED locks
       ELSE Finish(p, "ok")
  /\ UNCHANGED disk

\* Faulty variant: a recursive removal of the directory.
RemoveDirAll(p) ==
  /\ At(p, "rmdir")
  /\ dir' = FALSE /\ anchor' = NoInode /\ files' = FALSE
  /\ Finish(p, "ok")

RemoveDir(p) ==
  /\ At(p, "rmdir")
  /\ IF dir /\ ~Empty
       THEN Goto(p, "reread") /\ UNCHANGED <<dir, locks>>
       ELSE dir' = FALSE /\ Finish(p, "ok")
  /\ UNCHANGED <<anchor, files>>

\* remove_dir failed: non-empty now is "retained"; gone or empty is an error.
ReadDirAgain(p) ==
  /\ At(p, "reread")
  /\ Finish(p, IF dir /\ ~Empty THEN "ok" ELSE "gone")
  /\ UNCHANGED disk

-----------------------------------------------------------------------------

Acquire(p) ==
  \/ EnsureDir(p) \/ EnsureTimeout(p) \/ OpenExisting(p) \/ CreateNew(p)
  \/ CreateRace(p) \/ Verify(p) \/ LockFile(p) \/ LockTimeout(p) \/ Recheck(p)

Purge(p) ==
  \/ PurgeStat(p) \/ PurgeList(p) \/ PrepareAnchor(p) \/ ChmodAnchor(p)
  \/ RemoveFiles(p) \/ UnlinkAnchor(p) \/ DropLock(p)
  \/ ReadDir(p) \/ RemoveDir(p) \/ ReadDirAgain(p)

\* What the process does of its own accord once it has started.
Step(p) == Acquire(p) \/ Write(p) \/ Release(p) \/ Purge(p)

Next ==
  \E p \in Procs :
    \/ \E o \in Ops : Start(p, o)
    \/ Step(p)
    \/ DeadlinePasses(p)
    \/ Kill(p)

Spec == Init /\ [][Next]_vars

\* Only the processes that write after a prompt are known to run, and time
\* passes.  Every other process may stop anywhere, the lock in its hands.
FairSpec ==
  /\ Spec
  /\ \A p \in Procs :
       /\ WF_vars(op[p] = "afterPrompt" /\ Step(p))
       /\ WF_vars(DeadlinePasses(p))

-----------------------------------------------------------------------------
\* Properties

InCritical(p) == pc[p] \in Critical

\* Two oopsinput processes are never both inside the section the lock
\* protects, although purge replaces the lock file under the waiters.
MutualExclusion ==
  \A p, q \in Procs : InCritical(p) /\ InCritical(q) => p = q

\* "retries on the new anchor instead of writing under a stale lock": whoever
\* works under the lock holds the inode the path names at that moment, in a
\* directory that is still there.
HolderIsCurrent ==
  \A p \in Procs :
    InCritical(p) => /\ dir
                     /\ fd[p] = anchor
                     /\ flock[anchor] = p

\* The files purge removed stay removed until it gives the lock up: no append
\* slips a record in between the removal and the unlinking of the anchor.
PurgeLeavesNothing ==
  \A p \in Procs : At(p, "unlink") => ~files

\* The owned files change, and the anchor loses its name, only in the hands of
\* the process that holds the lock on the anchor the path names.
OnlyHolderChangesState ==
  [][ (files' # files \/ (anchor # NoInode /\ anchor' # anchor))
        => \E p \in Procs : InCritical(p) /\ flock[anchor] = p ]_vars

M == INSTANCE Mutex WITH holders <- {p \in Procs : InCritical(p)}

\* The protocol implements the abstract lock: sections are entered only when
\* no other is open.
ImplementsMutex == M!Spec

\* A write after a prompt ends, whatever the process holding the lock does:
\* the user's choice is never held up by another shell's stuck process.
AfterPromptReturns ==
  \A p \in Procs :
    (op[p] = "afterPrompt" /\ ~At(p, "idle")) ~> At(p, "idle")

\* When the scheduler runs every process, the kernel's queue of flock waiters
\* passes nobody over for ever and purges stop, every process that waits for the
\* lock finishes: no loop of retries, no lock left behind by a killed holder.
SchedulerRunsAll == \A p \in Procs : WF_vars(Step(p)) /\ SF_vars(LockFile(p))
WaitersFinish ==
  SchedulerRunsAll /\ <>[](\A p \in Procs : op[p] # "purge")
    => \A p \in Procs : ~At(p, "idle") ~> At(p, "idle")

\* Comment at the Verify step of acquire_until: "Join the replacement anchor
\* rather than dropping this event."
ReplacementAnchorJoined ==
  \A p \in Procs : outcome[p] # "changed"
=============================================================================
