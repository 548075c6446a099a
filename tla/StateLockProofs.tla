--------------------------- MODULE StateLockProofs ---------------------------
(***************************************************************************)
(* Proofs about the state lock for every set of processes and inodes.      *)
(*                                                                         *)
(* MutualExclusion is not inductive: it says nothing of the processes on   *)
(* their way in.  LockInv adds what a process knows at each stage: from    *)
(* `verify` on it has an inode open, from `recheck` on it has that inode   *)
(* locked, and from `held` on the inode is the one the path names.  Two    *)
(* processes in the section then have the same inode locked.               *)
(***************************************************************************)
EXTENDS StateLock, TLAPS

LockOwners ==
  \A p \in Procs : pc[p] \in Locked => flock[fd[p]] = p

CriticalIsCurrent ==
  \A p \in Procs : pc[p] \in Critical => fd[p] = anchor

AnchorInDir == anchor # NoInode => dir

LockInv ==
  /\ TypeOK
  /\ LockOwners
  /\ CriticalIsCurrent
  /\ AnchorInDir
  /\ PurgeLeavesNothing

USE DEF Pcs, Opened, Locked, Critical

\* Under LockInv a process in the critical section is the only one there.
LEMMA ExclusionFromInv == LockInv => MutualExclusion
<1> SUFFICES ASSUME LockInv,
                    NEW p \in Procs, NEW q \in Procs,
                    InCritical(p), InCritical(q)
             PROVE  p = q
  BY DEF MutualExclusion
<1>1. fd[p] = anchor /\ fd[q] = anchor
  BY DEF LockInv, CriticalIsCurrent, InCritical
<1>2. flock[fd[p]] = p /\ flock[fd[q]] = q
  BY DEF LockInv, LockOwners, InCritical, Locked
<1> QED BY <1>1, <1>2

\* Every variable keeps its type.
LEMMA TypesStep == Types /\ [Next]_vars => Types'
<1> SUFFICES ASSUME Types, [Next]_vars PROVE Types'
  OBVIOUS
<1> USE NoInodeAssumption, NobodyAssumption
    DEF Types, disk, locks, Goto, Close, Finish, Retry, At
<1>1. CASE UNCHANGED vars
  BY <1>1 DEF vars
<1>2. ASSUME NEW p \in Procs, NEW o \in Ops, Start(p, o) PROVE Types'
  BY <1>2 DEF Start
<1>3. ASSUME NEW p \in Procs, DeadlinePasses(p) PROVE Types'
  BY <1>3 DEF DeadlinePasses
<1>4. ASSUME NEW p \in Procs, Kill(p) PROVE Types'
  BY <1>4 DEF Kill
<1>5. ASSUME NEW p \in Procs, Acquire(p) PROVE Types'
  <2>1. CASE EnsureDir(p) BY <2>1 DEF EnsureDir
  <2>2. CASE EnsureTimeout(p) BY <2>2 DEF EnsureTimeout
  <2>3. CASE OpenExisting(p) BY <2>3 DEF OpenExisting
  <2>4. CASE CreateNew(p) BY <2>4 DEF CreateNew, FreeInodes
  <2>5. CASE CreateRace(p) BY <2>5 DEF CreateRace
  <2>6. CASE Verify(p) BY <2>6 DEF Verify
  <2>7. CASE LockFile(p) BY <2>7 DEF LockFile
  <2>8. CASE LockTimeout(p) BY <2>8 DEF LockTimeout
  <2>9. CASE Recheck(p) BY <2>9 DEF Recheck
  <2> QED BY <1>5, <2>1, <2>2, <2>3, <2>4, <2>5, <2>6, <2>7, <2>8, <2>9
          DEF Acquire
<1>6. ASSUME NEW p \in Procs, Write(p) \/ Release(p) PROVE Types'
  BY <1>6 DEF Write, Release
<1>7. ASSUME NEW p \in Procs, Purge(p) PROVE Types'
  <2>1. CASE PurgeStat(p) BY <2>1 DEF PurgeStat
  <2>2. CASE PurgeList(p) BY <2>2 DEF PurgeList
  <2>3. CASE PrepareAnchor(p) BY <2>3 DEF PrepareAnchor
  <2>4. CASE ChmodAnchor(p) BY <2>4 DEF ChmodAnchor
  <2>5. CASE RemoveFiles(p) BY <2>5 DEF RemoveFiles
  <2>6. CASE UnlinkAnchor(p) BY <2>6 DEF UnlinkAnchor
  <2>7. CASE DropLock(p) BY <2>7 DEF DropLock
  <2>8. CASE ReadDir(p) BY <2>8 DEF ReadDir
  <2>9. CASE RemoveDir(p) BY <2>9 DEF RemoveDir
  <2>10. CASE ReadDirAgain(p) BY <2>10 DEF ReadDirAgain
  <2> QED BY <1>7, <2>1, <2>2, <2>3, <2>4, <2>5, <2>6, <2>7, <2>8, <2>9, <2>10
          DEF Purge
<1> QED BY <1>1, <1>2, <1>3, <1>4, <1>5, <1>6, <1>7 DEF Next, Step

\* No step opens or forgets a handle.
LEMMA HandleStep == TypeOK /\ [Next]_vars => HandleDiscipline'
<1> SUFFICES ASSUME TypeOK, [Next]_vars PROVE HandleDiscipline'
  OBVIOUS
<1>0. Types'
  BY TypesStep DEF TypeOK
<1> USE <1>0, NoInodeAssumption, NobodyAssumption
    DEF TypeOK, Types, HandleDiscipline, disk, locks, Goto, Close, Finish,
        Retry, At
<1>1. CASE UNCHANGED vars
  BY <1>1 DEF vars
<1>2. ASSUME NEW p \in Procs, NEW o \in Ops, Start(p, o) PROVE HandleDiscipline'
  BY <1>2 DEF Start
<1>3. ASSUME NEW p \in Procs, DeadlinePasses(p) PROVE HandleDiscipline'
  BY <1>3 DEF DeadlinePasses
<1>4. ASSUME NEW p \in Procs, Kill(p) PROVE HandleDiscipline'
  BY <1>4 DEF Kill
<1>5. ASSUME NEW p \in Procs, Acquire(p) PROVE HandleDiscipline'
  <2>1. CASE EnsureDir(p) BY <2>1 DEF EnsureDir
  <2>2. CASE EnsureTimeout(p) BY <2>2 DEF EnsureTimeout
  <2>3. CASE OpenExisting(p) BY <2>3 DEF OpenExisting
  <2>4. CASE CreateNew(p) BY <2>4 DEF CreateNew, FreeInodes
  <2>5. CASE CreateRace(p) BY <2>5 DEF CreateRace
  <2>6. CASE Verify(p) BY <2>6 DEF Verify
  <2>7. CASE LockFile(p) BY <2>7 DEF LockFile
  <2>8. CASE LockTimeout(p) BY <2>8 DEF LockTimeout
  <2>9. CASE Recheck(p) BY <2>9 DEF Recheck
  <2> QED BY <1>5, <2>1, <2>2, <2>3, <2>4, <2>5, <2>6, <2>7, <2>8, <2>9
          DEF Acquire
<1>6. ASSUME NEW p \in Procs, Write(p) \/ Release(p) PROVE HandleDiscipline'
  BY <1>6 DEF Write, Release
<1>7. ASSUME NEW p \in Procs, Purge(p) PROVE HandleDiscipline'
  <2>1. CASE PurgeStat(p) BY <2>1 DEF PurgeStat
  <2>2. CASE PurgeList(p) BY <2>2 DEF PurgeList
  <2>3. CASE PrepareAnchor(p) BY <2>3 DEF PrepareAnchor
  <2>4. CASE ChmodAnchor(p) BY <2>4 DEF ChmodAnchor
  <2>5. CASE RemoveFiles(p) BY <2>5 DEF RemoveFiles
  <2>6. CASE UnlinkAnchor(p) BY <2>6 DEF UnlinkAnchor
  <2>7. CASE DropLock(p) BY <2>7 DEF DropLock
  <2>8. CASE ReadDir(p) BY <2>8 DEF ReadDir
  <2>9. CASE RemoveDir(p) BY <2>9 DEF RemoveDir
  <2>10. CASE ReadDirAgain(p) BY <2>10 DEF ReadDirAgain
  <2> QED BY <1>7, <2>1, <2>2, <2>3, <2>4, <2>5, <2>6, <2>7, <2>8, <2>9, <2>10
          DEF Purge
<1> QED BY <1>1, <1>2, <1>3, <1>4, <1>5, <1>6, <1>7 DEF Next, Step

LEMMA TypeStep == TypeOK /\ [Next]_vars => TypeOK'
  BY TypesStep, HandleStep DEF TypeOK

\* The first state has the types.
LEMMA TypeInit == Init => TypeOK
<1> SUFFICES ASSUME Init PROVE TypeOK
  OBVIOUS
<1>1. dir \in BOOLEAN /\ anchor \in Inodes \cup {NoInode} /\ files \in BOOLEAN
  BY DEF Init
<1>2. fd \in [Procs -> Inodes \cup {NoInode}]
  BY DEF Init
<1>3. flock \in [Inodes -> Procs \cup {Nobody}]
  BY DEF Init
<1>4. pc \in [Procs -> Pcs]
  BY DEF Init
<1>5. op \in [Procs -> Ops]
  BY DEF Init, Ops
<1>6. late \in [Procs -> BOOLEAN]
  BY DEF Init
<1>7. outcome \in [Procs -> {"none", "ok", "timeout", "changed", "gone", "killed"}]
  BY DEF Init
<1>8. \A p \in Procs : fd[p] \notin Inodes /\ pc[p] \notin Opened
  BY NoInodeAssumption DEF Init
<1> QED BY <1>1, <1>2, <1>3, <1>4, <1>5, <1>6, <1>7, <1>8
        DEF TypeOK, Types, HandleDiscipline

\* Type correctness of the lock protocol.
THEOREM TypeCorrect == Spec => []TypeOK
  BY TypeInit, TypeStep, PTL DEF Spec

\* Every step keeps the invariant: the cases are the system calls.
LEMMA LockInvStep == LockInv /\ [Next]_vars => LockInv'
<1> SUFFICES ASSUME LockInv, [Next]_vars PROVE LockInv'
  OBVIOUS
<1>0. TypeOK'
  BY TypeStep DEF LockInv
<1> USE <1>0, NoInodeAssumption, NobodyAssumption
    DEF LockInv, TypeOK, Types, HandleDiscipline, LockOwners,
        CriticalIsCurrent, AnchorInDir,
        PurgeLeavesNothing, disk, locks, Goto, Close, Finish, Retry, At
<1>1. CASE UNCHANGED vars
  BY <1>1 DEF vars
<1>2. ASSUME NEW p \in Procs, NEW o \in Ops, Start(p, o) PROVE LockInv'
  BY <1>2 DEF Start
<1>3. ASSUME NEW p \in Procs, DeadlinePasses(p) PROVE LockInv'
  BY <1>3 DEF DeadlinePasses
<1>4. ASSUME NEW p \in Procs, Kill(p) PROVE LockInv'
  BY <1>4 DEF Kill
<1>5. ASSUME NEW p \in Procs, Acquire(p) PROVE LockInv'
  <2>1. CASE EnsureDir(p) BY <2>1 DEF EnsureDir
  <2>2. CASE EnsureTimeout(p) BY <2>2 DEF EnsureTimeout
  <2>3. CASE OpenExisting(p) BY <2>3 DEF OpenExisting
  <2>4. CASE CreateNew(p) BY <2>4 DEF CreateNew, FreeInodes
  <2>5. CASE CreateRace(p) BY <2>5 DEF CreateRace
  <2>6. CASE Verify(p) BY <2>6 DEF Verify
  <2>7. CASE LockFile(p) BY <2>7 DEF LockFile
  <2>8. CASE LockTimeout(p) BY <2>8 DEF LockTimeout
  <2>9. CASE Recheck(p) BY <2>9 DEF Recheck
  <2> QED BY <1>5, <2>1, <2>2, <2>3, <2>4, <2>5, <2>6, <2>7, <2>8, <2>9
          DEF Acquire
<1>6. ASSUME NEW p \in Procs, Write(p) PROVE LockInv'
  BY <1>6, ExclusionFromInv DEF Write, MutualExclusion, InCritical
<1>7. ASSUME NEW p \in Procs, Release(p) PROVE LockInv'
  BY <1>7 DEF Release
<1>8. ASSUME NEW p \in Procs, Purge(p) PROVE LockInv'
  <2>1. CASE PurgeStat(p) BY <2>1 DEF PurgeStat
  <2>2. CASE PurgeList(p) BY <2>2 DEF PurgeList
  <2>3. CASE PrepareAnchor(p) BY <2>3 DEF PrepareAnchor
  <2>4. CASE ChmodAnchor(p) BY <2>4 DEF ChmodAnchor
  <2>5. CASE RemoveFiles(p) BY <2>5 DEF RemoveFiles
  <2>6. CASE UnlinkAnchor(p)
    BY <2>6, ExclusionFromInv DEF UnlinkAnchor, MutualExclusion, InCritical
  <2>7. CASE DropLock(p) BY <2>7 DEF DropLock
  <2>8. CASE ReadDir(p) BY <2>8 DEF ReadDir
  <2>9. CASE RemoveDir(p) BY <2>9 DEF RemoveDir, Empty
  <2>10. CASE ReadDirAgain(p) BY <2>10 DEF ReadDirAgain
  <2> QED BY <1>8, <2>1, <2>2, <2>3, <2>4, <2>5, <2>6, <2>7, <2>8, <2>9, <2>10
          DEF Purge
<1> QED BY <1>1, <1>2, <1>3, <1>4, <1>5, <1>6, <1>7, <1>8 DEF Next, Step

\* The strengthening of the four properties below, and why they hold: what a
\* process knows at each stage of acquire_until.
THEOREM LockInvariant == Spec => []LockInv
<1>1. Init => LockInv
  <2> SUFFICES ASSUME Init PROVE LockInv
    OBVIOUS
  <2>1. \A p \in Procs : pc[p] = "idle"
    BY DEF Init
  <2>2. LockOwners /\ CriticalIsCurrent /\ PurgeLeavesNothing
    BY <2>1 DEF LockOwners, CriticalIsCurrent, PurgeLeavesNothing, At
  <2>3. AnchorInDir
    BY DEF Init, AnchorInDir
  <2> QED BY <2>2, <2>3, TypeInit DEF LockInv
<1> QED BY <1>1, LockInvStep, PTL DEF Spec

\* Two processes are never in the critical section together.
THEOREM LockExcludes == Spec => []MutualExclusion
  BY LockInvariant, ExclusionFromInv, PTL

\* Whoever works under the lock holds the lock the path names.
THEOREM LockIsCurrent == Spec => []HolderIsCurrent
<1>1. LockInv => HolderIsCurrent
  <2> SUFFICES ASSUME LockInv, NEW p \in Procs, InCritical(p)
               PROVE  dir /\ fd[p] = anchor /\ flock[anchor] = p
    BY DEF HolderIsCurrent
  <2>1. fd[p] \in Inodes /\ fd[p] = anchor
    BY DEF LockInv, TypeOK, Types, HandleDiscipline, CriticalIsCurrent, InCritical
  <2>2. flock[fd[p]] = p
    BY DEF LockInv, LockOwners, InCritical
  <2> QED BY <2>1, <2>2, NoInodeAssumption DEF LockInv, AnchorInDir
<1> QED BY <1>1, LockInvariant, PTL

\* Nothing is written between purge's removal of the files and its unlinking
\* of the anchor.
THEOREM PurgeIsComplete == Spec => []PurgeLeavesNothing
<1>1. LockInv => PurgeLeavesNothing
  BY DEF LockInv
<1> QED BY <1>1, LockInvariant, PTL

-----------------------------------------------------------------------------
\* A step moves one process at most.
LEMMA OneMoves ==
  ASSUME TypeOK, [Next]_vars
  PROVE  \/ pc' = pc
         \/ \E p \in Procs : \E l \in Pcs : pc' = [pc EXCEPT ![p] = l]
<1> USE DEF Goto, Finish, Retry
<1>1. CASE UNCHANGED vars
  BY <1>1 DEF vars
<1>2. ASSUME NEW p \in Procs, NEW o \in Ops, Start(p, o)
      PROVE  \E l \in Pcs : pc' = [pc EXCEPT ![p] = l]
  BY <1>2 DEF Start
<1>3. ASSUME NEW p \in Procs, DeadlinePasses(p) PROVE pc' = pc
  BY <1>3 DEF DeadlinePasses
<1>4. ASSUME NEW p \in Procs, Kill(p) \/ Write(p) \/ Release(p)
      PROVE  \E l \in Pcs : pc' = [pc EXCEPT ![p] = l]
  BY <1>4 DEF Kill, Write, Release
<1>5. ASSUME NEW p \in Procs, Acquire(p)
      PROVE  \E l \in Pcs : pc' = [pc EXCEPT ![p] = l]
  BY <1>5 DEF Acquire, EnsureDir, EnsureTimeout, OpenExisting, CreateNew,
              CreateRace, Verify, LockFile, LockTimeout, Recheck
<1>6. ASSUME NEW p \in Procs, Purge(p)
      PROVE  \E l \in Pcs : pc' = [pc EXCEPT ![p] = l]
  BY <1>6 DEF Purge, PurgeStat, PurgeList, PrepareAnchor, ChmodAnchor,
              RemoveFiles, UnlinkAnchor, DropLock, ReadDir, RemoveDir,
              ReadDirAgain
<1> QED BY <1>1, <1>2, <1>3, <1>4, <1>5, <1>6 DEF Next, Step

\* The protocol implements the abstract lock: a step that brings a process
\* into the section finds it empty, because two would be there afterwards.
THEOREM LockImplementsMutex == Spec => ImplementsMutex
<1> DEFINE H == {p \in Procs : InCritical(p)}
<1>1. Init => M!Init
  BY DEF Init, M!Init, InCritical
<1>2. LockInv /\ LockInv' /\ [Next]_vars => [M!Next]_H
  <2> SUFFICES ASSUME LockInv, LockInv', [Next]_vars PROVE [M!Next]_H
    OBVIOUS
  <2>1. MutualExclusion' /\ TypeOK
    <3>1. LockInv' => MutualExclusion'
      BY ExclusionFromInv, PTL
    <3> QED BY <3>1 DEF LockInv
  <2>2. CASE pc' = pc
    BY <2>2 DEF InCritical
  <2>3. ASSUME NEW p \in Procs, NEW l \in Pcs, pc' = [pc EXCEPT ![p] = l]
        PROVE  [M!Next]_H
    <3> USE <2>1, <2>3 DEF TypeOK, Types, InCritical
    <3>1. CASE pc[p] \in Critical <=> l \in Critical
      <4>1. H' = H
        BY <3>1
      <4> QED BY <4>1
    <3>2. CASE pc[p] \notin Critical /\ l \in Critical
      <4>1. H = {} /\ H' = {p}
        BY <3>2 DEF MutualExclusion
      <4> QED BY <4>1 DEF M!Next, M!Enter
    <3>3. CASE pc[p] \in Critical /\ l \notin Critical
      <4>1. p \in H /\ H' = H \ {p}
        BY <3>3
      <4> QED BY <4>1 DEF M!Next, M!Leave
    <3> QED BY <3>1, <3>2, <3>3
  <2> QED BY <2>1, <2>2, <2>3, OneMoves
<1> QED BY <1>1, <1>2, LockInvariant, PTL DEF Spec, ImplementsMutex, M!Spec

\* State changes only in the hands of the holder of the current anchor.
THEOREM StateChangesUnderLock == Spec => OnlyHolderChangesState
<1> DEFINE A == (files' # files \/ (anchor # NoInode /\ anchor' # anchor))
                 => \E p \in Procs : InCritical(p) /\ flock[anchor] = p
<1>1. LockInv /\ [Next]_vars => [A]_vars
  <2> SUFFICES ASSUME LockInv, Next PROVE A
    OBVIOUS
  <2>1. ASSUME NEW p \in Procs, InCritical(p) PROVE A
    BY <2>1 DEF LockInv, LockOwners, CriticalIsCurrent, InCritical
  <2>2. ASSUME UNCHANGED <<files, anchor>> PROVE A
    BY <2>2
  <2>3. ASSUME NEW p \in Procs, NEW o \in Ops,
               Start(p, o) \/ DeadlinePasses(p) \/ Kill(p) \/ Release(p)
        PROVE  UNCHANGED <<files, anchor>>
    BY <2>3 DEF Start, DeadlinePasses, Kill, Release, disk
  <2>4. ASSUME NEW p \in Procs, Acquire(p) PROVE A
    <3>1. CASE CreateNew(p)
      BY <3>1 DEF CreateNew
    <3>2. CASE ~CreateNew(p)
      BY <2>2, <2>4, <3>2
         DEF Acquire, EnsureDir, EnsureTimeout, OpenExisting, CreateRace,
             Verify, LockFile, LockTimeout, Recheck, disk
    <3> QED BY <3>1, <3>2
  <2>5. ASSUME NEW p \in Procs, Write(p) PROVE A
    BY <2>1, <2>5 DEF Write, InCritical, At
  <2>6. ASSUME NEW p \in Procs, Purge(p) PROVE A
    <3>1. CASE RemoveFiles(p) \/ UnlinkAnchor(p)
      BY <2>1, <3>1 DEF RemoveFiles, UnlinkAnchor, InCritical, At
    <3>2. CASE ~(RemoveFiles(p) \/ UnlinkAnchor(p))
      BY <2>2, <2>6, <3>2
         DEF Purge, PurgeStat, PurgeList, PrepareAnchor, ChmodAnchor,
             DropLock, ReadDir, RemoveDir, ReadDirAgain, disk
    <3> QED BY <3>1, <3>2
  <2> QED BY <2>2, <2>3, <2>4, <2>5, <2>6 DEF Next, Step, Ops
<1> QED BY <1>1, LockInvariant, PTL DEF Spec, OnlyHolderChangesState
=============================================================================
