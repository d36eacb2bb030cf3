--------------------------- MODULE StateStoreProofs ---------------------------
(***************************************************************************)
(* Theorems about StateStore, for every set of processes, every set of     *)
(* inodes and every timeout.  The argument: the flock of an inode and the  *)
(* descriptor of its holder always point at each other (LockInv), whatever *)
(* is killed and however often the lock file is re-created; until a lock   *)
(* file that is open is replaced, all descriptors point at one inode       *)
(* (FileInv), which makes the flock a mutex for the state file; and a lock *)
(* file that persists is never replaced (PersistInv).                      *)
(***************************************************************************)
EXTENDS StateStore, TLAPS

\* A descriptor is open exactly between Open and the end of lock().
FdOK == \A p \in Procs : fd[p] # NoInode <=> pc[p] \in Opened \cup Critical

LockInv == TypeOK /\ FdOK /\ HeldThroughout /\ NoOrphanLock

\* Between the read of the state file and its replacement.
Saving == {"compared", "kept"}

FileInv ==
    ~clobbered =>
        /\ \A p \in Procs : fd[p] \in {path, NoInode}
        /\ \A p \in Procs : pc[p] \in Saving => local[p] = file
        /\ \A p \in Procs : pc[p] = "kept" => local[p] \in backups \cup {NoRecord}

\* What a persistent lock file adds: it is never created again.
PersistInv ==
    /\ path \in Inodes
    /\ \A p \in Procs : pc[p] \notin Creating
    /\ ~clobbered

-----------------------------------------------------------------------------
(* LockInv *)

LEMMA LockInvInit == Init => LockInv
<1> SUFFICES ASSUME Init PROVE LockInv
  OBVIOUS
<1>1. path \in Inodes \cup {NoInode} /\ clobbered \in BOOLEAN
  BY DEF Init
<1>2. TypeOK
  BY <1>1, BoundsAssumption DEF Init, TypeOK, Stopped
<1>3. FdOK /\ HeldThroughout /\ NoOrphanLock
  BY ModelValuesAssumption
  DEF Init, FdOK, HeldThroughout, NoOrphanLock, Opened, Critical
<1>4. QED BY <1>2, <1>3 DEF LockInv

\* The steps that neither open, close nor lock a descriptor.
LEMMA QuietStep ==
    ASSUME LockInv, NEW p \in Procs,
           Exists(p) \/ CheckTarget(p) \/ Replace(p) \/ TryFails(p) \/ Sleep(p)
             \/ Compare(p) \/ KeepOld(p) \/ Save(p) \/ SkipSave(p)
    PROVE  LockInv'
<1>1. TypeOK'
  <2>1. CASE Exists(p) \/ CheckTarget(p) \/ Replace(p) \/ TryFails(p)
    BY <2>1, BoundsAssumption
    DEF LockInv, TypeOK, Exists, CheckTarget, Replace, TryFails, Goto, FreeInodes,
        Stopped, Creating, Opened, Waiting, Critical
  <2>2. CASE Sleep(p)
    BY <2>2, BoundsAssumption
    DEF LockInv, TypeOK, Sleep, Goto, Stopped, Creating, Opened, Waiting, Critical
  <2>3. CASE Compare(p) \/ SkipSave(p)
    BY <2>3 DEF LockInv, TypeOK, Compare, SkipSave, Goto, Stopped, Creating, Opened,
                Waiting, Critical
  <2>4. CASE KeepOld(p) \/ Save(p)
    BY <2>4 DEF LockInv, TypeOK, KeepOld, Save, Goto, Stopped, Creating, Opened,
                Waiting, Critical
  <2>5. QED BY <2>1, <2>2, <2>3, <2>4,
               Exists(p) \/ CheckTarget(p) \/ Replace(p) \/ TryFails(p) \/ Sleep(p)
                 \/ Compare(p) \/ KeepOld(p) \/ Save(p) \/ SkipSave(p)
<1>2. fd' = fd /\ owner' = owner
  BY DEF Exists, CheckTarget, Replace, TryFails, Sleep, Compare, KeepOld, Save, SkipSave
<1>3. \A q \in Procs : /\ pc'[q] \in Critical <=> pc[q] \in Critical
                       /\ pc'[q] \in Opened <=> pc[q] \in Opened
  BY DEF LockInv, TypeOK, Exists, CheckTarget, Replace, TryFails, Sleep, Compare, KeepOld,
         Save, SkipSave, Goto, Stopped, Creating, Opened, Waiting, Critical
<1>4. QED
  BY <1>1, <1>2, <1>3 DEF LockInv, TypeOK, FdOK, HeldThroughout, NoOrphanLock

LEMMA OpenStep ==
    ASSUME LockInv, NEW p \in Procs, Open(p) PROVE LockInv'
<1>1. TypeOK'
  BY BoundsAssumption
  DEF LockInv, TypeOK, Open, Goto, Stopped, Creating, Opened, Waiting, Critical
<1>2. FdOK'
  BY ModelValuesAssumption
  DEF LockInv, TypeOK, FdOK, Open, Goto, Opened, Critical
<1>3. HeldThroughout'
  BY DEF LockInv, TypeOK, HeldThroughout, Open, Goto, Critical
<1>4. NoOrphanLock'
  BY ModelValuesAssumption
  DEF LockInv, TypeOK, NoOrphanLock, FdOK, Open, Goto, Opened, Critical
<1>5. QED BY <1>1, <1>2, <1>3, <1>4 DEF LockInv

LEMMA TryLockStep ==
    ASSUME LockInv, NEW p \in Procs, TryLock(p) PROVE LockInv'
<1>1. fd[p] \in Inodes
  BY DEF LockInv, TypeOK, FdOK, TryLock, Goto, Opened
<1>2. TypeOK'
  BY <1>1 DEF LockInv, TypeOK, TryLock, Goto, Stopped, Creating, Opened, Waiting,
              Critical
<1>3. FdOK'
  BY DEF LockInv, TypeOK, FdOK, TryLock, Goto, Opened, Critical
<1>4. HeldThroughout'
  BY <1>1, ModelValuesAssumption
  DEF LockInv, TypeOK, FdOK, HeldThroughout, TryLock, Goto, Opened, Critical
<1>5. NoOrphanLock'
  BY <1>1 DEF LockInv, TypeOK, NoOrphanLock, TryLock, Goto, Critical
<1>6. QED BY <1>2, <1>3, <1>4, <1>5 DEF LockInv

\* p stops: its descriptor is closed and the flock that goes with it released.
LEMMA StopStep ==
    ASSUME LockInv, NEW p \in Procs, TimeOut(p) \/ Unlock(p) \/ Crash(p)
    PROVE  LockInv'
<1>1. /\ pc' \in [Procs -> Stopped \cup Waiting \cup Critical]
      /\ pc'[p] \in Stopped
      /\ \A q \in Procs \ {p} : pc'[q] = pc[q]
  BY DEF LockInv, TypeOK, TimeOut, Unlock, Crash, Goto, Stopped
<1>2. owner' = Released(p) /\ fd' = [fd EXCEPT ![p] = NoInode]
  BY DEF TimeOut, Unlock, Crash
<1>3. TypeOK'
  BY <1>1, <1>2 DEF LockInv, TypeOK, TimeOut, Unlock, Crash, Released
<1>4. FdOK'
  BY <1>1, <1>2 DEF LockInv, TypeOK, FdOK, Stopped, Opened, Critical
<1>5. HeldThroughout'
  <2> SUFFICES ASSUME NEW q \in Procs, pc'[q] \in Critical
               PROVE  owner'[fd'[q]] = q
    BY DEF HeldThroughout
  <2>1. q # p
    BY <1>1 DEF Stopped, Critical
  <2>2. fd'[q] = fd[q] /\ fd[q] \in Inodes /\ owner[fd[q]] = q
    BY <1>1, <1>2, <2>1 DEF LockInv, TypeOK, FdOK, HeldThroughout
  <2>3. QED
    BY <1>2, <2>1, <2>2 DEF Released
<1>6. NoOrphanLock'
  <2> SUFFICES ASSUME NEW i \in Inodes, owner'[i] # NoProc
               PROVE  pc'[owner'[i]] \in Critical /\ fd'[owner'[i]] = i
    BY DEF NoOrphanLock
  <2>1. owner'[i] = owner[i] /\ owner[i] # p /\ owner[i] \in Procs
    BY <1>2 DEF Released, LockInv, TypeOK
  <2>2. QED
    BY <1>1, <1>2, <2>1 DEF LockInv, TypeOK, NoOrphanLock
<1>7. QED BY <1>3, <1>4, <1>5, <1>6 DEF LockInv

LEMMA RebootStep == ASSUME LockInv, Reboot PROVE LockInv'
BY ModelValuesAssumption
DEF LockInv, TypeOK, FdOK, HeldThroughout, NoOrphanLock, Reboot, Stopped, Creating,
    Opened, Waiting, Critical

LEMMA LockInvStep == LockInv /\ [Next]_vars => LockInv'
<1> SUFFICES ASSUME LockInv, [Next]_vars PROVE LockInv'
  OBVIOUS
<1>1. CASE UNCHANGED vars
  BY <1>1 DEF vars, LockInv, TypeOK, FdOK, HeldThroughout, NoOrphanLock
<1>2. CASE Reboot
  BY <1>2, RebootStep
<1>3. CASE \E p \in Procs : Exists(p) \/ Acquire(p) \/ Body(p) \/ Crash(p)
  BY <1>3, QuietStep, OpenStep, TryLockStep, StopStep DEF Acquire, Body
<1>4. QED BY <1>1, <1>2, <1>3 DEF Next

\* Type correctness of the state store.
THEOREM TypeCorrect == Spec => []TypeOK
<1>1. LockInv => TypeOK BY DEF LockInv
<1>2. QED BY LockInvInit, LockInvStep, <1>1, PTL DEF Spec

\* Whether or not the lock file persists, an installer that is inside owns the flock of
\* the very file it opened, until it leaves (executor.py, StateStore.lock).
THEOREM HoldersKeepTheirFlock == Spec => []HeldThroughout
<1>1. LockInv => HeldThroughout BY DEF LockInv
<1>2. QED BY LockInvInit, LockInvStep, <1>1, PTL DEF Spec

\* No crash, timeout or reboot leaves a flock behind without a live installer inside
\* that has its file open: nobody waits for the dead.
THEOREM NoFlockLeftBehind == Spec => []NoOrphanLock
<1>1. LockInv => NoOrphanLock BY DEF LockInv
<1>2. QED BY LockInvInit, LockInvStep, <1>1, PTL DEF Spec

-----------------------------------------------------------------------------
(* FileInv: until a lock file that is open is replaced *)

LEMMA FileInvInit == Init => FileInv
BY DEF Init, FileInv

\* All open descriptors name one inode, whose flock has one owner.
LEMMA ExclusionFromInv == LockInv /\ FileInv => ExclusiveUnlessClobbered
<1> SUFFICES ASSUME LockInv, FileInv, ~clobbered, NEW p \in Procs, NEW q \in Procs,
                    pc[p] \in Critical, pc[q] \in Critical
             PROVE  p = q
  BY DEF ExclusiveUnlessClobbered, MutualExclusion
<1>1. fd[p] = path /\ fd[q] = path
  BY DEF LockInv, FileInv, FdOK
<1>2. owner[fd[p]] = p /\ owner[fd[q]] = q
  BY DEF LockInv, HeldThroughout
<1>3. QED BY <1>1, <1>2

\* History: once clobbered, for ever clobbered.
LEMMA ClobberedStays == [Next]_vars => (clobbered => clobbered')
BY DEF Next, vars, Exists, Acquire, Body, CheckTarget, Replace, Open, TryLock,
       TryFails, Sleep, TimeOut, Compare, KeepOld, Save, SkipSave, Unlock, Crash, Reboot

\* A replacement that clobbers nothing finds every descriptor closed.
LEMMA FileInvReplace ==
    ASSUME LockInv, FileInv, NEW p \in Procs, Replace(p) PROVE FileInv'
<1> SUFFICES ASSUME ~clobbered' PROVE FileInv'
  BY DEF FileInv
<1>1. ~clobbered /\ \A q \in Procs : fd[q] = NoInode
  BY DEF FileInv, Replace
<1>2. \A q \in Procs : pc'[q] \in Saving => pc'[q] = pc[q]
  BY DEF LockInv, TypeOK, Replace, Goto, Saving
<1>3. QED BY <1>1, <1>2 DEF FileInv, Replace, Saving

LEMMA FileInvAcquire ==
    ASSUME LockInv, FileInv, NEW p \in Procs,
           Exists(p) \/ (Acquire(p) /\ ~Replace(p)) \/ Crash(p)
    PROVE  FileInv'
<1> SUFFICES ASSUME ~clobbered' PROVE FileInv'
  BY DEF FileInv
<1>1. /\ ~clobbered
      /\ path' = path /\ file' = file /\ backups' = backups /\ local' = local
  BY DEF Exists, Acquire, CheckTarget, Open, TryLock, TryFails, Sleep, TimeOut, Crash
<1>2. \A q \in Procs : fd'[q] \in {path, NoInode}
  BY <1>1 DEF LockInv, TypeOK, FileInv, Exists, Acquire, CheckTarget, Open, TryLock,
              TryFails, Sleep, TimeOut, Crash
<1>3. \A q \in Procs : pc'[q] \in Saving => pc'[q] = pc[q]
  BY DEF LockInv, TypeOK, Exists, Acquire, CheckTarget, Open, TryLock, TryFails, Sleep,
         TimeOut, Crash, Goto, Saving
<1>4. QED BY <1>1, <1>2, <1>3 DEF FileInv, Saving

LEMMA FileInvBody ==
    ASSUME LockInv, FileInv, NEW p \in Procs, Body(p) PROVE FileInv'
<1> SUFFICES ASSUME ~clobbered' PROVE FileInv'
  BY DEF FileInv
<1>1. ~clobbered /\ path' = path
  BY DEF Body, Compare, KeepOld, Save, SkipSave, Unlock
<1>2. \A q \in Procs : fd'[q] \in {path, NoInode}
  BY <1>1 DEF LockInv, TypeOK, FileInv, Body, Compare, KeepOld, Save, SkipSave, Unlock
<1>3. ASSUME NEW q \in Procs, pc'[q] \in Saving
      PROVE  /\ local'[q] = file'
             /\ pc'[q] = "kept" => local'[q] \in backups' \cup {NoRecord}
  <2>1. CASE Compare(p)
    BY <1>1, <1>3, <2>1 DEF LockInv, TypeOK, FileInv, Compare, Goto, Saving
  <2>2. CASE KeepOld(p)
    BY <1>1, <1>3, <2>2 DEF LockInv, TypeOK, FileInv, KeepOld, Goto, Saving
  <2>3. CASE Save(p)
    <3>1. pc[p] \in Critical /\ q # p /\ pc[q] \in Critical
      BY <1>3, <2>3 DEF LockInv, TypeOK, Save, Goto, Critical, Saving
    <3>2. QED BY <1>1, <3>1, ExclusionFromInv
              DEF ExclusiveUnlessClobbered, MutualExclusion
  <2>4. CASE SkipSave(p) \/ Unlock(p)
    BY <1>1, <1>3, <2>4 DEF LockInv, TypeOK, FileInv, SkipSave, Unlock, Goto, Saving
  <2>5. QED BY <2>1, <2>2, <2>3, <2>4 DEF Body
<1>4. QED BY <1>1, <1>2, <1>3 DEF FileInv, Saving

LEMMA FileInvStep == LockInv /\ FileInv /\ [Next]_vars => FileInv'
<1> SUFFICES ASSUME LockInv, FileInv, [Next]_vars PROVE FileInv'
  OBVIOUS
<1>1. CASE UNCHANGED vars
  BY <1>1 DEF vars, FileInv
<1>2. CASE Reboot
  BY <1>2 DEF FileInv, Reboot, Saving
<1>3. CASE \E p \in Procs : Exists(p) \/ Acquire(p) \/ Body(p) \/ Crash(p)
  BY <1>3, FileInvAcquire, FileInvReplace, FileInvBody
<1>4. QED BY <1>1, <1>2, <1>3 DEF Next

\* Until a lock file that is open is replaced, installers exclude each other and all
\* descriptors name one file: whatever is killed, times out or reboots.
THEOREM ExcludesUntilClobbered ==
    Spec => /\ []ExclusiveUnlessClobbered
            /\ [](~clobbered => OneLockFile)
<1>1. LockInv /\ FileInv => (~clobbered => OneLockFile)
  BY DEF FileInv, OneLockFile
<1>2. QED
  BY LockInvInit, LockInvStep, FileInvInit, FileInvStep, ExclusionFromInv, <1>1, PTL
  DEF Spec

-----------------------------------------------------------------------------
(* PersistInv: what a persistent lock file adds *)

LEMMA PersistInvStep ==
    ASSUME LockPersists PROVE LockInv /\ PersistInv /\ [Next]_vars => PersistInv'
<1> SUFFICES ASSUME LockInv, PersistInv, [Next]_vars PROVE PersistInv'
  OBVIOUS
<1>1. CASE UNCHANGED vars
  BY <1>1 DEF vars, PersistInv
<1>2. CASE Reboot
  BY <1>2 DEF PersistInv, Reboot, Creating
<1>3. ASSUME NEW p \in Procs, Exists(p) \/ Acquire(p) \/ Body(p) \/ Crash(p)
      PROVE  PersistInv'
  <2>1. ~CheckTarget(p) /\ ~Replace(p)
    BY DEF PersistInv, CheckTarget, Replace, Goto, Creating
  <2>2. path' = path /\ clobbered' = clobbered
    BY <1>3, <2>1 DEF Exists, Acquire, Open, TryLock, TryFails, Sleep, TimeOut,
                      Body, Compare, KeepOld, Save, SkipSave, Unlock, Crash
  <2>3. \A q \in Procs : pc'[q] \notin Creating
    BY <1>3, <2>1, ModelValuesAssumption
    DEF LockInv, TypeOK, PersistInv, Exists, Acquire, Open, TryLock, TryFails, Sleep,
        TimeOut, Body, Compare, KeepOld, Save, SkipSave, Unlock, Crash, Goto, Creating
  <2>4. QED BY <2>2, <2>3 DEF PersistInv
<1>4. QED BY <1>1, <1>2, <1>3 DEF Next

\* With a lock file that persists the lock is never clobbered: exclusion and the one
\* lock file hold without a condition.
THEOREM PersistentLockExcludes ==
    ASSUME LockPersists
    PROVE  Spec => []~clobbered /\ []MutualExclusion /\ []OneLockFile
<1>1. Init => PersistInv
  BY DEF Init, PersistInv, Creating
<1>2. PersistInv => ~clobbered
  BY DEF PersistInv
<1>3. ExclusiveUnlessClobbered /\ ~clobbered => MutualExclusion
  BY DEF ExclusiveUnlessClobbered
<1>4. QED
  BY LockInvInit, LockInvStep, PersistInvStep, <1>1, <1>2, <1>3,
     ExcludesUntilClobbered, PTL DEF Spec

-----------------------------------------------------------------------------
(* Refinement *)

Inside == {p \in Procs : pc[p] \in Critical}

LEMMA QuietStepRefines ==
    ASSUME LockInv, FileInv, NEW p \in Procs, ~clobbered', ~clobbered,
           Exists(p) \/ (Acquire(p) /\ ~TryLock(p)) \/ Compare(p)
             \/ KeepOld(p) \/ SkipSave(p)
    PROVE  UNCHANGED Serial!storeVars
<1>1. file' = file
  BY DEF Exists, Acquire, CheckTarget, Replace, Open, TryFails, Sleep, TimeOut, Compare,
         KeepOld, SkipSave
<1>2. backups' \cup ({file} \ {NoRecord}) = backups \cup ({file} \ {NoRecord})
  <2>1. CASE KeepOld(p)
    <3>1. local[p] = file
      BY <2>1 DEF FileInv, KeepOld, Goto, Saving
    <3>2. QED BY <2>1, <3>1 DEF KeepOld
  <2>2. CASE ~KeepOld(p)
    BY <2>2 DEF Exists, Acquire, CheckTarget, Replace, Open, TryFails, Sleep, TimeOut,
                Compare, SkipSave
  <2>3. QED BY <2>1, <2>2
<1>3. \A q \in Procs : pc'[q] \in Critical <=> pc[q] \in Critical
  BY DEF LockInv, TypeOK, Exists, Acquire, CheckTarget, Replace, Open, TryFails, Sleep,
         TimeOut, Compare, KeepOld, SkipSave, Goto, Stopped, Critical
<1>4. clobbered' = clobbered
  <2>1. clobbered \in BOOLEAN
    BY DEF LockInv, TypeOK
  <2>2. CASE Replace(p)
    <3>1. clobbered' \in BOOLEAN
      BY <2>2 DEF Replace
    <3>2. QED BY <2>1, <3>1
  <2>3. CASE ~Replace(p)
    BY <2>3 DEF Exists, Acquire, CheckTarget, Open, TryFails, Sleep, TimeOut, Compare,
                KeepOld, SkipSave
  <2>4. QED BY <2>2, <2>3
<1>5. QED BY <1>1, <1>2, <1>3, <1>4 DEF Serial!storeVars

LEMMA TryLockRefines ==
    ASSUME LockInv, FileInv, ~clobbered, NEW p \in Procs, TryLock(p)
    PROVE  Serial!Enter(p)
<1>1. fd[p] = path
  BY DEF LockInv, FileInv, FdOK, TryLock, Goto, Opened
<1>2. \A q \in Procs : pc[q] \notin Critical
  <2>1. ASSUME NEW q \in Procs, pc[q] \in Critical PROVE FALSE
    <3>1. fd[q] = path /\ owner[fd[q]] = q
      BY <2>1 DEF LockInv, FileInv, FdOK, HeldThroughout
    <3>2. QED BY <1>1, <3>1, ModelValuesAssumption DEF TryLock
  <2>2. QED BY <2>1
<1>3. \A q \in Procs : pc'[q] \in Critical <=> q = p
  BY <1>2 DEF LockInv, TypeOK, TryLock, Goto, Critical
<1>4. QED BY <1>2, <1>3 DEF Serial!Enter, TryLock

\* Any step of a process that is inside: it is the only one inside.
LEMMA AloneInside ==
    ASSUME LockInv, FileInv, ~clobbered, NEW p \in Procs, pc[p] \in Critical
    PROVE  Inside = {p}
BY ExclusionFromInv DEF ExclusiveUnlessClobbered, MutualExclusion, Inside

LEMMA SaveRefines ==
    ASSUME LockInv, FileInv, ~clobbered, NEW p \in Procs, Save(p)
    PROVE  Serial!Update(p)
<1>1. Inside = {p}
  BY AloneInside DEF Save, Goto, Critical
<1>2. Inside' = Inside
  BY DEF LockInv, TypeOK, Save, Goto, Inside, Critical
<1>3. PICK r \in Records : file' = r
  BY DEF Save
<1>4. backups' = backups /\ file \in backups \cup {NoRecord}
  BY DEF FileInv, Save, Goto, Saving
<1>5. backups' \cup ({file'} \ {NoRecord}) = (backups \cup ({file} \ {NoRecord})) \cup {r}
  BY <1>3, <1>4, ModelValuesAssumption
<1>6. QED BY <1>1, <1>2, <1>3, <1>5 DEF Serial!Update, Inside

LEMMA LeaveRefines ==
    ASSUME LockInv, FileInv, ~clobbered, NEW p \in Procs, Unlock(p) \/ Crash(p)
    PROVE  Serial!Leave(p) \/ UNCHANGED Serial!storeVars
<1>1. /\ file' = file /\ backups' = backups /\ clobbered' = clobbered
      /\ pc'[p] \in Stopped /\ \A q \in Procs \ {p} : pc'[q] = pc[q]
  BY DEF LockInv, TypeOK, Unlock, Crash, Goto, Stopped
<1>2. CASE pc[p] \in Critical
  <2>1. Inside = {p}
    BY <1>2, AloneInside
  <2>2. Inside' = {}
    BY <1>1, <2>1 DEF Inside, Stopped, Critical
  <2>3. QED BY <1>1, <2>1, <2>2 DEF Serial!Leave, Inside
<1>3. CASE pc[p] \notin Critical
  <2>1. Inside' = Inside
    BY <1>1, <1>3 DEF Inside, Stopped, Critical
  <2>2. QED BY <1>1, <2>1 DEF Serial!storeVars, Inside
<1>4. QED BY <1>2, <1>3

LEMMA RebootRefines ==
    ASSUME LockInv, FileInv, ~clobbered, Reboot
    PROVE  (\E p \in Procs : Serial!Leave(p)) \/ UNCHANGED Serial!storeVars
<1>1. file' = file /\ backups' = backups /\ clobbered' = clobbered /\ Inside' = {}
  BY DEF Reboot, Inside, Critical
<1>2. CASE \E p \in Procs : pc[p] \in Critical
  <2>1. PICK p \in Procs : pc[p] \in Critical
    BY <1>2
  <2>2. Inside = {p}
    BY <2>1, AloneInside
  <2>3. QED BY <1>1, <2>2 DEF Serial!Leave, Inside
<1>3. CASE \A p \in Procs : pc[p] \notin Critical
  BY <1>1, <1>3 DEF Serial!storeVars, Inside
<1>4. QED BY <1>2, <1>3

\* The state store implements SerialStore: installers are inside one at a time and no
\* saved record is lost until a lock file that is open is replaced, however installers
\* are killed or the host reboots.
THEOREM StoreIsSerial == Spec => Serializable
<1>1. Init => Serial!StoreInit
  BY DEF Init, Serial!StoreInit, Critical
<1>2. LockInv /\ FileInv /\ [Next]_vars => [Serial!StoreNext]_(Serial!storeVars)
  <2> SUFFICES ASSUME LockInv, FileInv, [Next]_vars
               PROVE  Serial!StoreNext \/ UNCHANGED Serial!storeVars
    OBVIOUS
  <2>1. CASE UNCHANGED vars
    BY <2>1 DEF vars, Serial!storeVars
  <2>2. CASE clobbered'
    BY <2>2 DEF Serial!StoreNext, Serial!Broken, TypeOK
  <2>3. CASE ~clobbered' /\ Next
    <3>1. ~clobbered
      BY <2>3, ClobberedStays
    <3>2. CASE Reboot
      BY <2>3, <3>1, <3>2, RebootRefines DEF Serial!StoreNext
    <3>3. ASSUME NEW p \in Procs, Exists(p) \/ Acquire(p) \/ Body(p) \/ Crash(p)
          PROVE  Serial!StoreNext \/ UNCHANGED Serial!storeVars
      BY <2>3, <3>1, <3>3, QuietStepRefines, TryLockRefines, SaveRefines, LeaveRefines
      DEF Serial!StoreNext, Body
    <3>4. QED BY <2>3, <3>2, <3>3 DEF Next
  <2>4. QED BY <2>1, <2>2, <2>3
<1>3. QED
  BY LockInvInit, LockInvStep, FileInvInit, FileInvStep, <1>1, <1>2, PTL
  DEF Spec, Serializable, Serial!StoreSpec
=============================================================================
