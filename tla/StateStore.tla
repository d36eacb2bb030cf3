------------------------------ MODULE StateStore ------------------------------
(***************************************************************************)
(* StateStore of executor.py: the advisory flock under which apply and     *)
(* uninstall run, and the save of the JSON state file at the end of an     *)
(* apply.  A save does not load the file: it installs a fresh record over  *)
(* it, with a backup of the old one.  (transaction() and load() have no    *)
(* caller in the program.)  One action per system call whose interleaving  *)
(* with another installer matters; a process may be killed before any of   *)
(* them, and the host may reboot.                                          *)
(***************************************************************************)
EXTENDS Naturals

CONSTANTS
    Procs,         \* installer processes
    Inodes,        \* file objects the lock path can name
    NoProc,        \* nobody holds the flock
    NoInode,       \* the lock path does not exist / no descriptor is open
    LockPersists,  \* TRUE: the lock file is there from the start and survives
                   \* a reboot (a state directory on disk); FALSE: it does not
                   \* (the default /run/lock, a tmpfs)
    MaxPolls,      \* polls that fit in the timeout of lock()
    Records,       \* what an apply may record: its plan, steps and time
    NoRecord       \* there is no state file

ASSUME ModelValuesAssumption ==
    NoProc \notin Procs /\ NoInode \notin Inodes /\ NoRecord \notin Records
ASSUME BoundsAssumption == LockPersists \in BOOLEAN /\ MaxPolls \in Nat
ASSUME InodesAssumption == Inodes # {}

VARIABLES
    pc,      \* pc[p]: the next step of process p
    path,    \* the inode the lock path names
    fd,      \* fd[p]: the inode p has open
    owner,   \* owner[i]: the process whose flock the kernel grants on i
    polls,   \* polls[p]: failed attempts slept through so far
    file,    \* the record in the state file
    backups, \* the records that its backup files hold
    local,   \* local[p]: the record that the save of p has read
    clobbered \* history: a lock file that a process had open was replaced

vars == <<pc, path, fd, owner, polls, file, backups, local, clobbered>>

Stopped == {"idle", "failed"}            \* no lock() call in progress
Creating == {"install", "replace"}       \* inside _ensure_lock_file
Opened == {"try", "blocked"}             \* descriptor open, flock not granted
Critical == {"locked", "compared", "kept", "ending"}
Waiting == Creating \cup {"open"} \cup Opened

TypeOK ==
    /\ pc \in [Procs -> Stopped \cup Waiting \cup Critical]
    /\ path \in Inodes \cup {NoInode}
    /\ fd \in [Procs -> Inodes \cup {NoInode}]
    /\ owner \in [Inodes -> Procs \cup {NoProc}]
    /\ polls \in [Procs -> 0 .. MaxPolls]
    /\ file \in Records \cup {NoRecord}
    /\ backups \subseteq Records
    /\ local \in [Procs -> Records \cup {NoRecord}]
    /\ clobbered \in BOOLEAN

Init ==
    /\ pc = [p \in Procs |-> "idle"]
    /\ IF LockPersists THEN path \in Inodes ELSE path = NoInode
    /\ fd = [p \in Procs |-> NoInode]
    /\ owner = [i \in Inodes |-> NoProc]
    /\ polls = [p \in Procs |-> 0]
    /\ file = NoRecord /\ backups = {}
    /\ local = [p \in Procs |-> NoRecord]
    /\ clobbered = FALSE

-----------------------------------------------------------------------------
(* Helpers of the actions *)

\* p moves from control point a to control point b.
Goto(p, a, b) == pc[p] = a /\ pc' = [pc EXCEPT ![p] = b]

\* os.replace binds the path to a file object nothing refers to.
FreeInodes == Inodes \ ({path} \cup {fd[p] : p \in Procs})

\* Faulty variant: the unlock goes to the lock file, whoever holds it.
ReleasedByAnyone(p) == [i \in Inodes |-> NoProc]

\* The kernel drops the flock when the descriptor of its owner is closed.
Released(p) == [i \in Inodes |-> IF owner[i] = p THEN NoProc ELSE owner[i]]

-----------------------------------------------------------------------------
(* _ensure_lock_file *)

\* lock_path.exists(): a lock file that is there is used as it is.
Exists(p) ==
    /\ pc[p] \in Stopped
    /\ pc' = [pc EXCEPT ![p] = IF path = NoInode THEN "install" ELSE "open"]
    /\ UNCHANGED <<path, fd, owner, polls, file, backups, local, clobbered>>

\* AtomicFileInstaller._check_target: a file created meanwhile is empty and of
\* mode 0666 already, so install leaves it alone.
CheckTarget(p) ==
    /\ Goto(p, "install", IF path = NoInode THEN "replace" ELSE "open")
    /\ UNCHANGED <<path, fd, owner, polls, file, backups, local, clobbered>>

\* os.replace (or mv -f) of a fresh file over the path, whatever it names now.
Replace(p) ==
    /\ Goto(p, "replace", "open")
    /\ path' \in FreeInodes
    /\ clobbered' = (clobbered \/ (path # NoInode /\ \E q \in Procs : fd[q] = path))
    /\ UNCHANGED <<fd, owner, polls, file, backups, local>>

-----------------------------------------------------------------------------
(* lock(): open, poll a non-blocking flock until the deadline *)

Open(p) ==
    /\ path # NoInode
    /\ Goto(p, "open", "try")
    /\ fd' = [fd EXCEPT ![p] = path]
    /\ polls' = [polls EXCEPT ![p] = 0]
    /\ UNCHANGED <<path, owner, file, backups, local, clobbered>>

\* Faulty variant: LOCK_SH for LOCK_EX.
TryShared(p) ==
    /\ Goto(p, "try", "locked")
    /\ owner' = [owner EXCEPT ![fd[p]] = p]
    /\ UNCHANGED <<path, fd, polls, file, backups, local, clobbered>>

TryLock(p) ==
    /\ Goto(p, "try", "locked")
    /\ owner[fd[p]] = NoProc
    /\ owner' = [owner EXCEPT ![fd[p]] = p]
    /\ UNCHANGED <<path, fd, polls, file, backups, local, clobbered>>

\* flock raises BlockingIOError.
TryFails(p) ==
    /\ Goto(p, "try", "blocked")
    /\ owner[fd[p]] # NoProc
    /\ UNCHANGED <<path, fd, owner, polls, file, backups, local, clobbered>>

\* Faulty variant: the deadline is compared with > after the sleep.
SleepPastDeadline(p) ==
    /\ polls[p] <= MaxPolls
    /\ Goto(p, "blocked", "try")
    /\ polls' = [polls EXCEPT ![p] = @ + 1]
    /\ UNCHANGED <<path, fd, owner, file, backups, local, clobbered>>

\* Faulty variant: the deadline is computed again in every turn of the loop.
SleepUncounted(p) ==
    /\ Goto(p, "blocked", "try")
    /\ polls[p] < MaxPolls
    /\ UNCHANGED <<path, fd, owner, polls, file, backups, local, clobbered>>

Sleep(p) ==
    /\ polls[p] < MaxPolls
    /\ Goto(p, "blocked", "try")
    /\ polls' = [polls EXCEPT ![p] = @ + 1]
    /\ UNCHANGED <<path, fd, owner, file, backups, local, clobbered>>

\* The deadline has passed: the finally clause unlocks the descriptor, which
\* holds nothing, and closes it.
TimeOut(p) ==
    /\ polls[p] = MaxPolls
    /\ Goto(p, "blocked", "failed")
    /\ owner' = Released(p)
    /\ fd' = [fd EXCEPT ![p] = NoInode]
    /\ UNCHANGED <<path, polls, file, backups, local, clobbered>>

-----------------------------------------------------------------------------
(* The body: at the end of an apply that changed something, save *)

\* install reads the state file to compare it with the new record.
Compare(p) ==
    /\ Goto(p, "locked", "compared")
    /\ local' = [local EXCEPT ![p] = file]
    /\ UNCHANGED <<path, fd, owner, polls, file, backups, clobbered>>

\* Faulty variant: one backup file, under a fixed name.
KeepLast(p) ==
    /\ Goto(p, "compared", "kept")
    /\ backups' = {local[p]} \ {NoRecord}
    /\ UNCHANGED <<path, fd, owner, polls, file, local, clobbered>>

\* It writes a backup of what it has read, if there was a file.
KeepOld(p) ==
    /\ Goto(p, "compared", "kept")
    /\ backups' = backups \cup ({local[p]} \ {NoRecord})
    /\ UNCHANGED <<path, fd, owner, polls, file, local, clobbered>>

\* It replaces the file, whatever that is by now.
Save(p) ==
    /\ Goto(p, "kept", "ending")
    /\ file' \in Records \ {local[p]}
    /\ UNCHANGED <<path, fd, owner, polls, backups, local, clobbered>>

\* Nothing is written: uninstall, an apply that changed nothing or raised, a record
\* equal to the one in the file, or a write that fails.
SkipSave(p) ==
    /\ pc[p] \in {"locked", "compared", "kept"}
    /\ pc' = [pc EXCEPT ![p] = "ending"]
    /\ UNCHANGED <<path, fd, owner, polls, file, backups, local, clobbered>>

Unlock(p) ==
    /\ Goto(p, "ending", "idle")
    /\ owner' = Released(p)
    /\ fd' = [fd EXCEPT ![p] = NoInode]
    /\ UNCHANGED <<path, polls, file, backups, local, clobbered>>

-----------------------------------------------------------------------------
(* Faults *)

\* Faulty variant: no O_CLOEXEC, so a child command keeps the descriptor open.
CrashLeaksLock(p) ==
    /\ pc[p] \notin Stopped
    /\ pc' = [pc EXCEPT ![p] = "idle"]
    /\ fd' = [fd EXCEPT ![p] = NoInode]
    /\ UNCHANGED <<path, owner, polls, file, backups, local, clobbered>>

\* The process is killed: the kernel closes its descriptor.
Crash(p) ==
    /\ pc[p] \notin Stopped
    /\ pc' = [pc EXCEPT ![p] = "idle"]
    /\ owner' = Released(p)
    /\ fd' = [fd EXCEPT ![p] = NoInode]
    /\ UNCHANGED <<path, polls, file, backups, local, clobbered>>

\* Every process dies; a lock file on a tmpfs is gone.
Reboot ==
    /\ path # NoInode
    /\ pc' = [p \in Procs |-> "idle"]
    /\ fd' = [p \in Procs |-> NoInode]
    /\ owner' = [i \in Inodes |-> NoProc]
    /\ path' = IF LockPersists THEN path ELSE NoInode
    /\ UNCHANGED <<polls, file, backups, local, clobbered>>

-----------------------------------------------------------------------------
Acquire(p) ==
    \/ CheckTarget(p) \/ Replace(p) \/ Open(p)
    \/ TryLock(p) \/ TryFails(p) \/ Sleep(p) \/ TimeOut(p)

Body(p) == Compare(p) \/ KeepOld(p) \/ Save(p) \/ SkipSave(p) \/ Unlock(p)

Next ==
    \/ \E p \in Procs : Exists(p) \/ Acquire(p) \/ Body(p) \/ Crash(p)
    \/ Reboot

Spec == Init /\ [][Next]_vars

\* A process inside lock() keeps running: its steps up to the flock are local
\* calls and 0.1 s sleeps.  Nothing is assumed of a process that HOLDS the lock:
\* CommandRunner.run has no timeout unless the caller gives one, so a command
\* of the body may hang for ever.
Fairness == \A p \in Procs : WF_vars(Acquire(p))

LiveSpec == Spec /\ Fairness

-----------------------------------------------------------------------------
(* Properties *)

\* Two installers are never both between lock() and its release
\* (executor.py:622-648, the section apply and uninstall run in).
MutualExclusion ==
    \A p, q \in Procs : pc[p] \in Critical /\ pc[q] \in Critical => p = q

\* The only way to lose the exclusion: _ensure_lock_file replaces a lock file that
\* a process has open.  Crashes, timeouts, reboots and the re-creation of a lock
\* file that nobody has open never admit two installers.
ExclusiveUnlessClobbered == ~clobbered => MutualExclusion

\* A process in the critical section holds, for all of it, the flock of the
\* very file object it opened: no timeout of another process, crash or
\* re-creation of the lock file takes it away.
HeldThroughout ==
    \A p \in Procs : pc[p] \in Critical => owner[fd[p]] = p

\* After every crash, timeout and reboot the lock is held only by a live process
\* that is in the critical section: no flock is left behind to block everyone.
NoOrphanLock ==
    \A i \in Inodes : owner[i] # NoProc =>
        pc[owner[i]] \in Critical /\ fd[owner[i]] = i

\* Every process that opens the lock while another one has it open, opens the
\* same file object: otherwise their flocks would not exclude each other.
OneLockFile ==
    \A p, q \in Procs : fd[p] # NoInode /\ fd[q] # NoInode => fd[p] = fd[q]

\* Every call of lock() ends, with the lock or with the timeout error, even when
\* the holder never lets go (executor.py:633-642).
WaiterEnds ==
    \A p \in Procs : pc[p] \in Waiting ~> pc[p] \notin Waiting

\* A record that an apply has saved is never lost: it is in the state file or, once the
\* next apply has saved its own, in a backup, for as long as no lock file that is open is
\* replaced.  save reads, backs up and replaces the file in separate system calls
\* (executor.py:561-593): two saves at once could overwrite a record that neither has
\* backed up.  StateStore implements SerialStore, whose promise ends when broken.
Serial == INSTANCE SerialStore WITH
    inside <- {p \in Procs : pc[p] \in Critical},
    current <- file,
    held <- backups \cup ({file} \ {NoRecord}),
    broken <- clobbered

Serializable == Serial!StoreSpec
=============================================================================
