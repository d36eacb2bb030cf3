------------------------------ MODULE FileInstall ------------------------------
(***************************************************************************)
(* AtomicFileInstaller.install of executor.py on one managed path, and what *)
(* planner.py does with its result: keep the new file, or undo it with      *)
(* _restore_file when a validator or a service rejects it.  Each write      *)
(* (first the backup, then the target) fills a temporary file beside the    *)
(* path and renames it.  The installer can fail or be killed before any     *)
(* step, the host can lose power, and an operator edits the file, at any    *)
(* time: install takes no lock an editor would respect.                     *)
(***************************************************************************)
CONSTANTS
    Versions,    \* whole file versions: content, mode and owner together
    Missing,     \* the file does not exist
    Torn,        \* a partly written file
    Backup,      \* install(..., backup=...): TRUE for configuration files
    Modes,       \* how the installer may write: "direct" (_write_direct) or
                 \* "privileged" (_write_privileged: sudo install, sudo mv)
    PowerLoss    \* the modes in which the host may lose power

ASSUME MarkersAssumption ==
    Missing \notin Versions /\ Torn \notin Versions \cup {Missing}
ASSUME SwitchesAssumption ==
    /\ Backup \in BOOLEAN
    /\ Modes \subseteq {"direct", "privileged"} /\ PowerLoss \subseteq Modes

VARIABLES
    mode,         \* how _write writes: decided by who runs the installer
    pc,           \* the next step of the installer
    writing,      \* the file of the write in progress: "backup" or "target"
    target,       \* what the path names
    temp,         \* the temporary file of the write in progress
    backups,      \* versions held in backup files
    want,         \* the version being installed
    seen,         \* the version install compared and read
    dirtyTarget,  \* the data of the target is not on disk yet
    dirtyBackups, \* backups whose data is not on disk yet
    changed,      \* the result: whether install wrote the target, and
    saved,        \* backup_path of the result: the version it holds, or Missing
    disk,         \* states of the directory, before renames that are not synced yet,
                  \* which a power failure may bring back
    edit,         \* history: the version the operator last put in place, or Missing
    unseen        \* history: "yes" if edit came after the comparison of the install
                  \* under way, "lost" if the installer then put a file over it

result == <<changed, saved>>
dirty == <<dirtyTarget, dirtyBackups>>
edits == <<edit, unseen>>
vars == <<mode, pc, writing, target, temp, backups, want, seen, result,
          dirty, disk, edits>>

Stopped == {"idle", "failed", "undone"}
Writing == {"temp", "fill", "rename", "dirsync"}
Running == Writing \cup {"compare", "installed"}
Images == Versions \cup {Missing, Torn}

TypeOK ==
    /\ mode \in Modes
    /\ pc \in Stopped \cup Running
    /\ writing \in {"backup", "target"}
    /\ target \in Images
    /\ temp \in Images
    /\ backups \subseteq Versions \cup {Torn}
    /\ want \in Versions
    /\ seen \in Images
    /\ dirtyTarget \in BOOLEAN
    /\ dirtyBackups \subseteq backups
    /\ changed \in BOOLEAN
    /\ saved \in Images
    /\ disk \subseteq [target : Images, backups : SUBSET (Versions \cup {Torn})]
    /\ edit \in Versions \cup {Missing} /\ unseen \in {"no", "yes", "lost"}

Init ==
    /\ mode \in Modes
    /\ pc = "idle" /\ writing = "target"
    /\ target \in Versions \cup {Missing}
    /\ temp = Missing
    /\ backups = {} /\ dirtyBackups = {} /\ dirtyTarget = FALSE
    /\ want \in Versions
    /\ seen = target /\ changed = FALSE /\ saved = Missing
    /\ disk = {}
    /\ edit = target /\ unseen = "no"

-----------------------------------------------------------------------------
(* install: compare *)

Begin(v) ==
    /\ pc \in Stopped
    /\ pc' = "compare" /\ want' = v
    /\ UNCHANGED <<mode, writing, target, temp, backups, seen, result, dirty,
                   disk, edits>>

\* Content, mode and owner match.
Matches == target = want

\* Faulty variant: the target is replaced without a backup.
TargetFirst == "target"

\* Faulty variant: a backup also when there is nothing to back up.
BackupFirst == IF Backup THEN "backup" ELSE "target"

FirstWrite == IF Backup /\ target # Missing THEN "backup" ELSE "target"

Noticed == unseen' = IF unseen = "yes" THEN "no" ELSE unseen
Covered == unseen' = IF unseen = "yes" THEN "lost" ELSE unseen

\* Nothing is written and changed is FALSE.
Same ==
    /\ pc = "compare" /\ Matches
    /\ pc' = "installed" /\ seen' = target /\ changed' = FALSE /\ saved' = Missing
    /\ Noticed
    /\ UNCHANGED <<mode, writing, target, temp, backups, want, dirty, disk, edit>>

Differs ==
    /\ pc = "compare" /\ ~Matches
    /\ pc' = "temp" /\ seen' = target /\ changed' = TRUE /\ saved' = Missing
    /\ writing' = FirstWrite
    /\ Noticed
    /\ UNCHANGED <<mode, target, temp, backups, want, dirty, disk, edit>>

-----------------------------------------------------------------------------
(* _write: temporary file, data, rename *)

\* The version the write in progress puts in its file.
Data == IF writing = "backup" THEN seen ELSE want

\* The directory as it is, as far as this path is concerned.
Here == [target |-> target, backups |-> backups]

\* A rename, or a removal, that no sync of the directory follows at once.
Unsynced == disk' = IF mode \in PowerLoss THEN disk \cup {Here} ELSE disk

\* mkstemp, or sudo install creating its destination: empty at first.
MakeTemp ==
    /\ pc = "temp" /\ pc' = "fill" /\ temp' = Torn
    /\ UNCHANGED <<mode, writing, target, backups, want, seen, result,
                   dirty, disk, edits>>

\* Faulty variant: no fsync before os.replace.
NeverSynced == FALSE

\* _write_direct syncs the data of the file it renames.
Synced == mode = "direct"

\* write, flush and, for _write_direct, fsync.
FillTemp ==
    /\ pc = "fill" /\ pc' = "rename" /\ temp' = Data
    /\ UNCHANGED <<mode, writing, target, backups, want, seen, result,
                   dirty, disk, edits>>

\* The caller of _write goes on: after the backup, the target.
Written == IF writing = "backup" THEN "temp" ELSE "installed"

\* The temporary file gets its name: what holds the data is its backup or the target.
PutInPlace ==
    IF writing = "backup"
    THEN /\ backups' = backups \cup {temp} /\ saved' = temp
         /\ dirtyBackups' = IF Synced THEN dirtyBackups ELSE dirtyBackups \cup {temp}
         /\ UNCHANGED <<target, dirtyTarget, unseen>>
    ELSE /\ target' = temp /\ dirtyTarget' = ~Synced
         /\ Covered
         /\ UNCHANGED <<backups, saved, dirtyBackups>>

\* Faulty variant: _write_direct does not sync the directory.
RenameUnsynced ==
    /\ pc = "rename" /\ temp' = Missing
    /\ pc' = Written /\ writing' = "target"
    /\ PutInPlace /\ Unsynced
    /\ UNCHANGED <<mode, want, seen, changed, edit>>

\* os.replace, then _fsync_directory; or sudo mv -f, which syncs nothing.
Rename ==
    /\ pc = "rename" /\ temp' = Missing
    /\ IF mode = "privileged"
       THEN pc' = Written /\ writing' = "target"
       ELSE pc' = "dirsync" /\ UNCHANGED writing
    /\ PutInPlace /\ Unsynced
    /\ UNCHANGED <<mode, want, seen, changed, edit>>

SyncDirectory ==
    /\ pc = "dirsync" /\ pc' = Written /\ writing' = "target"
    /\ disk' = {}
    /\ UNCHANGED <<mode, target, temp, backups, want, seen, result, dirty, edits>>

\* A system call or command of the write fails and install raises.  The finally
\* clause of _write_direct removes the temporary file; that of _write_privileged may
\* leave it, under a name that is never used again.
WriteFails ==
    /\ pc \in {"temp", "fill", "rename"}
    /\ pc' = "failed" /\ temp' = Missing
    /\ UNCHANGED <<mode, writing, target, backups, want, seen, result, dirty,
                   disk, edits>>

-----------------------------------------------------------------------------
(* The caller keeps the file, or _restore_file undoes it *)

Accept ==
    /\ pc = "installed" /\ pc' = "idle"
    /\ UNCHANGED <<mode, writing, target, temp, backups, want, seen, result,
                   dirty, disk, edits>>

\* mv -f backup path, which syncs nothing.  Another backup file may hold the same
\* version.
RestoreBackup ==
    /\ pc = "installed" /\ Backup /\ saved # Missing
    /\ pc' = "undone" /\ target' = saved
    /\ backups' \in {backups, backups \ {saved}}
    /\ dirtyBackups' = dirtyBackups \cap backups'
    /\ dirtyTarget' = (saved \in dirtyBackups)
    /\ Covered /\ Unsynced
    /\ UNCHANGED <<mode, writing, temp, want, seen, result, edit>>

\* Faulty variant: what install changed is removed, whatever it replaced.
RemoveAlways ==
    /\ pc = "installed" /\ Backup /\ changed
    /\ pc' = "undone" /\ target' = Missing /\ dirtyTarget' = FALSE
    /\ UNCHANGED <<mode, writing, temp, backups, want, seen, result,
                   dirtyBackups, disk, edits>>

\* No backup was made, so there was no file: rm -f path.
RemoveNew ==
    /\ pc = "installed" /\ Backup /\ changed /\ saved = Missing
    /\ pc' = "undone" /\ target' = Missing /\ dirtyTarget' = FALSE
    /\ Covered /\ Unsynced
    /\ UNCHANGED <<mode, writing, temp, backups, want, seen, result,
                   dirtyBackups, edit>>

\* The install had changed nothing: there is nothing to undo.
NothingToUndo ==
    /\ pc = "installed" /\ Backup /\ ~changed /\ pc' = "undone"
    /\ UNCHANGED <<mode, writing, target, temp, backups, want, seen, result,
                   dirty, disk, edits>>

\* The mv or rm itself fails.
RestoreFails ==
    /\ pc = "installed" /\ Backup /\ changed /\ pc' = "failed"
    /\ UNCHANGED <<mode, writing, target, temp, backups, want, seen, result,
                   dirty, disk, edits>>

-----------------------------------------------------------------------------
(* Environment *)

\* The operator edits or removes the file, and the edit is on disk at once.
Edit ==
    /\ target' \in (Versions \cup {Missing}) \ {target}
    /\ edit' = target'
    /\ unseen' = IF pc \in Running \ {"compare"} THEN "yes" ELSE "no"
    /\ dirtyTarget' = FALSE /\ disk' = {}
    /\ UNCHANGED <<mode, pc, writing, temp, backups, want, seen, result,
                   dirtyBackups>>

Kill ==
    /\ pc \in Running /\ pc' = "idle" /\ temp' = Missing
    /\ UNCHANGED <<mode, writing, target, backups, want, seen, result, dirty, disk,
                   edits>>

\* The kernel writes everything back.
WriteBack ==
    /\ dirtyTarget \/ dirtyBackups # {} \/ disk # {}
    /\ dirtyTarget' = FALSE /\ dirtyBackups' = {} /\ disk' = {}
    /\ UNCHANGED <<mode, pc, writing, target, temp, backups, want, seen,
                   result, edits>>

\* The directory comes back as it was before any rename that was not synced, or after
\* the last; data that was never synced may be torn, or lost with its file.
LosePower ==
    /\ mode \in PowerLoss /\ pc' = "idle"
    /\ \E d \in disk \cup {Here}, lost \in SUBSET dirtyBackups :
          /\ target' \in {d.target} \cup (IF dirtyTarget THEN {Torn} ELSE {})
          /\ backups' = d.backups \ lost
    /\ dirtyTarget' = FALSE /\ dirtyBackups' = {} /\ disk' = {}
    /\ temp' = Missing
    /\ UNCHANGED <<mode, writing, want, seen, result, edits>>

-----------------------------------------------------------------------------
InstallerStep ==
    \/ \E v \in Versions : Begin(v)
    \/ Same \/ Differs
    \/ MakeTemp \/ FillTemp \/ Rename \/ SyncDirectory \/ WriteFails
    \/ Accept \/ RestoreBackup \/ RemoveNew \/ NothingToUndo \/ RestoreFails

Next == InstallerStep \/ Edit \/ Kill \/ WriteBack \/ LosePower

Spec == Init /\ [][Next]_vars

-----------------------------------------------------------------------------
(* Properties *)

\* The operator's version is never destroyed: until the operator replaces it, the
\* path or a backup file holds it, whatever fails, is killed or loses power.  The
\* exception is an edit between the comparison and the rename or undo of one install.
OperatorWorkKept ==
    edit # Missing /\ unseen # "lost" => edit \in backups \cup {target}

\* A rejected install leaves the path as the install found it (planner.py:1181),
\* whether it replaced a file or created one.
UndoExact == 
    [][pc = "installed" /\ pc' = "undone" =>
        target' = IF changed THEN seen ELSE target]_vars

\* What a direct install has returned as changed is on disk: from then on no kill or power
\* failure takes back the file, or the backup of the one before (_fsync_directory and
\* os.fsync, executor.py:488-492).  An undo has no such promise (planner.py:1183-1185).
DurableOnReturn ==
    [][mode = "direct" /\ pc = "installed" /\ changed /\ pc' = "idle" =>
        target' = target /\ (saved # Missing => saved \in backups')]_vars

\* install implements the atomic file it is documented to be (executor.py:219):
\* whoever opens the path finds no file or a whole version, and a version that was
\* there is replaced only once a backup holds it.
File == INSTANCE AtomicFile WITH
    kept <- backups,
    past <- disk,
    own <- edit,
    fresh <- /\ changed /\ saved = Missing
             /\ \/ pc = "dirsync" /\ writing = "target"
                \/ pc = "installed"

Atomic == File!FileSpec
=============================================================================
