---------------------------- MODULE FileInstallProofs ----------------------------
(***************************************************************************)
(* Theorems about FileInstall, for every set of versions.  InstallInv ties  *)
(* what one install holds (temporary file, backup, result) to what it       *)
(* compared, and ReturnInv what it returns to the disk; both hold wherever  *)
(* the constants leave the host.  KeepInv adds what the operator can have   *)
(* done since, and DiskInv what a power failure may bring back; they need   *)
(* backups and no power failure while writes are not synced: the            *)
(* hypotheses DurableWrites, which the configuration files the planner      *)
(* installs meet when the installer runs as root.                           *)
(***************************************************************************)
EXTENDS FileInstall, TLAPS

\* The versions that install compared and read are the ones it saves and undoes to.
SavedIs(v) == saved = IF Backup THEN v ELSE Missing

InstallInv ==
    /\ pc = "fill" => temp = Torn
    /\ pc = "rename" => temp = Data
    /\ pc \notin {"fill", "rename"} => temp = Missing
    /\ pc \in Writing => changed
    /\ pc \in Writing /\ writing = "backup" =>
        /\ Backup /\ seen # Missing
        /\ saved = IF pc = "dirsync" THEN seen ELSE Missing
    /\ pc \in Writing /\ writing = "target" => SavedIs(seen)
    /\ pc = "installed" => SavedIs(IF changed THEN seen ELSE Missing)

\* What a direct install has returned is on disk, and so is its backup.
ReturnInv ==
    /\ mode = "direct" => ~dirtyTarget /\ dirtyBackups = {}
    /\ mode = "direct" /\ pc = "installed" /\ changed => disk = {}
    /\ pc \in Writing \cup {"installed"} /\ saved # Missing => saved \in backups

\* The rename of the target is done, its directory not synced yet.
InPlace == pc = "dirsync" /\ writing = "target"

\* The install under way has (not yet) put its version in the target.
Before == pc \in Writing /\ ~InPlace
After == InPlace \/ (pc = "installed" /\ changed)

\* Nothing is ever torn, now or in what a power failure may bring back.
WholeInv ==
    /\ {target, seen, saved} \subseteq Versions \cup {Missing}
    /\ backups \subseteq Versions
    /\ \A d \in disk : d.target \in Versions \cup {Missing} /\ d.backups \subseteq Versions

KeepInv ==
    /\ Before /\ unseen # "yes" => target = seen
    /\ After /\ unseen = "no" /\ edit # Missing => edit \in backups
    /\ unseen = "yes" => edit = target

\* What the operator put in place was there in every state that may come back.
DiskInv ==
    \A d \in disk :
        /\ unseen = "yes" => d.target = edit
        /\ edit # Missing /\ unseen # "lost" => edit \in d.backups \cup {d.target}

Inv == TypeOK /\ InstallInv /\ ReturnInv
DurableInv == WholeInv /\ KeepInv /\ DiskInv /\ OperatorWorkKept

DurableWrites == Backup /\ PowerLoss \subseteq {"direct"}

-----------------------------------------------------------------------------
(* One install *)

LEMMA InvInit == Init => Inv
BY DEF Init, Inv, TypeOK, InstallInv, ReturnInv, Stopped, Running, Writing, Images

LEMMA TypeOKStep == Inv /\ [Next]_vars => TypeOK'
<1> SUFFICES ASSUME TypeOK, InstallInv, [Next]_vars PROVE TypeOK'
  BY DEF Inv
<1>h. Here \in [target : Images, backups : SUBSET (Versions \cup {Torn})]
  BY DEF Here, TypeOK
<1> USE DEF TypeOK, Stopped, Running, Writing, Images, result, dirty, edits
<1>1. CASE UNCHANGED vars
  BY <1>1 DEF vars
<1>2. CASE \E v \in Versions : Begin(v)
  BY <1>2 DEF Begin
<1>3. CASE Same \/ Differs
  BY <1>3 DEF Same, Differs, FirstWrite, Noticed
<1>4. CASE MakeTemp \/ FillTemp
  BY <1>4 DEF MakeTemp, FillTemp, Data
<1>5. CASE Rename
  <2>1. writing = "backup" => temp \in Versions \cup {Torn}
    BY <1>5 DEF Rename, InstallInv, Data
  <2>2. QED BY <1>5, <1>h, <2>1 DEF Rename, PutInPlace, Unsynced, Written, Synced, Covered
<1>6. CASE SyncDirectory \/ WriteFails
  BY <1>6 DEF SyncDirectory, WriteFails, Written
<1>7. CASE Accept \/ NothingToUndo \/ RestoreFails
  BY <1>7 DEF Accept, NothingToUndo, RestoreFails
<1>8. CASE RestoreBackup \/ RemoveNew
  <2>1. CASE RestoreBackup
    <3>1. backups' \subseteq backups /\ dirtyBackups' \subseteq backups'
      BY <2>1 DEF RestoreBackup
    <3>2. QED BY <2>1, <1>h, <3>1 DEF RestoreBackup, Covered, Unsynced
  <2>2. CASE RemoveNew
    BY <2>2, <1>h DEF RemoveNew, Covered, Unsynced
  <2>3. QED BY <1>8, <2>1, <2>2
<1>9. CASE Edit
  BY <1>9 DEF Edit
<1>10. CASE Kill \/ WriteBack
  BY <1>10 DEF Kill, WriteBack
<1>11. CASE LosePower
  <2>1. PICK d \in disk \cup {Here}, lost \in SUBSET dirtyBackups :
            /\ target' \in {d.target} \cup (IF dirtyTarget THEN {Torn} ELSE {})
            /\ backups' = d.backups \ lost
    BY <1>11 DEF LosePower
  <2>2. d \in [target : Images, backups : SUBSET (Versions \cup {Torn})]
    BY <1>h, <2>1
  <2>3. target' \in Images /\ backups' \subseteq Versions \cup {Torn}
    BY <2>1, <2>2
  <2>4. QED BY <1>11, <2>3 DEF LosePower
<1>12. QED
  BY <1>1, <1>2, <1>3, <1>4, <1>5, <1>6, <1>7, <1>8, <1>9, <1>10, <1>11
     DEF Next, InstallerStep

LEMMA InstallInvStep == Inv /\ [Next]_vars => InstallInv'
<1> SUFFICES ASSUME TypeOK, InstallInv, [Next]_vars PROVE InstallInv'
  BY DEF Inv
<1> USE DEF InstallInv, SavedIs, Data, Stopped, Running, Writing, result, dirty, edits
<1>1. CASE UNCHANGED vars
  BY <1>1 DEF vars
<1>2. CASE \E v \in Versions : Begin(v)
  BY <1>2 DEF Begin
<1>3. CASE Same \/ Differs
  BY <1>3, SwitchesAssumption DEF Same, Differs, FirstWrite
<1>4. CASE MakeTemp \/ FillTemp
  BY <1>4 DEF MakeTemp, FillTemp
<1>5. CASE Rename
  BY <1>5, SwitchesAssumption DEF TypeOK, Rename, PutInPlace, Written
<1>6. CASE SyncDirectory
  BY <1>6, SwitchesAssumption DEF TypeOK, SyncDirectory, Written
<1>7. CASE WriteFails \/ Kill \/ LosePower
  BY <1>7 DEF WriteFails, Kill, LosePower
<1>8. CASE Accept \/ NothingToUndo \/ RestoreFails \/ RestoreBackup \/ RemoveNew
  BY <1>8 DEF Accept, NothingToUndo, RestoreFails, RestoreBackup, RemoveNew
<1>9. CASE Edit \/ WriteBack
  BY <1>9 DEF Edit, WriteBack
<1>10. QED
  BY <1>1, <1>2, <1>3, <1>4, <1>5, <1>6, <1>7, <1>8, <1>9 DEF Next, InstallerStep

LEMMA ReturnInvStep == Inv /\ [Next]_vars => ReturnInv'
<1> SUFFICES ASSUME TypeOK, InstallInv, ReturnInv, [Next]_vars PROVE ReturnInv'
  BY DEF Inv
<1> USE DEF ReturnInv, Stopped, Running, Writing, result, dirty, edits
<1>1. CASE UNCHANGED vars
  BY <1>1 DEF vars
<1>2. CASE \E v \in Versions : Begin(v)
  BY <1>2 DEF Begin
<1>3. CASE Same \/ Differs
  BY <1>3 DEF Same, Differs
<1>4. CASE MakeTemp \/ FillTemp \/ WriteFails
  BY <1>4 DEF MakeTemp, FillTemp, WriteFails
<1>5. CASE Rename
  BY <1>5, SwitchesAssumption DEF TypeOK, Rename, PutInPlace, Written, Synced
<1>6. CASE SyncDirectory
  BY <1>6 DEF SyncDirectory, Written
<1>7. CASE Accept \/ NothingToUndo \/ RestoreFails
  BY <1>7 DEF Accept, NothingToUndo, RestoreFails
<1>8. CASE RestoreBackup \/ RemoveNew
  BY <1>8 DEF RestoreBackup, RemoveNew
<1>9. CASE Edit
  BY <1>9 DEF Edit
<1>10. CASE Kill \/ WriteBack \/ LosePower
  BY <1>10 DEF Kill, WriteBack, LosePower
<1>11. QED
  BY <1>1, <1>2, <1>3, <1>4, <1>5, <1>6, <1>7, <1>8, <1>9, <1>10
     DEF Next, InstallerStep

LEMMA InvHolds == Spec => []Inv
<1>1. Inv /\ [Next]_vars => Inv'
  BY TypeOKStep, InstallInvStep, ReturnInvStep DEF Inv
<1>2. QED BY InvInit, <1>1, PTL DEF Spec

\* Type correctness of the installer.
THEOREM TypeCorrect == Spec => []TypeOK
<1>1. Inv => TypeOK
  BY DEF Inv
<1>2. QED BY InvHolds, <1>1, PTL

\* A rejected install leaves the path as it found it, in both ways to write and
\* whatever the operator or a power failure does meanwhile.
THEOREM UndoAlwaysExact == Spec => UndoExact
<1>1. Inv /\ [Next]_vars =>
        [pc = "installed" /\ pc' = "undone" =>
            target' = IF changed THEN seen ELSE target]_vars
  <2> SUFFICES ASSUME InstallInv, Next, pc = "installed", pc' = "undone"
               PROVE  target' = IF changed THEN seen ELSE target
    BY DEF Inv
  <2> USE DEF InstallInv, SavedIs, result, dirty, edits
  <2>1. CASE RestoreBackup
    BY <2>1 DEF RestoreBackup
  <2>2. CASE RemoveNew
    BY <2>2 DEF RemoveNew
  <2>3. CASE NothingToUndo
    BY <2>3 DEF NothingToUndo
  <2>4. QED
    BY <2>1, <2>2, <2>3 DEF Next, InstallerStep, Begin, Same, Differs, MakeTemp, FillTemp,
       Rename, SyncDirectory, WriteFails, Accept, RestoreFails, Edit, Kill, WriteBack,
       LosePower
<1>2. QED BY InvHolds, <1>1, PTL DEF Spec, UndoExact

\* Whatever the constants: what a direct install has returned as changed survives, with
\* the backup of what it replaced, every kill and power failure until somebody undoes or
\* replaces it.
THEOREM ReturnedIsDurable == Spec => DurableOnReturn
<1>1. Inv /\ [Next]_vars =>
        [mode = "direct" /\ pc = "installed" /\ changed /\ pc' = "idle" =>
            target' = target /\ (saved # Missing => saved \in backups')]_vars
  <2> SUFFICES ASSUME ReturnInv, Next,
                      mode = "direct", pc = "installed", changed, pc' = "idle"
               PROVE  target' = target /\ (saved # Missing => saved \in backups')
    BY DEF Inv
  <2> USE DEF ReturnInv, result, dirty, edits
  <2>1. CASE LosePower
    <3>1. ~dirtyTarget /\ dirtyBackups = {} /\ disk = {}
      OBVIOUS
    <3>2. target' = Here.target /\ backups' = Here.backups
      BY <2>1, <3>1 DEF LosePower
    <3>3. QED BY <3>2 DEF Here
  <2>2. CASE Accept \/ Kill
    BY <2>2 DEF Accept, Kill
  <2>3. QED
    BY <2>1, <2>2 DEF Next, InstallerStep, Begin, Same, Differs, MakeTemp, FillTemp, Rename,
       SyncDirectory, WriteFails, RestoreBackup, RemoveNew, NothingToUndo, RestoreFails,
       Edit, WriteBack
<1>2. QED BY InvHolds, <1>1, PTL DEF Spec, DurableOnReturn

-----------------------------------------------------------------------------
(* What the operator put in place *)

LEMMA DurableInit == Init => DurableInv
BY DEF Init, DurableInv, WholeInv, KeepInv, DiskInv, OperatorWorkKept, Before, After,
       InPlace, Writing

\* Every step but a power failure adds at most the state it leaves to what may come back.
LEMMA DiskGrows == [Next]_vars /\ ~LosePower => disk' \subseteq disk \cup {Here}
BY DEF Next, InstallerStep, Begin, Same, Differs, MakeTemp, FillTemp, Rename, Unsynced,
       SyncDirectory, WriteFails, Accept, RestoreBackup, RemoveNew, NothingToUndo,
       RestoreFails, Edit, Kill, WriteBack, vars

\* A power failure brings back a whole state: all that was renamed is synced.
LEMMA PowerLossOutcome ==
    ASSUME DurableWrites, Inv, LosePower
    PROVE  \E d \in disk \cup {Here} : target' = d.target /\ backups' = d.backups
<1>1. ~dirtyTarget /\ dirtyBackups = {}
  BY DEF DurableWrites, Inv, ReturnInv, LosePower
<1>2. PICK d \in disk \cup {Here}, lost \in SUBSET dirtyBackups :
          /\ target' \in {d.target} \cup (IF dirtyTarget THEN {Torn} ELSE {})
          /\ backups' = d.backups \ lost
  BY DEF LosePower
<1>3. lost = {}
  BY <1>1, <1>2
<1>4. QED BY <1>1, <1>2, <1>3

LEMMA WholeInvStep ==
    ASSUME DurableWrites PROVE Inv /\ WholeInv /\ [Next]_vars => WholeInv'
<1> SUFFICES ASSUME TypeOK, InstallInv, ReturnInv, WholeInv, [Next]_vars PROVE WholeInv'
  BY DEF Inv
<1>a. Here.target \in Versions \cup {Missing} /\ Here.backups \subseteq Versions
  BY DEF Here, WholeInv
<1>b. ASSUME ~LosePower, NEW d \in disk'
      PROVE  d.target \in Versions \cup {Missing} /\ d.backups \subseteq Versions
  BY <1>a, <1>b, DiskGrows DEF WholeInv
<1>c. ASSUME ~LosePower,
             {target, seen, saved}' \subseteq Versions \cup {Missing},
             backups' \subseteq Versions
      PROVE  WholeInv'
  BY <1>b, <1>c DEF WholeInv
<1> USE DEF WholeInv, result, dirty, edits
<1>1. CASE LosePower
  <2>1. PICK d \in disk \cup {Here} : target' = d.target /\ backups' = d.backups
    BY <1>1, PowerLossOutcome DEF Inv
  <2>2. target' \in Versions \cup {Missing} /\ backups' \subseteq Versions
    BY <1>a, <2>1
  <2>3. disk' = {} /\ UNCHANGED <<seen, saved>>
    BY <1>1 DEF LosePower
  <2>4. QED BY <2>2, <2>3
<1>2. CASE ~LosePower
  <2>1. CASE Rename
    <3>1. temp = Data /\ (writing = "backup" => seen # Missing)
      BY <2>1 DEF Rename, InstallInv, Writing
    <3>2. temp \in Versions \cup {Missing} /\ (writing = "backup" => temp \in Versions)
      BY <3>1 DEF Data, TypeOK
    <3>3. {target, seen, saved}' \subseteq Versions \cup {Missing} /\ backups' \subseteq Versions
      BY <2>1, <3>2 DEF Rename, PutInPlace
    <3>4. QED BY <1>2, <1>c, <3>3
  <2>2. CASE ~Rename
    <3>1. {target, seen, saved}' \subseteq Versions \cup {Missing} /\ backups' \subseteq Versions
      BY <1>2, <2>2 DEF Next, InstallerStep, Begin, Same, Differs, MakeTemp, FillTemp,
         SyncDirectory, WriteFails, Accept, RestoreBackup, RemoveNew, NothingToUndo,
         RestoreFails, Edit, Kill, WriteBack, vars
    <3>2. QED BY <1>2, <1>c, <3>1
  <2>3. QED BY <2>1, <2>2
<1>3. QED BY <1>1, <1>2

LEMMA KeepInvStep ==
    ASSUME DurableWrites
    PROVE  Inv /\ DurableInv /\ [Next]_vars => KeepInv' /\ OperatorWorkKept'
<1> SUFFICES ASSUME TypeOK, InstallInv, ReturnInv, WholeInv, KeepInv, DiskInv,
                    OperatorWorkKept, [Next]_vars
             PROVE  KeepInv' /\ OperatorWorkKept'
  BY DEF Inv, DurableInv
<1>b. Backup
  BY DEF DurableWrites
<1> USE DEF KeepInv, OperatorWorkKept, Before, After, InPlace, Stopped, Running, Writing,
            result, dirty, edits
<1>1. CASE UNCHANGED vars
  BY <1>1 DEF vars
<1>2. CASE \E v \in Versions : Begin(v)
  BY <1>2 DEF Begin
<1>3. CASE Same \/ Differs
  BY <1>3 DEF TypeOK, Same, Differs, Noticed
<1>4. CASE MakeTemp \/ FillTemp \/ WriteFails
  BY <1>4 DEF MakeTemp, FillTemp, WriteFails
<1>5. CASE Rename
  <2>1. CASE writing = "backup"
    <3>1. temp = seen
      BY <1>5, <2>1 DEF Rename, InstallInv, Data
    <3>2. QED BY <1>5, <2>1, <3>1 DEF Rename, PutInPlace, Written
  <2>2. CASE writing = "target"
    <3>1. saved = seen /\ (saved # Missing => saved \in backups)
      BY <1>5, <1>b, <2>2 DEF Rename, InstallInv, SavedIs, ReturnInv
    <3>2. UNCHANGED <<backups, seen, saved, changed, edit>> /\ Covered
      BY <1>5, <2>2 DEF Rename, PutInPlace
    <3>3. unseen = "no" /\ edit # Missing => edit \in backups
      BY <1>5, <2>2, <3>1 DEF Rename
    <3>4. unseen' # "yes" /\ ~Before'
      BY <1>5, <2>2, <3>2 DEF Rename, Covered, Written, TypeOK
    <3>5. unseen' = "no" => unseen = "no"
      BY <3>2 DEF Covered
    <3>6. unseen' # "lost" => unseen = "no"
      BY <3>2 DEF Covered, TypeOK
    <3>7. QED BY <3>2, <3>3, <3>4, <3>5, <3>6
  <2>3. QED BY <2>1, <2>2 DEF TypeOK
<1>6. CASE SyncDirectory
  BY <1>6 DEF SyncDirectory, Written, TypeOK, InstallInv
<1>7. CASE Accept \/ NothingToUndo \/ RestoreFails
  BY <1>7 DEF Accept, NothingToUndo, RestoreFails
<1>8. CASE RestoreBackup
  <2>1. changed /\ saved \in backups
    BY <1>8 DEF RestoreBackup, InstallInv, SavedIs, ReturnInv
  <2>2. QED BY <1>8, <2>1 DEF RestoreBackup, Covered, TypeOK
<1>9. CASE RemoveNew
  BY <1>9 DEF RemoveNew, Covered, TypeOK
<1>10. CASE Edit
  BY <1>10 DEF Edit, TypeOK
<1>11. CASE Kill \/ WriteBack
  BY <1>11 DEF Kill, WriteBack
<1>12. CASE LosePower
  <2>1. UNCHANGED <<seen, edit, unseen>> /\ pc' = "idle"
    BY <1>12 DEF LosePower
  <2>2. PICK d \in disk \cup {Here} : target' = d.target /\ backups' = d.backups
    BY <1>12, PowerLossOutcome DEF Inv
  <2>3. CASE d \in disk
    BY <2>1, <2>2, <2>3 DEF DiskInv
  <2>4. CASE d = Here
    BY <2>1, <2>2, <2>4 DEF Here
  <2>5. QED BY <2>2, <2>3, <2>4
<1>13. QED
  BY <1>1, <1>2, <1>3, <1>4, <1>5, <1>6, <1>7, <1>8, <1>9, <1>10, <1>11, <1>12
     DEF Next, InstallerStep

\* A step adds the state it leaves, in which the operator's version was kept; an edit
\* is on disk at once.
LEMMA DiskInvStep == TypeOK /\ DurableInv /\ [Next]_vars => DiskInv'
<1> SUFFICES ASSUME TypeOK, KeepInv, DiskInv, OperatorWorkKept, [Next]_vars,
                    NEW d \in disk'
             PROVE  (/\ unseen = "yes" => d.target = edit
                     /\ edit # Missing /\ unseen # "lost"
                           => edit \in d.backups \cup {d.target})'
  BY DEF DurableInv, DiskInv
<1>1. CASE LosePower \/ Edit
  BY <1>1 DEF LosePower, Edit
<1>2. CASE ~LosePower /\ ~Edit
  <2>1. /\ edit' = edit
        /\ unseen' = "yes" => unseen = "yes"
        /\ unseen' # "lost" => unseen # "lost"
    BY <1>2 DEF Next, InstallerStep, Begin, Same, Differs, MakeTemp, FillTemp, Rename,
       PutInPlace, SyncDirectory, WriteFails, Accept, RestoreBackup, RemoveNew,
       NothingToUndo, RestoreFails, Kill, WriteBack, vars, Noticed, Covered, edits
  <2>2. d \in disk \cup {Here}
    BY <1>2, DiskGrows
  <2>3. /\ unseen = "yes" => d.target = edit
        /\ edit # Missing /\ unseen # "lost" => edit \in d.backups \cup {d.target}
    BY <2>2 DEF DiskInv, KeepInv, OperatorWorkKept, Here
  <2>4. QED BY <2>1, <2>3
<1>3. QED BY <1>1, <1>2

LEMMA DurableInvHolds == ASSUME DurableWrites PROVE Spec => [](Inv /\ DurableInv)
<1>1. Init => Inv /\ DurableInv
  BY InvInit, DurableInit
<1>2. Inv /\ DurableInv /\ [Next]_vars => (Inv /\ DurableInv)'
  BY TypeOKStep, InstallInvStep, ReturnInvStep, WholeInvStep, KeepInvStep, DiskInvStep
  DEF Inv, DurableInv
<1>3. QED BY <1>1, <1>2, PTL DEF Spec

\* The operator's version is never destroyed: the path or a backup holds it.
THEOREM OperatorWorkAlwaysKept ==
    ASSUME DurableWrites PROVE Spec => []OperatorWorkKept
<1>1. DurableInv => OperatorWorkKept
  BY DEF DurableInv
<1>2. QED BY DurableInvHolds, <1>1, PTL

-----------------------------------------------------------------------------
(* install implements AtomicFile *)

\* The value that the refinement mapping gives AtomicFile's variable fresh.
OnTrial == /\ changed /\ saved = Missing
           /\ \/ pc = "dirsync" /\ writing = "target"
              \/ pc = "installed"

\* What a step that is no power failure does to the abstract file.
FileMove ==
    \/ File!Keep \/ File!Settle \/ File!Remove \/ File!Edit \/ File!Look \/ File!Sync
    \/ \E v \in Versions : File!Put(v) \/ File!PutOver(v) \/ File!PutBack(v)

LEMMA MoveStep ==
    ASSUME DurableWrites
    PROVE  Inv /\ DurableInv /\ [Next]_vars /\ ~LosePower => FileMove
<1> SUFFICES ASSUME TypeOK, InstallInv, ReturnInv, WholeInv, KeepInv, [Next]_vars,
                    ~LosePower
             PROVE  FileMove
  BY DEF Inv, DurableInv
<1>a. Backup
  BY DEF DurableWrites
<1>b. ASSUME UNCHANGED <<target, backups, OnTrial, edit, unseen>> PROVE FileMove
  BY <1>b DEF FileMove, File!Sync, OnTrial
<1> USE DEF OnTrial, Stopped, Writing, result, dirty, edits
<1>1. CASE UNCHANGED vars
  BY <1>1, <1>b DEF vars
<1>2. CASE \E v \in Versions : Begin(v)
  BY <1>2, <1>b DEF Begin
<1>3. CASE Same \/ Differs
  <2>1. UNCHANGED <<target, backups, edit>> /\ ~OnTrial /\ ~OnTrial'
    BY <1>3 DEF Same, Differs
  <2>2. CASE unseen = "yes"
    <3>1. File!Look
      BY <1>3, <2>1, <2>2 DEF File!Look, Same, Differs, Noticed
    <3>2. QED BY <3>1 DEF FileMove
  <2>3. CASE unseen # "yes"
    BY <1>3, <1>b, <2>1, <2>3 DEF Same, Differs, Noticed
  <2>4. QED BY <2>2, <2>3
<1>4. CASE MakeTemp \/ FillTemp \/ WriteFails
  BY <1>4, <1>b DEF MakeTemp, FillTemp, WriteFails
<1>5. CASE Rename /\ writing = "backup"
  <2>1. temp = seen /\ seen # Missing
    BY <1>5 DEF Rename, InstallInv, Data
  <2>2. backups' = backups \cup {seen} /\ UNCHANGED <<target, edit, unseen>>
    BY <1>5, <2>1 DEF Rename, PutInPlace
  <2>3. ~OnTrial /\ ~OnTrial'
    BY <1>5 DEF Rename, PutInPlace, Written
  <2>4. seen \in File!Known \ {Missing}
    BY <1>5, <2>1 DEF Rename, KeepInv, Before, InPlace, File!Known, WholeInv
  <2>5. File!Keep
    BY <2>2, <2>3, <2>4 DEF File!Keep
  <2>6. QED BY <2>5 DEF FileMove
<1>6. CASE Rename /\ writing = "target"
  <2>1. changed /\ saved = seen /\ seen \in backups \cup {Missing} /\ temp = want
    BY <1>6, <1>a DEF Rename, InstallInv, SavedIs, ReturnInv, Data
  <2>2. target' = want /\ UNCHANGED <<backups, edit, changed, saved>> /\ Covered
    BY <1>6, <2>1 DEF Rename, PutInPlace
  <2>3. OnTrial' <=> saved = Missing
    BY <1>6, <2>1, <2>2 DEF Rename, Written, TypeOK
  <2>4. want \in Versions
    BY DEF TypeOK
  <2>5. CASE unseen = "yes"
    <3>1. File!PutOver(want)
      BY <2>2, <2>3, <2>5 DEF File!PutOver, Covered
    <3>2. QED BY <2>4, <3>1 DEF FileMove
  <2>6. CASE unseen # "yes"
    <3>1. target = seen
      BY <1>6, <2>6 DEF Rename, KeepInv, Before, InPlace
    <3>2. File!Put(want)
      BY <2>1, <2>2, <2>3, <2>6, <3>1 DEF File!Put, Covered
    <3>3. QED BY <2>4, <3>2 DEF FileMove
  <2>7. QED BY <2>5, <2>6
<1>7. CASE SyncDirectory
  BY <1>7, <1>b DEF SyncDirectory, Written, TypeOK
<1>8. CASE Accept \/ RestoreFails \/ NothingToUndo
  <2>1. UNCHANGED <<target, backups, edit, unseen>> /\ ~OnTrial'
    BY <1>8 DEF Accept, RestoreFails, NothingToUndo
  <2>2. File!Settle
    BY <2>1 DEF File!Settle
  <2>3. QED BY <2>2 DEF FileMove
<1>9. CASE RestoreBackup
  <2>1. saved \in backups /\ saved \in Versions
    BY <1>9 DEF RestoreBackup, ReturnInv, WholeInv
  <2>2. File!PutBack(saved)
    BY <1>9, <2>1 DEF RestoreBackup, Covered, File!PutBack, File!Covered
  <2>3. QED BY <2>1, <2>2 DEF FileMove
<1>10. CASE RemoveNew
  <2>1. File!Remove
    BY <1>10 DEF RemoveNew, Covered, File!Remove, File!Covered
  <2>2. QED BY <2>1 DEF FileMove
<1>11. CASE Edit
  <2>1. File!Edit
    BY <1>11 DEF Edit, File!Edit
  <2>2. QED BY <2>1 DEF FileMove
<1>12. CASE WriteBack
  BY <1>12, <1>b DEF WriteBack
<1>13. CASE Kill
  <2>1. File!Settle
    BY <1>13 DEF Kill, File!Settle
  <2>2. QED BY <2>1 DEF FileMove
<1>14. QED
  BY <1>1, <1>2, <1>3, <1>4, <1>5, <1>6, <1>7, <1>8, <1>9, <1>10, <1>11, <1>12, <1>13
     DEF Next, InstallerStep, TypeOK

LEMMA FileStep ==
    ASSUME DurableWrites
    PROVE  Inv /\ DurableInv /\ [Next]_vars => [File!FileNext]_(File!fileVars)
<1> SUFFICES ASSUME Inv, DurableInv, [Next]_vars PROVE File!FileNext
  OBVIOUS
<1>1. CASE LosePower
  <2>1. \E d \in disk \cup {File!Here} : target' = d.target /\ backups' = d.backups
    BY <1>1, PowerLossOutcome DEF Here, File!Here
  <2>2. disk' = {} /\ UNCHANGED <<edit, unseen>> /\ ~OnTrial'
    BY <1>1 DEF LosePower, OnTrial, edits
  <2>3. File!PowerFails
    BY <2>1, <2>2 DEF File!PowerFails, OnTrial
  <2>4. QED BY <2>3 DEF File!FileNext
<1>2. CASE ~LosePower
  <2>1. disk' \subseteq disk \cup {File!Here}
    BY <1>2, DiskGrows DEF Here, File!Here
  <2>2. FileMove
    BY <1>2, MoveStep
  <2>3. QED BY <2>1, <2>2 DEF FileMove, File!FileNext
<1>3. QED BY <1>1, <1>2

\* install is the atomic file it is documented to be: AtomicFile, step by step.
THEOREM InstallIsAtomic == ASSUME DurableWrites PROVE Spec => Atomic
<1>1. Init => File!FileInit
  BY DEF Init, File!FileInit
<1>2. Inv /\ DurableInv /\ [Next]_vars => [File!FileNext]_(File!fileVars)
  BY FileStep
<1>3. QED BY <1>1, <1>2, DurableInvHolds, PTL DEF Spec, Atomic, File!FileSpec

================================================================================
