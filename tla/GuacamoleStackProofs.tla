-------------------------- MODULE GuacamoleStackProofs --------------------------
(***************************************************************************)
(* Theorems about GuacamoleStack, for all sets of passwords, services and  *)
(* listeners.  The argument has four layers: what an apply has installed   *)
(* by a given step (Inv); what no failure, uninstall or cleanup takes back *)
(* from a stack that runs (StackInv); how the secret file, the role, the   *)
(* login and the containers drift apart, with the flags of the apply under *)
(* way and then torn owing what is missing (RoleInv, LoginInv, SvcInv);    *)
(* and that a settled system is a fixed point of every step (SettledInv).  *)
(***************************************************************************)
EXTENDS GuacamoleStack, TLAPS

\* The steps that follow an install, to the end of the apply.
UpDone == {"role", "restart", "admin", "connection", "ok"}
ScriptDone == UpDone \cup {"validate", "up"}
ComposeDone == ScriptDone \cup {"script", "undo-compose"}
AdminSqlDone == ComposeDone \cup {"compose"}
SchemaDone == AdminSqlDone \cup {"admin-sql"}
AdminDone == SchemaDone \cup {"schema"}
DbDone == AdminDone \cup {"admin-secret"}

SecretsInstalled ==
    /\ pc \in DbDone => secret.db \in Passwords /\ want.db \in {secret.db, None}
    /\ pc \in AdminDone =>
        secret.admin \in AdminPws /\ want.admin \in {secret.admin, None}
    /\ pc \in SchemaDone => initdb.schema
    /\ pc \in AdminSqlDone => initdb.admin = secret.admin

FilesInstalled ==
    /\ pc \in ComposeDone => compose = Rendered
    /\ pc \in ScriptDone => script = want.listen
    /\ pc = "up" => compose.svc \in ValidSvcs
    /\ pc \in UpDone => stack.running
    /\ pc \in {"connection", "ok"} => volume.admin = secret.admin
    /\ pc = "ok" => volume.conn = want.vnc

\* This apply has replaced compose.yaml and may still put the old one back.
Replacing == flags.compose /\ pc \in {"script", "validate", "undo-compose"}

StackInv ==
    /\ stack.running =>
        secret.db \in Passwords /\ compose \in ComposeFile /\ volume.role \in Passwords
    /\ stack.running /\ Replacing => undo.compose \in ComposeFile
    /\ stack.svc \in ValidSvcs \cup {None}
    /\ volume = NoVolume \/ volume.role \in Passwords
    /\ volume.admin # Default

\* This apply has changed the secret, and the role or the login are to follow.
RoleDue == flags.db /\ pc \in DbDone \ {"restart", "admin", "connection", "ok"}
LoginDue == flags.db /\ pc \in DbDone \ {"admin", "connection", "ok"}

RoleInv ==
    /\ pc = "db-secret" => ~flags.db
    /\ volume # NoVolume /\ "role" \notin torn => RoleDue \/ volume.role = secret.db

LoginInv ==
    stack.running /\ "login" \notin torn => LoginDue \/ stack.login = secret.db

SvcInv ==
    stack.running /\ "svc" \notin torn =>
        \/ Replacing /\ stack.svc = undo.compose.svc
        \/ flags.compose /\ pc = "up"
        \/ ~Replacing /\ stack.svc = compose.svc

\* What every step of an apply would install or start is there already.
SettledInv ==
    settled =>
        /\ secret.db \in Passwords /\ want.db \in {secret.db, None}
        /\ secret.admin \in AdminPws /\ want.admin \in {secret.admin, None}
        /\ initdb.schema /\ initdb.admin = secret.admin
        /\ compose = Rendered /\ script = want.listen
        /\ stack.running /\ volume.admin = secret.admin /\ volume.conn = want.vnc
        /\ pc \in Steps => ~flags.db /\ ~flags.compose /\ ~flags.script /\ pc # "restart"

Inv == TypeOK /\ SecretsInstalled /\ FilesInstalled

-----------------------------------------------------------------------------
(* Types *)

LEMMA TypeOKInit == Init => TypeOK
<1> SUFFICES ASSUME Init PROVE TypeOK
  OBVIOUS
<1>1. secret \in Secrets /\ initdb \in InitDbs
  BY DEF Init, Secrets, InitDbs
<1>2. undo \in Undos /\ flags \in Flags
  BY DEF Init, Undos, Flags, NoUndo, NoFlags
<1>3. volume \in Volumes /\ stack \in Stacks
  BY DEF Init, Volumes, Stacks, NoVolume, NoStack
<1>4. QED BY <1>1, <1>2, <1>3 DEF Init, TypeOK, Stopped

LEMMA StartedType ==
    ASSUME TypeOK, NEW svc \in Services \cup {None} PROVE Started(svc) \in Stacks
BY DEF TypeOK, Started, Stacks, Secrets

LEMMA InitialisedType == ASSUME TypeOK PROVE Initialised \in Volumes
BY DEF TypeOK, Initialised, Volumes, Secrets, InitDbs

LEMMA LeftType == Left \subseteq {"role", "login", "svc"}
BY DEF Left

LEMMA TypeOKStep == Inv /\ [Next]_vars => TypeOK'
<1> SUFFICES ASSUME TypeOK, FilesInstalled, [Next]_vars PROVE TypeOK'
  BY DEF Inv
<1> USE DEF TypeOK, Goto, Stopped, Steps, disk, history
<1>1. CASE UNCHANGED vars
  BY <1>1 DEF vars
<1>2. CASE Start
  BY <1>2 DEF Start, Flags, NoFlags
<1>3. CASE ImportDbSecret \/ KeepDbSecret
  BY <1>3 DEF ImportDbSecret, KeepDbSecret, Mark, Flags, Secrets, Wants
<1>4. CASE CreateDbSecret
  BY <1>4 DEF CreateDbSecret, Mark, Flags, Secrets
<1>5. CASE AdminSecret
  BY <1>5 DEF AdminSecret, Flags, Secrets
<1>6. CASE Schema \/ AdminSql
  BY <1>6 DEF Schema, AdminSql, Flags, InitDbs, Secrets
<1>7. CASE InstallCompose
  BY <1>7 DEF InstallCompose, Rendered, ComposeFile, Undos, Mark, Flags, Wants
<1>8. CASE InstallScript
  BY <1>8 DEF InstallScript, Undos, Mark, Flags, Wants
<1>9. CASE ConfigOk
  BY <1>9 DEF ConfigOk, NoUndo, Undos
<1>10. CASE ConfigRejected
  <2>1. undo.script \in Listeners \cup {None}
    BY DEF Undos
  <2>2. QED BY <1>10, <2>1 DEF ConfigRejected
<1>11. CASE UndoCompose
  BY <1>11, LeftType DEF UndoCompose, NoUndo, Undos
<1>12. CASE SkipUp \/ SkipRole
  BY <1>12 DEF SkipUp, SkipRole
<1>13. CASE Up \/ UpFails
  <2>1. pc = "up" /\ compose = Rendered
    BY <1>13 DEF Up, UpFails, FilesInstalled, ScriptDone, ComposeDone
  <2>2. compose.svc \in Services
    BY <2>1 DEF Rendered, Wants
  <2>3. Initialised \in Volumes /\ Started(compose.svc) \in Stacks
    BY <2>2, InitialisedType, StartedType
  <2>4. [NoStack EXCEPT !.svc = compose.svc] \in Stacks
    BY <2>2 DEF NoStack, Stacks
  <2>5. [flags EXCEPT !.any = TRUE] \in Flags
    BY DEF Flags
  <2>6. CASE Up
    BY <2>3, <2>5, <2>6 DEF Up
  <2>7. CASE UpFails
    BY <2>3, <2>4, <2>7, LeftType DEF UpFails
  <2>8. QED BY <1>13, <2>6, <2>7
<1>14. CASE AlterRole \/ RestartGuacamole
  BY <1>14 DEF AlterRole, RestartGuacamole, Volumes, Stacks, Secrets
<1>15. CASE AdminPassword \/ Connection
  BY <1>15 DEF AdminPassword, Connection, Volumes, Flags, Secrets, Wants
<1>16. CASE Abort
  BY <1>16, LeftType DEF Abort, NoUndo, Undos
<1>17. CASE Reconfigure
  BY <1>17 DEF Reconfigure, Wants
<1>18. CASE Reboot
  <2>1. stack.svc \in Services \cup {None}
    BY DEF Stacks
  <2>2. QED BY <1>18, <2>1, StartedType DEF Reboot
<1>19. CASE Uninstall
  BY <1>19 DEF Uninstall, NoStack, Stacks
<1>20. CASE DeleteFiles
  BY <1>20 DEF DeleteFiles, Secrets, InitDbs
<1>21. QED
  BY <1>1, <1>2, <1>3, <1>4, <1>5, <1>6, <1>7, <1>8, <1>9, <1>10, <1>11, <1>12, <1>13,
     <1>14, <1>15, <1>16, <1>17, <1>18, <1>19, <1>20 DEF Next, Apply, Between

-----------------------------------------------------------------------------
(* What an apply has installed so far *)

\* Steps that end an apply, or happen outside one.
Ends == Start \/ UndoCompose \/ Abort \/ UpFails \/ Between

LEMMA EndsWhere == Ends => pc' \in {"db-secret", "failed", "idle"}
BY DEF Ends, Start, UndoCompose, Abort, UpFails, Between, Reconfigure, Reboot, Uninstall,
       DeleteFiles, Goto

LEMMA SecretsInstalledStep == Inv /\ [Next]_vars => SecretsInstalled'
<1> SUFFICES ASSUME TypeOK, SecretsInstalled, [Next]_vars PROVE SecretsInstalled'
  BY DEF Inv
<1> USE DEF SecretsInstalled, Goto, disk, history, DbDone, AdminDone, SchemaDone,
            AdminSqlDone, ComposeDone, ScriptDone, UpDone
<1>1. CASE UNCHANGED vars
  BY <1>1 DEF vars
<1>2. CASE Ends
  BY <1>2, EndsWhere
<1>3. CASE ImportDbSecret \/ KeepDbSecret \/ CreateDbSecret
  BY <1>3 DEF TypeOK, Wants, Secrets, ImportDbSecret, KeepDbSecret, CreateDbSecret
<1>4. CASE AdminSecret
  BY <1>4 DEF TypeOK, Secrets, AdminSecret
<1>5. CASE Schema \/ AdminSql
  BY <1>5 DEF TypeOK, InitDbs, Schema, AdminSql
<1>6. CASE InstallCompose \/ InstallScript \/ ConfigOk \/ ConfigRejected
  BY <1>6 DEF InstallCompose, InstallScript, ConfigOk, ConfigRejected
<1>7. CASE SkipUp \/ Up \/ SkipRole \/ AlterRole \/ RestartGuacamole
  BY <1>7 DEF SkipUp, Up, SkipRole, AlterRole, RestartGuacamole
<1>8. CASE AdminPassword \/ Connection
  BY <1>8 DEF AdminPassword, Connection
<1>9. QED
  BY <1>1, <1>2, <1>3, <1>4, <1>5, <1>6, <1>7, <1>8 DEF Next, Apply, Ends

LEMMA FilesInstalledStep == Inv /\ [Next]_vars => FilesInstalled'
<1> SUFFICES ASSUME TypeOK, FilesInstalled, [Next]_vars PROVE FilesInstalled'
  BY DEF Inv
<1> USE DEF FilesInstalled, Rendered, Goto, disk, history, ComposeDone, ScriptDone, UpDone
<1>1. CASE UNCHANGED vars
  BY <1>1 DEF vars
<1>2. CASE Ends
  BY <1>2, EndsWhere
<1>3. CASE ImportDbSecret \/ KeepDbSecret \/ CreateDbSecret \/ AdminSecret
             \/ Schema \/ AdminSql
  BY <1>3 DEF ImportDbSecret, KeepDbSecret, CreateDbSecret, AdminSecret, Schema, AdminSql
<1>4. CASE InstallCompose \/ InstallScript
  BY <1>4 DEF InstallCompose, InstallScript
<1>5. CASE ConfigOk \/ ConfigRejected
  BY <1>5 DEF ConfigOk, ConfigRejected
<1>6. CASE SkipUp \/ Up
  BY <1>6 DEF SkipUp, Up, NeedsUp, Started
<1>7. CASE SkipRole \/ AlterRole
  BY <1>7 DEF SkipRole, AlterRole
<1>8. CASE RestartGuacamole
  BY <1>8 DEF TypeOK, Stacks, RestartGuacamole
<1>9. CASE AdminPassword \/ Connection
  BY <1>9 DEF TypeOK, Volumes, AdminPassword, Connection
<1>10. QED
  BY <1>1, <1>2, <1>3, <1>4, <1>5, <1>6, <1>7, <1>8, <1>9 DEF Next, Apply, Ends

LEMMA InvInit == Init => Inv
<1>1. Init => SecretsInstalled /\ FilesInstalled
  BY DEF Init, SecretsInstalled, FilesInstalled, DbDone, AdminDone, SchemaDone,
         AdminSqlDone, ComposeDone, ScriptDone, UpDone
<1>2. QED BY <1>1, TypeOKInit DEF Inv

-----------------------------------------------------------------------------
(* What a running stack keeps *)

LEMMA InitialisedSafe ==
    ASSUME Inv, StackInv, pc = "up"
    PROVE  /\ Initialised.role \in Passwords /\ Initialised.admin # Default
<1>1. secret.db \in Passwords /\ initdb.admin \in AdminPws
  BY DEF Inv, SecretsInstalled, DbDone, AdminDone, SchemaDone, AdminSqlDone, ComposeDone,
         ScriptDone
<1>2. CASE volume # NoVolume
  BY <1>2 DEF StackInv, Initialised
<1>3. CASE volume = NoVolume
  BY <1>1, <1>3, ValuesAssumption DEF Initialised, NoVolume
<1>4. QED BY <1>2, <1>3

\* What an apply that is past validate runs on.
LEMMA Provided ==
    ASSUME Inv, pc \in UpDone \cup {"up"}
    PROVE  /\ secret.db \in Passwords /\ secret.admin \in AdminPws
           /\ compose = Rendered /\ compose \in ComposeFile
<1>1. Rendered \in ComposeFile
  BY DEF Inv, TypeOK, Wants, Rendered, ComposeFile
<1>2. QED
  BY <1>1 DEF Inv, SecretsInstalled, FilesInstalled, DbDone, AdminDone, SchemaDone,
              AdminSqlDone, ComposeDone, ScriptDone, UpDone

\* Only cleanup takes the files away, and only when nothing runs; only files that were
\* validated, and secrets that were written, get into the stack and the volume.
LEMMA StackInvStep == Inv /\ StackInv /\ [Next]_vars => StackInv'
<1> SUFFICES ASSUME Inv, StackInv, [Next]_vars PROVE StackInv'
  OBVIOUS
<1> USE DEF StackInv, Replacing, Goto, disk, history
<1>1. CASE UNCHANGED vars
  BY <1>1 DEF vars
<1>2. CASE Start \/ KeepDbSecret
  BY <1>2 DEF Start, KeepDbSecret, NoFlags, Stopped
<1>3. CASE ImportDbSecret \/ CreateDbSecret
  BY <1>3 DEF Inv, TypeOK, Secrets, Wants, ImportDbSecret, CreateDbSecret
<1>4. CASE AdminSecret \/ Schema \/ AdminSql
  BY <1>4 DEF Inv, TypeOK, Secrets, AdminSecret, Schema, AdminSql
<1>5. CASE InstallCompose
  <2>1. Rendered \in ComposeFile
    BY DEF Inv, TypeOK, Wants, Rendered, ComposeFile
  <2>2. undo'.compose = compose /\ compose' = Rendered
    BY <1>5 DEF Inv, TypeOK, Undos, InstallCompose
  <2>3. QED BY <1>5, <2>1, <2>2 DEF InstallCompose
<1>6. CASE InstallScript
  BY <1>6 DEF Inv, TypeOK, Undos, Flags, Mark, InstallScript
<1>7. CASE ConfigOk \/ ConfigRejected
  BY <1>7 DEF ConfigOk, ConfigRejected
<1>8. CASE UndoCompose
  BY <1>8 DEF UndoCompose
<1>9. CASE SkipUp \/ SkipRole
  BY <1>9 DEF SkipUp, SkipRole
<1>10. CASE Up
  <2>1. pc = "up" /\ compose.svc \in ValidSvcs
    BY <1>10 DEF Up, Inv, FilesInstalled
  <2>2. volume'.role \in Passwords /\ volume'.admin # Default
    BY <1>10, <2>1, InitialisedSafe DEF Up
  <2>3. stack'.svc \in ValidSvcs \cup {None}
    BY <1>10, <2>1 DEF Up, Started
  <2>4. QED BY <1>10, <2>1, <2>2, <2>3, Provided DEF Up
<1>11. CASE UpFails
  BY <1>11, InitialisedSafe DEF Inv, FilesInstalled, UpFails, NoStack
<1>12. CASE AlterRole
  BY <1>12, Provided DEF Inv, TypeOK, Volumes, UpDone, AlterRole
<1>13. CASE RestartGuacamole
  BY <1>13 DEF Inv, TypeOK, Stacks, RestartGuacamole
<1>14. CASE AdminPassword
  <2>1. volume'.role = volume.role /\ volume'.admin = secret.admin
    BY <1>14 DEF Inv, TypeOK, Volumes, AdminPassword
  <2>2. secret.admin # Default
    BY <1>14, Provided, ValuesAssumption DEF AdminPassword, UpDone
  <2>3. QED BY <1>14, <2>1, <2>2 DEF AdminPassword
<1>15. CASE Connection
  <2>1. volume'.role = volume.role /\ volume'.admin = volume.admin
    BY <1>15 DEF Inv, TypeOK, Volumes, Connection
  <2>2. QED BY <1>15, <2>1 DEF Connection
<1>16. CASE Abort
  BY <1>16 DEF Abort, NoUndo
<1>17. CASE Reconfigure \/ Uninstall \/ DeleteFiles
  BY <1>17 DEF Reconfigure, Uninstall, DeleteFiles, NoStack, Stopped
<1>18. CASE Reboot
  BY <1>18 DEF Reboot, Started, Stopped
<1>19. QED
  BY <1>1, <1>2, <1>3, <1>4, <1>5, <1>6, <1>7, <1>8, <1>9, <1>10, <1>11, <1>12, <1>13,
     <1>14, <1>15, <1>16, <1>17, <1>18 DEF Next, Apply, Between

-----------------------------------------------------------------------------
(* What is still owed to the role, to Guacamole and to the containers *)

LEMMA RoleInvStep == Inv /\ StackInv /\ RoleInv /\ [Next]_vars => RoleInv'
<1> SUFFICES ASSUME Inv, StackInv, RoleInv, [Next]_vars PROVE RoleInv'
  OBVIOUS
<1>a. None \notin Passwords
  BY ValuesAssumption
<1>b. /\ secret \in Secrets /\ flags \in Flags /\ volume \in Volumes
      /\ pc \in Stopped \cup Steps
  BY DEF Inv, TypeOK
<1> USE DEF RoleInv, RoleDue, Goto, disk, history, DbDone, AdminDone, SchemaDone,
            AdminSqlDone, ComposeDone, ScriptDone, UpDone
<1>1. CASE UNCHANGED vars
  BY <1>1 DEF vars
<1>2. CASE Start
  BY <1>2 DEF Start, NoFlags, Stopped
<1>3. CASE ImportDbSecret
  BY <1>3, <1>b DEF ImportDbSecret, Mark, Secrets, Flags
<1>4. CASE KeepDbSecret
  BY <1>4, <1>b DEF KeepDbSecret, Mark, Flags
<1>5. CASE CreateDbSecret
  BY <1>5, <1>a, <1>b DEF CreateDbSecret, StackInv
<1>6. CASE AdminSecret \/ Schema \/ AdminSql
  BY <1>6, <1>b DEF AdminSecret, Schema, AdminSql, Secrets, Flags
<1>7. CASE InstallCompose \/ InstallScript
  BY <1>7, <1>b DEF InstallCompose, InstallScript, Mark, Flags
<1>8. CASE ConfigOk \/ ConfigRejected
  BY <1>8 DEF ConfigOk, ConfigRejected
<1>9. CASE UndoCompose
  BY <1>9 DEF UndoCompose, Left
<1>10. CASE SkipUp
  BY <1>10 DEF SkipUp
<1>11. CASE Up
  BY <1>11, <1>b DEF Up, Initialised, Flags
<1>12. CASE SkipRole
  BY <1>12 DEF SkipRole
<1>13. CASE AlterRole
  BY <1>13, <1>b DEF AlterRole, Volumes
<1>14. CASE RestartGuacamole
  BY <1>14 DEF RestartGuacamole
<1>15. CASE AdminPassword
  <2>1. volume'.role = volume.role /\ volume # NoVolume
    BY <1>15, <1>a, <1>b DEF AdminPassword, Volumes, StackInv, NoVolume
  <2>2. QED BY <1>15, <2>1 DEF AdminPassword
<1>16. CASE Connection
  <2>1. volume'.role = volume.role /\ volume # NoVolume
    BY <1>16, <1>a, <1>b DEF Connection, Volumes, StackInv, NoVolume
  <2>2. QED BY <1>16, <2>1 DEF Connection
<1>17. CASE Abort
  BY <1>17, <1>b DEF Abort, Left, Steps
<1>18. CASE UpFails
  <2>1. volume' = volume \/ volume'.role = secret.db
    BY <1>18 DEF UpFails, Initialised
  <2>2. flags.db => "role" \in torn'
    BY <1>18 DEF UpFails, Left
  <2>3. QED BY <1>18, <2>1, <2>2 DEF UpFails
<1>19. CASE Between
  BY <1>19 DEF Between, Reconfigure, Reboot, Uninstall, DeleteFiles, Stopped
<1>20. QED
  BY <1>1, <1>2, <1>3, <1>4, <1>5, <1>6, <1>7, <1>8, <1>9, <1>10, <1>11, <1>12, <1>13,
     <1>14, <1>15, <1>16, <1>17, <1>18, <1>19 DEF Next, Apply

LEMMA LoginInvStep == Inv /\ StackInv /\ RoleInv /\ LoginInv /\ [Next]_vars => LoginInv'
<1> SUFFICES ASSUME Inv, StackInv, RoleInv, LoginInv, [Next]_vars PROVE LoginInv'
  OBVIOUS
<1>a. None \notin Passwords
  BY ValuesAssumption
<1>b. /\ secret \in Secrets /\ flags \in Flags /\ stack \in Stacks
      /\ pc \in Stopped \cup Steps
  BY DEF Inv, TypeOK
<1>c. pc = "db-secret" => ~flags.db
  BY DEF RoleInv
<1> USE DEF LoginInv, LoginDue, Goto, disk, history, DbDone, AdminDone, SchemaDone,
            AdminSqlDone, ComposeDone, ScriptDone, UpDone
<1>1. CASE UNCHANGED vars
  BY <1>1 DEF vars
<1>2. CASE Start
  BY <1>2 DEF Start, Stopped
<1>3. CASE ImportDbSecret
  BY <1>3, <1>b, <1>c DEF ImportDbSecret, Mark, Secrets, Flags
<1>4. CASE KeepDbSecret
  BY <1>4, <1>b, <1>c DEF KeepDbSecret, Mark, Flags
<1>5. CASE CreateDbSecret
  BY <1>5, <1>a DEF CreateDbSecret, StackInv
<1>6. CASE AdminSecret \/ Schema \/ AdminSql
  BY <1>6, <1>b DEF AdminSecret, Schema, AdminSql, Secrets, Flags
<1>7. CASE InstallCompose \/ InstallScript
  BY <1>7, <1>b DEF InstallCompose, InstallScript, Mark, Flags
<1>8. CASE ConfigOk \/ ConfigRejected
  BY <1>8 DEF ConfigOk, ConfigRejected
<1>9. CASE UndoCompose
  BY <1>9 DEF UndoCompose, Left
<1>10. CASE SkipUp
  BY <1>10 DEF SkipUp
<1>11. CASE Up
  BY <1>11, <1>b DEF Up, Started, Flags
<1>12. CASE SkipRole \/ AlterRole
  BY <1>12 DEF SkipRole, AlterRole
<1>13. CASE RestartGuacamole
  BY <1>13, <1>b DEF RestartGuacamole, Stacks
<1>14. CASE AdminPassword \/ Connection
  BY <1>14 DEF AdminPassword, Connection
<1>15. CASE Abort
  BY <1>15, <1>b DEF Abort, Left, Steps
<1>16. CASE UpFails
  BY <1>16 DEF UpFails, NoStack
<1>17. CASE Reconfigure \/ Uninstall \/ DeleteFiles
  BY <1>17 DEF Reconfigure, Uninstall, DeleteFiles, NoStack, Stopped
<1>18. CASE Reboot
  BY <1>18 DEF Reboot, Started, Stopped
<1>19. QED
  BY <1>1, <1>2, <1>3, <1>4, <1>5, <1>6, <1>7, <1>8, <1>9, <1>10, <1>11, <1>12, <1>13,
     <1>14, <1>15, <1>16, <1>17, <1>18 DEF Next, Apply, Between

LEMMA SvcInvStep == Inv /\ SvcInv /\ [Next]_vars => SvcInv'
<1> SUFFICES ASSUME Inv, SvcInv, [Next]_vars PROVE SvcInv'
  OBVIOUS
<1>a. /\ secret \in Secrets /\ flags \in Flags /\ stack \in Stacks /\ undo \in Undos
      /\ pc \in Stopped \cup Steps
  BY DEF Inv, TypeOK
<1> USE DEF SvcInv, Replacing, Goto, disk, history
<1>1. CASE UNCHANGED vars
  BY <1>1 DEF vars
<1>2. CASE Start
  BY <1>2 DEF Start, NoFlags, Stopped
<1>3. CASE ImportDbSecret \/ KeepDbSecret \/ CreateDbSecret
  BY <1>3 DEF ImportDbSecret, KeepDbSecret, CreateDbSecret
<1>4. CASE AdminSecret \/ Schema \/ AdminSql
  BY <1>4 DEF AdminSecret, Schema, AdminSql
<1>5. CASE InstallCompose
  <2>1. undo'.compose = compose /\ flags'.compose = (compose # Rendered)
    BY <1>5, <1>a DEF InstallCompose, Mark, Undos, Flags
  <2>2. QED BY <1>5, <2>1 DEF InstallCompose
<1>6. CASE InstallScript
  <2>1. undo'.compose = undo.compose /\ flags'.compose = flags.compose
    BY <1>6, <1>a DEF InstallScript, Mark, Undos, Flags
  <2>2. QED BY <1>6, <2>1 DEF InstallScript
<1>7. CASE ConfigOk \/ ConfigRejected
  BY <1>7 DEF ConfigOk, ConfigRejected
<1>8. CASE UndoCompose
  BY <1>8 DEF UndoCompose
<1>9. CASE SkipUp
  BY <1>9 DEF SkipUp, NeedsUp
<1>10. CASE Up
  BY <1>10 DEF Up, Started
<1>11. CASE SkipRole \/ AlterRole
  BY <1>11 DEF SkipRole, AlterRole
<1>12. CASE RestartGuacamole
  BY <1>12, <1>a DEF RestartGuacamole, Stacks
<1>13. CASE AdminPassword \/ Connection
  BY <1>13 DEF AdminPassword, Connection
<1>14. CASE Abort
  BY <1>14 DEF Abort, Left
<1>15. CASE UpFails
  BY <1>15 DEF UpFails, NoStack
<1>16. CASE Reconfigure \/ Uninstall \/ DeleteFiles
  BY <1>16 DEF Reconfigure, Uninstall, DeleteFiles, NoStack, Stopped
<1>17. CASE Reboot
  BY <1>17 DEF Reboot, Started, Stopped
<1>18. QED
  BY <1>1, <1>2, <1>3, <1>4, <1>5, <1>6, <1>7, <1>8, <1>9, <1>10, <1>11, <1>12, <1>13,
     <1>14, <1>15, <1>16, <1>17 DEF Next, Apply, Between

-----------------------------------------------------------------------------
(* A settled system is a fixed point of apply *)

LEMMA SettledFixed ==
    ASSUME Inv, SettledInv, settled, pc \in Steps, Next
    PROVE  UNCHANGED <<want, disk, flags, volume, stack>> /\ pc' # "restart"
<1>a. /\ secret \in Secrets /\ initdb \in InitDbs /\ flags \in Flags /\ volume \in Volumes
  BY DEF Inv, TypeOK
<1>b. None \notin Passwords \cup AdminPws
  BY ValuesAssumption
<1> USE DEF SettledInv, Goto, disk, history
<1>1. CASE ImportDbSecret \/ KeepDbSecret \/ CreateDbSecret
  <2>1. ~CreateDbSecret
    BY <1>b DEF CreateDbSecret
  <2>2. CASE ImportDbSecret
    <3>1. want.db = secret.db
      BY <2>2 DEF ImportDbSecret
    <3>2. secret' = secret
      BY <2>2, <3>1, <1>a DEF ImportDbSecret, Secrets
    <3>3. flags' = flags
      BY <2>2, <3>1, <1>a DEF ImportDbSecret, Mark, Flags
    <3>4. QED BY <2>2, <3>2, <3>3 DEF ImportDbSecret
  <2>3. CASE KeepDbSecret
    <3>1. flags' = flags
      BY <2>3, <1>a DEF KeepDbSecret, Mark, Flags
    <3>2. QED BY <2>3, <3>1 DEF KeepDbSecret
  <2>4. QED BY <1>1, <2>1, <2>2, <2>3
<1>2. CASE AdminSecret
  <2>1. PICK v \in AdminPws :
           /\ want.admin \in {v, None} /\ (want.admin = v \/ secret.admin \in {v, None})
           /\ secret' = [secret EXCEPT !.admin = v]
           /\ flags' = [flags EXCEPT !.any = @ \/ secret.admin # v]
    BY <1>2 DEF AdminSecret
  <2>2. v = secret.admin
    BY <2>1, <1>b
  <2>3. secret' = secret
    BY <2>1, <2>2, <1>a DEF Secrets
  <2>4. flags' = flags
    BY <2>1, <2>2, <1>a DEF Flags
  <2>5. QED BY <1>2, <2>3, <2>4 DEF AdminSecret
<1>3. CASE Schema
  <2>1. initdb' = initdb /\ flags' = flags
    BY <1>3, <1>a DEF Schema, InitDbs, Flags
  <2>2. QED BY <1>3, <2>1 DEF Schema
<1>4. CASE AdminSql
  <2>1. initdb' = initdb /\ flags' = flags
    BY <1>4, <1>a DEF AdminSql, InitDbs, Flags
  <2>2. QED BY <1>4, <2>1 DEF AdminSql
<1>5. CASE InstallCompose
  <2>1. flags' = flags
    BY <1>5, <1>a DEF InstallCompose, Mark, Flags, Steps
  <2>2. QED BY <1>5, <2>1 DEF InstallCompose
<1>6. CASE InstallScript
  <2>1. flags' = flags
    BY <1>6, <1>a DEF InstallScript, Mark, Flags, Steps
  <2>2. QED BY <1>6, <2>1 DEF InstallScript
<1>7. CASE ConfigOk \/ ConfigRejected \/ UndoCompose
  BY <1>7 DEF ConfigOk, ConfigRejected, UndoCompose
<1>8. CASE SkipUp \/ Up \/ UpFails
  BY <1>8 DEF SkipUp, Up, UpFails, NeedsUp
<1>9. CASE SkipRole \/ AlterRole \/ RestartGuacamole
  BY <1>9 DEF SkipRole, AlterRole, RestartGuacamole
<1>10. CASE AdminPassword
  <2>1. volume' = volume /\ flags' = flags
    BY <1>10, <1>a DEF AdminPassword, Volumes, Flags
  <2>2. QED BY <1>10, <2>1 DEF AdminPassword
<1>11. CASE Connection
  <2>1. volume' = volume /\ flags' = flags
    BY <1>11, <1>a DEF Connection, Volumes, Flags
  <2>2. QED BY <1>11, <2>1 DEF Connection
<1>12. CASE Abort
  BY <1>12 DEF Abort
<1>13. CASE Start \/ Between
  BY <1>13 DEF Start, Between, Reconfigure, Reboot, Uninstall, DeleteFiles, Stopped, Steps
<1>14. QED
  BY <1>1, <1>2, <1>3, <1>4, <1>5, <1>6, <1>7, <1>8, <1>9, <1>10, <1>11, <1>12, <1>13
     DEF Next, Apply

LEMMA SettledInvStep == Inv /\ SettledInv /\ [Next]_vars => SettledInv'
<1> SUFFICES ASSUME Inv, SettledInv, [Next]_vars, settled' PROVE SettledInv'
  BY DEF SettledInv
<1>1. CASE UNCHANGED vars
  BY <1>1 DEF vars, disk, history, SettledInv, Rendered
<1>2. CASE Next /\ settled /\ pc \in Steps
  BY <1>2, SettledFixed DEF SettledInv, disk, Rendered
<1>3. CASE Start
  BY <1>3 DEF Start, SettledInv, disk, history, Rendered, NoFlags
<1>4. CASE Connection
  <2>1. secret.db \in Passwords /\ want.db \in {secret.db, None}
    BY <1>4 DEF Inv, SecretsInstalled, Connection, Goto, DbDone, AdminDone, SchemaDone,
                AdminSqlDone, ComposeDone, ScriptDone, UpDone
  <2>2. /\ secret.admin \in AdminPws /\ want.admin \in {secret.admin, None}
        /\ initdb.schema /\ initdb.admin = secret.admin
    BY <1>4 DEF Inv, SecretsInstalled, Connection, Goto, AdminDone, SchemaDone,
                AdminSqlDone, ComposeDone, ScriptDone, UpDone
  <2>3. compose = Rendered /\ script = want.listen /\ volume.admin = secret.admin
    BY <1>4 DEF Inv, FilesInstalled, Connection, Goto, ComposeDone, ScriptDone, UpDone
  <2>4. volume'.conn = want.vnc /\ volume'.admin = volume.admin
    BY <1>4 DEF Inv, TypeOK, Volumes, Connection
  <2>5. QED
    BY <1>4, <2>1, <2>2, <2>3, <2>4
       DEF Connection, Goto, SettledInv, disk, Rendered, Steps
<1>5. CASE Abort \/ UpFails \/ Between
  BY <1>5 DEF Abort, UpFails, Between, Reconfigure, Reboot, Uninstall, DeleteFiles
<1>6. CASE Apply /\ ~Start /\ ~Connection
  <2>1. UNCHANGED settled /\ pc \in Steps
    BY <1>6 DEF Apply, ImportDbSecret, KeepDbSecret, CreateDbSecret, AdminSecret, Schema,
        AdminSql, InstallCompose, InstallScript, ConfigOk, ConfigRejected, UndoCompose,
        SkipUp, Up, SkipRole, AlterRole, RestartGuacamole, AdminPassword, Goto, Steps,
        history
  <2>2. QED BY <1>2, <1>6, <2>1 DEF Next
<1>7. QED BY <1>1, <1>3, <1>4, <1>5, <1>6 DEF Next

-----------------------------------------------------------------------------
(* The theorems *)

\* The inductive invariant.
StackAllInv == Inv /\ StackInv /\ RoleInv /\ LoginInv /\ SvcInv /\ SettledInv

LEMMA StackAllInvHolds == Spec => []StackAllInv
<1>1. Init => StackAllInv
  <2>1. Init => StackInv
    BY ValuesAssumption DEF Init, StackInv, NoVolume, NoStack
  <2>2. Init => RoleInv /\ LoginInv /\ SvcInv /\ SettledInv
    BY DEF Init, RoleInv, LoginInv, SvcInv, SettledInv, NoStack
  <2>3. QED BY <2>1, <2>2, InvInit DEF StackAllInv
<1>2. StackAllInv /\ [Next]_vars => StackAllInv'
  BY TypeOKStep, SecretsInstalledStep, FilesInstalledStep, StackInvStep, RoleInvStep,
     LoginInvStep, SvcInvStep, SettledInvStep DEF StackAllInv, Inv
<1>3. QED BY <1>1, <1>2, PTL DEF Spec

\* Type correctness of the Guacamole part of apply and uninstall.
THEOREM TypeCorrect == Spec => []TypeOK
<1>1. StackAllInv => TypeOK
  BY DEF StackAllInv, Inv
<1>2. QED BY StackAllInvHolds, <1>1, PTL

\* An ok apply leaves both database rows as configured, whatever went wrong before.
THEOREM RowsAlwaysConverge == Spec => []RowsConverge
<1>1. StackAllInv => RowsConverge
  BY DEF StackAllInv, Inv, SecretsInstalled, FilesInstalled, RowsConverge, DbDone,
         AdminDone, SchemaDone, AdminSqlDone, ComposeDone, ScriptDone, UpDone
<1>2. QED BY StackAllInvHolds, <1>1, PTL

\* The database never holds the administrator password of the upstream schema.
THEOREM DefaultAdminNever == Spec => []NeverDefaultAdmin
<1>1. StackAllInv => NeverDefaultAdmin
  BY DEF StackAllInv, StackInv, NeverDefaultAdmin
<1>2. QED BY StackAllInvHolds, <1>1, PTL

\* Containers only ever run a service definition that compose config accepted.
THEOREM StackIsValidated == Spec => []ValidatedStack
<1>1. StackAllInv => ValidatedStack
  BY DEF StackAllInv, StackInv, ValidatedStack
<1>2. QED BY StackAllInvHolds, <1>1, PTL

\* Unless an apply ended between the secret file and the step, and nothing has done it
\* since, an ok apply leaves the role and Guacamole with the password of that file.
THEOREM RotationAlwaysConverges == Spec => []RotationConverges
<1>1. StackAllInv => RotationConverges
  <2> SUFFICES ASSUME StackAllInv, pc = "ok"
               PROVE  /\ "role" \notin torn => volume.role = secret.db
                      /\ "login" \notin torn => stack.login = secret.db
    BY DEF RotationConverges
  <2>1. stack.running
    BY DEF StackAllInv, Inv, FilesInstalled, UpDone
  <2>2. volume # NoVolume
    BY <2>1, ValuesAssumption DEF StackAllInv, StackInv, NoVolume
  <2>3. QED
    BY <2>1, <2>2 DEF StackAllInv, RoleInv, LoginInv, RoleDue, LoginDue
<1>2. QED BY StackAllInvHolds, <1>1, PTL

\* Likewise the containers run the configured service definition.
THEOREM StackAlwaysConverges == Spec => []StackConverges
<1>1. StackAllInv => StackConverges
  BY DEF StackAllInv, Inv, FilesInstalled, Rendered, SvcInv, Replacing, StackConverges,
         ComposeDone, ScriptDone, UpDone
<1>2. QED BY StackAllInvHolds, <1>1, PTL

\* Applying a settled system writes, starts and reports nothing.
THEOREM SettledChangesNothing == Spec => SettledNoOp
<1>1. StackAllInv /\ [Next]_vars =>
        [settled /\ pc \in Steps =>
            UNCHANGED <<disk, volume, stack>> /\ flags'.any = flags.any]_vars
  BY SettledFixed DEF StackAllInv
<1>2. QED BY StackAllInvHolds, <1>1, PTL DEF Spec, SettledNoOp

=================================================================================
