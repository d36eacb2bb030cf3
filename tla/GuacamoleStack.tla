---------------------------- MODULE GuacamoleStack ----------------------------
(***************************************************************************)
(* The Guacamole part of apply_plan (planner.py): secrets, schema, Compose  *)
(* stack, PostgreSQL role password, administrator password and the VNC      *)
(* connection, and the part of uninstall that concerns them.  One action    *)
(* per file installed or command run.  A step may raise, the installer may  *)
(* be killed between any two, and the operator changes the configuration,   *)
(* uninstalls, deletes the retained files and applies again.                *)
(*                                                                          *)
(* Compose, the postgres and guacamole images and systemd are external:     *)
(*   - up -d creates or recreates a container only when its service         *)
(*     definition changed, and starts one that is stopped;                  *)
(*   - the guacamole container reads the secret file and the entrypoint     *)
(*     script when it starts;                                               *)
(*   - postgres runs initdb.d only on an empty volume.                      *)
(***************************************************************************)
CONSTANTS
    Passwords,   \* values of the PostgreSQL role password
    AdminPws,    \* values of the Guacamole administrator password
    VncPws,      \* values of the VNC password
    Services,    \* renderings of the services part of compose.yaml
    ValidSvcs,   \* those that compose config accepts
    Listeners,   \* web_bind_address and web_port: the entrypoint script
    None,        \* absent: no file, no source, no container, no volume
    Default,     \* the administrator password of the upstream schema
    Faults,      \* TRUE: steps raise and the installer is killed
    Cleanup      \* TRUE: the operator deletes the files uninstall retains

ASSUME ValuesAssumption ==
    /\ ValidSvcs \subseteq Services /\ ValidSvcs # {}
    /\ None \notin Passwords \cup AdminPws \cup VncPws \cup Services \cup Listeners
    /\ Default \notin AdminPws \cup {None}
ASSUME SwitchesAssumption == Faults \in BOOLEAN /\ Cleanup \in BOOLEAN

VARIABLES
    pc,        \* the next step of apply
    want,      \* configuration: db and admin password sources, vnc password,
               \* service definition, listener
    secret,    \* secrets/: postgresql_password and guacamole_admin_password
    initdb,    \* initdb/: the schema, and the password of the 999 script
    compose,   \* compose.yaml: service definition and, in a comment, the port
    script,    \* entrypoint.d/90-urd-http-bind.sh
    undo,      \* backups of compose and script, until config --quiet or the end
    flags,     \* _runtime and local flags of this apply
    volume,    \* the database volume: role password, administrator, connection
    stack,     \* the containers: running, and what they were started with
    settled,   \* nothing but apply touched the system since an apply was ok
    torn       \* what applies that ended early, or a deletion of the retained files,
               \* left undone: "role" to give the database role the password of the
               \* secret file, "login" to start Guacamole with it, "svc" to start
               \* the containers from compose.yaml

disk == <<secret, initdb, compose, script>>
history == <<settled, torn>>
vars == <<pc, want, disk, undo, flags, volume, stack, history>>

Stopped == {"idle", "ok", "failed"}
Steps == {"db-secret", "admin-secret", "schema", "admin-sql", "compose", "script",
          "validate", "undo-compose", "up", "role", "restart", "admin", "connection"}

Wants == [db : Passwords \cup {None}, admin : AdminPws \cup {None},
          vnc : VncPws, svc : Services, listen : Listeners]
Secrets == [db : Passwords \cup {None}, admin : AdminPws \cup {None}]
InitDbs == [schema : BOOLEAN, admin : AdminPws \cup {None}]
ComposeFile == [svc : Services, port : Listeners]
Undos == [compose : ComposeFile \cup {None}, script : Listeners \cup {None}]
Flags == [db : BOOLEAN, compose : BOOLEAN, script : BOOLEAN, any : BOOLEAN]
Volumes == [role : Passwords \cup {None}, admin : AdminPws \cup {None, Default},
            conn : VncPws \cup {None}]
Stacks == [running : BOOLEAN, svc : Services \cup {None},
           listen : Listeners \cup {None}, login : Passwords \cup {None}]
NoVolume == [role |-> None, admin |-> None, conn |-> None]
NoStack == [running |-> FALSE, svc |-> None, listen |-> None, login |-> None]

TypeOK ==
    /\ pc \in Stopped \cup Steps
    /\ want \in Wants
    /\ secret \in Secrets
    /\ initdb \in InitDbs
    /\ compose \in ComposeFile \cup {None}
    /\ script \in Listeners \cup {None}
    /\ undo \in Undos
    /\ flags \in Flags
    /\ volume \in Volumes
    /\ stack \in Stacks
    /\ settled \in BOOLEAN /\ torn \subseteq {"role", "login", "svc"}

NoFlags == [db |-> FALSE, compose |-> FALSE, script |-> FALSE, any |-> FALSE]
NoUndo == [compose |-> None, script |-> None]

Init ==
    /\ pc = "idle"
    /\ want \in Wants
    /\ secret = [db |-> None, admin |-> None]
    /\ initdb = [schema |-> FALSE, admin |-> None]
    /\ compose = None /\ script = None
    /\ undo = NoUndo /\ flags = NoFlags
    /\ volume = NoVolume /\ stack = NoStack /\ settled = FALSE /\ torn = {}

-----------------------------------------------------------------------------
(* guacamole-secrets and guacamole-schema *)

Goto(a, b) == pc = a /\ pc' = b

\* The flags after an install: f names the file's own flag, "any" is what apply
\* accumulates in changed.
Mark(f, changed) == [flags EXCEPT ![f] = changed, !.any = @ \/ changed]

Start ==
    /\ pc \in Stopped /\ pc' = "db-secret"
    /\ flags' = NoFlags
    /\ UNCHANGED <<want, disk, undo, volume, stack, history>>

\* _read_or_create_secret on the source the operator configured, then install.
ImportDbSecret ==
    /\ Goto("db-secret", "admin-secret") /\ want.db # None
    /\ secret' = [secret EXCEPT !.db = want.db]
    /\ flags' = Mark("db", secret.db # want.db)
    /\ UNCHANGED <<want, initdb, compose, script, undo, volume, stack,
                   history>>

\* No source: the managed file is read back and installed over itself, so the
\* result is unchanged.
KeepDbSecret ==
    /\ Goto("db-secret", "admin-secret") /\ want.db = None /\ secret.db # None
    /\ flags' = Mark("db", FALSE)
    /\ UNCHANGED <<want, disk, undo, volume, stack, history>>

\* No source and no managed file: _read_or_create_secret generates a random
\* password and writes the file itself, so the install that follows is unchanged.
CreateDbSecret ==
    /\ Goto("db-secret", "admin-secret") /\ want.db = None /\ secret.db = None
    /\ \E v \in Passwords \ {volume.role, stack.login} :
          secret' = [secret EXCEPT !.db = v]
    /\ flags' = Mark("db", FALSE)
    /\ UNCHANGED <<want, initdb, compose, script, undo, volume, stack,
                   history>>

\* The administrator secret (and, the first time, its salt) only counts for
\* changed.  Imported, kept or generated as the database secret is.
AdminSecret ==
    /\ Goto("admin-secret", "schema")
    /\ \E v \in AdminPws :
          /\ want.admin \in {v, None}
          /\ want.admin = v \/ secret.admin \in {v, None}
          /\ secret' = [secret EXCEPT !.admin = v]
          /\ flags' = [flags EXCEPT !.any = @ \/ secret.admin # v]
    /\ UNCHANGED <<want, initdb, compose, script, undo, volume, stack,
                   history>>

\* 001-guacamole-schema.sql is generated once from the image.
Schema ==
    /\ Goto("schema", "admin-sql")
    /\ initdb' = [initdb EXCEPT !.schema = TRUE]
    /\ flags' = [flags EXCEPT !.any = @ \/ ~initdb.schema]
    /\ UNCHANGED <<want, secret, compose, script, undo, volume, stack,
                   history>>

\* Faulty variant: the step guacamole-admin is trusted to replace the default.
AdminSqlOmitted ==
    /\ Goto("admin-sql", "compose")
    /\ UNCHANGED <<want, disk, undo, flags, volume, stack, history>>

\* 999-guacamole-admin-password.sql.
AdminSql ==
    /\ Goto("admin-sql", "compose")
    /\ initdb' = [initdb EXCEPT !.admin = secret.admin]
    /\ flags' = [flags EXCEPT !.any = @ \/ initdb.admin # secret.admin]
    /\ UNCHANGED <<want, secret, compose, script, undo, volume, stack,
                   history>>

-----------------------------------------------------------------------------
(* guacamole-compose *)

\* What an apply that ends at pc leaves undone of the files that it changed.
Left ==
    {c \in {"role", "login", "svc"} :
        CASE c = "role"  -> flags.db /\ pc \notin {"restart", "admin", "connection"}
          [] c = "login" -> flags.db /\ pc \notin {"admin", "connection"}
          [] c = "svc"   -> /\ flags.compose
                            /\ pc \in {"script", "validate", "undo-compose", "up"}}

Rendered == [svc |-> want.svc, port |-> want.listen]

InstallCompose ==
    /\ Goto("compose", "script")
    /\ undo' = [undo EXCEPT !.compose = compose]
    /\ compose' = Rendered
    /\ flags' = Mark("compose", compose # Rendered)
    /\ UNCHANGED <<want, secret, initdb, script, volume, stack, history>>

InstallScript ==
    /\ Goto("script", "validate")
    /\ undo' = [undo EXCEPT !.script = script]
    /\ script' = want.listen
    /\ flags' = Mark("script", script # want.listen)
    /\ UNCHANGED <<want, secret, initdb, compose, volume, stack, history>>

\* Faulty variant: the result of config --quiet is ignored.
ConfigIgnored ==
    /\ Goto("validate", "up")
    /\ undo' = NoUndo
    /\ UNCHANGED <<want, disk, flags, volume, stack, history>>

ConfigOk ==
    /\ Goto("validate", "up") /\ compose.svc \in ValidSvcs
    /\ undo' = NoUndo
    /\ UNCHANGED <<want, disk, flags, volume, stack, history>>

\* config --quiet fails, on the file or for a reason of its own: _restore_file
\* undoes what this apply changed, the script first, and the error is raised again.
ConfigRejected ==
    /\ Goto("validate", "undo-compose") /\ (compose.svc \notin ValidSvcs \/ Faults)
    /\ script' = IF flags.script THEN undo.script ELSE script
    /\ UNCHANGED <<want, secret, initdb, compose, undo, flags, volume, stack,
                   history>>

\* Faulty variant: the backup of the script goes over compose.yaml.
UndoSwapped ==
    /\ Goto("undo-compose", "failed")
    /\ compose' = IF flags.compose THEN undo.script ELSE compose
    /\ undo' = NoUndo
    /\ torn' = torn \cup (Left \ {"svc"})
    /\ UNCHANGED <<want, secret, initdb, script, flags, volume, stack, settled>>

UndoCompose ==
    /\ Goto("undo-compose", "failed")
    /\ compose' = IF flags.compose THEN undo.compose ELSE compose
    /\ undo' = NoUndo
    /\ torn' = torn \cup (Left \ {"svc"})
    /\ UNCHANGED <<want, secret, initdb, script, flags, volume, stack, settled>>

\* Faulty variants: up -d on every apply; up -d only when the stack is down.
NeedsUpAlways == TRUE
NeedsUpIfDown == ~stack.running

\* A file of this apply changed, or ps misses a service.
NeedsUp == flags.compose \/ flags.script \/ ~stack.running

SkipUp ==
    /\ Goto("up", "role") /\ ~NeedsUp
    /\ UNCHANGED <<want, disk, undo, flags, volume, stack, history>>

\* A container that is started (again) reads the secret and the script.
Started(svc) ==
    [running |-> TRUE, svc |-> svc, listen |-> script, login |-> secret.db]

\* postgres initialises an empty volume from its environment and initdb.d.
Initialised ==
    IF volume # NoVolume THEN volume
    ELSE [role |-> secret.db, conn |-> None,
          admin |-> IF initdb.admin = None THEN Default ELSE initdb.admin]

\* up -d: containers of an unchanged, running service are left alone.
Up ==
    /\ Goto("up", "role") /\ NeedsUp
    /\ LET kept == stack.running /\ stack.svc = compose.svc
       IN  /\ stack' = IF kept THEN stack ELSE Started(compose.svc)
           /\ torn' = torn \ ({"svc"} \cup (IF kept THEN {} ELSE {"login"})
                                \cup (IF volume = NoVolume THEN {"role"} ELSE {}))
    /\ volume' = Initialised
    /\ flags' = [flags EXCEPT !.any = TRUE]
    /\ UNCHANGED <<want, disk, undo, settled>>

-----------------------------------------------------------------------------
(* database-password, guacamole-admin, guacamole-connection *)

SkipRole ==
    /\ Goto("role", "admin") /\ ~flags.db
    /\ UNCHANGED <<want, disk, undo, flags, volume, stack, history>>

\* ALTER ROLE over the local socket of the postgres container.
AlterRole ==
    /\ Goto("role", "restart") /\ flags.db /\ stack.running
    /\ volume' = [volume EXCEPT !.role = secret.db]
    /\ torn' = torn \ {"role"}
    /\ UNCHANGED <<want, disk, undo, flags, stack, settled>>

\* Faulty variant: guacamole keeps the connections it has.
RestartOmitted ==
    /\ Goto("restart", "admin")
    /\ torn' = torn \ {"login"}
    /\ UNCHANGED <<want, disk, undo, flags, volume, stack, settled>>

RestartGuacamole ==
    /\ Goto("restart", "admin")
    /\ stack' = [stack EXCEPT !.listen = script, !.login = secret.db]
    /\ torn' = torn \ {"login"}
    /\ UNCHANGED <<want, disk, undo, flags, volume, settled>>

\* UPDATE guacamole_user, on every apply.
AdminPassword ==
    /\ Goto("admin", "connection") /\ stack.running
    /\ volume' = [volume EXCEPT !.admin = secret.admin]
    /\ flags' = [flags EXCEPT !.any = @ \/ volume.admin # secret.admin]
    /\ UNCHANGED <<want, disk, undo, stack, history>>

\* Faulty variant: ON CONFLICT DO NOTHING.
ConnectionInsertOnly ==
    /\ Goto("connection", "ok") /\ stack.running
    /\ volume' = IF volume.conn = None THEN [volume EXCEPT !.conn = want.vnc]
                 ELSE volume
    /\ flags' = [flags EXCEPT !.any = @ \/ volume.conn = None]
    /\ settled' = TRUE
    /\ UNCHANGED <<want, disk, undo, stack, torn>>

\* The connection upsert, on every apply; then apply_plan returns ok.
Connection ==
    /\ Goto("connection", "ok") /\ stack.running
    /\ volume' = [volume EXCEPT !.conn = want.vnc]
    /\ flags' = [flags EXCEPT !.any = @ \/ volume.conn # want.vnc]
    /\ settled' = TRUE
    /\ UNCHANGED <<want, disk, undo, stack, torn>>

-----------------------------------------------------------------------------
(* Faults, and what happens between two applies *)

\* The step raises before it did anything, or the installer is killed.
Abort ==
    /\ Faults /\ pc \in Steps
    /\ pc' = "failed" /\ settled' = FALSE /\ torn' = torn \cup Left
    /\ undo' = NoUndo
    /\ UNCHANGED <<want, disk, flags, volume, stack>>

\* up recreates the containers and fails before they are healthy; postgres may have
\* initialised the volume by then.
UpFails ==
    /\ Faults /\ Goto("up", "failed") /\ NeedsUp
    /\ stack' = [NoStack EXCEPT !.svc = compose.svc]
    /\ volume' \in {volume, Initialised}
    /\ settled' = FALSE /\ torn' = (torn \cup Left) \ {"login", "svc"}
    /\ UNCHANGED <<want, disk, undo, flags>>

\* The operator edits config.json or a password source.
Reconfigure ==
    /\ pc \in Stopped
    /\ \/ \E v \in Passwords \cup {None} : want' = [want EXCEPT !.db = v]
       \/ \E v \in AdminPws \cup {None} : want' = [want EXCEPT !.admin = v]
       \/ \E v \in VncPws : want' = [want EXCEPT !.vnc = v]
       \/ \E v \in Services : want' = [want EXCEPT !.svc = v]
       \/ \E v \in Listeners : want' = [want EXCEPT !.listen = v]
    /\ pc' = "idle" /\ settled' = FALSE
    /\ UNCHANGED <<disk, undo, flags, volume, stack, torn>>

\* The host reboots: restart: unless-stopped starts the containers again.
Reboot ==
    /\ pc \in Stopped /\ stack.running
    /\ stack' = Started(stack.svc)
    /\ pc' = "idle" /\ settled' = FALSE /\ torn' = torn \ {"login"}
    /\ UNCHANGED <<want, disk, undo, flags, volume>>

\* uninstall: compose down removes the containers; volume and files stay.
Uninstall ==
    /\ pc \in Stopped /\ compose # None /\ compose.svc \in ValidSvcs
    /\ stack' = NoStack
    /\ pc' = "idle" /\ settled' = FALSE /\ torn' = torn \ {"login", "svc"}
    /\ UNCHANGED <<want, disk, undo, flags, volume>>

\* The operator deletes the configuration that uninstall retained.
DeleteFiles ==
    /\ Cleanup /\ pc \in Stopped /\ stack = NoStack /\ compose # None
    /\ secret' = [db |-> None, admin |-> None]
    /\ initdb' = [schema |-> FALSE, admin |-> None]
    /\ compose' = None /\ script' = None
    /\ pc' = "idle" /\ settled' = FALSE /\ torn' = torn \cup {"role"}
    /\ UNCHANGED <<want, undo, flags, volume, stack>>

-----------------------------------------------------------------------------
Apply ==
    \/ Start \/ ImportDbSecret \/ KeepDbSecret \/ CreateDbSecret \/ AdminSecret
    \/ Schema \/ AdminSql
    \/ InstallCompose \/ InstallScript \/ ConfigOk \/ ConfigRejected \/ UndoCompose
    \/ SkipUp \/ Up
    \/ SkipRole \/ AlterRole \/ RestartGuacamole \/ AdminPassword \/ Connection

Between == Reconfigure \/ Reboot \/ Uninstall \/ DeleteFiles

Next == Apply \/ Abort \/ UpFails \/ Between

Spec == Init /\ [][Next]_vars

-----------------------------------------------------------------------------
(* Properties *)

\* Whatever went wrong in earlier applies, one that is ok leaves the administrator
\* with the configured password and the connection with the VNC password: both rows
\* are written by every apply, not only when a secret changed (planner.py:941, 1064).
RowsConverge ==
    pc = "ok" => /\ volume.admin = secret.admin
                 /\ want.admin # None => volume.admin = want.admin
                 /\ volume.conn = want.vnc

\* The database never holds the administrator password of the upstream schema:
\* the 999 script is on disk before postgres can initialise a volume, however the
\* applies before were interrupted and whatever files were deleted.
NeverDefaultAdmin == volume.admin # Default

\* No container is ever started from a service definition that compose config did
\* not accept, also not from a file an interrupted apply left behind.
ValidatedStack == stack.svc \in ValidSvcs \cup {None}

\* Applying again after an ok apply, with nothing in between, writes no file,
\* restarts no container, touches no row and reports changed = FALSE.
SettledNoOp ==
    [][settled /\ pc \in Steps =>
           UNCHANGED <<disk, volume, stack>> /\ flags'.any = flags.any]_vars

\* An ok apply leaves the PostgreSQL role and the running Guacamole with the password
\* of the secret file, through any sequence of rotations, reboots, uninstalls and
\* failures, unless an apply ended between writing that file and the step in question,
\* or the file was deleted and the volume kept, and nothing has done the step since.
RotationConverges ==
    pc = "ok" => /\ "role" \notin torn => volume.role = secret.db
                 /\ "login" \notin torn => stack.login = secret.db

\* Likewise the containers run the configured service definition, unless an apply
\* ended between writing compose.yaml and up -d and no up -d has run since; a file
\* that config --quiet rejected and that was put back needs none.
StackConverges == pc = "ok" /\ "svc" \notin torn => stack.svc = want.svc

\* An ok apply leaves the role with the password in the secret file, as README.md
\* says of a changed PostgreSQL secret, also after an apply that was interrupted.
RoleConverges == pc = "ok" => volume.role = secret.db
=============================================================================
