------------------------------ MODULE VncService ------------------------------
(***************************************************************************)
(* The VNC part of apply_plan (planner.py, _ensure_vnc and                  *)
(* _ensure_vnc_service) for one desktop user: configuration, password,      *)
(* password fingerprint, service definition and the service itself.  One    *)
(* action per file installed or command run.  A step may raise, the         *)
(* installer may be killed between any two, and between two applies the     *)
(* operator changes the configuration or stops the service, or the host     *)
(* reboots.                                                                 *)
(*                                                                          *)
(* The init system and the VNC server are external: a server reads its      *)
(* configuration and definition when it starts and its password file at     *)
(* every connection; systemd uses the definition it last loaded.            *)
(***************************************************************************)
CONSTANTS
    Passwords,  \* VNC passwords
    Confs,      \* renderings of vnc.conf, the launcher and xstartup
    Units,      \* renderings of the service definition
    None,       \* absent
    NoAuth,     \* vnc.authentication = "none"
    InitSystems,\* those the host may have: "systemd", "openrc"
    Faults      \* TRUE: steps raise and the installer is killed

\* A running VNC server: the configuration and the definition it was started with.
Process == [conf : Confs, unit : Units]

ASSUME ValuesAssumption ==
    /\ None \notin Passwords \cup Confs \cup Units
    /\ None \notin Process
    /\ NoAuth \notin Passwords \cup {None}
ASSUME SwitchesAssumption ==
    /\ InitSystems \subseteq {"systemd", "openrc"}
    /\ Faults \in BOOLEAN

VARIABLES
    pc,        \* the next step of apply
    want,      \* configuration: password source, conf, unit
    conf,      \* vnc.conf, launcher and xstartup on disk
    secret,    \* secrets/vnc_password: the managed secret
    auth,      \* vnc.passwd: the password the VNC server accepts
    print,     \* vnc.passwd.sha256: the password auth was made from
    unit,      \* the service definition on disk
    loaded,    \* the definition the init system uses
    svc,       \* the service: enabled, and what its process was started with
    restart,   \* changed, later _runtime["vnc_restart_required"]
    result,    \* the unit install: changed, and the definition before it
    probe,     \* is-enabled and is-active, as _ensure_vnc_service read them
    init,      \* the init system of the host
    namesake,  \* a service is enabled whose name begins with this one's
    settled,   \* nothing but apply touched the system since an apply was ok
    torn       \* history: what an apply that ended early left half done and nothing
               \* has made good since: "auth" is newer than its fingerprint, the
               \* definition was not "loaded", the "process" not restarted

files == <<conf, secret, auth, print>>
locals == <<restart, result, probe>>
host == <<init, namesake>>
history == <<settled, torn>>
vars == <<pc, want, files, unit, loaded, svc, locals, host, history>>

Stopped == {"idle", "ok", "failed"}
Steps == {"conf", "secret", "compare", "passwd", "print", "unit", "probe", "reload",
          "enable", "activate"}
Undoing == {"undo", "undo-reload", "undo-restart"}

Wants == [source : Passwords \cup {None, NoAuth}, conf : Confs, unit : Units]
Services == [enabled : BOOLEAN, process : Process \cup {None}]
Results == [changed : BOOLEAN, before : Units \cup {None}]
Probes == [enabled : BOOLEAN, active : BOOLEAN]

TypeOK ==
    /\ pc \in Stopped \cup Steps \cup Undoing
    /\ want \in Wants
    /\ conf \in Confs \cup {None}
    /\ secret \in Passwords \cup {None}
    /\ auth \in Passwords \cup {None}
    /\ print \in Passwords \cup {None}
    /\ unit \in Units \cup {None}
    /\ loaded \in Units \cup {None}
    /\ svc \in Services
    /\ restart \in BOOLEAN
    /\ result \in Results
    /\ probe \in Probes
    /\ init \in InitSystems /\ namesake \in BOOLEAN
    /\ settled \in BOOLEAN
    /\ torn \subseteq {"auth", "loaded", "process"}

Active == svc.process # None

Init ==
    /\ pc = "idle"
    /\ want \in Wants
    /\ conf = None /\ secret = None /\ auth = None /\ print = None
    /\ unit = None /\ loaded = None
    /\ svc = [enabled |-> FALSE, process |-> None]
    /\ restart = FALSE
    /\ result = [changed |-> FALSE, before |-> None]
    /\ probe = [enabled |-> FALSE, active |-> FALSE]
    /\ init \in InitSystems
    /\ namesake \in BOOLEAN /\ (namesake => init = "openrc")
    /\ settled = FALSE /\ torn = {}

-----------------------------------------------------------------------------
(* vnc-config *)

Goto(a, b) == pc = a /\ pc' = b

Start ==
    /\ pc \in Stopped /\ pc' = "conf"
    /\ restart' = FALSE
    /\ UNCHANGED <<want, files, unit, loaded, svc, result, probe, host,
                   history>>

\* Faulty variant: the result of these installs is not accumulated.
InstallConfUnmarked ==
    /\ Goto("conf", IF want.source = NoAuth THEN "unit" ELSE "secret")
    /\ conf' = want.conf
    /\ UNCHANGED <<want, secret, auth, print, unit, loaded, svc, locals, host,
                   history>>

InstallConf ==
    /\ Goto("conf", IF want.source = NoAuth THEN "unit" ELSE "secret")
    /\ conf' = want.conf
    /\ restart' = (conf # want.conf)
    /\ UNCHANGED <<want, secret, auth, print, unit, loaded, svc, result,
                   probe, host, history>>

\* _read_or_create_secret and the install of the managed secret: the configured
\* source, else the managed file, else a new random password, which the helper
\* has written already when the install looks.
InstallSecret ==
    /\ Goto("secret", "compare")
    /\ \/ want.source # None /\ secret' = want.source
       \/ want.source = None /\ secret # None /\ UNCHANGED secret
       \/ /\ want.source = None /\ secret = None
          /\ secret' \in Passwords \ {auth, print}
    /\ restart' = (restart \/ (want.source # None /\ secret' # secret))
    /\ UNCHANGED <<want, conf, auth, print, unit, loaded, svc, result, probe,
                   host, history>>

\* Faulty variant: a password file that exists is taken for current.
PasswordFileExists == auth # None

\* The fingerprint says the password file already holds this password.
Current == auth # None /\ print = secret

SamePassword ==
    /\ Goto("compare", "unit") /\ Current
    /\ UNCHANGED <<want, files, unit, loaded, svc, locals, host, history>>

NewPassword ==
    /\ Goto("compare", "passwd") /\ ~Current
    /\ UNCHANGED <<want, files, unit, loaded, svc, locals, host, history>>

\* vncpasswd writes the password file; chmod and chown follow.
WritePassword ==
    /\ Goto("passwd", "print")
    /\ auth' = secret /\ restart' = TRUE
    /\ UNCHANGED <<want, conf, secret, print, unit, loaded, svc, result,
                   probe, host, history>>

WriteFingerprint ==
    /\ Goto("print", "unit")
    /\ print' = secret /\ torn' = torn \ {"auth"}
    /\ UNCHANGED <<want, conf, secret, auth, unit, loaded, svc, locals, host,
                   settled>>

-----------------------------------------------------------------------------
(* vnc-service *)

InstallUnit ==
    /\ Goto("unit", "probe")
    /\ result' = [changed |-> unit # want.unit, before |-> unit]
    /\ unit' = want.unit
    \* OpenRC has no cache: it reads the script it runs.
    /\ loaded' = IF init = "systemd" THEN loaded ELSE want.unit
    /\ UNCHANGED <<want, files, svc, restart, probe, host, history>>

\* OpenRC looks for the service name anywhere in the text of rc-update show.
Probe ==
    /\ Goto("probe", "reload")
    /\ probe' = [enabled |-> svc.enabled \/ namesake, active |-> Active]
    /\ UNCHANGED <<want, files, unit, loaded, svc, restart, result, host,
                   history>>

\* Faulty variant: no daemon-reload.
ReloadOmitted ==
    /\ Goto("reload", "enable")
    /\ UNCHANGED <<want, files, unit, loaded, svc, locals, host, history>>

\* daemon-reload; a unit systemd has not loaded yet is read by enable and start.
Reload ==
    /\ Goto("reload", "enable")
    /\ loaded' = IF result.changed \/ loaded = None THEN unit ELSE loaded
    /\ torn' = IF result.changed THEN torn \ {"loaded"} ELSE torn
    /\ UNCHANGED <<want, files, unit, svc, locals, host, settled>>

\* Faulty variant: the service is enabled only when its definition changed.
EnableIfChanged ==
    /\ Goto("enable", "activate")
    /\ svc' = [svc EXCEPT !.enabled = @ \/ result.changed]
    /\ loaded' = IF result.changed THEN unit ELSE loaded
    /\ UNCHANGED <<want, files, unit, locals, host, history>>

\* systemctl enable also loads the definition on disk.
Enable ==
    /\ Goto("enable", "activate")
    /\ svc' = [svc EXCEPT !.enabled = @ \/ ~probe.enabled]
    /\ loaded' = IF probe.enabled THEN loaded ELSE unit
    /\ UNCHANGED <<want, files, unit, locals, host, history>>

\* A server started now.
NewProcess == [conf |-> conf, unit |-> loaded]

\* Faulty variant: it is restarted on every apply.
StartAlways == TRUE

NeedsStart == (result.changed \/ restart) \/ ~probe.active

\* restart, start, or nothing.
Activate ==
    /\ Goto("activate", "ok")
    /\ IF NeedsStart
       THEN svc' = [svc EXCEPT !.process = NewProcess] /\ torn' = torn \ {"process"}
       ELSE UNCHANGED <<svc, torn>>
    /\ settled' = TRUE
    /\ UNCHANGED <<want, files, unit, loaded, locals, host>>

-----------------------------------------------------------------------------
(* Faults *)

\* This apply has replaced the definition.
Replaced == result.changed /\ pc \notin {"conf", "secret", "compare", "passwd", "print", "unit"}

\* What stays half done if apply ends here: _runtime and result are lost with it.
HalfDone ==
    {part \in {"auth", "loaded", "process"} :
        CASE part = "auth" -> pc = "print"
          [] part = "loaded" -> Replaced /\ pc \in {"probe", "reload", "undo-reload"}
          [] OTHER -> Active /\ (restart \/ Replaced)}

\* A step raises before it did anything, or the installer is killed: nothing is
\* undone.
Abort ==
    /\ Faults /\ pc \in Steps \cup Undoing
    /\ pc' = "failed"
    /\ settled' = FALSE /\ torn' = torn \cup HalfDone
    /\ UNCHANGED <<want, files, unit, loaded, svc, locals, host>>

\* The next command is run at all.
Runs ==
    \/ pc = "reload" /\ result.changed /\ init = "systemd"
    \/ pc = "enable" /\ ~probe.enabled
    \/ pc = "activate" /\ NeedsStart

\* On systemd a failing daemon-reload, enable, restart or start is undone; on
\* OpenRC the definition stays.  A restart or start that fails leaves no process.
ServiceFails ==
    /\ Faults /\ Runs
    /\ pc' = IF init = "systemd" THEN "undo" ELSE "failed"
    /\ IF pc = "activate"
       THEN svc' = [svc EXCEPT !.process = None] /\ torn' = torn \ {"process"}
       ELSE torn' = torn \cup HalfDone /\ UNCHANGED svc
    /\ settled' = FALSE
    /\ UNCHANGED <<want, files, unit, loaded, locals, host>>

\* _restore_file.
Undo ==
    /\ Goto("undo", "undo-reload")
    /\ unit' = IF result.changed THEN result.before ELSE unit
    /\ UNCHANGED <<want, files, loaded, svc, locals, host, history>>

\* Faulty variant: the init system is not told that the definition is back.
UndoReloadOmitted ==
    /\ Goto("undo-reload", IF probe.active THEN "undo-restart" ELSE "failed")
    /\ UNCHANGED <<want, files, unit, loaded, svc, locals, host, history>>

\* daemon-reload, restart: their failure is ignored (check=False).
UndoReload ==
    /\ Goto("undo-reload", IF probe.active THEN "undo-restart" ELSE "failed")
    /\ \/ loaded' = unit /\ torn' = torn \ {"loaded"}
       \/ Faults /\ torn' = torn \cup HalfDone /\ UNCHANGED loaded
    /\ UNCHANGED <<want, files, unit, svc, locals, host, settled>>

UndoRestart ==
    /\ Goto("undo-restart", "failed")
    /\ \/ loaded # None /\ svc' = [svc EXCEPT !.process = NewProcess]
       \/ svc' = [svc EXCEPT !.process = None]
    /\ torn' = torn \ {"process"}
    /\ UNCHANGED <<want, files, unit, loaded, locals, host, settled>>

-----------------------------------------------------------------------------
(* Between two applies *)

Reconfigure ==
    /\ pc \in Stopped /\ pc' = "idle"
    /\ \/ \E v \in Passwords \cup {None, NoAuth} : want' = [want EXCEPT !.source = v]
       \/ \E v \in Confs : want' = [want EXCEPT !.conf = v]
       \/ \E v \in Units : want' = [want EXCEPT !.unit = v]
    /\ settled' = FALSE
    /\ UNCHANGED <<files, unit, loaded, svc, locals, host, torn>>

\* uninstall, the operator, or a crash of the server beyond its restart limit.
StopService ==
    /\ pc \in Stopped /\ pc' = "idle" /\ Active
    /\ \E on \in {svc.enabled, FALSE} : svc' = [enabled |-> on, process |-> None]
    /\ settled' = FALSE /\ torn' = torn \ {"process"}
    /\ UNCHANGED <<want, files, unit, loaded, locals, host>>

Reboot ==
    /\ pc \in Stopped /\ pc' = "idle" /\ conf # None
    /\ loaded' = unit
    /\ svc' = [svc EXCEPT !.process = IF svc.enabled /\ unit # None
                                      THEN [conf |-> conf, unit |-> unit] ELSE None]
    /\ settled' = FALSE /\ torn' = torn \ {"loaded", "process"}
    /\ UNCHANGED <<want, files, unit, locals, host>>

-----------------------------------------------------------------------------
Apply ==
    \/ Start \/ InstallConf \/ InstallSecret \/ SamePassword \/ NewPassword
    \/ WritePassword \/ WriteFingerprint
    \/ InstallUnit \/ Probe \/ Reload \/ Enable \/ Activate
    \/ Undo \/ UndoReload \/ UndoRestart

Next == Apply \/ Abort \/ ServiceFails \/ Reconfigure \/ StopService \/ Reboot

Spec == Init /\ [][Next]_vars

-----------------------------------------------------------------------------
(* Properties *)

\* Whatever went wrong before, an apply that is ok leaves the service running and
\* enabled, so that it comes back after a reboot: the probes are taken on every
\* apply, not remembered.  The exception is OpenRC with a namesake, which the
\* search in the text of rc-update show takes for this service.
UpAfterOk == pc = "ok" => Active /\ (svc.enabled \/ namesake)

\* After an ok apply the VNC server accepts the managed secret, which is what the
\* Guacamole connection sends: the fingerprint hides a stale password file only if
\* an apply ended between the two, and only until the next one that writes it.
AuthMatches ==
    pc = "ok" /\ want.source # NoAuth /\ "auth" \notin torn => auth = secret

\* An ok apply leaves the server running with the configured settings and
\* definition, through any sequence of changes, stops, reboots and failures.  What
\* an apply that ended early has forgotten to reload or restart is the exception,
\* until a later reload or restart makes it good.
RunsConfigured ==
    pc = "ok" /\ torn \subseteq {"auth"}
        => svc.process = [conf |-> want.conf, unit |-> want.unit]

\* Also an apply that failed, and was undone, leaves the definition on disk, the one
\* the init system has loaded and the one the server runs with in agreement.
DiskRuns ==
    pc \in Stopped /\ torn \subseteq {"auth"} =>
        /\ loaded \in {unit, None}
        /\ Active => svc.process = [conf |-> conf, unit |-> unit]

\* Applying again after an ok apply, with nothing in between, writes no file and
\* leaves the running desktop session alone: there is no restart, which a session
\* would not survive even if the new process is configured like the old one.
SettledNoOp ==
    [][settled /\ pc \in Steps /\ settled' =>
        /\ UNCHANGED <<files, unit, loaded, svc>>
        /\ pc = "activate" => ~NeedsStart]_vars
=============================================================================
