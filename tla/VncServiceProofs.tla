----------------------------- MODULE VncServiceProofs -----------------------------
(***************************************************************************)
(* Theorems about VncService, for all passwords, settings and definitions   *)
(* and both init systems.  Layers of the invariant: what this apply has     *)
(* installed (Installed); what it knows of the service, and that an undo    *)
(* only meets a running server whose definition it replaced (ServiceInv);   *)
(* when the password file is the one of the fingerprint (AuthInv), the      *)
(* loaded definition the one on disk (LoadedInv) and the running server     *)
(* what is on disk (SyncInv), with the flags of this apply and then torn    *)
(* owing the rest; and that a settled system needs nothing (SettledInv).    *)
(***************************************************************************)
EXTENDS VncService, TLAPS

\* The steps that follow an install, to the end of the apply or its undoing.
UnitDone == {"probe", "reload", "enable", "activate", "ok"} \cup Undoing
PasswordDone == UnitDone \cup {"unit"}
SecretDone == {"compare", "passwd", "print"}
ConfDone == PasswordDone \cup SecretDone \cup {"secret"}

Installed ==
    /\ pc = "conf" => ~restart
    /\ pc \in ConfDone => conf = want.conf
    /\ pc \in SecretDone \cup {"secret"} => want.source # NoAuth
    /\ pc \in SecretDone => secret \in Passwords /\ want.source \in {secret, None}
    /\ pc = "print" => auth = secret
    /\ pc \in PasswordDone /\ want.source # NoAuth =>
        /\ secret \in Passwords /\ want.source \in {secret, None}
        /\ print = secret /\ auth # None
    /\ pc \in UnitDone \ Undoing =>
        unit = want.unit /\ (init # "systemd" => loaded = unit)
    /\ pc \in {"enable", "activate", "ok"} => loaded # None

EnabledSeen == svc.enabled \/ namesake

ServiceInv ==
    /\ namesake => init = "openrc"
    /\ Active => EnabledSeen
    /\ pc \in {"reload", "enable"} =>
        probe.enabled = EnabledSeen /\ probe.active = Active
    /\ pc = "activate" => EnabledSeen /\ probe.active = Active
    /\ pc \in Undoing =>
        /\ init = "systemd" /\ (probe.active => svc.enabled)
        /\ Active => result.changed /\ probe.active
    /\ pc = "undo-restart" => probe.active
    /\ pc = "ok" => EnabledSeen /\ Active

AuthInv ==
    /\ pc = "print" => auth = secret
    /\ pc # "print" /\ print # None /\ "auth" \notin torn => auth = print

LoadedInv ==
    "loaded" \notin torn =>
        \/ loaded \in {unit, None}
        \/ pc \in {"probe", "reload"} /\ result.changed /\ loaded = result.before
        \/ pc = "undo-reload" /\ result.changed

SyncInv ==
    Active /\ "loaded" \notin torn /\ "process" \notin torn =>
        \/ svc.process = [conf |-> conf, unit |-> unit]
        \/ pc \in Steps \cup Undoing /\ (restart \/ Replaced)

\* Every step of an apply would find what it installs or starts.
SettledInv ==
    settled =>
        /\ pc \notin Undoing
        /\ conf = want.conf /\ unit = want.unit /\ loaded # None
        /\ init # "systemd" => loaded = unit
        /\ want.source # NoAuth =>
            /\ secret \in Passwords /\ want.source \in {secret, None}
            /\ print = secret /\ auth # None
        /\ Active /\ EnabledSeen
        /\ pc \in Steps => ~restart
        /\ pc \in {"probe", "reload", "enable", "activate"} => ~result.changed
        /\ pc \notin {"passwd", "print"}

Inv == TypeOK /\ Installed
ServiceAllInv == Inv /\ ServiceInv /\ AuthInv /\ LoadedInv /\ SyncInv /\ SettledInv

-----------------------------------------------------------------------------
(* Types *)

LEMMA TypeOKInit == Init => TypeOK
<1> SUFFICES ASSUME Init PROVE TypeOK
  OBVIOUS
<1>1. svc \in Services /\ result \in Results /\ probe \in Probes
  BY DEF Init, Services, Results, Probes
<1>2. QED BY <1>1 DEF Init, TypeOK, Stopped

LEMMA HalfDoneType == HalfDone \subseteq {"auth", "loaded", "process"}
BY DEF HalfDone

LEMMA TypeOKStep == Inv /\ [Next]_vars => TypeOK'
<1> SUFFICES ASSUME TypeOK, Installed, [Next]_vars PROVE TypeOK'
  BY DEF Inv
<1> USE DEF TypeOK, Goto, Stopped, Steps, Undoing, files, locals, host, history
<1>1. CASE UNCHANGED vars
  BY <1>1 DEF vars
<1>2. CASE Start
  BY <1>2 DEF Start
<1>3. CASE InstallConf
  BY <1>3 DEF InstallConf, Wants
<1>4. CASE InstallSecret
  <2>1. want.source \in Passwords \cup {None}
    BY <1>4 DEF InstallSecret, Installed, SecretDone, Wants
  <2>2. secret' \in Passwords \cup {None}
    BY <1>4, <2>1 DEF InstallSecret
  <2>3. QED BY <1>4, <2>2 DEF InstallSecret
<1>5. CASE SamePassword \/ NewPassword
  BY <1>5 DEF SamePassword, NewPassword
<1>6. CASE WritePassword \/ WriteFingerprint
  BY <1>6 DEF WritePassword, WriteFingerprint
<1>7. CASE InstallUnit
  BY <1>7 DEF InstallUnit, Results, Wants
<1>8. CASE Probe
  BY <1>8 DEF Probe, Probes, Services, Active
<1>9. CASE Reload
  BY <1>9 DEF Reload
<1>10. CASE Enable
  BY <1>10 DEF Enable, Services, Probes
<1>11. CASE Activate
  <2>1. NewProcess \in Process
    BY <1>11 DEF Activate, NewProcess, Process, Installed, ConfDone, PasswordDone,
                 UnitDone, Wants
  <2>2. svc' \in Services
    BY <1>11, <2>1 DEF Activate, Services
  <2>3. QED BY <1>11, <2>2 DEF Activate
<1>12. CASE Abort
  BY <1>12, HalfDoneType DEF Abort
<1>13. CASE ServiceFails
  <2>1. svc' \in Services
    BY <1>13 DEF ServiceFails, Services
  <2>2. QED BY <1>13, <2>1, HalfDoneType DEF ServiceFails
<1>14. CASE Undo
  BY <1>14 DEF Undo, Results
<1>15. CASE UndoReload
  BY <1>15, HalfDoneType DEF UndoReload
<1>16. CASE UndoRestart
  <2>1. conf \in Confs
    BY <1>16 DEF UndoRestart, Installed, ConfDone, PasswordDone, UnitDone, Wants
  <2>2. svc' \in Services
    BY <1>16, <2>1 DEF UndoRestart, NewProcess, Process, Services
  <2>3. QED BY <1>16, <2>2 DEF UndoRestart
<1>17. CASE Reconfigure
  BY <1>17 DEF Reconfigure, Wants
<1>18. CASE StopService
  <2>1. svc.enabled \in BOOLEAN
    BY DEF Services
  <2>2. PICK on \in BOOLEAN : svc' = [enabled |-> on, process |-> None]
    BY <1>18, <2>1 DEF StopService
  <2>3. QED BY <1>18, <2>2 DEF StopService, Services
<1>19. CASE Reboot
  <2>1. svc' \in Services
    BY <1>19 DEF Reboot, Process, Services
  <2>2. QED BY <1>19, <2>1 DEF Reboot
<1>20. QED
  BY <1>1, <1>2, <1>3, <1>4, <1>5, <1>6, <1>7, <1>8, <1>9, <1>10, <1>11, <1>12, <1>13,
     <1>14, <1>15, <1>16, <1>17, <1>18, <1>19 DEF Next, Apply

-----------------------------------------------------------------------------
(* What an apply has installed so far *)

LEMMA InstalledStep == Inv /\ [Next]_vars => Installed'
<1> SUFFICES ASSUME TypeOK, Installed, [Next]_vars PROVE Installed'
  BY DEF Inv
<1>a. None \notin Passwords \cup Confs \cup Units
  BY ValuesAssumption
<1> USE DEF Installed, Goto, Stopped, Steps, Undoing, files, locals, host, history,
            ConfDone, PasswordDone, UnitDone, SecretDone
<1>1. CASE UNCHANGED vars
  BY <1>1 DEF vars
<1>2. CASE Start \/ Abort \/ Reconfigure \/ StopService \/ Reboot
  BY <1>2 DEF Start, Abort, Reconfigure, StopService, Reboot
<1>3. CASE InstallConf
  BY <1>3 DEF InstallConf
<1>4. CASE InstallSecret
  BY <1>4, <1>a DEF TypeOK, Wants, InstallSecret
<1>5. CASE SamePassword \/ NewPassword
  BY <1>5 DEF SamePassword, NewPassword, Current
<1>6. CASE WritePassword
  BY <1>6 DEF WritePassword
<1>7. CASE WriteFingerprint
  BY <1>7, <1>a DEF WriteFingerprint
<1>8. CASE InstallUnit
  BY <1>8 DEF InstallUnit
<1>9. CASE Probe
  BY <1>9 DEF Probe
<1>10. CASE Reload \/ Enable
  BY <1>10, <1>a DEF TypeOK, Wants, Reload, Enable
<1>11. CASE Activate
  BY <1>11 DEF Activate
<1>12. CASE ServiceFails
  BY <1>12 DEF ServiceFails, Runs
<1>13. CASE Undo \/ UndoReload \/ UndoRestart
  BY <1>13 DEF Undo, UndoReload, UndoRestart
<1>14. QED
  BY <1>1, <1>2, <1>3, <1>4, <1>5, <1>6, <1>7, <1>8, <1>9, <1>10, <1>11, <1>12, <1>13
     DEF Next, Apply

-----------------------------------------------------------------------------
(* What this apply knows of the service *)

LEMMA NewProcessRuns == ASSUME Inv, pc = "activate" PROVE NewProcess # None
<1>1. NewProcess \in Process
  BY DEF Inv, TypeOK, Wants, Installed, ConfDone, PasswordDone, UnitDone, NewProcess, Process
<1>2. QED BY <1>1, ValuesAssumption

LEMMA ServiceInvStep == Inv /\ ServiceInv /\ [Next]_vars => ServiceInv'
<1> SUFFICES ASSUME Inv, ServiceInv, [Next]_vars PROVE ServiceInv'
  OBVIOUS
<1>a. svc \in Services /\ probe \in Probes /\ init \in InitSystems /\ namesake \in BOOLEAN
  BY DEF Inv, TypeOK
<1> USE DEF ServiceInv, Active, EnabledSeen, Goto, Stopped, Steps, Undoing, files, locals,
            host, history
<1>1. CASE UNCHANGED vars
  BY <1>1 DEF vars
<1>2. CASE Start \/ Abort \/ Reconfigure
  BY <1>2 DEF Start, Abort, Reconfigure
<1>3. CASE InstallConf \/ InstallSecret \/ SamePassword \/ NewPassword
  BY <1>3 DEF InstallConf, InstallSecret, SamePassword, NewPassword
<1>4. CASE WritePassword \/ WriteFingerprint \/ InstallUnit
  BY <1>4 DEF WritePassword, WriteFingerprint, InstallUnit
<1>5. CASE Probe
  BY <1>5 DEF Probe
<1>6. CASE Reload
  BY <1>6 DEF Reload
<1>7. CASE Enable
  <2>1. svc'.enabled = (svc.enabled \/ ~probe.enabled) /\ svc'.process = svc.process
    BY <1>7, <1>a DEF Enable, Services, Probes
  <2>2. QED BY <1>7, <1>a, <2>1 DEF Enable, Services, Probes
<1>8. CASE Activate
  <2>1. svc'.enabled = svc.enabled
    BY <1>8, <1>a DEF Activate, Services
  <2>2. svc'.process # None
    BY <1>8, <1>a, NewProcessRuns DEF Activate, NeedsStart, Services
  <2>3. QED BY <1>8, <2>1, <2>2 DEF Activate
<1>9. CASE ServiceFails /\ pc = "activate"
  <2>1. svc'.enabled = svc.enabled /\ svc'.process = None
    BY <1>9, <1>a DEF ServiceFails, Services
  <2>2. init = "systemd" => svc.enabled
    BY <1>9
  <2>3. QED BY <1>9, <2>1, <2>2 DEF ServiceFails
<1>10. CASE ServiceFails /\ pc # "activate"
  <2>1. \/ pc = "reload" /\ result.changed
        \/ pc = "enable" /\ ~probe.enabled
    BY <1>10 DEF ServiceFails, Runs
  <2>2. svc' = svc
    BY <1>10 DEF ServiceFails
  <2>3. QED BY <1>10, <2>1, <2>2 DEF ServiceFails
<1>11. CASE Undo \/ UndoReload
  BY <1>11 DEF Undo, UndoReload
<1>12. CASE UndoRestart
  <2>1. svc'.enabled = svc.enabled
    BY <1>12, <1>a DEF UndoRestart, Services
  <2>2. svc.enabled
    BY <1>12 DEF UndoRestart
  <2>3. QED BY <1>12, <2>1, <2>2 DEF UndoRestart
<1>13. CASE StopService
  BY <1>13 DEF StopService
<1>14. CASE Reboot
  <2>1. svc'.enabled = svc.enabled
    BY <1>14, <1>a DEF Reboot, Services
  <2>2. svc'.process # None => svc.enabled
    BY <1>14, <1>a DEF Reboot, Services
  <2>3. QED BY <1>14, <2>1, <2>2 DEF Reboot
<1>15. QED
  BY <1>1, <1>2, <1>3, <1>4, <1>5, <1>6, <1>7, <1>8, <1>9, <1>10, <1>11, <1>12, <1>13,
     <1>14 DEF Next, Apply

-----------------------------------------------------------------------------
(* What agrees with what, unless torn or the apply under way says otherwise *)

LEMMA AuthInvStep == Inv /\ AuthInv /\ [Next]_vars => AuthInv'
<1> SUFFICES ASSUME Inv, AuthInv, [Next]_vars PROVE AuthInv'
  OBVIOUS
<1> USE DEF AuthInv, Goto, Stopped, Steps, Undoing, files, locals, host, history
<1>1. CASE UNCHANGED vars
  BY <1>1 DEF vars
<1>2. CASE Start \/ Reconfigure
  BY <1>2 DEF Start, Reconfigure
<1>3. CASE Abort
  BY <1>3 DEF Abort, HalfDone
<1>4. CASE InstallConf \/ InstallSecret \/ SamePassword \/ NewPassword
  BY <1>4 DEF InstallConf, InstallSecret, SamePassword, NewPassword
<1>5. CASE WritePassword \/ WriteFingerprint
  BY <1>5 DEF WritePassword, WriteFingerprint, Inv, Installed, SecretDone
<1>6. CASE InstallUnit \/ Probe \/ Reload \/ Enable
  BY <1>6 DEF InstallUnit, Probe, Reload, Enable
<1>7. CASE Activate
  BY <1>7 DEF Activate
<1>8. CASE ServiceFails
  BY <1>8 DEF ServiceFails, Runs
<1>9. CASE Undo \/ UndoReload \/ UndoRestart
  BY <1>9 DEF Undo, UndoReload, UndoRestart
<1>10. CASE StopService \/ Reboot
  BY <1>10 DEF StopService, Reboot
<1>11. QED
  BY <1>1, <1>2, <1>3, <1>4, <1>5, <1>6, <1>7, <1>8, <1>9, <1>10 DEF Next, Apply

LEMMA LoadedInvStep == Inv /\ ServiceInv /\ LoadedInv /\ [Next]_vars => LoadedInv'
<1> SUFFICES ASSUME Inv, ServiceInv, LoadedInv, [Next]_vars PROVE LoadedInv'
  OBVIOUS
<1> USE DEF LoadedInv, Goto, Stopped, Steps, Undoing, files, locals, host, history
<1>1. CASE UNCHANGED vars
  BY <1>1 DEF vars
<1>2. CASE Start \/ Reconfigure
  BY <1>2 DEF Start, Reconfigure
<1>3. CASE Abort
  BY <1>3 DEF Abort, HalfDone, Replaced
<1>4. CASE InstallConf \/ InstallSecret \/ SamePassword \/ NewPassword
  BY <1>4 DEF InstallConf, InstallSecret, SamePassword, NewPassword
<1>5. CASE WritePassword \/ WriteFingerprint
  BY <1>5 DEF WritePassword, WriteFingerprint
<1>6. CASE InstallUnit
  BY <1>6 DEF InstallUnit
<1>7. CASE Probe \/ Reload \/ Enable
  BY <1>7 DEF Probe, Reload, Enable
<1>8. CASE Activate
  BY <1>8 DEF Activate
<1>9. CASE ServiceFails
  BY <1>9 DEF ServiceFails, Runs, HalfDone, Replaced
<1>10. CASE Undo \/ UndoRestart
  BY <1>10 DEF Undo, UndoRestart
<1>11. CASE UndoReload
  BY <1>11 DEF UndoReload, HalfDone, Replaced
<1>12. CASE StopService \/ Reboot
  BY <1>12 DEF StopService, Reboot
<1>13. QED
  BY <1>1, <1>2, <1>3, <1>4, <1>5, <1>6, <1>7, <1>8, <1>9, <1>10, <1>11, <1>12
     DEF Next, Apply

LEMMA SyncInvStep ==
    Inv /\ ServiceInv /\ LoadedInv /\ SyncInv /\ [Next]_vars => SyncInv'
<1> SUFFICES ASSUME Inv, ServiceInv, LoadedInv, SyncInv, [Next]_vars PROVE SyncInv'
  OBVIOUS
<1>a. svc \in Services /\ probe \in Probes
  BY DEF Inv, TypeOK
<1> USE DEF SyncInv, Active, Replaced, Goto, Stopped, Steps, Undoing, files, locals, host,
            history
<1>1. CASE UNCHANGED vars
  BY <1>1 DEF vars
<1>2. CASE Start \/ Reconfigure
  BY <1>2 DEF Start, Reconfigure
<1>3. CASE Abort
  BY <1>3 DEF Abort, HalfDone
<1>4. CASE InstallConf
  BY <1>4 DEF InstallConf, Inv, Installed
<1>5. CASE InstallSecret \/ SamePassword \/ NewPassword
  BY <1>5 DEF InstallSecret, SamePassword, NewPassword
<1>6. CASE WritePassword \/ WriteFingerprint
  BY <1>6 DEF WritePassword, WriteFingerprint
<1>7. CASE InstallUnit
  BY <1>7 DEF InstallUnit
<1>8. CASE Probe \/ Reload
  BY <1>8 DEF Probe, Reload
<1>9. CASE Enable
  <2>1. svc'.process = svc.process
    BY <1>9, <1>a DEF Enable, Services
  <2>2. QED BY <1>9, <2>1 DEF Enable
<1>10. CASE Activate
  <2>1. CASE NeedsStart
    <3>1. svc'.process = [conf |-> conf, unit |-> loaded]
      BY <1>10, <1>a, <2>1 DEF Activate, Services, NewProcess
    <3>2. "loaded" \notin torn => loaded = unit
      BY <1>10 DEF Activate, LoadedInv, Inv, Installed
    <3>3. QED BY <1>10, <2>1, <3>1, <3>2 DEF Activate
  <2>2. CASE ~NeedsStart
    BY <1>10, <2>2 DEF Activate, NeedsStart
  <2>3. QED BY <2>1, <2>2
<1>11. CASE ServiceFails /\ pc = "activate"
  <2>1. svc'.process = None
    BY <1>11, <1>a DEF ServiceFails, Services
  <2>2. QED BY <1>11, <2>1 DEF ServiceFails
<1>12. CASE ServiceFails /\ pc # "activate"
  <2>1. svc' = svc /\ pc \in {"reload", "enable"} /\ torn' = torn \cup HalfDone
    BY <1>12 DEF ServiceFails, Runs
  <2>2. QED BY <1>12, <2>1 DEF ServiceFails, HalfDone
<1>13. CASE Undo
  BY <1>13 DEF Undo
<1>14. CASE UndoReload
  <2>1. Active => pc' = "undo-restart" /\ result.changed
    BY <1>14 DEF UndoReload, ServiceInv
  <2>2. QED BY <1>14, <2>1 DEF UndoReload
<1>15. CASE UndoRestart
  <2>1. CASE loaded # None /\ svc' = [svc EXCEPT !.process = NewProcess]
    <3>1. svc'.process = [conf |-> conf, unit |-> loaded]
      BY <1>a, <2>1 DEF Services, NewProcess
    <3>2. "loaded" \notin torn => loaded = unit
      BY <1>15, <2>1 DEF UndoRestart, LoadedInv
    <3>3. QED BY <1>15, <3>1, <3>2 DEF UndoRestart
  <2>2. CASE svc' = [svc EXCEPT !.process = None]
    <3>1. svc'.process = None
      BY <1>a, <2>2 DEF Services
    <3>2. QED BY <3>1
  <2>3. QED BY <1>15, <2>1, <2>2 DEF UndoRestart
<1>16. CASE StopService
  BY <1>16 DEF StopService
<1>17. CASE Reboot
  <2>1. svc'.process \in {[conf |-> conf, unit |-> unit], None}
    BY <1>17, <1>a DEF Reboot, Services
  <2>2. QED BY <1>17, <2>1 DEF Reboot
<1>18. QED
  BY <1>1, <1>2, <1>3, <1>4, <1>5, <1>6, <1>7, <1>8, <1>9, <1>10, <1>11, <1>12, <1>13,
     <1>14, <1>15, <1>16, <1>17 DEF Next, Apply

-----------------------------------------------------------------------------
(* A settled system is a fixed point of apply *)

LEMMA SettledFixed ==
    ASSUME Inv, ServiceInv, SettledInv, settled, pc \in Steps, settled', Next
    PROVE  /\ UNCHANGED <<want, files, unit, loaded, svc, host>>
           /\ pc = "activate" => ~NeedsStart
           /\ restart' = restart /\ pc' \notin {"passwd", "print"} \cup Undoing
           /\ pc' \in {"probe", "reload", "enable", "activate"} => ~result'.changed
<1>a. svc \in Services /\ result \in Results /\ probe \in Probes /\ restart \in BOOLEAN
  BY DEF Inv, TypeOK
<1> USE DEF SettledInv, Goto, Undoing, files, locals, host, history
<1>1. CASE InstallConf
  BY <1>1, <1>a DEF InstallConf, Steps
<1>2. CASE InstallSecret
  <2>1. want.source # NoAuth
    BY <1>2 DEF InstallSecret, Inv, Installed
  <2>2. secret \in Passwords /\ want.source \in {secret, None} /\ secret # None
    BY <2>1, ValuesAssumption
  <2>3. secret' = secret
    BY <1>2, <2>2 DEF InstallSecret
  <2>4. QED BY <1>2, <1>a, <2>3 DEF InstallSecret, Steps
<1>3. CASE SamePassword \/ NewPassword
  <2>1. want.source # NoAuth
    BY <1>3 DEF SamePassword, NewPassword, Inv, Installed, SecretDone
  <2>2. Current
    BY <2>1 DEF Current
  <2>3. QED BY <1>3, <2>2 DEF SamePassword, NewPassword
<1>4. CASE WritePassword \/ WriteFingerprint
  BY <1>4 DEF WritePassword, WriteFingerprint
<1>5. CASE InstallUnit
  <2>1. result'.changed = FALSE /\ loaded' = loaded
    BY <1>5 DEF InstallUnit
  <2>2. QED BY <1>5, <2>1 DEF InstallUnit
<1>6. CASE Probe
  BY <1>6 DEF Probe
<1>7. CASE Reload
  BY <1>7 DEF Reload
<1>8. CASE Enable
  <2>1. probe.enabled
    BY <1>8 DEF Enable, ServiceInv
  <2>2. svc' = svc
    BY <1>8, <1>a, <2>1 DEF Enable, Services
  <2>3. QED BY <1>8, <2>1, <2>2 DEF Enable
<1>9. CASE Activate
  <2>1. ~NeedsStart
    BY <1>9 DEF Activate, NeedsStart, ServiceInv, Steps
  <2>2. QED BY <1>9, <2>1 DEF Activate
<1>10. CASE Abort \/ ServiceFails
  BY <1>10 DEF Abort, ServiceFails
<1>11. CASE Start \/ Undo \/ UndoReload \/ UndoRestart
  BY <1>11 DEF Start, Undo, UndoReload, UndoRestart, Stopped, Steps
<1>12. CASE Reconfigure \/ StopService \/ Reboot
  BY <1>12 DEF Reconfigure, StopService, Reboot
<1>13. QED
  BY <1>1, <1>2, <1>3, <1>4, <1>5, <1>6, <1>7, <1>8, <1>9, <1>10, <1>11, <1>12
     DEF Next, Apply

LEMMA SettledInvStep == Inv /\ ServiceInv /\ SettledInv /\ [Next]_vars => SettledInv'
<1> SUFFICES ASSUME Inv, ServiceInv, SettledInv, [Next]_vars, settled' PROVE SettledInv'
  BY DEF SettledInv
<1>1. CASE UNCHANGED vars
  BY <1>1 DEF vars, files, locals, host, history, SettledInv, Active, EnabledSeen
<1>2. CASE settled /\ pc \in Steps /\ Next
  <2>1. pc \in Steps /\ pc' \in Steps => ~restart'
    BY <1>2, SettledFixed DEF SettledInv
  <2>2. QED BY <1>2, <2>1, SettledFixed DEF SettledInv, files, host, Active, EnabledSeen
<1>3. CASE Start
  BY <1>3 DEF Start, SettledInv, files, locals, host, history, Active, EnabledSeen,
              Undoing, Goto
<1>4. CASE Activate /\ ~settled
  <2>1. /\ conf = want.conf /\ unit = want.unit /\ loaded # None
        /\ init # "systemd" => loaded = unit
        /\ want.source # NoAuth =>
            /\ secret \in Passwords /\ want.source \in {secret, None}
            /\ print = secret /\ auth # None
    BY <1>4 DEF Activate, Goto, Inv, Installed, ConfDone, PasswordDone, UnitDone, Undoing
  <2>2. EnabledSeen' /\ Active' /\ pc' = "ok"
    BY <1>4, ServiceInvStep DEF Activate, Goto, ServiceInv, Next, Apply
  <2>3. QED
    BY <1>4, <2>1, <2>2 DEF Activate, SettledInv, files, locals, host, Undoing, Steps
<1>5. CASE Reconfigure \/ StopService \/ Reboot \/ Abort \/ ServiceFails
  BY <1>5 DEF Reconfigure, StopService, Reboot, Abort, ServiceFails
<1>6. CASE Apply /\ ~Start /\ ~Activate
  <2>1. UNCHANGED settled /\ pc \in Steps \cup Undoing
    BY <1>6 DEF Apply, InstallConf, InstallSecret, SamePassword, NewPassword,
       WritePassword, WriteFingerprint, InstallUnit, Probe, Reload, Enable, Undo,
       UndoReload, UndoRestart, Goto, Steps, Undoing, history
  <2>2. pc \in Steps
    BY <2>1 DEF SettledInv
  <2>3. QED BY <1>2, <1>6, <2>1, <2>2 DEF Next
<1>7. CASE Activate /\ settled
  BY <1>2, <1>7 DEF Activate, Goto, Steps, Next, Apply
<1>8. QED BY <1>1, <1>3, <1>4, <1>5, <1>6, <1>7 DEF Next

-----------------------------------------------------------------------------
(* The theorems *)

LEMMA ServiceAllInvHolds == Spec => []ServiceAllInv
<1>1. Init => ServiceAllInv
  <2>1. Init => Installed /\ ServiceInv
    BY DEF Init, Installed, ServiceInv, ConfDone, PasswordDone, UnitDone, SecretDone,
           Undoing, Active
  <2>2. Init => AuthInv /\ LoadedInv /\ SyncInv /\ SettledInv
    BY DEF Init, AuthInv, LoadedInv, SyncInv, SettledInv, Active
  <2>3. QED BY <2>1, <2>2, TypeOKInit DEF ServiceAllInv, Inv
<1>2. ServiceAllInv /\ [Next]_vars => ServiceAllInv'
  BY TypeOKStep, InstalledStep, ServiceInvStep, AuthInvStep, LoadedInvStep, SyncInvStep,
     SettledInvStep DEF ServiceAllInv, Inv
<1>3. QED BY <1>1, <1>2, PTL DEF Spec

\* Type correctness of the VNC part of apply.
THEOREM TypeCorrect == Spec => []TypeOK
<1>1. ServiceAllInv => TypeOK
  BY DEF ServiceAllInv, Inv
<1>2. QED BY ServiceAllInvHolds, <1>1, PTL

\* An ok apply leaves the service running, and enabled unless a namesake hides it.
THEOREM AlwaysUpAfterOk == Spec => []UpAfterOk
<1>1. ServiceAllInv => UpAfterOk
  BY DEF ServiceAllInv, ServiceInv, EnabledSeen, UpAfterOk
<1>2. QED BY ServiceAllInvHolds, <1>1, PTL

\* An ok apply leaves the VNC server accepting the managed secret, unless an apply
\* ended between the password file and its fingerprint.
THEOREM AuthAlwaysMatches == Spec => []AuthMatches
<1>1. ServiceAllInv => AuthMatches
  <2> SUFFICES ASSUME ServiceAllInv, pc = "ok", want.source # NoAuth, "auth" \notin torn
               PROVE  auth = secret
    BY DEF AuthMatches
  <2>1. secret \in Passwords /\ print = secret
    BY DEF ServiceAllInv, Inv, Installed, PasswordDone, UnitDone
  <2>2. QED BY <2>1, ValuesAssumption DEF ServiceAllInv, AuthInv
<1>2. QED BY ServiceAllInvHolds, <1>1, PTL

\* An ok apply leaves the server running with what is configured.
THEOREM AlwaysRunsConfigured == Spec => []RunsConfigured
<1>1. ServiceAllInv => RunsConfigured
  <2> SUFFICES ASSUME ServiceAllInv, pc = "ok", torn \subseteq {"auth"}
               PROVE  svc.process = [conf |-> want.conf, unit |-> want.unit]
    BY DEF RunsConfigured
  <2>1. conf = want.conf /\ unit = want.unit /\ Active
    BY DEF ServiceAllInv, Inv, Installed, ServiceInv, ConfDone, PasswordDone, UnitDone,
           Undoing
  <2>2. QED BY <2>1 DEF ServiceAllInv, SyncInv, Steps, Undoing
<1>2. QED BY ServiceAllInvHolds, <1>1, PTL

\* Whenever apply is not running, the definition on disk, the one that is loaded and
\* the one that runs agree, also after an apply that was undone.
THEOREM DiskAlwaysRuns == Spec => []DiskRuns
<1>1. ServiceAllInv => DiskRuns
  BY DEF ServiceAllInv, LoadedInv, SyncInv, DiskRuns, Stopped, Steps, Undoing
<1>2. QED BY ServiceAllInvHolds, <1>1, PTL

\* Applying a settled system writes nothing and restarts nothing.
THEOREM SettledChangesNothing == Spec => SettledNoOp
<1>1. ServiceAllInv /\ [Next]_vars =>
        [settled /\ pc \in Steps /\ settled' =>
            /\ UNCHANGED <<files, unit, loaded, svc>>
            /\ pc = "activate" => ~NeedsStart]_vars
  BY SettledFixed DEF ServiceAllInv
<1>2. QED BY ServiceAllInvHolds, <1>1, PTL DEF Spec, SettledNoOp

===================================================================================
