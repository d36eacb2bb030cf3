------------------------------ MODULE ProxySite ------------------------------
(***************************************************************************)
(* The reverse-proxy step of apply_plan (planner.py, _ensure_proxy): one    *)
(* site file beside the other sites of a web server that the operator owns. *)
(* The file is installed, for Apache on Debian modules are enabled, the     *)
(* validator of the web server judges the whole configuration, and the      *)
(* server is told to use it.  A step may raise, the installer may be killed *)
(* between any two, and between two applies the operator changes the        *)
(* configuration or the other sites, stops or starts the web server, or     *)
(* reboots the host.                                                        *)
(*                                                                          *)
(* The web server and the init system are external.  The server reads its   *)
(* configuration when it starts or reloads, and uses none its validator     *)
(* rejects.  One the validator accepts may still not be taken, when a new   *)
(* port of the site is in use: then a start or restart fails and leaves the *)
(* server down; a reload may fail, or be reported as done to a server that  *)
(* goes on as before or gives up.                                           *)
(***************************************************************************)
CONSTANTS
    Sites,        \* renderings of the site file
    ValidSites,   \* those the validator accepts
    None,         \* no site file
    NeedsModules, \* TRUE: Apache on Debian, where a2enmod enables the modules
                  \* that the directives of the site come from
    InitSystems,  \* those the host may have: "systemd", "openrc"
    Faults        \* TRUE: steps raise and the installer is killed

ASSUME SitesAssumption == ValidSites \subseteq Sites /\ None \notin Sites
ASSUME SwitchesAssumption ==
    /\ {NeedsModules, Faults} \subseteq BOOLEAN
    /\ InitSystems \subseteq {"systemd", "openrc"}

VARIABLES
    pc,       \* the next step of apply
    want,     \* configuration: the site it renders to
    site,     \* the site file on disk
    result,   \* of its install: changed, and the file before it
    modules,  \* the Apache modules are enabled
    others,   \* the validator accepts the rest of the web server's configuration
    server,   \* the web server: up, enabled, and the site it serves
    init,     \* the init system of the host
    torn      \* what earlier applies left undone of the site on disk: "check" the
              \* verdict of the validator, "reload" making the server use it

vars == <<pc, want, site, result, modules, others, server, init, torn>>

Stopped == {"idle", "ok", "failed"}
Steps == {"install", "modules", "validate", "undo", "enable", "reload"}

TypeOK ==
    /\ pc \in Stopped \cup Steps
    /\ want \in Sites
    /\ site \in Sites \cup {None}
    /\ result \in [changed : BOOLEAN, before : Sites \cup {None}]
    /\ modules \in BOOLEAN /\ others \in BOOLEAN
    /\ server \in [up : BOOLEAN, enabled : BOOLEAN, live : Sites \cup {None}]
    /\ init \in InitSystems
    /\ torn \subseteq {"check", "reload"}

\* The web server package is installed already: an earlier step of the plan.
Init ==
    /\ pc = "idle"
    /\ want \in Sites
    /\ site = None
    /\ result = [changed |-> FALSE, before |-> None]
    /\ modules = ~NeedsModules
    /\ others = TRUE
    /\ server \in [up : BOOLEAN, enabled : BOOLEAN, live : {None}]
    /\ init \in InitSystems
    /\ torn = {}

-----------------------------------------------------------------------------
(* The web server *)

\* Its configuration loads as far as the managed site is concerned.
Loads(s) == s = None \/ (s \in ValidSites /\ modules)

Accepted == others /\ Loads(site)

Serving == [server EXCEPT !.up = TRUE, !.live = site]

-----------------------------------------------------------------------------
(* _ensure_proxy *)

Goto(a, b) == pc = a /\ pc' = b

Start ==
    /\ pc \in Stopped /\ pc' = "install"
    /\ UNCHANGED <<want, site, result, modules, others, server, init, torn>>

InstallSite ==
    /\ Goto("install", IF NeedsModules THEN "modules" ELSE "validate")
    /\ result' = [changed |-> site # want, before |-> site]
    /\ site' = want
    /\ UNCHANGED <<want, modules, others, server, init, torn>>

\* a2enmod, on every apply.
EnableModules ==
    /\ Goto("modules", "validate")
    /\ modules' = TRUE
    /\ UNCHANGED <<want, site, result, others, server, init, torn>>

\* Faulty variant: the result of the validator is ignored.
VerdictIgnored ==
    /\ Goto("validate", IF result.changed THEN "enable" ELSE "ok")
    /\ UNCHANGED <<want, site, result, modules, others, server, init, torn>>

\* Faulty variant: the server is not told.
AcceptQuietly ==
    /\ Goto("validate", "ok") /\ Accepted
    /\ torn' = torn \ {"check"}
    /\ UNCHANGED <<want, site, result, modules, others, server, init>>

\* The validator accepts; an unchanged site needs nothing more.
Accept ==
    /\ Goto("validate", IF result.changed THEN "enable" ELSE "ok")
    /\ Accepted
    /\ torn' = torn \ {"check"}
    /\ UNCHANGED <<want, site, result, modules, others, server, init>>

\* Faulty variant: the error of the validator is raised where nothing handles it.
RejectUnhandled ==
    /\ Goto("validate", "raised")
    /\ ~Accepted
    /\ UNCHANGED <<want, site, result, modules, others, server, init, torn>>

\* The validator rejects, the site or something else in the configuration.
Reject ==
    /\ Goto("validate", "undo")
    /\ ~Accepted
    /\ UNCHANGED <<want, site, result, modules, others, server, init, torn>>

\* Faulty variant: only a backup is put back.
RestoreBackupOnly ==
    /\ Goto("undo", "failed")
    /\ site' = IF result.changed /\ result.before # None THEN result.before ELSE site
    /\ UNCHANGED <<want, result, modules, others, server, init, torn>>

\* _restore_file: the backup comes back, or the new file is removed.
Restore ==
    /\ Goto("undo", "failed")
    /\ site' = IF result.changed THEN result.before ELSE site
    /\ UNCHANGED <<want, result, modules, others, server, init, torn>>

Down == [server EXCEPT !.up = FALSE]

\* systemctl enable --now, which starts a server that is down; rc-update add, whose
\* failure is not looked at.
EnableServer ==
    /\ Goto("enable", "reload")
    /\ LET enabled == [server EXCEPT !.enabled = TRUE]
       IN  \/ /\ init = "openrc"
              /\ server' \in {enabled} \cup (IF Faults THEN {server} ELSE {})
              /\ UNCHANGED torn
           \/ init = "systemd" /\ server.up /\ server' = enabled /\ UNCHANGED torn
           \/ /\ init = "systemd" /\ ~server.up
              /\ server' = [enabled EXCEPT !.up = TRUE, !.live = site]
              /\ torn' = torn \ {"reload"}
    /\ UNCHANGED <<want, site, result, modules, others, init>>

\* systemctl enable --now enables the server and cannot start it.
EnableFails ==
    /\ Goto("enable", "failed")
    /\ Faults /\ init = "systemd" /\ ~server.up
    /\ server' = [server EXCEPT !.enabled = TRUE]
    /\ torn' = torn \cup {"reload"}
    /\ UNCHANGED <<want, site, result, modules, others, init>>

\* systemctl reload, or the restart of rc-service, which stops the server and
\* starts it with whatever is on disk.
ReloadServer ==
    /\ Goto("reload", "ok") /\ Accepted
    /\ server' = Serving
    /\ torn' = torn \ {"reload"}
    /\ UNCHANGED <<want, site, result, modules, others, init>>

\* The command fails: a reload leaves the server as it was, a restart has stopped it.
ReloadFails ==
    /\ Goto("reload", "failed") /\ (Faults \/ ~Accepted)
    /\ server' = IF init = "openrc" THEN Down ELSE server
    /\ torn' = torn \cup {"reload"}
    /\ UNCHANGED <<want, site, result, modules, others, init>>

\* It succeeds, as far as its exit status tells, and the server does not use the site.
ReloadUnheard ==
    /\ Goto("reload", "ok") /\ Faults
    /\ server' \in {Down} \cup (IF init = "systemd" THEN {server} ELSE {})
    /\ torn' = torn \cup {"reload"}
    /\ UNCHANGED <<want, site, result, modules, others, init>>

-----------------------------------------------------------------------------
(* Faults, and what happens between two applies *)

\* What an apply that ends at pc leaves undone of a site that it changed.
Left ==
    CASE pc = "install" \/ ~result.changed -> {}
      [] pc \in {"modules", "validate", "undo"} -> {"check", "reload"}
      [] OTHER -> {"reload"}

\* A step raises before it did anything, or the installer is killed.
Abort ==
    /\ Faults /\ pc \in Steps
    /\ pc' = "failed" /\ torn' = torn \cup Left
    /\ UNCHANGED <<want, site, result, modules, others, server, init>>

Reconfigure ==
    /\ pc \in Stopped /\ pc' = "idle"
    /\ want' \in Sites \ {want}
    /\ UNCHANGED <<site, result, modules, others, server, init, torn>>

\* The operator breaks or repairs another site.
EditOthers ==
    /\ pc \in Stopped /\ pc' = "idle"
    /\ others' = ~others
    /\ UNCHANGED <<want, site, result, modules, server, init, torn>>

\* The operator stops the web server, and may disable it.
StopServer ==
    /\ pc \in Stopped /\ pc' = "idle" /\ server.up
    /\ \E on \in {server.enabled, FALSE} :
          server' = [server EXCEPT !.up = FALSE, !.enabled = on]
    /\ UNCHANGED <<want, site, result, modules, others, init, torn>>

\* The operator starts it: it comes up with the site on disk.
StartServer ==
    /\ pc \in Stopped /\ pc' = "idle" /\ ~server.up /\ Accepted
    /\ server' = Serving /\ torn' = torn \ {"reload"}
    /\ UNCHANGED <<want, site, result, modules, others, init>>

Reboot ==
    /\ pc \in Stopped /\ pc' = "idle"
    /\ server' = IF server.enabled /\ Accepted THEN Serving
                 ELSE [server EXCEPT !.up = FALSE]
    /\ torn' = IF server.enabled /\ Accepted THEN torn \ {"reload"} ELSE torn
    /\ UNCHANGED <<want, site, result, modules, others, init>>

-----------------------------------------------------------------------------
Apply ==
    \/ Start \/ InstallSite \/ EnableModules \/ Accept \/ Reject \/ Restore
    \/ EnableServer \/ EnableFails \/ ReloadServer \/ ReloadFails \/ ReloadUnheard

Between == Reconfigure \/ EditOthers \/ StopServer \/ StartServer \/ Reboot

Next == Apply \/ Abort \/ Between

Spec == Init /\ [][Next]_vars

-----------------------------------------------------------------------------
(* Properties *)

\* The site on disk between two applies is one the web server can start with, unless
\* an apply ended before the validator had judged it, or before it had taken back a
\* rejected one, and none since has had it accepted: a rejected site never waits for
\* the next reboot to take the operator's other sites down (planner.py:1172-1185).
SiteLoads == pc \in Stopped /\ "check" \notin torn => Loads(site)

\* A web server that is up after an ok apply serves the configured site, although an
\* unchanged site is never reloaded, unless an apply ended between installing that site
\* and telling the server, or the server did not take what it was told, and it has read
\* its configuration in no apply, start or reboot since.
ServesConfigured == pc = "ok" /\ "reload" \notin torn /\ server.up => server.live = want

\* A step of an apply takes a running web server down only where a site that this apply
\* has changed is put to use, and then what is on disk is what the validator has accepted
\* in this apply: never for an unchanged site, and never so that the next start or reboot
\* would find a rejected one, also when an earlier apply left one (planner.py:1158-1197).
NoRejectedRestart ==
    [][server.up /\ ~server'.up /\ pc \in Steps => result.changed /\ Accepted']_vars
=============================================================================
