---------------------------- MODULE ProxySiteProofs ----------------------------
(***************************************************************************)
(* Theorems about ProxySite, for every set of site files and every set of  *)
(* init systems.  The argument follows the one site file: from its install *)
(* to the verdict of the validator the apply still holds what was there    *)
(* before, which is what the server serves and could load; from the        *)
(* verdict to the reload the file is one that loads.                       *)
(***************************************************************************)
EXTENDS ProxySite, TLAPS

\* Between the install of the site and the verdict on it.
Unjudged == {"modules", "validate", "undo"}

\* Between the verdict and the end of a changed site's apply.
Telling == {"enable", "reload"}

\* The installer's result tells whether the file on disk is the one before.
InstallInv ==
    /\ pc \in Unjudged \cup Telling \cup {"ok"} => site = want
    /\ pc \in Unjudged /\ ~result.changed => site = result.before
    /\ pc \in Telling => result.changed /\ Accepted

\* The file that a restart outside an apply, or an undo, would have to load.
LoadsInv ==
    "check" \notin torn => Loads(IF pc \in Unjudged THEN result.before ELSE site)

\* What a server that is up serves, but for a reload this apply still owes it.
ServesInv ==
    "reload" \notin torn /\ server.up /\ pc \notin Telling =>
        server.live = IF pc \in Unjudged THEN result.before ELSE site

SiteInv == InstallInv /\ LoadsInv /\ ServesInv

-----------------------------------------------------------------------------
(* Type correctness *)

LEMMA TypeOKInit == Init => TypeOK
BY DEF Init, TypeOK, Stopped, Steps

LEMMA TypeOKStep == TypeOK /\ [Next]_vars => TypeOK'
<1> SUFFICES ASSUME TypeOK, [Next]_vars PROVE TypeOK'
  OBVIOUS
<1> USE DEF TypeOK, Goto, Stopped, Steps
<1>1. CASE UNCHANGED vars
  BY <1>1 DEF vars
<1>2. CASE InstallSite
  BY <1>2 DEF InstallSite
<1>3. CASE Start \/ EnableModules \/ Accept \/ Reject \/ Restore
  BY <1>3 DEF Start, EnableModules, Accept, Reject, Restore
<1>4. CASE EnableServer \/ EnableFails
  BY <1>4 DEF EnableServer, EnableFails
<1>5. CASE ReloadServer \/ ReloadFails \/ ReloadUnheard
  BY <1>5 DEF ReloadServer, ReloadFails, ReloadUnheard, Serving, Down
<1>6. CASE Abort
  BY <1>6 DEF Abort, Left
<1>7. CASE Reconfigure \/ EditOthers \/ StopServer
  BY <1>7 DEF Reconfigure, EditOthers, StopServer
<1>8. CASE StartServer \/ Reboot
  BY <1>8 DEF StartServer, Reboot, Serving
<1>9. QED BY <1>1, <1>2, <1>3, <1>4, <1>5, <1>6, <1>7, <1>8 DEF Next, Apply, Between

\* Type correctness of the reverse-proxy step.
THEOREM TypeCorrect == Spec => []TypeOK
BY TypeOKInit, TypeOKStep, PTL DEF Spec

-----------------------------------------------------------------------------
(* The inductive invariant *)

LEMMA SiteInvInit == Init => SiteInv
BY DEF Init, SiteInv, InstallInv, LoadsInv, ServesInv, Loads, Unjudged, Telling

\* What leaves the install of the site pending, or ends it.
LEMMA InstallInvStep == TypeOK /\ InstallInv /\ [Next]_vars => InstallInv'
<1> SUFFICES ASSUME TypeOK, InstallInv, [Next]_vars PROVE InstallInv'
  OBVIOUS
<1> USE DEF InstallInv, Unjudged, Telling
<1>1. CASE UNCHANGED vars
  BY <1>1 DEF vars, Accepted, Loads
<1>2. CASE InstallSite
  BY <1>2 DEF InstallSite, Goto
<1>3. CASE EnableModules \/ Reject
  BY <1>3 DEF EnableModules, Reject, Goto
<1>4. CASE Accept
  BY <1>4 DEF Accept, Goto, Accepted, Loads
<1>5. CASE EnableServer \/ ReloadServer \/ ReloadUnheard
  BY <1>5 DEF EnableServer, ReloadServer, ReloadUnheard, Goto, Accepted, Loads
<1>6. CASE Start \/ Restore \/ EnableFails \/ ReloadFails \/ Abort \/ Between
  <2>1. pc' \in {"install", "failed", "idle"}
    BY <1>6 DEF Start, EnableFails, ReloadFails, Restore, Abort, Between, Reconfigure, EditOthers, StopServer,
                StartServer, Reboot, Goto
  <2>2. QED BY <2>1
<1>7. QED BY <1>1, <1>2, <1>3, <1>4, <1>5, <1>6 DEF Next, Apply

\* Only the verdict vouches for a new file, and only an undo gives up the old one;
\* modules once enabled stay enabled.
LEMMA LoadsInvStep == TypeOK /\ InstallInv /\ LoadsInv /\ [Next]_vars => LoadsInv'
<1> SUFFICES ASSUME TypeOK, InstallInv, LoadsInv, [Next]_vars PROVE LoadsInv'
  OBVIOUS
<1> USE DEF LoadsInv, Loads, Unjudged
<1>1. CASE UNCHANGED vars
  BY <1>1 DEF vars
<1>2. CASE InstallSite \/ EnableModules \/ Reject \/ Restore
  BY <1>2 DEF TypeOK, InstallInv, InstallSite, EnableModules, Reject, Restore, Goto
<1>3. CASE Accept
  BY <1>3 DEF Accept, Accepted, Goto
<1>4. CASE EnableServer \/ EnableFails \/ ReloadServer \/ ReloadFails \/ ReloadUnheard
  BY <1>4 DEF EnableServer, EnableFails, ReloadServer, ReloadFails, ReloadUnheard, Goto
<1>5. CASE Abort
  <2>1. CASE pc \in Unjudged /\ result.changed
    BY <1>5, <2>1 DEF TypeOK, Abort, Left
  <2>2. CASE ~(pc \in Unjudged /\ result.changed)
    BY <1>5, <2>2 DEF TypeOK, InstallInv, Abort, Left
  <2>3. QED BY <2>1, <2>2
<1>6. CASE Start \/ Between
  BY <1>6 DEF Start, Between, Reconfigure, EditOthers, StopServer, StartServer, Reboot,
              Stopped
<1>7. QED BY <1>1, <1>2, <1>3, <1>4, <1>5, <1>6 DEF Next, Apply

\* The server reads the file on disk in no step but a start, a reload and a reboot.
LEMMA ServesInvStep == TypeOK /\ InstallInv /\ ServesInv /\ [Next]_vars => ServesInv'
<1> SUFFICES ASSUME TypeOK, InstallInv, ServesInv, [Next]_vars PROVE ServesInv'
  OBVIOUS
<1> USE DEF ServesInv, Unjudged, Telling
<1>1. CASE UNCHANGED vars
  BY <1>1 DEF vars
<1>2. CASE InstallSite \/ EnableModules \/ Reject \/ Restore
  BY <1>2 DEF TypeOK, InstallInv, InstallSite, EnableModules, Reject, Restore, Goto
<1>3. CASE Accept
  BY <1>3 DEF TypeOK, InstallInv, Accept, Goto
<1>4. CASE EnableServer \/ EnableFails \/ ReloadFails \/ ReloadUnheard
  BY <1>4 DEF EnableServer, EnableFails, ReloadFails, ReloadUnheard, Goto
<1>5. CASE ReloadServer
  BY <1>5 DEF TypeOK, InstallInv, ReloadServer, Serving, Goto
<1>6. CASE Abort
  <2>1. CASE pc # "install" /\ result.changed
    <3>1. "reload" \in torn'
      BY <1>6, <2>1 DEF Abort, Left
    <3>2. QED BY <3>1
  <2>2. CASE pc = "install" \/ ~result.changed
    BY <1>6, <2>2 DEF TypeOK, InstallInv, Abort
  <2>3. QED BY <2>1, <2>2
<1>7. CASE Start \/ Reconfigure \/ EditOthers \/ StopServer
  BY <1>7 DEF TypeOK, Start, Reconfigure, EditOthers, StopServer, Stopped
<1>8. CASE StartServer \/ Reboot
  BY <1>8 DEF TypeOK, StartServer, Reboot, Serving, Stopped
<1>9. QED BY <1>1, <1>2, <1>3, <1>4, <1>5, <1>6, <1>7, <1>8 DEF Next, Apply, Between

LEMMA SiteInvStep == TypeOK /\ SiteInv /\ [Next]_vars => SiteInv'
BY InstallInvStep, LoadsInvStep, ServesInvStep DEF SiteInv

LEMMA SiteInvHolds == Spec => []SiteInv
BY TypeOKInit, TypeOKStep, SiteInvInit, SiteInvStep, PTL DEF Spec

-----------------------------------------------------------------------------
(* What it gives *)

\* Between two applies the site on disk is one the web server can start with, but for
\* a site that an interrupted apply left without a verdict.
THEOREM SiteAlwaysLoads == Spec => []SiteLoads
<1>1. SiteInv => SiteLoads
  BY DEF SiteInv, LoadsInv, SiteLoads, Stopped, Unjudged
<1>2. QED BY SiteInvHolds, <1>1, PTL

\* After an ok apply a web server that is up serves the configured site, but for a
\* reload that an interrupted apply still owes it.
THEOREM ConfiguredIsServed == Spec => []ServesConfigured
<1>1. SiteInv => ServesConfigured
  BY DEF SiteInv, InstallInv, ServesInv, ServesConfigured, Unjudged, Telling
<1>2. QED BY SiteInvHolds, <1>1, PTL

\* An apply takes a running server down only to put to use a site that it has changed,
\* under a verdict that still holds: what is on disk then is what the validator accepted.
THEOREM OnlyAcceptedRestarts == Spec => NoRejectedRestart
<1>1. TypeOK /\ SiteInv /\ [Next]_vars
        => [server.up /\ ~server'.up /\ pc \in Steps => result.changed /\ Accepted']_vars
  <2> SUFFICES ASSUME TypeOK, SiteInv, Next, server.up, ~server'.up, pc \in Steps
               PROVE  result.changed /\ Accepted'
    OBVIOUS
  <2>1. CASE ReloadServer \/ ReloadFails \/ ReloadUnheard
    <3>1. pc = "reload" /\ UNCHANGED <<site, modules, others>>
      BY <2>1 DEF ReloadServer, ReloadFails, ReloadUnheard, Goto
    <3>2. result.changed /\ Accepted
      BY <3>1 DEF SiteInv, InstallInv, Telling
    <3>3. QED BY <3>1, <3>2 DEF Accepted, Loads
  <2>2. CASE EnableServer \/ EnableFails
    BY <2>2 DEF TypeOK, EnableServer, EnableFails
  <2>3. CASE Start \/ InstallSite \/ EnableModules \/ Accept \/ Reject \/ Restore \/ Abort
    BY <2>3 DEF Start, InstallSite, EnableModules, Accept, Reject, Restore, Abort
  <2>4. CASE Between
    BY <2>4 DEF Between, Reconfigure, EditOthers, StopServer, StartServer, Reboot,
                Steps, Stopped
  <2>5. QED BY <2>1, <2>2, <2>3, <2>4 DEF Next, Apply
<1>2. QED BY TypeCorrect, SiteInvHolds, <1>1, PTL DEF Spec, NoRejectedRestart
================================================================================
