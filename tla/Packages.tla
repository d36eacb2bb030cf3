------------------------------- MODULE Packages -------------------------------
(***************************************************************************)
(* The packages step of apply_plan (planner.py, _ensure_packages): choose   *)
(* an alternative of every group by asking the package manager which exist, *)
(* then update its index and install what is missing.  The steps are        *)
(* relations on the variables of this module; Provision orders them.        *)
(*                                                                          *)
(* The package manager and the distribution's servers are external.         *)
(***************************************************************************)
EXTENDS Naturals, Sequences, FiniteSetsExt

CONSTANTS
    Groups,  \* candidate_groups: a sequence of groups, a group a sequence of
             \* alternatives, an alternative a set of packages
    Repos,   \* what the servers may come to offer, each a set of packages
    Listings \* whether the probe finds installed packages too: TRUE for apt-cache
             \* show and dnf list, FALSE for a manager that asks the index alone

Alternatives == UNION {{Groups[g][i] : i \in DOMAIN Groups[g]} : g \in DOMAIN Groups}
AllPackages == UNION Alternatives

ASSUME GroupsAssumption == Groups \in Seq(Seq(SUBSET AllPackages))
ASSUME ReposAssumption == Repos # {} /\ \A r \in Repos : r \subseteq AllPackages
ASSUME ListingsAssumption == Listings # {} /\ Listings \subseteq BOOLEAN

VARIABLES
    repo,       \* what the servers offer
    index,      \* what the local index knows of
    installed,
    residual,   \* removed, with configuration files left: still known to dpkg
    lists,      \* what the manager at hand does, of Listings
    chosen,     \* the packages of the alternatives chosen by this apply
    missing     \* those this apply has to install

pkgLocals == <<chosen, missing>>
pkgVars == <<repo, index, installed, residual, lists, pkgLocals>>

PackagesTypeOK ==
    /\ repo \in Repos
    /\ index \in Repos \cup {{}}
    /\ installed \subseteq AllPackages
    /\ residual \subseteq AllPackages \ installed
    /\ lists \in Listings
    /\ chosen \subseteq AllPackages
    /\ missing \subseteq chosen

PackagesInit ==
    /\ repo \in Repos
    /\ index \in {{}, repo}     \* a fresh image has no index
    /\ installed = {} /\ residual = {}
    /\ lists \in Listings
    /\ chosen = {} /\ missing = {}

-----------------------------------------------------------------------------
(* _select_package_candidate, _package_installed *)

Probe(package) == package \in index \/ (lists /\ package \in installed)

\* The alternatives of a group all of whose packages the manager finds.
Candidates(g) == {i \in DOMAIN Groups[g] : \A n \in Groups[g][i] : Probe(n)}

Selectable == \A g \in DOMAIN Groups : Candidates(g) # {}

Selected == UNION {Groups[g][Min(Candidates(g))] : g \in DOMAIN Groups}

\* Faulty variant: dpkg-query ends with 0 for a package it still knows.
KnownToDpkg == installed \cup residual

\* "install ok installed" for apt, the exit status of the query for the others.
PackageInstalled == installed

-----------------------------------------------------------------------------
(* _ensure_packages *)

SelectPackages ==
    /\ Selectable
    /\ chosen' = Selected
    /\ missing' = Selected \ PackageInstalled
    /\ UNCHANGED <<repo, index, installed, residual, lists>>

\* update_argv, run only when something is missing.
UpdateIndex ==
    /\ index' = repo
    /\ UNCHANGED <<repo, installed, residual, lists, pkgLocals>>

Unpack(packages) ==
    /\ installed' = installed \cup packages
    /\ residual' = residual \ packages

\* install_argv: a package that has left the index cannot be installed.
InstallMissing ==
    /\ missing \subseteq index /\ Unpack(missing)
    /\ UNCHANGED <<repo, index, lists, pkgLocals>>

\* The manager fails, or the installer is killed, with some packages unpacked.
InstallPart == \E part \in SUBSET (missing \cap index) : Unpack(part)

-----------------------------------------------------------------------------
(* Between two applies *)

\* The servers change what they offer.
Publish ==
    /\ repo' \in Repos \ {repo}
    /\ UNCHANGED <<index, installed, residual, lists, pkgLocals>>

\* A timer or the operator updates the index.
RefreshIndex ==
    /\ index # repo /\ index' = repo
    /\ UNCHANGED <<repo, installed, residual, lists, pkgLocals>>

RemovePackage ==
    /\ \E n \in installed :
        installed' = installed \ {n} /\ residual' = residual \cup {n}
    /\ UNCHANGED <<repo, index, lists, pkgLocals>>

\* Every group has an alternative that is installed completely.
Provided ==
    \A g \in DOMAIN Groups :
        \E i \in DOMAIN Groups[g] : Groups[g][i] \subseteq installed
=============================================================================
