------------------------------- MODULE Provision -------------------------------
(***************************************************************************)
(* The part of apply_plan that prepares a host (planner.py): the packages   *)
(* step of module Packages, then the passwords and the salt of module       *)
(* SecretFiles, then the steps that use both.  apply runs under the lock,   *)
(* as root or as a user with sudo; a step may raise and the installer may   *)
(* be killed between any two; what it did stays.                            *)
(***************************************************************************)
EXTENDS Packages, SecretFiles

CONSTANT Faults   \* TRUE: commands fail and the installer is killed

ASSUME FaultsAssumption == Faults \in BOOLEAN

VARIABLES
    pc,       \* the next step of apply
    nth,      \* the password it is at
    changed,  \* what apply_plan accumulates
    settled,  \* history: apply was ok, would choose the same packages again, and
              \* nothing else touched the host since
    blind     \* history: a user ran apply where exists() is FALSE for what one may
              \* not see

control == <<pc, nth, changed, settled, blind>>
vars == <<pkgVars, secretVars, control>>

Stopped == {"idle", "ok", "failed", "denied"}
Steps == {"select", "update", "install", "directory", "obtain", "store", "salt",
          "store-salt", "use", "finish"}

TypeOK ==
    /\ PackagesTypeOK /\ SecretsTypeOK
    /\ pc \in Stopped \cup Steps
    /\ nth \in DOMAIN Kinds
    /\ {changed, settled, blind} \subseteq BOOLEAN
    \* What a step reads, an earlier one has left.
    /\ pc \in {"update", "install"} => missing # {}
    /\ pc = "store" => runtime[Kinds[nth]] # None
    /\ pc = "use" => \A n \in Names : runtime[n] # None

Init ==
    /\ PackagesInit /\ SecretsInit
    /\ pc = "idle" /\ nth = 1
    /\ changed = FALSE /\ settled = FALSE /\ blind = FALSE

Goto(a, b) == pc = a /\ pc' = b

\* apply_plan has returned or died: its local variables are gone.
Forget == runtime' = Nothing /\ chosen' = {} /\ missing' = {} /\ nth' = 1 /\ changed' = FALSE
Keep == UNCHANGED <<settled, blind>>

\* A step whose result apply_plan accumulates.
Mark(different) == changed' = (changed \/ different)

-----------------------------------------------------------------------------
(* apply_plan *)

Start ==
    /\ pc \in Stopped /\ pc' = "select"
    /\ invoker' \in Invokers
    /\ blind' = (blind \/ (invoker' = "user" /\ python = "false"))
    /\ UNCHANGED <<pkgVars, python, dir, source, managed, runtime, relied,
                   nth, changed, settled>>

Select ==
    /\ SelectPackages
    /\ Goto("select", IF missing' = {} THEN "directory" ELSE "update")
    /\ Mark(missing' # {})
    /\ UNCHANGED <<secretVars, nth>> /\ Keep

Update == Goto("update", "install") /\ UpdateIndex /\ UNCHANGED <<secretVars, nth, changed>> /\ Keep

Install ==
    /\ Goto("install", "directory") /\ InstallMissing
    /\ UNCHANGED <<secretVars, nth, changed>> /\ Keep

Directory ==
    /\ Goto("directory", "obtain") /\ EnsureDirectory
    /\ Mark(dir' # dir)
    /\ UNCHANGED <<pkgVars, nth>> /\ Keep

Obtain ==
    /\ Goto("obtain", "store")
    /\ \/ ReadSource(Kinds[nth]) \/ ReadManaged(Kinds[nth]) \/ Generate(Kinds[nth])
    /\ UNCHANGED <<pkgVars, nth, changed>> /\ Keep

\* _ensure_vnc and _ensure_secrets each look after the directory, the latter once.
Before(kind) == IF kind = "admin" THEN "obtain" ELSE "directory"

StoreKind ==
    /\ \/ nth < Len(Kinds) /\ nth' = nth + 1 /\ Goto("store", Before(Kinds[nth + 1]))
       \/ nth = Len(Kinds) /\ UNCHANGED nth /\ Goto("store", "salt")
    /\ Store(Kinds[nth])
    /\ Mark(managed' # managed)
    /\ UNCHANGED pkgVars /\ Keep

Salt ==
    /\ Goto("salt", "store-salt") /\ ReadSalt
    /\ UNCHANGED <<pkgVars, nth, changed>> /\ Keep

StoreSalt ==
    /\ Goto("store-salt", "use") /\ Store("salt")
    /\ Mark(managed' # managed)
    /\ UNCHANGED <<pkgVars, nth>> /\ Keep

Use ==
    /\ Goto("use", "finish") /\ HandOver
    /\ UNCHANGED <<pkgVars, nth, changed>> /\ Keep

Finish ==
    /\ Goto("finish", "ok")
    /\ settled' = (Selectable /\ Selected = chosen)
    /\ Forget
    /\ UNCHANGED <<repo, index, installed, residual, lists, python, invoker, dir,
                   source, managed, relied, blind>>

-----------------------------------------------------------------------------
(* What ends an apply early; nothing is undone *)

Ends(p) ==
    /\ pc' = p /\ settled' = FALSE /\ Forget
    /\ UNCHANGED <<repo, index, lists, python, invoker, dir, source, managed, relied,
                   blind>>

NothingInstalled == UNCHANGED <<installed, residual>>

\* _select_package_candidate finds none, the manager no longer has a package, or
\* _read_secret_file or a validation refuses the configured source.
Refuse ==
    /\ \/ pc = "select" /\ ~Selectable
       \/ pc = "install" /\ ~(missing \subseteq index)
       \/ pc = "obtain" /\ source[Kinds[nth]] = Refused
    /\ Ends("failed") /\ NothingInstalled

\* The PermissionError of Path.exists(), which main() does not handle.
Deny ==
    /\ \/ pc = "obtain" /\ source[Kinds[nth]] = None
       \/ pc = "salt"
    /\ ExistsRaises
    /\ Ends("denied") /\ NothingInstalled

\* A command fails before it did anything, or the installer is killed.
Abort ==
    /\ Faults /\ pc \in Steps
    /\ Ends("failed") /\ NothingInstalled

\* The package manager stops half-way.
InstallFails ==
    /\ Faults /\ pc = "install"
    /\ InstallPart
    /\ Ends("failed")

Apply ==
    \/ Start \/ Select \/ Update \/ Install \/ Directory \/ Obtain \/ StoreKind
    \/ Salt \/ StoreSalt \/ Use \/ Finish \/ Refuse \/ Deny

-----------------------------------------------------------------------------
(* Between two applies *)

Between ==
    /\ pc \in Stopped /\ pc' = "idle" /\ settled' = FALSE
    /\ UNCHANGED <<nth, changed, blind>>
    /\ \/ (Publish \/ RefreshIndex \/ RemovePackage) /\ UNCHANGED secretVars
       \/ (SetSource \/ OpenDirectory \/ DeleteSecret) /\ UNCHANGED pkgVars

Next == Apply \/ Abort \/ InstallFails \/ Between

Spec == Init /\ [][Next]_vars

-----------------------------------------------------------------------------
(* Properties *)

\* Once the packages step is over, every group has a complete alternative: also
\* after installs that stopped half-way, candidates that came or went with the
\* index, and packages that were removed but are still known to dpkg.
PackagesProvided ==
    pc \in {"directory", "obtain", "store", "salt", "store-salt", "use", "finish", "ok"}
        => Provided

\* A generated password that services rely on is in its managed file, through every
\* interrupted and repeated apply, until the operator deletes it or imports another:
\* no retry draws a new one.  Users whose exists() is blind are excepted.
ReliedOnKept ==
    ~blind => \A n \in Names : relied[n] # None => managed[n] = relied[n]

\* No secret is written below a directory that others may search, whatever became
\* of the directory since the last apply.
WrittenInPrivate ==
    [][(\E n \in Names : managed'[n] \notin {managed[n], None}) => dir = "private"]_vars

\* Applying again after an ok apply, with nothing in between, installs no package,
\* writes no secret and reports no change, for root or user.
SettledNoOp ==
    [][settled /\ pc # "idle" /\ pc' # "idle" /\ ~blind =>
        /\ UNCHANGED <<index, installed, dir, managed>>
        /\ pc \in Steps => ~changed']_vars

\* An installer started by a normal user is never refused what sudo would give it.
NeverDenied == pc # "denied"
=============================================================================
