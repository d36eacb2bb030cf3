# Verification of the URD installer

This directory holds a TLA+ model of `urd_installer` (`src/src/urd_installer/`), the
program that turns a Linux host into a remote desktop: a desktop environment, a VNC
server, a Guacamole stack under Docker or Podman, and a reverse proxy in front of it.
The installer is a sequential Python program. What makes it hard is not concurrency
inside one process. It is that

- it rewrites files, services and database rows of a live host with **no transaction**
  around them: any command may fail, the installer may be killed between any two, and
  almost nothing is rolled back;
- it is meant to be **applied again** after every change, failure, reboot and uninstall,
  deciding each time, from what it finds, how little it has to do;
- **several installers** (and the operator) may work on the same host.

So most properties here have one of two forms: "an apply that reports ok guarantees
X, whatever happened before it", and "no step ever does Y to something the operator owns".

Paths below such as `planner.py:841` are relative to `src/src/urd_installer/`.

## 1. Inventory

| Component | State it keeps | Operations | Hard behaviour | What makes it correct |
|---|---|---|---|---|
| State lock and state file (`executor.py:596-684`) | lock file, flock, `state.json` | `_ensure_lock_file`, `lock`, `save` (`load` and `transaction` have no caller) | creation race of the lock file, timeout against release, death of the holder, tmpfs at reboot | mutual exclusion; no saved record is lost; no lock without a live holder; every wait ends |
| Atomic file installer (`executor.py:218-594`, `_restore_file` of `planner.py`) | one managed file, its temporary files, its backups | `install` (backup, write, rename, sync) directly or through `sudo`; restore | failure and kill at every system call, power loss, operator edits | the path is absent or whole; the operator's version is never lost; undo is exact; what a direct install has returned is durable |
| Packages and secrets (`planner.py:482-504, 592-670, 753-851`, `platforms.py:36-152`) | installed packages, package index; secrets directory, managed passwords, salt | steps `packages`, `guacamole-secrets`, first part of `vnc-config` | index that changes under the choice; installs that stop half-way; passwords drawn again; a directory the invoker may not search | packages are provided after the step; a password that services rely on is never replaced by a new random one; secrets are written into a private directory only; a second apply does nothing |
| Guacamole stack (`planner.py:819-1138`, `deployment.py`) | secret files, init SQL, `compose.yaml`, entrypoint script, database volume, containers | steps `guacamole-secrets` ... `guacamole-connection`; `compose down` of uninstall | password rotation over several commands; flags that live as long as one apply; volume outliving its files | database, containers and files agree after an ok apply; never the default administrator; only validated definitions run |
| VNC service (`planner.py:634-750`) | `vnc.conf`, managed secret, password file, fingerprint, unit, loaded unit, process | steps `vnc-config`, `vnc-service` | fingerprint vouching for another file; restart flag; systemd's cached unit; undo of a rejected unit | up and enabled, with the configured password and settings; no needless restart |
| Reverse proxy (`planner.py:1141-1200`) | site file, Apache modules, the web server's running configuration | step `reverse-proxy` | a shared web server: a bad site takes others down; restart on OpenRC | a running server is restarted only for a configuration the validator has accepted; a rejected site leaves no trace; the configured site is served |
| Planner and compatibility rules (`planner.py:165-505`, `providers/vnc.py`, `platforms.py`, `desktops.py`) | none (pure) | `build_plan`, `validate_combination` | many settings; rules in two files; names resolved twice | what a step refuses the plan has refused; steps find the secrets they read |
| CLI and plan execution (`cli.py:220-330`, `planner.py:522-570, 1279-1310`) | the plan, `state.json` | `apply`, `uninstall`, `verify` | plan made before the lock; one save at the very end; identity of the user | steps of two commands never interleave; an ok result describes the host and `verify` agrees; the record names the last apply |
| Command runner, redaction (`executor.py:57-217`) | none | `run`, `redact` | child that hangs; root or sudo | how a command ends is part of every module; redaction: section 7 |
| Facts (`facts.py`) | none | `detect` | signs that mislead (sudo strips the session's variables) | `Detect` in `PlanRules`, and what commands change in `Lifecycle` |
| Configuration, schema, model (`config.py`, `schema.py`, `model.py`) | none | `load`, `validate` | none | not modelled |
| Renderers (`renderers.py`, rendering part of `deployment.py`) | none | text output | none | not modelled: a rendering is one value |
| Provider catalogues (`providers/`) | constant tables | look-ups | none | what the rules read of them is in `PlanRules`, the choice among alternatives in `Packages` |
| Bootstrap scripts (`bootstrap.sh`, `init.sh`) | none | start Python | none | not modelled |

How they interact: the CLI asks the planner for a plan, has it approved, takes the lock
of `StateStore` and calls the plan's steps in order. Every step writes files through
`AtomicFileInstaller` and runs commands through `CommandRunner`; steps talk to each
other only through the host and the dictionary `_runtime` of this one apply. A step
with a validator (`compose config`, `nginx -t`, systemd) undoes its own files with
`_restore_file` when they are rejected. At the end of an apply that changed something
`_save_state` replaces `state.json` through `StateStore.save`, under the lock that the
command has held since its first step, and without reading the old record first.

The list of hazards, each at its line and with the properties that guard it, is in
`PROJECT.json`.

## 2. Modules

```
 PlanCommand, Lifecycle ──EXTENDS──> PlanRules    plan; apply / uninstall of installers
    │ lock is a mutex                         │ each step is one action
    v                                         v
 StateStore ──implements──> SerialStore      GuacamoleStack   VncService   ProxySite
                                              │ each installed file is one action
                                              v
                                             FileInstall ──implements──> AtomicFile

 Provision ──EXTENDS──> Packages, SecretFiles   the preparing steps of one apply
```

The modules form levels. What one level proves or checks is what the level above takes
for one action: `StateStore` shows that the flock is a mutex for everything run under it,
so `Lifecycle` has a variable `lock`; `FileInstall` shows that a file is replaced
atomically and undone exactly, so the three step modules install a file in one action;
`Provision` does the same for the steps that prepare a host; `Lifecycle` takes a whole
step as one action and looks at the interleaving of commands.

A module `<Component>Proofs` holds the theorems about a component (section 5). Modules
named `MC...` hold only what TLC needs: symmetry sets and the configurations to
range over. Definitions under a comment `Faulty variant` are used by no specification.
Each is a plausible bug of the definition it precedes; putting it in its place breaks a
property, which shows that the property depends on the code.

**SerialStore, StateStore.** One action per system call whose interleaving with another
installer matters: `Exists`, `CheckTarget` and `Replace` are the three steps of creating
the lock file (`lock_path.exists()`, the comparison inside `install`, `os.replace`);
`Open`, `TryLock`/`TryFails`, `Sleep` and `TimeOut` are the loop of `lock()`; `Compare`,
`KeepOld`, `Save`/`SkipSave` and `Unlock` are the save at the end of an apply, which is an
`install` of the new record over the old one: read, backup, replace. (`transaction()`,
which loads before it saves, is called by nothing and not modelled.) A path names an inode, a descriptor
keeps the inode it opened, and a flock belongs to an inode: this is what the creation
race is about. `Crash` kills a process before any step, `Reboot` kills all and, unless
`LockPersists`, removes the lock file. `clobbered` remembers that `os.replace` has hit a
lock file which a process had open. `SerialStore` says the same without flock: processes
enter one at a time, only the one inside saves, and every saved record can still be read,
in the file or in a backup, until `broken`.

**AtomicFile, FileInstall.** `install` of one path: compare, then for the backup and for
the target the write of a temporary file, its rename and the sync of the directory, in
the two ways the code has (`_write_direct`; `_write_privileged`: `sudo install`,
`sudo mv`). The caller then accepts or undoes (`RestoreBackup`, `RemoveNew`,
`NothingToUndo`). `WriteFails`, `Kill` and `LosePower` hit any step; data that was not
synced may be torn afterwards, and `disk` holds the earlier states of the directory that a
power failure may bring back: every rename adds one, `SyncDirectory` drops them, and the
`mv` or `rm` of an undo, which nothing syncs, adds one that only the kernel's `WriteBack`
drops. Renames in one directory are taken to reach the disk in their order, so that file
and backups come back as they were at one moment. `Edit` is the operator, at any time; `edit` and `unseen`
remember the last edit and whether an install that had compared before it covered it: that
edit is lost by the design of the code, no other may be. An edit is on disk at once. A version stands for content, mode and owner together.

**Packages, SecretFiles, Provision.** `Packages` is the packages step: `SelectPackages`
probes the alternatives of each group in order and asks which packages are installed,
`UpdateIndex` and `InstallMissing` follow if some are missing, and `InstallPart` is a
manager that stops half-way. The index, what the servers offer and what is installed
change between applies. `residual` are removed packages that dpkg still knows.
`SecretFiles` is the secrets directory: `EnsureDirectory`, then for each password
`ReadSource`, `ReadManaged` or `Generate`, and `Store`; `ReadSalt` for the salt. `Hidden`
says that the invoker may not search the directory: what goes through `prepare_argv`
works, `Path.exists()` raises or, from Python 3.14 on, is false (`python`). `Provision` orders both modules' relations
into one apply, with its ways to end early. `relied` remembers the generated password that
services were given, `blind` that a user ran an interpreter whose `exists()` is false.

**GuacamoleStack.** One action per file installed or command run, in the order of the
steps. `flags` is `_runtime` and the `changed` flags of this apply; `undo` the backups
it took, as long as they may be needed; `volume` the database (role password, administrator password, connection);
`stack` what the containers were started with. Compose and PostgreSQL are external and
follow the three rules in the module's header. Between applies the operator reconfigures,
uninstalls, deletes the retained files, and the host reboots. `torn` names what applies that
ended early left undone (`Left`) until something does it: the role's password, Guacamole's
login, the containers' definition.

**VncService.** The same for `_ensure_vnc` and `_ensure_vnc_service` of one user:
`InstallConf` ... `WriteFingerprint`, then `InstallUnit`, `Probe`, `Reload`, `Enable`,
`Activate`, and the undo chain `Undo`, `UndoReload`, `UndoRestart` that only systemd
has. `loaded` is the unit that systemd has in memory; `svc.process` what the running
server was started with. `torn` remembers what an apply that ended early left half done
and nothing has made good since, `namesake` an enabled OpenRC service whose longer name
contains this one's.

**ProxySite.** `_ensure_proxy`: `InstallSite`, `EnableModules`, `Accept`/`Reject`,
`Restore`, `EnableServer`, `ReloadServer`, beside other sites that the operator may break
(`others`). OpenRC restarts where systemd reloads. The verdict of the validator is not the
last word: a new port of an accepted site may be in use. So `EnableFails` leaves a stopped
server down, `ReloadFails` is a restart that has stopped the server and could not start it
(or a reload that changed nothing), and `ReloadUnheard` one of either that is reported as
done and was not. `torn`: a site that an apply which ended early left unvalidated, or that
the server was not told of or did not take.

**PlanRules, PlanCommand.** `Detect` derives the facts from a host: platform from os-release, init
system from its signs, display server from the variables the installer still has.
`build_plan` follows as operators on a record of facts and a record of settings: what user, runtime and desktop they resolve to, which rules object, which steps and
package groups the plan gets. `CanRun`, `Provides` and `Reads` state what the steps
themselves check or read, taken from their bodies. `cfg.gated` stands for all settings
whose rule does nothing but refuse (ports, firewall, architecture, ...). `Settings` is the
set of all configurations the schema admits, as far as the planner looks at them; a
combination the planner refuses although the schema has it, like `traefik`, is a rule.
`PlanCommand` is the command `plan`: it picks a host and a configuration and builds the
plan. Its properties are those of every plan that any command starts from.

**Lifecycle.** A command reads the configuration once, at its start: any of `Configs`, so
each installer may work from another version of the file. `apply` plans before it waits
for the lock, `uninstall` after; both run their steps under it. `Effect` says what a step does to the host, as far as other steps
and commands see it: accounts, installed packages, each user's VNC service, the stack
and the connections of each container runtime, files. `Verify` is the `verify` command, as
an operator that a property compares with the host. `recent` is a history variable.

## 3. Runs

All runs are small enough to be exhaustive. Distinct states are given after symmetry.

| Run | Bounds | States | Shows |
|---|---|---|---|
| `StateStore_tmpfs` | 2 processes, 3 inodes, 2 polls, 2 records | 190 224 | on the default `/run/lock`: exclusion (`ExclusiveUnlessClobbered`) and serial saves that lose no record (`Serializable`, against `SerialStore`) until an open lock file is replaced; a holder keeps the flock it was given (`HeldThroughout`), none is left behind (`NoOrphanLock`), every wait ends (`WaiterEnds`) |
| `StateStore_race` | 2 processes, 3 inodes, 1 poll, 1 record | violation | two installers that start on a host without a lock file both get in |
| `FileInstall` | 3 versions, both ways to write, power loss for direct writes | 32 877 | `OperatorWorkKept`, `UndoExact`, what a direct install has returned survives power loss (`DurableOnReturn`), and `FileInstall` implements `AtomicFile` (`Atomic`) |
| `GuacamoleStack` | 2 values of each password, 2 listeners, 2 valid and 1 invalid definition | 1.68 M | rows, administrator and validated definitions after any history; role, login and running definition but for what an interrupted apply left undone and nothing did since; a second apply does nothing |
| `GuacamoleStack_rotation` | 2 database passwords, 1 of all else | violation | an interrupted rotation is never taken up again |
| `VncService` | 3 passwords, 2 settings, 2 units, systemd and OpenRC | 323 623 | up and enabled, server accepts the managed secret, runs what is configured, a failed apply leaves disk, init system and process in agreement, second apply neither writes nor restarts |
| `ProxySite` | 2 valid and 1 invalid site, systemd and OpenRC, modules needed | 8 968 | site on disk loads and the configured site is served, but for a site left unvalidated or untold; a running server is taken down only to use a changed site that the validator has accepted (`NoRejectedRestart`) |
| `PlanRules` | 475 710 pairs of a host and settings | 951 k | no plan has a doomed step, secrets come before their readers, the support matrix's refusals hold |
| `PlanRules_auto` | the same | violation | `desktop=auto` is planned and cannot be executed |
| `Lifecycle` | 2 installers, 3 configurations, 3 users | 364 k | an ok result describes the host (`Converged`), `verify` agrees (`VerifyAgrees`), the record names the last completed apply (`RecordFaithful`) |
| `Provision` | 1 group of 2 alternatives, 2 server states, 2 passwords and the salt, 3 random values, root and user, old and new Python | 2.34 M | packages are provided (`PackagesProvided`), relied-on passwords are kept (`ReliedOnKept`), secrets go into a private directory (`WrittenInPrivate`), a second apply does nothing (`SettledNoOp`) |
| `Provision_user` | the same, no faults, a user, old Python | violation | the installer is denied its own secrets |

Why the bounds are enough, and what they leave out:

- *StateStore.* The race needs two processes and two generations of the lock file: with
  three inodes two processes can hold different ones while a third is free to be bound.
  The proofs do not depend on these bounds, and cover a lock file that persists as well. Two
  records are enough to lose one; `MaxPolls` caps the timeout.
- *FileInstall.* Three versions: the operator's, the installer's and one edited meanwhile.
  The code only compares the file with the version to install, so more versions add no
  outcome of a comparison.
  Power may fail only in direct mode: in privileged mode nothing is synced and
  `OperatorWorkKept` does not hold (section 6).
- *GuacamoleStack.* Two values per kind let any value be current, changed and changed
  back. A generated database password is new by construction; with two values
  `CreateDbSecret` may have none left after an interrupted rotation. The step is
  then blocked, not the apply's failure; with a new volume it is taken.
- *VncService.* Three passwords: secret, password file and fingerprint may all differ.
- *Provision.* The group is that of the Docker packages, whose first alternative may come
  and go with the index. `vnc` and `db` differ as the code does: `db` may be imported
  or refused. `Listings` is that of apt; a manager whose probe asks the index alone
  (pacman) is in the other run and in the proofs. Three random values: the managed one, the relied-on one and a new one.
- *PlanRules.* Three groups of hosts and settings: one varies what identifies a host, two vary the settings that one group of rules reads
  (desktops and VNC servers; profile, runtime, proxy and TLS) with the others at their
  defaults. The last group also varies what the steps need of the VNC server (managed
  or not, with or without a password), because the Guacamole connection depends on both.
- *Lifecycle.* The invoker is root. Three configurations: a full installation for the
  user the planner invents, VNC alone for an existing account, VNC alone for a missing
  one (which a step refuses). Two installers are enough to interleave.

Conditions in the properties are deliberate. Where the code loses track of an
interrupted apply, a history variable says so: `torn`, `unseen`, `blind` and `clobbered`
name what was lost, and are reset by whatever makes it good. The unconditional form is
false in these places; it is either a violation run or in the list of section 6.

Deadlock is checked everywhere but in the runs of `PlanCommand`, where a plan is made once.

## 4. Fairness

Only `StateStore` states liveness. Its fairness is `WF` on `Acquire(p)`: a process inside
`lock()` keeps going, since all it does there are local system calls and sleeps of 0.1 s.
Nothing is assumed of a process that **holds** the lock: `CommandRunner.run` has no
timeout unless its caller gives one, so a child may hang for ever. `WaiterEnds` therefore
holds because of the deadline, not because of the holder. Other components make no
liveness claim: an installer that stops is a normal event, and each property speaks of
what a later apply finds.

## 5. Proofs

Every invariant, action property and refinement that a passing run checks is also a
theorem, for every value of the constants; `WaiterEnds` alone is not. In each case the
argument is an invariant in layers that TLC has checked on the bounds of section 3 before
it was proved: `Init` implies it, each action preserves it (one lemma per action or per
layer, one step per action), and it implies the property. Action properties and refinements
use it as a lemma about the states in which a step is taken.

| Module | Theorems (property) | Assumes |
|---|---|---|
| `StateStoreProofs` | `TypeCorrect`, `HoldersKeepTheirFlock` (`HeldThroughout`), `NoFlockLeftBehind` (`NoOrphanLock`), `ExcludesUntilClobbered` (`ExclusiveUnlessClobbered`, and one lock file while `~clobbered`), `StoreIsSerial` (`Serializable`) | |
| | `PersistentLockExcludes`: never clobbered, mutual exclusion, one lock file | `LockPersists` |
| `FileInstallProofs` | `TypeCorrect`, `UndoAlwaysExact` (`UndoExact`), `ReturnedIsDurable` (`DurableOnReturn`) | |
| | `OperatorWorkAlwaysKept` (`OperatorWorkKept`), `InstallIsAtomic` (`Atomic`) | `DurableWrites` |
| `GuacamoleStackProofs` | `TypeCorrect`, `RowsAlwaysConverge`, `DefaultAdminNever` (`NeverDefaultAdmin`), `StackIsValidated` (`ValidatedStack`), `RotationAlwaysConverges`, `StackAlwaysConverges`, `SettledChangesNothing` (`SettledNoOp`) | |
| `VncServiceProofs` | `TypeCorrect`, `AlwaysUpAfterOk`, `AuthAlwaysMatches`, `AlwaysRunsConfigured`, `DiskAlwaysRuns`, `SettledChangesNothing` (`SettledNoOp`) | |
| `ProxySiteProofs` | `TypeCorrect`, `SiteAlwaysLoads`, `ConfiguredIsServed` (`ServesConfigured`), `OnlyAcceptedRestarts` (`NoRejectedRestart`) | |
| `ProvisionProofs` | `TypeCorrect`, `PackagesAlwaysProvided`, `ReliedOnAlwaysKept`, `SecretsWrittenInPrivate` (`WrittenInPrivate`), `SettledChangesNothing` (`SettledNoOp`) | |
| `PlanRulesProofs` | `SupportedPlansRun` (`NoDoomedPlan`), `SecretsComeFirst` (`SecretsInOrder`), `MatrixAlwaysRefused` (`MatrixRefused`) | |
| `LifecycleProofs` | `TypeCorrect`, `RecordAlwaysFaithful`, `CommandsConverge` (`Converged`), `VerifyAlwaysAgrees` | |

**StateStore.** None of the exclusion properties is inductive: `MutualExclusion` says
nothing of which flock a process holds, and `Serializable` nothing of what a process that
is about to replace the file has read and backed up.

1. `LockInv` = `TypeOK`, `FdOK` (a descriptor is open exactly between `Open` and the end
   of `lock()`), `HeldThroughout` and `NoOrphanLock`. Owner and descriptor point at each
   other; each step that disturbs one disturbs the other with it (`StopStep`,
   `TryLockStep`), and a re-created lock file disturbs neither. This layer needs nothing of
   the lock file.
2. `FileInv`: while `~clobbered`, every descriptor is of the inode the path names, what a
   save has read is still the file, and is in a backup before the file is replaced. `Replace` is the only step
   that can break the first part, and sets `clobbered` exactly when it does. With `LockInv`
   all holders own the flock of one inode, so there is one (`ExclusionFromInv`); this in
   turn is why nobody else replaces the file between a save's read and its rename.
3. `PersistInv`: with `LockPersists` the path always names an inode and nobody is in the
   creating branch, so `Replace` never happens and `clobbered` stays false.

Refinement: `Inside` is the set of processes in the critical section. `TryLock` is
`Enter`, `Save` is `Update` and
loses nothing because the old record is in a backup by then, `Unlock`, `Crash` and `Reboot` are `Leave` when someone was
inside, all else stutters; `broken` is `clobbered`, after which `SerialStore` promises
nothing. `StateStore_race` shows that this happens.

**FileInstall.** `InstallInv` ties the temporary file, the backup and the result to the
version the install compared; it is enough for the undo. `ReturnInv` says that a direct
write leaves no data unsynced and that `disk` is empty once it has returned, which is
`DurableOnReturn`. `WholeInv` and `KeepInv` say where the operator's version is at each
system call: still at the path before the rename, in a backup after it. `DiskInv` says the
same of every state in `disk`: the target's rename may be undone by a power failure at any
time before the sync, and the backup it relies on must then be on disk already.
They need `DurableWrites`: that backups
are made, which is the default and switched off for secrets, generated SQL and the lock
file only, and that only direct writes face a power failure. Privileged writes sync nothing
(section 6), so without it the theorem is false. The
refinement maps the rename of the target to the one step of `AtomicFile`, and the rename
of the backup to the keeping of the old version.

**GuacamoleStack.** `NeverDefaultAdmin` depends on the order of the whole apply: `Inv`
records what is installed by each step (`SecretsInstalled`, `FilesInstalled`), and
`StackInv` that a running stack has a secret, a Compose file and a role that no failure
or cleanup takes away under it. `RoleInv`, `LoginInv` and `SvcInv` follow the secret file,
the role, the login and the definition as they drift apart: at each control point they
agree, or a flag of the apply under way still owes the step, or `torn` does. `SettledInv`
says that a settled system is a fixed point of every step.

**VncService.** `Installed` is what the apply has written by each step. `ServiceInv` adds
what its probes know, and that the undo chain is only reached with a running server whose
unit was replaced. `AuthInv` is the meaning of the fingerprint: outside the two steps
between them, password file and fingerprint come from one password, unless `torn`.
`LoadedInv` and `SyncInv` do the same for the loaded unit and the running process.

**ProxySite.** From its install to the verdict, the result of the install still holds the
file that was there before, which is what the server serves and could load; from the
verdict to the reload the whole configuration is one the validator accepts, which is what
`NoRejectedRestart` needs of the states in which the server may go down. `InstallInv`, `LoadsInv` and `ServesInv`
say this with `torn` for applies that ended in between.

**Provision.** `StoredInv` says password by password what is obtained and stored;
`SecretInv` that the directory was made private in this apply before anything is stored,
and that the salt read back is the one relied on. `PackageInv` carries the choice: what
is chosen covers every group, and is installed or missing, until the install is done.

**PlanRules.** A supported plan has no objection (`SupportedMeans`, `SupportedMode`), so
each rule becomes a fact about host and settings, from which the requirement of each step
follows: for example the desktop of a virtual server is one of the catalogue, because the
schema, the rule against `custom` and the rule against none leave nothing else but `auto`.
That secrets precede their readers is proved part by part: a sequence is `Orderly` after
another when it reads what both provide (`OrderlyConcat`), and the plan is a concatenation
of such parts.

**Lifecycle.** The lock makes at most one installer execute (`TypeOK`). Its plan was built
from facts in which only the container runtimes on PATH may since have changed (`JobInv`,
`Planned`), and these decide neither on a rule nor on a user (`PathDecides`). `ProgressInv`: each step
of the plan is still ahead, or its effect is there (`Done`), since no step of a plan undoes
another's (`EffectKeeps`) and nobody else executes. At the end nothing is ahead, so the host
is a fixed point. `RecordInv` is what `state.json` is about to be given while it is saved.

Assumptions on constants are named in the module that declares them and evaluated by TLC
in every run of the module. They ask that markers such as `None` are not among the values
(`ModelValuesAssumption`, `MarkersAssumption`, `SecretsAssumption`,
`InstallersAssumption`, ...), that package groups are sequences of alternatives
(`GroupsAssumption`), that the passwords are a non-empty sequence (`KindsAssumption`), that configurations are ones the schema admits (`ConfigsAssumption`,
`InputsAssumption`), and that the host's family is a known one and no invoker is nameless
(`HostAssumption`).

Only model-checked, on the bounds above: `WaiterEnds` (liveness under fairness is out of
the prover's reach); that the levels fit together, that is, that one action of `Lifecycle`
or of a step module stands for the run of the module below it, is argued in section 2 and
not stated in TLA+, but for the refinements `Serializable` and `Atomic`.

## 6. Where code and documentation disagree, and other known gaps

Four disagreements have a run that shows them (`findings` in `PROJECT.json`):

- `StateStore_race`: the lock file is created with `os.replace`, so two first installers
  can lock two different inodes (`executor.py:618`).
- `GuacamoleStack_rotation`: a password rotation that is interrupted is never completed
  (`planner.py:841, 975`, against `README.md:179-180`).
- `PlanRules_auto`: `desktop=auto` is usable according to `docs/SUPPORT_MATRIX.md:64` and
  ends in an exception (`planner.py:651`, `desktops.py:341`).
- `Provision_user`: `exists()` below the root-only secrets directory raises
  `PermissionError` for a user who relies on sudo (`planner.py:761, 835`, against
  `README.md:93`). From Python 3.14 on it is false instead, and such a user draws new
  passwords at every apply (`ReliedOnKept` excepts these: `blind`).

The models show these, or they were met while modelling; no run claims them:

- A changed web port is written to the entrypoint script, which a running container does
  not read again. The comment in `compose.yaml` that names the port (`deployment.py:183`)
  makes the file differ, so `up -d` is run (`planner.py:936`), but it leaves a container
  alone whose definition is the same.
  `StackConverges` leaves the listener out.
- An apply that ends after `compose.yaml` was replaced leaves the next one with an
  unchanged file and a running stack, so `up` is skipped (`planner.py:935`). The same holds
  for the web server's reload (`planner.py:1189`) and for the VNC restart flag
  (`planner.py:693`).
- After uninstall and deletion of the retained files, a generated database secret differs
  from the role password in the surviving volume, and `database_password_changed` is false
  (`planner.py:841`).
- A VNC password rotated from A to B, interrupted after `vncpasswd`, and taken back to A
  finds the fingerprint of A and keeps the password file of B (`planner.py:676-691`).
- When `a2enmod` fails, the new site stays in place without having been validated
  (`planner.py:1158`, against `SECURITY.md:51`).
- On OpenRC, `rc-service restart` stops the web server and may then fail although the
  validator has accepted the site, for example when its new port is in use. The site is not
  taken back, the server stays down with all sites, and later applies, which find the site
  unchanged, report ok (`planner.py:1188-1195`). A reload under systemd may likewise be
  reported as done and not be taken. `ServesConfigured` excepts both until the server reads
  its configuration again (`torn`), and says nothing of a server that is down.
- The `mv` or `rm` of an undo is not synced: a power failure shortly after it may bring the
  rejected file back, with the backup (`planner.py:1183-1185`). `FileInstall` has this;
  `DurableOnReturn` is about installs only.
- `StateStore.transaction` and `load` are called by nothing: `state.json` is written, never
  read back (`executor.py:651-683`, `planner.py:1214`).
- `_write_privileged` syncs nothing, so power loss after `mv` may lose file and backup;
  a failing `mv` leaves the destination's temporary file (`executor.py:527-528`).
- Uninstall stops the service of the user, and the stack of the runtime and profile, that
  it resolves *now*; those of an earlier configuration stay. The stop commands run
  unchecked, and the summary says services were stopped (`planner.py:1286-1303`).
- A failed save of `state.json` is not repaired by the next apply, which is unchanged.
- Docker asked for on the rpm families is planned although no packages are known for it;
  `StepsCanRun` exempts it.
- On OpenRC the enabled state is a substring search (`planner.py:741`): with an enabled
  namesake this service is not enabled. `UpAfterOk` excepts it.
- The choice of packages is made on the index before apply itself refreshes it
  (`planner.py:596-601`): on a fresh image no candidate is found, and the next apply may
  choose another alternative than this one. `SettledNoOp` of `Provision` is stated for
  applies whose choice the new index would not change.
- A generated password is written by `_read_or_create_secret` itself, so the install that
  follows finds nothing to change (`planner.py:765, 826`).
- With `DISPLAY` alone, as sudo leaves it, a Wayland session passes for X11
  (`facts.py:183`). `MatrixRefused` excepts it.
- `compose ps --status running` succeeds when nothing runs, so it is the port checks that
  find a stopped stack (`planner.py:1242`).
- An operator's edit between the comparison and the rename of an install is overwritten
  (`executor.py:564`).

## 7. What is not modelled

- *Command runner and redaction*: to the models a command succeeds, fails, or is cut short
  by the installer's death. Redaction is string rewriting.
- *Configuration, schema, renderers, bootstrap*: stateless decoding, checking and
  formatting. A configuration is a member of a small set, a rendering is one value that
  differs when the settings it depends on differ.
- *Facts*: the text of os-release, security modules, the firewall and the architecture.
- `doctor`, `detect`, `list-supported` and `--dry-run` change nothing.
- *Package managers*: dependencies between packages; that `pacman -Syu` upgrades all.
- *Retries*: `ALTER ROLE` and the health checks are repeated up to a limit; each repeated
  command is idempotent, so one action stands for the loop and may fail.
- *Runit*: no plan with it passes the rules of the supported families.

## 8. Plan

Done, in this order: the lock and state file with their proofs; the atomic file
installer; the Guacamole stack; the VNC service; the reverse proxy; the planner's rules;
the life cycle of commands; packages, secrets and their composition; detection of facts
and `verify`; the proofs of every component.

To come, modules: the composition of `SecretFiles` with the rotation of `GuacamoleStack`,
whose secret steps are one action today; the retry loop of the database step.

To come, theorems:

1. That the direct mode alone, without power failure, needs no more than `Backup` for
   `OperatorWorkKept`, and that it fails in privileged mode exactly by unsynced data.
2. `VncService` and `GuacamoleStack`: that `torn` shrinks only by what repairs it, as
   action properties.
3. `PlanRules`: that a plan is a fixed point of planning, that is, that the facts after an
   apply lead to the same plan up to the runtime.

## 9. Use

```
tlc -workers 4 -config FileInstall.cfg MCFileInstall.tla
tlapm StateStoreProofs.tla
```

Each configuration belongs to the `MC` module of its component; `PlanRules*.cfg` to
`MCPlanRules`, `Lifecycle.cfg` to `MCLifecycle`, `Provision*.cfg` to `MCProvision`. The
runs together take some ten minutes, the proofs about as long from nothing.
