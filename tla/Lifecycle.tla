------------------------------- MODULE Lifecycle -------------------------------
(***************************************************************************)
(* The commands `apply` and `uninstall` of several installers on one host   *)
(* (cli.py, _run_command; planner.py, apply_plan and uninstall), with the   *)
(* plans of PlanRules.                                                      *)
(*                                                                          *)
(* apply makes its plan, has it approved, and only then waits for the lock; *)
(* uninstall waits first and plans under the lock.  The lock is the mutex   *)
(* that StateStore is proved to be.  Under it the steps of the plan run one *)
(* after the other, each knowing only the plan; whatever raises or kills    *)
(* the installer ends the command and undoes nothing.  state.json is        *)
(* written at the end of an apply that changed something.                   *)
(*                                                                          *)
(* A step is one action here: its inside is the subject of VncService,      *)
(* GuacamoleStack and ProxySite.  The package manager is external.          *)
(***************************************************************************)
EXTENDS PlanRules

CONSTANTS
    Installers,   \* processes
    Invokers,     \* users behind sudo, "root" for a login as root
    Accounts,     \* users that exist
    Configs,      \* what a command may find in the configuration file
    Family, InitSystem,   \* of the host
    Faults,       \* TRUE: steps raise and installers are killed
    None          \* no job, nobody, no record

\* Those an account may exist or be created for.
Users == Accounts \cup (Invokers \ {"root"})
           \cup ({c.user : c \in Configs} \ {""}) \cup {Guacdesk}

PackageGroups == Environments \cup Servers \cup Runtimes \cup Proxies

StepNames ==
    {"target-user", "packages", "vnc-config", "vnc-service", "guacamole-secrets",
     "guacamole-schema", "guacamole-compose", "database-password", "guacamole-admin",
     "guacamole-connection", "reverse-proxy", "down", "stop"}

Plans ==
    [level: {"unsupported", "experimental"}, steps: Seq(StepNames),
     packages: SUBSET PackageGroups, user: Users, create: BOOLEAN,
     runtime: {"none"} \cup Runtimes, compose: BOOLEAN, manager: {Manager(Family)},
     init: {InitSystem}, proxy: Proxies, desktop: Environments, vnc: Servers,
     auth: Auths]

ASSUME InstallersAssumption == None \notin Installers \cup Plans
ASSUME ConfigsAssumption == Configs \subseteq Settings
ASSUME HostAssumption == Family \in Families /\ "" \notin Invokers
ASSUME FaultsAssumption == Faults \in BOOLEAN

VARIABLES
    pc,         \* of each installer
    job,        \* of each installer: the command, its plan and what is left of it
    lock,       \* the installer that holds the lock
    host,       \* what the steps read and write
    record,     \* the plan in state.json
    recent      \* history: the plan of the last apply that executed its last step,
                \* had changed the host, and was not cut short while saving

vars == <<pc, job, lock, host, record, recent>>

Jobs ==
    [command: {"apply", "uninstall"}, cfg: Configs, invoker: Invokers,
     plan: Plans \cup {None}, steps: Seq(StepNames), changed: BOOLEAN,
     touched: BOOLEAN, missed: BOOLEAN]

Hosts ==
    [accounts: SUBSET Users,
     installed: SUBSET PackageGroups,
     conf: [Users -> Environments],
     svc: SUBSET Users,
     files: SUBSET {"secrets", "schema", "compose.yaml", "site"},
     stack: SUBSET Runtimes,
     rows: [Runtimes -> SUBSET Users]]

Executing == {"step", "save", "ok"}

TypeOK ==
    /\ pc \in [Installers -> {"idle", "wait"} \cup Executing]
    /\ job \in [Installers -> Jobs \cup {None}]
    /\ \A p \in Installers :
        IF pc[p] = "idle" THEN job[p] = None ELSE job[p] \in Jobs
    /\ \A p \in Installers :
        pc[p] \in Executing => job[p].plan # None /\ lock = p
    /\ lock \in Installers \cup {None}
    /\ host \in Hosts
    /\ {record, recent} \subseteq Plans \cup {None}

Init ==
    /\ pc = [p \in Installers |-> "idle"]
    /\ job = [p \in Installers |-> None]
    /\ lock = None
    /\ host = [accounts |-> Accounts,
               installed |-> {},   \* package groups, container runtimes on PATH
               conf |-> [u \in Users |-> "none"],   \* desktop xstartup starts
               svc |-> {},         \* users whose VNC service is on
               files |-> {},       \* below install_root, and the proxy site
               stack |-> {},       \* runtimes under which the stack is up
               rows |-> [r \in Runtimes |-> {}]]    \* connections in the volume
    /\ record = None
    /\ recent = None

\* The facts when `path` are the container runtimes on PATH.
FactsOn(invoker, path) ==
    [family |-> Family, init |-> InitSystem, managers |-> {Manager(Family)},
     sessions |-> {}, display |-> "none", path |-> path, invoker |-> invoker]

Facts(invoker) == FactsOn(invoker, host.installed \cap Runtimes)

-----------------------------------------------------------------------------
(* Steps: what becomes of host h *)

Effect(step, plan, h) ==
    CASE step = "target-user" -> [h EXCEPT !.accounts = @ \cup {plan.user}]
      [] step = "packages" -> [h EXCEPT !.installed = @ \cup plan.packages]
      [] step = "vnc-config" -> [h EXCEPT !.conf[plan.user] = plan.desktop]
      [] step = "vnc-service" -> [h EXCEPT !.svc = @ \cup {plan.user}]
      [] step = "guacamole-secrets" -> [h EXCEPT !.files = @ \cup {"secrets"}]
      [] step = "guacamole-schema" -> [h EXCEPT !.files = @ \cup {"schema"}]
      [] step = "guacamole-compose" ->
            [h EXCEPT !.files = @ \cup {"compose.yaml"},
                      !.stack = @ \cup {plan.runtime}]
      [] step = "guacamole-connection" ->
            [h EXCEPT !.rows[plan.runtime] = @ \cup {plan.user}]
      [] step = "reverse-proxy" -> [h EXCEPT !.files = @ \cup {"site"}]
      [] step = "down" -> [h EXCEPT !.stack = @ \ {plan.runtime}]
      [] step = "stop" -> [h EXCEPT !.svc = @ \ {plan.user}]
      [] OTHER -> h   \* passwords: see GuacamoleStack

\* Faulty variant: the service is left to the operator.
UninstallDownOnly(plan) == When(plan.compose /\ "compose.yaml" \in host.files, <<"down">>)

\* uninstall: compose down if there is a stack to bring down, then the service.
UninstallSteps(plan) ==
    When(plan.compose /\ "compose.yaml" \in host.files, <<"down">>) \o <<"stop">>

\* The checks of `verify`, which plans again.  `compose ps` succeeds whether or not
\* anything runs; the ports of the stack are open whichever runtime it runs under.
Verify(facts, config, h) ==
    LET plan == Build(facts, config) IN
        /\ plan.level # "unsupported"
        /\ plan.user \in h.accounts
        /\ Managed(config) => plan.user \in h.svc
        /\ plan.compose => plan.runtime \in h.installed /\ h.stack # {}

-----------------------------------------------------------------------------
(* Commands *)

Job(command, config, invoker, plan, steps) ==
    [command |-> command, cfg |-> config, invoker |-> invoker, plan |-> plan,
     steps |-> steps, changed |-> FALSE,
     touched |-> FALSE, missed |-> FALSE]   \* history

\* A command reads the configuration once, whatever the operator has made of the
\* file by then.  Refused plans change nothing and are left out.
StartApply(p) ==
    /\ pc[p] = "idle"
    /\ \E config \in Configs, invoker \in Invokers :
        LET plan == Build(Facts(invoker), config) IN
            /\ Supported(plan)
            /\ job' = [job EXCEPT ![p] =
                        Job("apply", config, invoker, plan, plan.steps)]
    /\ pc' = [pc EXCEPT ![p] = "wait"]
    /\ UNCHANGED <<lock, host, record, recent>>

StartUninstall(p) ==
    /\ pc[p] = "idle"
    /\ \E config \in Configs, invoker \in Invokers :
        job' = [job EXCEPT ![p] = Job("uninstall", config, invoker, None, <<>>)]
    /\ pc' = [pc EXCEPT ![p] = "wait"]
    /\ UNCHANGED <<lock, host, record, recent>>

\* The operator does not approve, or the lock is not free in time.
GiveUp(p) ==
    /\ pc[p] = "wait"
    /\ pc' = [pc EXCEPT ![p] = "idle"] /\ job' = [job EXCEPT ![p] = None]
    /\ UNCHANGED <<lock, host, record, recent>>

\* What the command does first, under the lock.
Begin(p) ==
    /\ pc[p] = "wait"
    /\ pc' = [pc EXCEPT ![p] = "step"]
    /\ IF job[p].command = "apply" THEN UNCHANGED job
       ELSE LET plan == Build(Facts(job[p].invoker), job[p].cfg) IN
            job' = [job EXCEPT ![p].plan = plan,
                               ![p].steps = UninstallSteps(plan)]
    /\ UNCHANGED <<host, record, recent>>

\* Faulty variant: the lock is not waited for.
EnterUnlocked(p) == Begin(p) /\ lock' = p

Enter(p) == Begin(p) /\ lock = None /\ lock' = p

\* ensure-user refuses an account it may not create, and there must be a Compose
\* frontend for the runtime.
Refuses(p) ==
    LET step == Head(job[p].steps)
        plan == job[p].plan
    IN  \/ step = "target-user" /\ plan.user \notin host.accounts /\ ~plan.create
        \/ step \in {"guacamole-compose", "down"} /\ plan.runtime \notin host.installed

\* Faulty variant: a step's result replaces that of the steps before it.
StepForgets(p) ==
    /\ pc[p] = "step" /\ job[p].steps # <<>> /\ ~Refuses(p)
    /\ host' = Effect(Head(job[p].steps), job[p].plan, host)
    /\ job' = [job EXCEPT ![p].steps = Tail(@), ![p].changed = host' # host,
                          ![p].touched = @ \/ host' # host]
    /\ UNCHANGED <<pc, lock, record, recent>>

Step(p) ==
    /\ pc[p] = "step" /\ job[p].steps # <<>> /\ ~Refuses(p)
    /\ host' = Effect(Head(job[p].steps), job[p].plan, host)
    /\ job' = [job EXCEPT ![p].steps = Tail(@),
                          ![p].changed = @ \/ host' # host,
                          ![p].touched = @ \/ host' # host]
    /\ UNCHANGED <<pc, lock, record, recent>>

\* The commands that stop the service are run with check=False.
StopMisses(p) ==
    /\ Faults /\ pc[p] = "step" /\ job[p].steps = <<"stop">>
    /\ job' = [job EXCEPT ![p].steps = <<>>, ![p].missed = TRUE]
    /\ UNCHANGED <<pc, lock, host, record, recent>>

\* The last step is done.
Finish(p) ==
    /\ pc[p] = "step" /\ job[p].steps = <<>>
    /\ IF job[p].command = "apply"
       THEN /\ pc' = [pc EXCEPT ![p] = IF job[p].changed THEN "save" ELSE "ok"]
            /\ recent' = IF job[p].touched THEN job[p].plan ELSE recent
       ELSE pc' = [pc EXCEPT ![p] = "ok"] /\ UNCHANGED recent
    /\ UNCHANGED <<job, lock, host, record>>

Save(p) ==
    /\ pc[p] = "save" /\ pc' = [pc EXCEPT ![p] = "ok"]
    /\ record' = job[p].plan
    /\ UNCHANGED <<job, lock, host, recent>>

Exit(p) ==
    /\ pc' = [pc EXCEPT ![p] = "idle"] /\ job' = [job EXCEPT ![p] = None]
    /\ lock' = None
    /\ UNCHANGED <<host, record>>

\* The command ends with a result, or a step of it raises, or it is killed.
Return(p) == pc[p] = "ok" /\ Exit(p) /\ UNCHANGED recent

Raise(p) ==
    /\ pc[p] = "step" /\ job[p].steps # <<>> /\ Refuses(p)
    /\ Exit(p) /\ UNCHANGED recent

Fail(p) ==
    /\ Faults /\ pc[p] \in {"step", "save"}
    /\ recent' = IF pc[p] = "save" THEN record ELSE recent
    /\ Exit(p)

-----------------------------------------------------------------------------
\* The operator puts a container runtime on PATH.
InstallRuntime ==
    /\ \E r \in Runtimes \ host.installed :
        host' = [host EXCEPT !.installed = @ \cup {r}]
    /\ UNCHANGED <<pc, job, lock, record, recent>>

Command(p) ==
    \/ StartApply(p) \/ StartUninstall(p) \/ GiveUp(p) \/ Enter(p) \/ Step(p)
    \/ StopMisses(p) \/ Finish(p) \/ Save(p) \/ Return(p) \/ Raise(p) \/ Fail(p)

Next == (\E p \in Installers : Command(p)) \/ InstallRuntime

Spec == Init /\ [][Next]_vars

-----------------------------------------------------------------------------
(* Properties *)

\* When a command reports success, and until it gives the lock back, the host is a
\* fixed point of its plan: repeating any of its steps would change nothing.  No
\* step undoes what another did, and no other installer came in between (cli.py,
\* executor.locked() around apply_plan and uninstall).
Converged ==
    \A p \in Installers : pc[p] = "ok" =>
        LET plan == job[p].plan
            done == IF job[p].command = "apply" THEN plan.steps
                    ELSE UninstallSteps(plan)
        IN  \A i \in DOMAIN done :
                \/ Effect(done[i], plan, host) = host
                \/ done[i] = "stop" /\ job[p].missed

\* verify agrees with the commands: what an ok apply has set up it finds healthy, and
\* what an ok uninstall has stopped it does not, although it settles on a user and a
\* runtime again, from what is there by now (planner.py, verify).
VerifyAgrees ==
    \A p \in Installers : pc[p] = "ok" =>
        LET healthy == Verify(Facts(job[p].invoker), job[p].cfg, host) IN
            IF job[p].command = "apply" THEN healthy
            ELSE Managed(job[p].cfg) /\ ~job[p].missed => ~healthy

\* state.json names the last plan that an apply executed to its end and changed
\* the host with: not a plan that was refused, raised or killed before its end, nor
\* an older one after a newer one.  (Only a save that fails loses one.)
RecordFaithful ==
    (\A p \in Installers : pc[p] # "save") => record = recent
=============================================================================
