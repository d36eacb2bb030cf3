----------------------------- MODULE PlanCommand ------------------------------
(***************************************************************************)
(* The command `plan` (cli.py, _run_command), with which `apply` and        *)
(* `uninstall` begin as well: it detects the facts of the host, builds the   *)
(* plan of the configuration from them with the rules of PlanRules, and      *)
(* changes nothing.                                                         *)
(***************************************************************************)
EXTENDS PlanRules

CONSTANTS
    Inputs,   \* groups of hosts and of the configurations they are planned for
    None      \* no plan yet

\* The variables by which a graphical session tells of its display server.
SessionVariables == {"XDG_SESSION_TYPE", "WAYLAND_DISPLAY", "DISPLAY"}

ASSUME InputsAssumption ==
    \A group \in Inputs :
        /\ group.cfgs \subseteq Settings
        /\ \A h \in group.hosts : h.env \subseteq SessionVariables

VARIABLES host, cfg, plan

vars == <<host, cfg, plan>>

Init ==
    /\ \E group \in Inputs : host \in group.hosts /\ cfg \in group.cfgs
    /\ plan = None

Plan == plan = None /\ plan' = Build(Detect(host), cfg) /\ UNCHANGED <<host, cfg>>

Next == Plan

Spec == Init /\ [][Next]_vars

\* What a step refuses, the planner has refused before (planner.py, build_plan).
NoDoomedPlan == plan # None => StepsCanRun(Detect(host), cfg, plan)

\* A step reads only secrets that an earlier step of the plan provides.
SecretsInOrder == plan # None => SecretsProvided(plan)

\* The combinations docs/SUPPORT_MATRIX.md calls unsupported are refused.
MatrixRefused == plan # None => MatrixHonoured(host, Detect(host), cfg, plan)

\* docs/SUPPORT_MATRIX.md: desktop=auto is usable when there is one X11 session.
AutoDesktopUsable == plan # None => AutoUsable(Detect(host), cfg, plan)
=============================================================================
