----------------------------- MODULE LifecycleProofs -----------------------------
(***************************************************************************)
(* Theorems about Lifecycle, for all installers, users, configurations and  *)
(* hosts.  Layers of the invariant: that an installer that executes holds   *)
(* the lock (TypeOK); where its plan comes from (JobInv); that every step   *)
(* of it that is no longer ahead is still done (ProgressInv); and what      *)
(* state.json is about to be given (RecordInv).                             *)
(***************************************************************************)
EXTENDS Lifecycle, TLAPS

ApplySteps == StepNames \ {"down", "stop"}

Elems(steps) == {steps[i] : i \in DOMAIN steps}

\* Every step of the command p executes, done or ahead.
Whole(p) ==
    Elems(IF job[p].command = "apply" THEN job[p].plan.steps
          ELSE UninstallSteps(job[p].plan))

Planned(p) ==
    \E path \in SUBSET Runtimes :
        job[p].plan = Build(FactsOn(job[p].invoker, path), job[p].cfg)

JobOK(p) ==
    /\ pc[p] # "idle" => job[p].changed = job[p].touched
    /\ pc[p] # "idle" /\ job[p].command = "apply" => Planned(p) /\ Supported(job[p].plan)
    /\ pc[p] \in Executing => Planned(p)
    /\ pc[p] = "wait" /\ job[p].command = "apply" => job[p].steps = job[p].plan.steps
    /\ pc[p] = "save" => job[p].command = "apply"
    /\ pc[p] \in {"save", "ok"} => job[p].steps = <<>>

JobInv == \A p \in Installers : JobOK(p)

\* On host h the step has been executed and not been undone.
Done(step, plan, h) ==
    /\ step = "target-user" => plan.user \in h.accounts
    /\ step = "packages" => plan.packages \subseteq h.installed
    /\ step = "vnc-config" => h.conf[plan.user] = plan.desktop
    /\ step = "vnc-service" => plan.user \in h.svc
    /\ step = "guacamole-secrets" => "secrets" \in h.files
    /\ step = "guacamole-schema" => "schema" \in h.files
    /\ step = "guacamole-compose" =>
        /\ "compose.yaml" \in h.files
        /\ plan.runtime \in h.stack /\ plan.runtime \in h.installed
    /\ step = "guacamole-connection" => plan.user \in h.rows[plan.runtime]
    /\ step = "reverse-proxy" => "site" \in h.files
    /\ step = "down" => plan.runtime \notin h.stack
    /\ step = "stop" => plan.user \notin h.svc

ProgressOK(p) ==
    pc[p] \in Executing =>
        /\ Elems(job[p].steps) \subseteq Whole(p)
        /\ \A s \in Whole(p) \ Elems(job[p].steps) :
            \/ Done(s, job[p].plan, host)
            \/ s = "stop" /\ job[p].missed

ProgressInv == \A p \in Installers : ProgressOK(p)

RecordOK(p) == pc[p] = "save" => recent = job[p].plan

RecordInv == (\A p \in Installers : RecordOK(p)) /\ RecordFaithful

LifecycleInv == TypeOK /\ JobInv /\ ProgressInv /\ RecordInv

-----------------------------------------------------------------------------
(* Steps in a sequence *)

LEMMA ElemsConcat ==
    ASSUME NEW S, NEW s \in Seq(S), NEW t \in Seq(S)
    PROVE  s \o t \in Seq(S) /\ Elems(s \o t) = Elems(s) \cup Elems(t)
<1>1. /\ DOMAIN s = 1 .. Len(s) /\ DOMAIN t = 1 .. Len(t)
      /\ DOMAIN (s \o t) = 1 .. (Len(s) + Len(t)) /\ Len(s) \in Nat /\ Len(t) \in Nat
      /\ s \o t \in Seq(S)
      /\ \A i \in 1 .. (Len(s) + Len(t)) :
            (s \o t)[i] = IF i <= Len(s) THEN s[i] ELSE t[i - Len(s)]
  OBVIOUS
<1>2. ASSUME NEW i \in DOMAIN (s \o t) PROVE (s \o t)[i] \in Elems(s) \cup Elems(t)
  <2>1. CASE i <= Len(s)
    BY <1>1, <2>1 DEF Elems
  <2>2. CASE i > Len(s)
    <3>1. i - Len(s) \in DOMAIN t /\ (s \o t)[i] = t[i - Len(s)]
      BY <1>1, <2>2
    <3>2. QED BY <3>1 DEF Elems
  <2>3. QED BY <1>1, <2>1, <2>2
<1>3. ASSUME NEW i \in DOMAIN s PROVE s[i] \in Elems(s \o t)
  <2>1. i \in DOMAIN (s \o t) /\ (s \o t)[i] = s[i]
    BY <1>1
  <2>2. QED BY <2>1 DEF Elems
<1>4. ASSUME NEW i \in DOMAIN t PROVE t[i] \in Elems(s \o t)
  <2>1. (i + Len(s)) \in DOMAIN (s \o t) /\ (s \o t)[i + Len(s)] = t[i]
    BY <1>1
  <2>2. QED BY <2>1 DEF Elems
<1>5. Elems(s \o t) \subseteq Elems(s) \cup Elems(t)
  BY <1>2 DEF Elems
<1>6. Elems(s) \cup Elems(t) \subseteq Elems(s \o t)
  BY <1>3, <1>4 DEF Elems
<1>7. QED BY <1>1, <1>5, <1>6

LEMMA ElemsHead ==
    ASSUME NEW S, NEW s \in Seq(S), s # <<>>
    PROVE  /\ Head(s) \in S /\ Tail(s) \in Seq(S)
           /\ Elems(s) = {Head(s)} \cup Elems(Tail(s))
<1>1. /\ DOMAIN s = 1 .. Len(s) /\ Len(s) \in Nat \ {0} /\ Head(s) = s[1]
      /\ Tail(s) \in Seq(S) /\ DOMAIN Tail(s) = 1 .. (Len(s) - 1)
      /\ \A i \in 1 .. (Len(s) - 1) : Tail(s)[i] = s[i + 1]
  OBVIOUS
<1>2. ASSUME NEW i \in DOMAIN s PROVE s[i] \in {Head(s)} \cup Elems(Tail(s))
  <2>1. CASE i = 1
    BY <1>1, <2>1
  <2>2. CASE i # 1
    <3>1. (i - 1) \in DOMAIN Tail(s) /\ Tail(s)[i - 1] = s[i]
      BY <1>1, <2>2
    <3>2. QED BY <3>1 DEF Elems
  <2>3. QED BY <2>1, <2>2
<1>3. ASSUME NEW i \in DOMAIN Tail(s) PROVE Tail(s)[i] \in Elems(s)
  <2>1. (i + 1) \in DOMAIN s /\ s[i + 1] = Tail(s)[i]
    BY <1>1
  <2>2. QED BY <2>1 DEF Elems
<1>4. Head(s) \in Elems(s)
  BY <1>1 DEF Elems
<1>5. Elems(s) \subseteq {Head(s)} \cup Elems(Tail(s))
  BY <1>2 DEF Elems
<1>6. Elems(Tail(s)) \subseteq Elems(s)
  BY <1>3 DEF Elems
<1>7. QED BY <1>1, <1>4, <1>5, <1>6

LEMMA ElemsEmpty == Elems(<<>>) = {}
BY DEF Elems

LEMMA ElemsWhen ==
    ASSUME NEW S, NEW s \in Seq(S), NEW cond \in BOOLEAN
    PROVE  When(cond, s) \in Seq(S) /\ Elems(When(cond, s)) = IF cond THEN Elems(s) ELSE {}
<1>1. CASE cond
  BY <1>1 DEF When
<1>2. CASE ~cond
  <2>1. When(cond, s) = <<>> /\ <<>> \in Seq(S)
    BY <1>2 DEF When
  <2>2. QED BY <1>2, <2>1, ElemsEmpty
<1>3. QED BY <1>1, <1>2

-----------------------------------------------------------------------------
(* Plans *)

LEMMA FactsFields ==
    ASSUME NEW invoker, NEW path
    PROVE  LET facts == FactsOn(invoker, path) IN
              /\ facts.family = Family /\ facts.init = InitSystem
              /\ facts.managers = {Manager(Family)} /\ facts.sessions = {}
              /\ facts.display = "none" /\ facts.path = path
              /\ facts.invoker = invoker
BY DEF FactsOn

LEMMA BuildFields ==
    ASSUME NEW facts, NEW config
    PROVE  LET plan == Build(facts, config) IN
              /\ plan.level = Level(facts, config)
              /\ plan.steps = IF Errors(facts, config) = {} THEN Steps(facts, config)
                              ELSE <<>>
              /\ plan.user = User(facts, config)
              /\ plan.runtime = Runtime(facts, config)
              /\ plan.compose = Compose(config)
              /\ plan.desktop = config.environment
BY DEF Build

LEMMA StepsElems ==
    ASSUME NEW facts, NEW config
    PROVE  /\ Steps(facts, config) \in Seq(StepNames)
           /\ Elems(Steps(facts, config)) =
                {"target-user", "packages"}
                  \cup (IF Managed(config) THEN {"vnc-config", "vnc-service"} ELSE {})
                  \cup (IF Compose(config)
                        THEN Elems(StackSteps)
                               \cup (IF Managed(config) /\ config.vnc # "wayvnc"
                                     THEN {"guacamole-connection"} ELSE {})
                        ELSE {})
                  \cup (IF Proxy(config) \notin {"none", "external"}
                        THEN {"reverse-proxy"} ELSE {})
           /\ Elems(StackSteps) = {"guacamole-secrets", "guacamole-schema",
                                   "guacamole-compose", "database-password",
                                   "guacamole-admin"}
<1> DEFINE A == <<"target-user", "packages">>
           B == <<"vnc-config", "vnc-service">>
           C == <<"guacamole-connection">>
           D == <<"reverse-proxy">>
           m == Managed(config)
           c == Compose(config)
           w == Managed(config) /\ config.vnc # "wayvnc"
           r == Proxy(config) \notin {"none", "external"}
<1>1. /\ A \in Seq(StepNames) /\ B \in Seq(StepNames) /\ C \in Seq(StepNames)
      /\ D \in Seq(StepNames) /\ StackSteps \in Seq(StepNames)
  BY DEF StepNames, StackSteps
<1>2. Elems(A) = {"target-user", "packages"}
  <2>1. DOMAIN A = {1, 2} /\ A[1] = "target-user" /\ A[2] = "packages"
    OBVIOUS
  <2>2. QED BY <2>1 DEF Elems
<1>3. Elems(B) = {"vnc-config", "vnc-service"}
  <2>1. DOMAIN B = {1, 2} /\ B[1] = "vnc-config" /\ B[2] = "vnc-service"
    OBVIOUS
  <2>2. QED BY <2>1 DEF Elems
<1>4. Elems(C) = {"guacamole-connection"} /\ Elems(D) = {"reverse-proxy"}
  <2>1. DOMAIN C = {1} /\ C[1] = "guacamole-connection"
        /\ DOMAIN D = {1} /\ D[1] = "reverse-proxy"
    OBVIOUS
  <2>2. QED BY <2>1 DEF Elems
<1>5. Elems(StackSteps) = {"guacamole-secrets", "guacamole-schema", "guacamole-compose",
                           "database-password", "guacamole-admin"}
  <2>1. /\ DOMAIN StackSteps = {1, 2, 3, 4, 5}
        /\ StackSteps[1] = "guacamole-secrets" /\ StackSteps[2] = "guacamole-schema"
        /\ StackSteps[3] = "guacamole-compose" /\ StackSteps[4] = "database-password"
        /\ StackSteps[5] = "guacamole-admin"
    BY DEF StackSteps
  <2>2. QED BY <2>1 DEF Elems
<1>6. m \in BOOLEAN /\ c \in BOOLEAN /\ w \in BOOLEAN /\ r \in BOOLEAN
  BY DEF Managed, Compose
<1>7. Steps(facts, config) =
        ((A \o When(m, B)) \o When(c, StackSteps \o When(w, C))) \o When(r, D)
  BY DEF Steps
<1> HIDE DEF A, B, C, D, m, c, w, r
<1>8. When(w, C) \in Seq(StepNames) /\ Elems(When(w, C)) = IF w THEN Elems(C) ELSE {}
  BY <1>1, <1>6, ElemsWhen
<1>9. /\ StackSteps \o When(w, C) \in Seq(StepNames)
      /\ Elems(StackSteps \o When(w, C)) =
            Elems(StackSteps) \cup (IF w THEN Elems(C) ELSE {})
  BY <1>1, <1>8, ElemsConcat
<1>10. /\ When(c, StackSteps \o When(w, C)) \in Seq(StepNames)
       /\ Elems(When(c, StackSteps \o When(w, C))) =
             IF c THEN Elems(StackSteps) \cup (IF w THEN Elems(C) ELSE {}) ELSE {}
  BY <1>6, <1>9, ElemsWhen
<1>11. When(m, B) \in Seq(StepNames) /\ Elems(When(m, B)) = IF m THEN Elems(B) ELSE {}
  BY <1>1, <1>6, ElemsWhen
<1>12. /\ A \o When(m, B) \in Seq(StepNames)
       /\ Elems(A \o When(m, B)) = Elems(A) \cup (IF m THEN Elems(B) ELSE {})
  BY <1>1, <1>11, ElemsConcat
<1>13. When(r, D) \in Seq(StepNames) /\ Elems(When(r, D)) = IF r THEN Elems(D) ELSE {}
  BY <1>1, <1>6, ElemsWhen
<1> DEFINE X == A \o When(m, B)
           Y == When(c, StackSteps \o When(w, C))
           Z == When(r, D)
<1>14. X \o Y \in Seq(StepNames) /\ Elems(X \o Y) = Elems(X) \cup Elems(Y)
  <2>1. X \in Seq(StepNames) /\ Y \in Seq(StepNames)
    BY <1>10, <1>12
  <2> HIDE DEF X, Y
  <2>2. QED BY <2>1, ElemsConcat
<1>15. /\ (X \o Y) \o Z \in Seq(StepNames)
       /\ Elems((X \o Y) \o Z) = Elems(X \o Y) \cup Elems(Z)
  <2>1. Z \in Seq(StepNames)
    BY <1>13
  <2> DEFINE W == X \o Y
  <2>2. W \in Seq(StepNames)
    BY <1>14
  <2> HIDE DEF W, Z
  <2>3. W \o Z \in Seq(StepNames) /\ Elems(W \o Z) = Elems(W) \cup Elems(Z)
    BY <2>1, <2>2, ElemsConcat
  <2>4. QED BY <2>3 DEF W
<1>a. Steps(facts, config) = (X \o Y) \o Z
  BY <1>7
<1>b. /\ Elems(X) = Elems(A) \cup (IF m THEN Elems(B) ELSE {})
      /\ Elems(Y) = IF c THEN Elems(StackSteps) \cup (IF w THEN Elems(C) ELSE {}) ELSE {}
      /\ Elems(Z) = IF r THEN Elems(D) ELSE {}
  BY <1>10, <1>12, <1>13
<1> HIDE DEF X, Y, Z
<1>c. /\ Elems(X) = {"target-user", "packages"}
                       \cup (IF m THEN {"vnc-config", "vnc-service"} ELSE {})
      /\ Elems(Y) = IF c THEN Elems(StackSteps)
                                \cup (IF w THEN {"guacamole-connection"} ELSE {}) ELSE {}
      /\ Elems(Z) = IF r THEN {"reverse-proxy"} ELSE {}
  BY <1>b, <1>2, <1>3, <1>4
<1>d. Elems(Steps(facts, config)) = (Elems(X) \cup Elems(Y)) \cup Elems(Z)
  BY <1>a, <1>14, <1>15
<1>16. QED BY <1>5, <1>15, <1>a, <1>c, <1>d DEF m, c, w, r

LEMMA UninstallElems ==
    ASSUME NEW plan, plan.compose \in BOOLEAN
    PROVE  /\ UninstallSteps(plan) \in Seq(StepNames)
           /\ Elems(UninstallSteps(plan)) =
                {"stop"} \cup (IF plan.compose /\ "compose.yaml" \in host.files
                               THEN {"down"} ELSE {})
<1> DEFINE D == <<"down">>
           S == <<"stop">>
           c == plan.compose /\ "compose.yaml" \in host.files
<1>1. D \in Seq(StepNames) /\ S \in Seq(StepNames) /\ c \in BOOLEAN
  BY DEF StepNames
<1>2. Elems(D) = {"down"} /\ Elems(S) = {"stop"}
  <2>1. DOMAIN D = {1} /\ D[1] = "down" /\ DOMAIN S = {1} /\ S[1] = "stop"
    OBVIOUS
  <2>2. QED BY <2>1 DEF Elems
<1>3. UninstallSteps(plan) = When(c, D) \o S
  BY DEF UninstallSteps
<1> HIDE DEF D, S, c
<1>4. When(c, D) \in Seq(StepNames) /\ Elems(When(c, D)) = IF c THEN Elems(D) ELSE {}
  BY <1>1, ElemsWhen
<1>5. /\ UninstallSteps(plan) \in Seq(StepNames)
      /\ Elems(UninstallSteps(plan)) = (IF c THEN Elems(D) ELSE {}) \cup Elems(S)
  BY <1>1, <1>3, <1>4, ElemsConcat
<1>6. QED BY <1>2, <1>5 DEF c

LEMMA PlanTyped ==
    ASSUME NEW invoker \in Invokers, NEW path \in SUBSET Runtimes, NEW config \in Configs
    PROVE  /\ Build(FactsOn(invoker, path), config) \in Plans
           /\ Build(FactsOn(invoker, path), config).user \in Users
<1> DEFINE facts == FactsOn(invoker, path)
<1>1. /\ facts.family = Family /\ facts.init = InitSystem /\ facts.path = path
      /\ facts.invoker = invoker
  BY DEF FactsOn
<1>2. config \in Settings /\ Family \in Families /\ invoker # ""
  BY ConfigsAssumption, HostAssumption
<1> HIDE DEF facts
<1>3. Level(facts, config) \in {"unsupported", "experimental"}
  BY DEF Level
<1>4. User(facts, config) \in Users
  <2>1. CASE config.user # ""
    BY <1>2, <2>1 DEF User, Users, Settings
  <2>2. CASE config.user = "" /\ invoker # "root"
    BY <1>1, <1>2, <2>2 DEF User, Users
  <2>3. CASE config.user = "" /\ invoker = "root"
    BY <1>1, <2>3 DEF User, Users, Guacdesk
  <2>4. QED BY <2>1, <2>2, <2>3
<1>5. CreateUser(facts, config) \in BOOLEAN /\ Compose(config) \in BOOLEAN
  BY <1>2 DEF CreateUser, Compose, Settings
<1>6. Runtime(facts, config) \in {"none"} \cup Runtimes
  BY <1>1, <1>2 DEF Runtime, Runtimes, Settings
<1>7. Proxy(config) \in Proxies
  BY <1>2 DEF Proxy, Proxies, Settings
<1>8. Manager(facts.family) = Manager(Family) /\ facts.init = InitSystem
  BY <1>1
<1>9. (IF Errors(facts, config) = {} THEN Steps(facts, config) ELSE <<>>)
        \in Seq(StepNames)
  BY StepsElems
<1>10. config.environment \in Environments /\ config.vnc \in Servers /\ config.auth \in Auths
  BY <1>2 DEF Settings
<1>11. Elems(Packages(facts, config)) \subseteq PackageGroups
  <2> DEFINE A == When(config.desktopOn /\ config.environment \in Desktops,
                       <<config.environment>>)
             B == When(Managed(config), <<config.vnc>>)
             C == When(Compose(config)
                         /\ HasRuntimePackages(Runtime(facts, config), facts.family),
                       <<Runtime(facts, config)>>)
             D == When(Proxy(config) \in {"nginx", "apache"}, <<Proxy(config)>>)
  <2>1. A \in Seq(PackageGroups) /\ B \in Seq(PackageGroups)
    <3>1. config.environment \in PackageGroups /\ config.vnc \in PackageGroups
      BY <1>10 DEF PackageGroups
    <3>2. <<config.environment>> \in Seq(PackageGroups)
          /\ <<config.vnc>> \in Seq(PackageGroups) /\ <<>> \in Seq(PackageGroups)
      BY <3>1
    <3>3. QED BY <3>2 DEF When
  <2>a. C \in Seq(PackageGroups)
    <3>1. HasRuntimePackages(Runtime(facts, config), facts.family) =>
            Runtime(facts, config) \in PackageGroups
      BY DEF HasRuntimePackages, PackageGroups, Runtimes
    <3>2. QED BY <3>1 DEF When
  <2>b. D \in Seq(PackageGroups)
    BY <1>7 DEF When, PackageGroups
  <2>2. Packages(facts, config) = ((A \o B) \o C) \o D
    BY DEF Packages
  <2> HIDE DEF A, B, C, D
  <2>3. Packages(facts, config) \in Seq(PackageGroups)
    BY <2>1, <2>a, <2>b, <2>2
  <2>4. QED BY <2>3 DEF Elems
<1>12. Build(facts, config) \in Plans
  <2>1. {Packages(facts, config)[i] : i \in DOMAIN Packages(facts, config)}
          \in SUBSET PackageGroups
    BY <1>11 DEF Elems
  <2>2. QED
    BY <1>3, <1>4, <1>5, <1>6, <1>7, <1>8, <1>9, <1>10, <2>1 DEF Build, Plans
<1>13. QED BY <1>4, <1>12 DEF facts, Build

\* The plan of p comes from facts the planner may have had.
LEMMA StepsOfPlan ==
    ASSUME NEW invoker \in Invokers, NEW path \in SUBSET Runtimes, NEW config \in Configs,
           NEW plan, plan = Build(FactsOn(invoker, path), config)
    PROVE  /\ Elems(plan.steps) \subseteq ApplySteps
           /\ {"guacamole-compose", "guacamole-connection"} \cap Elems(plan.steps) # {} =>
                plan.runtime \in Runtimes
           /\ Supported(plan) =>
                /\ "target-user" \in Elems(plan.steps)
                /\ Managed(config) => "vnc-service" \in Elems(plan.steps)
                /\ Compose(config) => "guacamole-compose" \in Elems(plan.steps)
<1> DEFINE facts == FactsOn(invoker, path)
<1>1. /\ plan.level = Level(facts, config)
      /\ plan.steps = IF Errors(facts, config) = {} THEN Steps(facts, config) ELSE <<>>
      /\ plan.runtime = Runtime(facts, config)
  BY DEF Build
<1>2. plan.runtime \in {"none"} \cup Runtimes
  BY PlanTyped DEF Plans
<1> HIDE DEF facts
<1>3. CASE Errors(facts, config) # {}
  BY <1>1, <1>3, ElemsEmpty DEF Supported, Level
<1>4. CASE Errors(facts, config) = {}
  <2>1. Elems(plan.steps) \subseteq ApplySteps
    BY <1>1, <1>4, StepsElems DEF ApplySteps, StepNames
  <2>2. Compose(config) => plan.runtime # "none"
    BY <1>1, <1>4 DEF Errors, PlannerErrors, Objection
  <2>3. {"guacamole-compose", "guacamole-connection"} \cap Elems(plan.steps) # {} =>
            Compose(config)
    BY <1>1, <1>4, StepsElems
  <2>4. /\ "target-user" \in Elems(plan.steps)
        /\ Managed(config) => "vnc-service" \in Elems(plan.steps)
        /\ Compose(config) => "guacamole-compose" \in Elems(plan.steps)
    BY <1>1, <1>4, StepsElems
  <2>5. QED BY <1>2, <2>1, <2>2, <2>3, <2>4
<1>5. QED BY <1>3, <1>4

\* Of the facts, the planner's own rules read the package managers and, of the runtime,
\* only whether there is one.
LEMMA SameObjections ==
    ASSUME NEW a, NEW b, NEW config, a.family = b.family, a.managers = b.managers,
           (Runtime(a, config) = "none") <=> (Runtime(b, config) = "none")
    PROVE  PlannerErrors(a, config) \subseteq PlannerErrors(b, config)
<1> DEFINE lacks(f) == Objection("package manager", /\ Manager(f.family) # "custom"
                                                    /\ Manager(f.family) \notin f.managers)
           without(f) == Objection("runtime", Compose(config) /\ Runtime(f, config) = "none")
<1>1. lacks(a) = lacks(b) /\ without(a) = without(b)
  BY DEF Objection
<1> SUFFICES ASSUME NEW e \in PlannerErrors(a, config)
             PROVE  e \in PlannerErrors(b, config)
  OBVIOUS
<1>2. CASE e \in lacks(a) \cup without(a)
  BY <1>1, <1>2 DEF PlannerErrors
<1>3. CASE e \notin lacks(a) \cup without(a)
  BY <1>3 DEF PlannerErrors
<1>4. QED BY <1>2, <1>3

\* Which container runtimes are on PATH decides on no rule and on no user.
LEMMA PathDecides ==
    ASSUME NEW invoker \in Invokers, NEW config \in Configs,
           NEW one \in SUBSET Runtimes, NEW two \in SUBSET Runtimes
    PROVE  LET a == Build(FactsOn(invoker, one), config)
               b == Build(FactsOn(invoker, two), config)
           IN  /\ a.level = b.level /\ a.user = b.user /\ a.compose = b.compose
               /\ a.compose = Compose(config)
               /\ a.runtime \in two => b.runtime \in two
<1> DEFINE a == FactsOn(invoker, one)
           b == FactsOn(invoker, two)
<1>1. /\ a.family = Family /\ b.family = Family /\ a.init = b.init
      /\ a.managers = b.managers /\ a.sessions = b.sessions /\ a.display = b.display
      /\ a.path = one /\ b.path = two /\ a.invoker = b.invoker
  BY DEF FactsOn
<1>2. config \in Settings
  BY ConfigsAssumption
<1> HIDE DEF a, b
<1>3. PlatformErrors(a) = PlatformErrors(b)
  BY <1>1 DEF PlatformErrors
<1>4. PackageErrors(a, config) = PackageErrors(b, config)
  BY <1>1 DEF PackageErrors
<1>5. Detected(a) = Detected(b)
  BY <1>1 DEF Detected
<1>6. DesktopErrors(a, config) = DesktopErrors(b, config)
  BY <1>5 DEF DesktopErrors
<1>7. VncErrors(a, config) = VncErrors(b, config)
  <2>1. Resolved(a, config) = Resolved(b, config)
    BY <1>5 DEF Resolved
  <2>2. QED BY <1>1, <2>1 DEF VncErrors, ModeErrors
<1>8. PlannerErrors(a, config) = PlannerErrors(b, config)
  <2>1. (Runtime(a, config) = "none") <=> (Runtime(b, config) = "none")
    BY <1>1, <1>2 DEF Runtime, Settings, Runtimes
  <2>2. /\ PlannerErrors(a, config) \subseteq PlannerErrors(b, config)
        /\ PlannerErrors(b, config) \subseteq PlannerErrors(a, config)
    BY <1>1, <2>1, SameObjections
  <2>3. QED BY <2>2
<1>9. Errors(a, config) = Errors(b, config)
  BY <1>3, <1>4, <1>6, <1>7, <1>8 DEF Errors
<1>10. Level(a, config) = Level(b, config) /\ User(a, config) = User(b, config)
  BY <1>1, <1>9 DEF Level, User
<1>11. Runtime(a, config) \in two => Runtime(b, config) \in two
  <2>1. CASE config.runtime # "auto"
    BY <2>1 DEF Runtime
  <2>2. CASE config.runtime = "auto"
    BY <1>1, <2>2 DEF Runtime, Runtimes
  <2>3. QED BY <2>1, <2>2
<1>12. QED BY <1>10, <1>11 DEF a, b, Build

-----------------------------------------------------------------------------
(* Steps on a host *)

\* Each step disturbs one part of the host, or two.
LEMMA EffectFields ==
    ASSUME NEW h \in Hosts, NEW plan \in Plans, NEW s \in StepNames,
           s \in {"guacamole-compose", "guacamole-connection"} => plan.runtime \in Runtimes
    PROVE  LET e == Effect(s, plan, h) IN
             /\ e \in Hosts
             /\ e.accounts = h.accounts
                               \cup (IF s = "target-user" THEN {plan.user} ELSE {})
             /\ e.installed = h.installed
                                \cup (IF s = "packages" THEN plan.packages ELSE {})
             /\ s = "vnc-config" => e.conf[plan.user] = plan.desktop
             /\ s # "vnc-config" => e.conf = h.conf
             /\ e.svc = (h.svc \cup (IF s = "vnc-service" THEN {plan.user} ELSE {}))
                          \ (IF s = "stop" THEN {plan.user} ELSE {})
             /\ h.files \subseteq e.files
             /\ s \in {"down", "stop"} => e.files = h.files
             /\ s = "guacamole-secrets" => "secrets" \in e.files
             /\ s = "guacamole-schema" => "schema" \in e.files
             /\ s = "guacamole-compose" => "compose.yaml" \in e.files
             /\ s = "reverse-proxy" => "site" \in e.files
             /\ e.stack = (h.stack \cup (IF s = "guacamole-compose" THEN {plan.runtime}
                                         ELSE {}))
                            \ (IF s = "down" THEN {plan.runtime} ELSE {})
             /\ s = "guacamole-connection" =>
                    /\ h.rows[plan.runtime] \subseteq e.rows[plan.runtime]
                    /\ plan.user \in e.rows[plan.runtime]
             /\ s # "guacamole-connection" => e.rows = h.rows
<1> DEFINE e == Effect(s, plan, h)
<1>1. /\ plan.user \in Users /\ plan.packages \subseteq PackageGroups
      /\ plan.desktop \in Environments /\ plan.runtime \in {"none"} \cup Runtimes
  BY DEF Plans
<1>2. /\ h = [accounts |-> h.accounts, installed |-> h.installed, conf |-> h.conf,
              svc |-> h.svc, files |-> h.files, stack |-> h.stack, rows |-> h.rows]
      /\ h.accounts \subseteq Users /\ h.installed \subseteq PackageGroups
      /\ h.conf \in [Users -> Environments] /\ h.svc \subseteq Users
      /\ h.files \subseteq {"secrets", "schema", "compose.yaml", "site"}
      /\ h.stack \subseteq Runtimes /\ h.rows \in [Runtimes -> SUBSET Users]
  BY DEF Hosts
<1>3. CASE s = "target-user"
  <2>1. e = [h EXCEPT !.accounts = @ \cup {plan.user}]
    BY <1>3 DEF Effect
  <2>2. QED BY <1>1, <1>2, <1>3, <2>1 DEF Hosts
<1>4. CASE s = "packages"
  <2>1. e = [h EXCEPT !.installed = @ \cup plan.packages]
    BY <1>4 DEF Effect
  <2>2. QED BY <1>1, <1>2, <1>4, <2>1 DEF Hosts
<1>5. CASE s = "vnc-config"
  <2>1. e = [h EXCEPT !.conf = [h.conf EXCEPT ![plan.user] = plan.desktop]]
    BY <1>5 DEF Effect
  <2>2. QED BY <1>1, <1>2, <1>5, <2>1 DEF Hosts
<1>6. CASE s = "vnc-service"
  <2>1. e = [h EXCEPT !.svc = @ \cup {plan.user}]
    BY <1>6 DEF Effect
  <2>2. QED BY <1>1, <1>2, <1>6, <2>1 DEF Hosts
<1>7. CASE s = "guacamole-secrets"
  <2>1. e = [h EXCEPT !.files = @ \cup {"secrets"}]
    BY <1>7 DEF Effect
  <2>2. QED BY <1>1, <1>2, <1>7, <2>1 DEF Hosts
<1>8. CASE s = "guacamole-schema"
  <2>1. e = [h EXCEPT !.files = @ \cup {"schema"}]
    BY <1>8 DEF Effect
  <2>2. QED BY <1>1, <1>2, <1>8, <2>1 DEF Hosts
<1>9. CASE s = "guacamole-compose"
  <2>1. e = [h EXCEPT !.files = @ \cup {"compose.yaml"}, !.stack = @ \cup {plan.runtime}]
    BY <1>9 DEF Effect
  <2>2. /\ e.files = h.files \cup {"compose.yaml"} /\ e.stack = h.stack \cup {plan.runtime}
        /\ e.accounts = h.accounts /\ e.installed = h.installed /\ e.conf = h.conf
        /\ e.svc = h.svc /\ e.rows = h.rows
    BY <1>2, <2>1
  <2>3. e = [accounts |-> h.accounts, installed |-> h.installed, conf |-> h.conf,
             svc |-> h.svc, files |-> h.files \cup {"compose.yaml"},
             stack |-> h.stack \cup {plan.runtime}, rows |-> h.rows]
    BY <1>2, <2>1
  <2> HIDE DEF e
  <2>4. e \in Hosts
    BY <1>1, <1>2, <1>9, <2>3 DEF Hosts
  <2>5. QED BY <1>9, <2>2, <2>4 DEF e
<1>10. CASE s = "guacamole-connection"
  <2>1. e = [h EXCEPT !.rows = [h.rows EXCEPT ![plan.runtime] =
                                  h.rows[plan.runtime] \cup {plan.user}]]
    BY <1>10 DEF Effect
  <2>2. QED BY <1>1, <1>2, <1>10, <2>1 DEF Hosts
<1>11. CASE s = "reverse-proxy"
  <2>1. e = [h EXCEPT !.files = @ \cup {"site"}]
    BY <1>11 DEF Effect
  <2>2. QED BY <1>1, <1>2, <1>11, <2>1 DEF Hosts
<1>12. CASE s = "down"
  <2>1. e = [h EXCEPT !.stack = @ \ {plan.runtime}]
    BY <1>12 DEF Effect
  <2>2. QED BY <1>1, <1>2, <1>12, <2>1 DEF Hosts
<1>13. CASE s = "stop"
  <2>1. e = [h EXCEPT !.svc = @ \ {plan.user}]
    BY <1>13 DEF Effect
  <2>2. QED BY <1>1, <1>2, <1>13, <2>1 DEF Hosts
<1>14. CASE s \in {"database-password", "guacamole-admin"}
  <2>1. e = h
    BY <1>14 DEF Effect
  <2>2. QED BY <1>14, <2>1
<1>15. QED
  BY <1>3, <1>4, <1>5, <1>6, <1>7, <1>8, <1>9, <1>10, <1>11, <1>12, <1>13, <1>14
     DEF StepNames

\* A step does what it is for ...
LEMMA EffectDone ==
    ASSUME NEW h \in Hosts, NEW plan \in Plans, NEW s \in StepNames,
           s \in {"guacamole-compose", "guacamole-connection"} => plan.runtime \in Runtimes,
           s = "guacamole-compose" => plan.runtime \in h.installed
    PROVE  Done(s, plan, Effect(s, plan, h))
<1> DEFINE e == Effect(s, plan, h)
<1>1. /\ s = "target-user" => plan.user \in e.accounts
      /\ s = "packages" => plan.packages \subseteq e.installed
      /\ s = "vnc-config" => e.conf[plan.user] = plan.desktop
      /\ s = "vnc-service" => plan.user \in e.svc
      /\ s = "guacamole-secrets" => "secrets" \in e.files
      /\ s = "guacamole-schema" => "schema" \in e.files
      /\ s = "guacamole-compose" => /\ "compose.yaml" \in e.files
                                    /\ plan.runtime \in e.stack
                                    /\ plan.runtime \in e.installed
      /\ s = "guacamole-connection" => plan.user \in e.rows[plan.runtime]
      /\ s = "reverse-proxy" => "site" \in e.files
      /\ s = "down" => plan.runtime \notin e.stack
      /\ s = "stop" => plan.user \notin e.svc
  BY EffectFields
<1>2. QED BY <1>1 DEF Done

\* ... and undoes nothing that another step of the same command did.
LEMMA EffectKeeps ==
    ASSUME NEW h \in Hosts, NEW plan \in Plans, NEW s \in StepNames, NEW t \in StepNames,
           s \in {"guacamole-compose", "guacamole-connection"} => plan.runtime \in Runtimes,
           s \in ApplySteps <=> t \in ApplySteps,
           Done(t, plan, h)
    PROVE  Done(t, plan, Effect(s, plan, h))
<1> DEFINE e == Effect(s, plan, h)
<1>1. /\ h.accounts \subseteq e.accounts /\ h.installed \subseteq e.installed
      /\ h.files \subseteq e.files
  BY EffectFields
<1>a. /\ t = "vnc-service" \/ t = "guacamole-compose" => s \notin {"down", "stop"}
      /\ t = "down" => s # "guacamole-compose"
      /\ t = "stop" => s # "vnc-service"
  BY DEF ApplySteps, StepNames
<1>2. t = "vnc-config" => e.conf[plan.user] = plan.desktop
  BY EffectFields DEF Done
<1>3. t = "vnc-service" => plan.user \in e.svc
  BY <1>a, EffectFields DEF Done
<1>4. t = "guacamole-compose" => plan.runtime \in e.stack
  BY <1>a, EffectFields DEF Done
<1>5. t = "guacamole-connection" => plan.user \in e.rows[plan.runtime]
  BY EffectFields DEF Done
<1>6. t = "down" => plan.runtime \notin e.stack
  BY <1>a, EffectFields DEF Done
<1>7. t = "stop" => plan.user \notin e.svc
  BY <1>a, EffectFields DEF Done
<1> HIDE DEF e
<1>8. Done(t, plan, e)
  BY <1>1, <1>2, <1>3, <1>4, <1>5, <1>6, <1>7 DEF Done
<1>9. QED BY <1>8 DEF e

\* A step that is done is a step that would change nothing.
LEMMA DoneFixed ==
    ASSUME NEW h \in Hosts, NEW plan \in Plans, NEW s \in StepNames, Done(s, plan, h)
    PROVE  Effect(s, plan, h) = h
<1>1. /\ h = [accounts |-> h.accounts, installed |-> h.installed, conf |-> h.conf,
              svc |-> h.svc, files |-> h.files, stack |-> h.stack, rows |-> h.rows]
      /\ h.conf \in [Users -> Environments] /\ h.rows \in [Runtimes -> SUBSET Users]
  BY DEF Hosts
<1>2. CASE s = "target-user"
  <2>1. h.accounts \cup {plan.user} = h.accounts
    BY <1>2 DEF Done
  <2>2. QED BY <1>1, <1>2, <2>1 DEF Effect
<1>3. CASE s = "packages"
  <2>1. h.installed \cup plan.packages = h.installed
    BY <1>3 DEF Done
  <2>2. QED BY <1>1, <1>3, <2>1 DEF Effect
<1>4. CASE s = "vnc-config"
  <2>1. [h.conf EXCEPT ![plan.user] = plan.desktop] = h.conf
    BY <1>1, <1>4 DEF Done
  <2>2. Effect(s, plan, h) = [h EXCEPT !.conf = [h.conf EXCEPT ![plan.user] = plan.desktop]]
    BY <1>4 DEF Effect
  <2>3. QED BY <1>1, <2>1, <2>2
<1>5. CASE s = "vnc-service"
  <2>1. h.svc \cup {plan.user} = h.svc
    BY <1>5 DEF Done
  <2>2. QED BY <1>1, <1>5, <2>1 DEF Effect
<1>6. CASE s \in {"guacamole-secrets", "guacamole-schema", "reverse-proxy"}
  <2>1. PICK f : /\ Effect(s, plan, h) = [h EXCEPT !.files = @ \cup {f}]
                 /\ f \in h.files
    BY <1>6 DEF Done, Effect
  <2>2. h.files \cup {f} = h.files
    BY <2>1
  <2>3. QED BY <1>1, <2>1, <2>2
<1>7. CASE s = "guacamole-compose"
  <2>1. /\ h.files \cup {"compose.yaml"} = h.files
        /\ h.stack \cup {plan.runtime} = h.stack
    BY <1>7 DEF Done
  <2>2. QED BY <1>1, <1>7, <2>1 DEF Effect
<1>8. CASE s = "guacamole-connection"
  <2>1. h.rows[plan.runtime] \cup {plan.user} = h.rows[plan.runtime]
    BY <1>8 DEF Done
  <2>2. [h.rows EXCEPT ![plan.runtime] = h.rows[plan.runtime] \cup {plan.user}] = h.rows
    BY <1>1, <2>1
  <2>3. Effect(s, plan, h) = [h EXCEPT !.rows = [h.rows EXCEPT ![plan.runtime] =
                                                   h.rows[plan.runtime] \cup {plan.user}]]
    BY <1>8 DEF Effect
  <2>4. QED BY <1>1, <2>2, <2>3
<1>9. CASE s = "down"
  <2>1. h.stack \ {plan.runtime} = h.stack
    BY <1>9 DEF Done
  <2>2. QED BY <1>1, <1>9, <2>1 DEF Effect
<1>10. CASE s = "stop"
  <2>1. h.svc \ {plan.user} = h.svc
    BY <1>10 DEF Done
  <2>2. QED BY <1>1, <1>10, <2>1 DEF Effect
<1>11. CASE s \in {"database-password", "guacamole-admin"}
  BY <1>11 DEF Effect
<1>12. QED
  BY <1>2, <1>3, <1>4, <1>5, <1>6, <1>7, <1>8, <1>9, <1>10, <1>11 DEF StepNames

-----------------------------------------------------------------------------
(* The invariant *)

LEMMA InitOK == Init => LifecycleInv
<1> SUFFICES ASSUME Init PROVE LifecycleInv
  OBVIOUS
<1>1. \A p \in Installers : pc[p] = "idle" /\ job[p] = None
  BY DEF Init
<1>2. host \in Hosts
  BY DEF Init, Hosts, Users, Environments
<1>3. TypeOK
  BY <1>1, <1>2 DEF Init, TypeOK, Executing
<1>4. JobInv /\ ProgressInv /\ RecordInv
  BY <1>1 DEF Init, JobInv, JobOK, ProgressInv, ProgressOK, RecordInv, RecordOK,
     RecordFaithful, Executing
<1>5. QED BY <1>3, <1>4 DEF LifecycleInv

LEMMA JobFields ==
    ASSUME TypeOK, NEW p \in Installers, pc[p] # "idle"
    PROVE  /\ job[p] \in Jobs
           /\ job[p].command \in {"apply", "uninstall"} /\ job[p].cfg \in Configs
           /\ job[p].invoker \in Invokers /\ job[p].plan \in Plans \cup {None}
           /\ job[p].steps \in Seq(StepNames) /\ job[p].changed \in BOOLEAN
           /\ job[p].touched \in BOOLEAN /\ job[p].missed \in BOOLEAN
           /\ pc[p] \in Executing => job[p].plan \in Plans /\ lock = p
BY DEF TypeOK, Jobs

\* The lock is a mutex.
LEMMA OnlyOne ==
    ASSUME TypeOK, NEW p \in Installers, NEW q \in Installers,
           pc[p] \in Executing, pc[q] \in Executing
    PROVE  p = q
BY DEF TypeOK

\* The steps of a plan are those of its command, and name a real container runtime.
LEMMA WholeSteps ==
    ASSUME TypeOK, JobInv, NEW p \in Installers, pc[p] \in Executing
    PROVE  /\ Whole(p) \subseteq StepNames
           /\ job[p].command = "apply" => Whole(p) \subseteq ApplySteps
           /\ job[p].command = "uninstall" => Whole(p) \subseteq {"down", "stop"}
           /\ {"guacamole-compose", "guacamole-connection"} \cap Whole(p) # {} =>
                job[p].plan.runtime \in Runtimes
<1>1. /\ job[p].invoker \in Invokers /\ job[p].cfg \in Configs /\ job[p].plan \in Plans
      /\ job[p].command \in {"apply", "uninstall"} /\ pc[p] # "idle"
  BY JobFields DEF Executing
<1>2. PICK path \in SUBSET Runtimes :
        job[p].plan = Build(FactsOn(job[p].invoker, path), job[p].cfg)
  BY DEF JobInv, JobOK, Planned
<1>3. CASE job[p].command = "apply"
  <2>1. Whole(p) = Elems(job[p].plan.steps)
    BY <1>3 DEF Whole
  <2>2. QED BY <1>1, <1>2, <1>3, <2>1, StepsOfPlan DEF ApplySteps
<1>4. CASE job[p].command = "uninstall"
  <2>1. job[p].plan.compose \in BOOLEAN
    BY <1>1 DEF Plans
  <2>2. Whole(p) \subseteq {"down", "stop"}
    BY <1>4, <2>1, UninstallElems DEF Whole
  <2>3. QED BY <1>4, <2>2 DEF StepNames
<1>5. QED BY <1>1, <1>3, <1>4

\* What one installer does leaves the others as they are: it is enough to look at it.
InstallerTyped(p) ==
    /\ pc[p] \in {"idle", "wait"} \cup Executing
    /\ IF pc[p] = "idle" THEN job[p] = None ELSE job[p] \in Jobs
    /\ pc[p] \in Executing => job[p].plan # None /\ lock = p

LEMMA OneInstaller ==
    ASSUME LifecycleInv, NEW p \in Installers,
           \E x : pc' = [pc EXCEPT ![p] = x], \E j : job' = [job EXCEPT ![p] = j],
           lock' \in Installers \cup {None}, host' \in Hosts,
           {record, recent}' \subseteq Plans \cup {None},
           InstallerTyped(p)', JobOK(p)', ProgressOK(p)', RecordOK(p)',
           \/ /\ UNCHANGED <<host, record, recent>> /\ lock \in {lock', None}
              /\ "save" \notin {pc[p], pc'[p]}
           \/ lock = p /\ (pc'[p] # "save" => record' = recent')
    PROVE  LifecycleInv'
<1> USE DEF LifecycleInv
<1>1. \A q \in Installers \ {p} : pc'[q] = pc[q] /\ job'[q] = job[q]
  BY DEF TypeOK
<1>2. \A q \in Installers \ {p} : pc[q] \in Executing =>
        /\ UNCHANGED <<host, record, recent, lock>>
        /\ lock = q /\ pc'[p] # "save"
  BY InstallersAssumption DEF TypeOK
<1>3. TypeOK'
  <2>1. /\ pc' \in [Installers -> {"idle", "wait"} \cup Executing]
        /\ job' \in [Installers -> Jobs \cup {None}]
    BY DEF TypeOK, InstallerTyped
  <2>2. \A q \in Installers : InstallerTyped(q)'
    BY <1>1, <1>2 DEF TypeOK, InstallerTyped
  <2>3. QED BY <2>1, <2>2 DEF TypeOK, InstallerTyped
<1>4. JobInv'
  BY <1>1 DEF JobInv, JobOK, Planned
<1>5. ProgressInv'
  <2>1. ASSUME NEW q \in Installers \ {p} PROVE ProgressOK(q)'
    <3>1. CASE pc[q] \in Executing
      <4>1. UNCHANGED host /\ pc'[q] = pc[q] /\ job'[q] = job[q] /\ ProgressOK(q)
        BY <1>1, <1>2, <3>1 DEF ProgressInv
      <4>2. Whole(q)' = Whole(q)
        BY <4>1 DEF Whole, UninstallSteps
      <4>3. QED BY <4>1, <4>2 DEF ProgressOK
    <3>2. CASE pc[q] \notin Executing
      BY <1>1, <3>2 DEF ProgressOK
    <3>3. QED BY <3>1, <3>2
  <2>2. QED BY <2>1 DEF ProgressInv
<1>6. RecordInv'
  <2>1. \A q \in Installers : RecordOK(q)'
    BY <1>1, <1>2 DEF RecordInv, RecordOK, Executing
  <2>2. RecordFaithful'
    <3>1. CASE UNCHANGED <<host, record, recent>> /\ "save" \notin {pc[p], pc'[p]}
      BY <1>1, <3>1 DEF RecordInv, RecordFaithful
    <3>2. CASE lock = p /\ (pc'[p] # "save" => record' = recent')
      BY <3>2 DEF RecordFaithful
    <3>3. QED BY <3>1, <3>2
  <2>3. QED BY <2>1, <2>2 DEF RecordInv
<1>7. QED BY <1>3, <1>4, <1>5, <1>6

-----------------------------------------------------------------------------
(* One step of one installer *)

LEMMA StartStep ==
    ASSUME LifecycleInv, NEW p \in Installers, StartApply(p) \/ StartUninstall(p)
    PROVE  LifecycleInv'
<1> USE DEF LifecycleInv
<1>1. /\ pc[p] = "idle" /\ pc' = [pc EXCEPT ![p] = "wait"]
      /\ UNCHANGED <<lock, host, record, recent>>
  BY DEF StartApply, StartUninstall
<1>2. PICK config \in Configs, invoker \in Invokers :
        \/ /\ Supported(Build(Facts(invoker), config))
           /\ job' = [job EXCEPT ![p] =
                        Job("apply", config, invoker, Build(Facts(invoker), config),
                            Build(Facts(invoker), config).steps)]
        \/ job' = [job EXCEPT ![p] = Job("uninstall", config, invoker, None, <<>>)]
  BY DEF StartApply, StartUninstall
<1> DEFINE path == host.installed \cap Runtimes
           plan == Build(FactsOn(invoker, path), config)
<1>3. plan = Build(Facts(invoker), config) /\ path \in SUBSET Runtimes
  BY DEF Facts
<1>4. plan \in Plans /\ plan.steps \in Seq(StepNames)
  <2>1. plan \in Plans
    BY <1>3, PlanTyped
  <2>2. QED BY <2>1 DEF Plans
<1> HIDE DEF plan
<1>5. CASE Supported(plan) /\ job' = [job EXCEPT ![p] =
                                        Job("apply", config, invoker, plan, plan.steps)]
  <2>1. job'[p] = Job("apply", config, invoker, plan, plan.steps)
    BY <1>5 DEF TypeOK
  <2>2. /\ job'[p] \in Jobs
        /\ job'[p].command = "apply" /\ job'[p].plan = plan /\ job'[p].steps = plan.steps
        /\ job'[p].cfg = config /\ job'[p].invoker = invoker
        /\ job'[p].changed = job'[p].touched
    BY <1>4, <2>1 DEF Job, Jobs
  <2>3. Planned(p)'
    BY <1>3, <2>2 DEF Planned, plan, FactsOn
  <2>4. pc'[p] = "wait"
    BY <1>1 DEF TypeOK
  <2>5. /\ InstallerTyped(p)' /\ JobOK(p)' /\ ProgressOK(p)' /\ RecordOK(p)'
    BY <1>5, <2>2, <2>3, <2>4
       DEF InstallerTyped, JobOK, ProgressOK, RecordOK, Executing
  <2>6. QED BY <1>1, <1>5, <2>4, <2>5, OneInstaller DEF TypeOK
<1>6. CASE job' = [job EXCEPT ![p] = Job("uninstall", config, invoker, None, <<>>)]
  <2>1. job'[p] = Job("uninstall", config, invoker, None, <<>>)
    BY <1>6 DEF TypeOK
  <2>2. /\ job'[p] \in Jobs
        /\ job'[p].command = "uninstall" /\ job'[p].changed = job'[p].touched
    BY <1>4, <2>1 DEF Job, Jobs
  <2>3. pc'[p] = "wait"
    BY <1>1 DEF TypeOK
  <2>4. /\ InstallerTyped(p)' /\ JobOK(p)' /\ ProgressOK(p)' /\ RecordOK(p)'
    BY <2>2, <2>3 DEF InstallerTyped, JobOK, ProgressOK, RecordOK, Executing
  <2>5. QED BY <1>1, <1>6, <2>3, <2>4, OneInstaller DEF TypeOK
<1>7. QED BY <1>2, <1>3, <1>5, <1>6

\* Giving up, and every way a command ends.
LEMMA EndStep ==
    ASSUME LifecycleInv, NEW p \in Installers,
           GiveUp(p) \/ Return(p) \/ Raise(p) \/ Fail(p)
    PROVE  LifecycleInv'
<1> USE DEF LifecycleInv
<1>1. /\ pc' = [pc EXCEPT ![p] = "idle"] /\ job' = [job EXCEPT ![p] = None]
      /\ UNCHANGED <<host, record>>
  BY DEF GiveUp, Return, Raise, Fail, Exit
<1>2. pc'[p] = "idle" /\ job'[p] = None
  BY <1>1 DEF TypeOK
<1>3. InstallerTyped(p)' /\ JobOK(p)' /\ ProgressOK(p)' /\ RecordOK(p)'
  BY <1>2 DEF InstallerTyped, JobOK, ProgressOK, RecordOK, Executing
<1>4. CASE GiveUp(p)
  BY <1>1, <1>2, <1>3, <1>4, OneInstaller DEF GiveUp, TypeOK
<1>5. CASE Return(p) \/ Raise(p) \/ Fail(p)
  <2>1. pc[p] \in Executing /\ lock' = None
    BY <1>5 DEF Return, Raise, Fail, Exit, Executing
  <2>2. lock = p
    BY <2>1 DEF TypeOK
  <2>3. recent' \in {recent, record} /\ record' = recent'
    <3>1. CASE pc[p] = "save"
      BY <1>1, <1>5, <3>1 DEF Return, Raise, Fail, Exit
    <3>2. CASE pc[p] # "save"
      <4>1. record = recent
        BY <2>1, <3>2, OnlyOne DEF RecordInv, RecordFaithful, Executing
      <4>2. recent' = recent
        BY <1>5, <3>2 DEF Return, Raise, Fail
      <4>3. QED BY <1>1, <4>1, <4>2
    <3>3. QED BY <3>1, <3>2
  <2>4. {record, recent}' \subseteq Plans \cup {None}
    BY <1>1, <2>3 DEF TypeOK
  <2>5. QED BY <1>1, <1>2, <1>3, <2>1, <2>2, <2>3, <2>4, OneInstaller DEF TypeOK
<1>6. QED BY <1>4, <1>5

LEMMA EnterStep ==
    ASSUME LifecycleInv, NEW p \in Installers, Enter(p)
    PROVE  LifecycleInv'
<1> USE DEF LifecycleInv
<1>1. /\ pc[p] = "wait" /\ pc' = [pc EXCEPT ![p] = "step"]
      /\ lock = None /\ lock' = p /\ UNCHANGED <<host, record, recent>>
  BY DEF Enter, Begin
<1>2. pc'[p] = "step" /\ p # None
  BY <1>1, InstallersAssumption DEF TypeOK
<1>3. /\ job[p] \in Jobs /\ job[p].command \in {"apply", "uninstall"}
      /\ job[p].invoker \in Invokers /\ job[p].cfg \in Configs
      /\ job[p].changed = job[p].touched
  BY <1>1, JobFields DEF JobInv, JobOK
<1>4. CASE job[p].command = "apply"
  <2>1. UNCHANGED job
    BY <1>4 DEF Enter, Begin
  <2>2. Planned(p) /\ Supported(job[p].plan) /\ job[p].steps = job[p].plan.steps
    BY <1>1, <1>4 DEF JobInv, JobOK
  <2>3. job[p].plan \in Plans
    BY <1>3, <2>2, PlanTyped DEF Planned
  <2>4. Planned(p)' /\ Whole(p)' = Elems(job'[p].steps)
    BY <1>4, <2>1, <2>2 DEF Planned, Whole
  <2>5. InstallerTyped(p)'
    BY <1>1, <1>2, <1>3, <2>1, <2>3, InstallersAssumption DEF InstallerTyped, Executing
  <2>6. JobOK(p)' /\ ProgressOK(p)' /\ RecordOK(p)'
    BY <1>2, <1>3, <2>1, <2>2, <2>4 DEF JobOK, ProgressOK, RecordOK, Executing
  <2>7. job' = [job EXCEPT ![p] = job[p]]
    BY <2>1 DEF TypeOK
  <2>8. QED BY <1>1, <1>2, <2>5, <2>6, <2>7, OneInstaller DEF TypeOK
<1>5. CASE job[p].command = "uninstall"
  <2> DEFINE path == host.installed \cap Runtimes
             plan == Build(FactsOn(job[p].invoker, path), job[p].cfg)
             new == [job[p] EXCEPT !.plan = plan, !.steps = UninstallSteps(plan)]
  <2>1. path \in SUBSET Runtimes /\ plan \in Plans
    BY <1>3, PlanTyped
  <2>2. plan = Build(Facts(job[p].invoker), job[p].cfg)
    BY DEF Facts
  <2>3. UninstallSteps(plan) \in Seq(StepNames)
    <3>1. plan.compose \in BOOLEAN
      BY <2>1 DEF Plans
    <3> HIDE DEF plan
    <3>2. QED BY <3>1, UninstallElems
  <2> HIDE DEF plan
  <2>4. job' = [job EXCEPT ![p] = new]
    BY <1>5, <2>2 DEF Enter, Begin, TypeOK
  <2>5. job'[p] = new
    BY <2>4 DEF TypeOK
  <2>6. /\ new \in Jobs /\ new.command = "uninstall" /\ new.plan = plan
        /\ new.steps = UninstallSteps(plan) /\ new.cfg = job[p].cfg
        /\ new.invoker = job[p].invoker /\ new.changed = new.touched
    BY <1>3, <1>5, <2>1, <2>3 DEF Jobs
  <2> HIDE DEF new
  <2>7. Planned(p)'
    BY <2>1, <2>5, <2>6 DEF Planned, plan, FactsOn
  <2>8. Whole(p)' = Elems(job'[p].steps)
    BY <1>1, <2>5, <2>6 DEF Whole, UninstallSteps
  <2>9. InstallerTyped(p)'
    BY <1>1, <1>2, <2>1, <2>5, <2>6, InstallersAssumption DEF InstallerTyped, Executing
  <2>10. JobOK(p)' /\ ProgressOK(p)' /\ RecordOK(p)'
    BY <1>2, <2>5, <2>6, <2>7, <2>8 DEF JobOK, ProgressOK, RecordOK, Executing
  <2>11. QED BY <1>1, <1>2, <2>4, <2>9, <2>10, OneInstaller DEF TypeOK
<1>6. QED BY <1>3, <1>4, <1>5

\* A step of the plan: what was done stays done, and this step is done now.
LEMMA StepStep ==
    ASSUME LifecycleInv, NEW p \in Installers, Step(p)
    PROVE  LifecycleInv'
<1> USE DEF LifecycleInv
<1> DEFINE plan == job[p].plan
           steps == job[p].steps
           s == Head(steps)
           new == [job[p] EXCEPT !.steps = Tail(steps),
                                 !.changed = job[p].changed \/ host' # host,
                                 !.touched = job[p].touched \/ host' # host]
<1>1. /\ pc[p] = "step" /\ steps # <<>> /\ ~Refuses(p)
      /\ host' = Effect(s, plan, host) /\ job' = [job EXCEPT ![p] = new]
      /\ UNCHANGED <<pc, lock, record, recent>>
  BY DEF Step, TypeOK
<1>2. /\ job[p] \in Jobs /\ steps \in Seq(StepNames) /\ plan \in Plans /\ lock = p
      /\ job[p].changed \in BOOLEAN /\ job[p].touched \in BOOLEAN
      /\ job[p].changed = job[p].touched
      /\ job[p].command \in {"apply", "uninstall"} /\ pc[p] \in Executing
  BY <1>1, JobFields DEF Executing, JobInv, JobOK
<1>3. /\ s \in StepNames /\ Tail(steps) \in Seq(StepNames)
      /\ Elems(steps) = {s} \cup Elems(Tail(steps))
  BY <1>1, <1>2, ElemsHead
<1>4. /\ s \in Whole(p) /\ Elems(Tail(steps)) \subseteq Whole(p)
      /\ \A t \in Whole(p) \ Elems(steps) :
            Done(t, plan, host) \/ (t = "stop" /\ job[p].missed)
  BY <1>2, <1>3 DEF ProgressInv, ProgressOK
<1>5. s \in {"guacamole-compose", "guacamole-connection"} => plan.runtime \in Runtimes
  BY <1>2, <1>4, WholeSteps
<1>6. \A t \in Whole(p) : t \in StepNames /\ (s \in ApplySteps <=> t \in ApplySteps)
  BY <1>2, <1>4, WholeSteps DEF ApplySteps
<1>7. host \in Hosts
  BY DEF TypeOK
<1>8. host' \in Hosts
  BY <1>1, <1>2, <1>3, <1>5, <1>7, EffectFields
<1>9. Done(s, plan, host')
  <2>1. s = "guacamole-compose" => plan.runtime \in host.installed
    BY <1>1 DEF Refuses
  <2>2. Done(s, plan, Effect(s, plan, host))
    BY <1>2, <1>3, <1>5, <1>7, <2>1, EffectDone
  <2>3. QED BY <1>1, <2>2
<1>10. ASSUME NEW t \in Whole(p), Done(t, plan, host) PROVE Done(t, plan, host')
  <2>1. Done(t, plan, Effect(s, plan, host))
    BY <1>2, <1>3, <1>5, <1>6, <1>7, <1>10, EffectKeeps
  <2>2. QED BY <1>1, <2>1
<1>11. /\ new \in Jobs /\ new.steps = Tail(steps) /\ new.plan = plan
       /\ new.command = job[p].command /\ new.cfg = job[p].cfg
       /\ new.invoker = job[p].invoker /\ new.missed = job[p].missed
       /\ new.changed = new.touched
  BY <1>2, <1>3 DEF Jobs
<1>12. job'[p] = new /\ pc'[p] = "step"
  BY <1>1 DEF TypeOK
<1>13. Whole(p)' = Whole(p)
  <2>1. CASE job[p].command = "apply"
    BY <1>11, <1>12, <2>1 DEF Whole
  <2>2. CASE job[p].command = "uninstall"
    <3>1. s \in {"down", "stop"}
      BY <1>2, <1>4, <2>2, WholeSteps
    <3>2. host'.files = host.files
      BY <1>1, <1>2, <1>3, <1>5, <1>7, <3>1, EffectFields
    <3>3. QED BY <1>11, <1>12, <3>2 DEF Whole, UninstallSteps
  <2>3. QED BY <1>2, <2>1, <2>2
<1> HIDE DEF new, s
<1>14. InstallerTyped(p)'
  BY <1>1, <1>2, <1>11, <1>12, InstallersAssumption DEF InstallerTyped, Executing
<1>15. Planned(p)'
  BY <1>2, <1>11, <1>12 DEF JobInv, JobOK, Planned, FactsOn
<1>16. JobOK(p)' /\ RecordOK(p)'
  BY <1>1, <1>2, <1>11, <1>12, <1>15 DEF JobInv, JobOK, RecordOK, Executing
<1>17. ProgressOK(p)'
  <2>1. Elems(job'[p].steps) \subseteq Whole(p)'
    BY <1>4, <1>11, <1>12, <1>13
  <2>2. ASSUME NEW t \in Whole(p), t \notin Elems(Tail(steps))
        PROVE  Done(t, plan, host') \/ (t = "stop" /\ job[p].missed)
    BY <1>3, <1>4, <1>9, <1>10, <2>2
  <2>3. QED BY <1>11, <1>12, <1>13, <2>1, <2>2 DEF ProgressOK
<1>18. record' = recent'
  BY <1>1, <1>2, OnlyOne DEF RecordInv, RecordFaithful, Executing
<1>19. pc' = [pc EXCEPT ![p] = "step"]
  BY <1>1 DEF TypeOK
<1>20. QED
  BY <1>1, <1>2, <1>8, <1>14, <1>16, <1>17, <1>18, <1>19, OneInstaller DEF TypeOK

LEMMA StopMissesStep ==
    ASSUME LifecycleInv, NEW p \in Installers, StopMisses(p)
    PROVE  LifecycleInv'
<1> USE DEF LifecycleInv
<1> DEFINE new == [job[p] EXCEPT !.steps = <<>>, !.missed = TRUE]
<1>1. /\ pc[p] = "step" /\ job[p].steps = <<"stop">> /\ job' = [job EXCEPT ![p] = new]
      /\ UNCHANGED <<pc, lock, host, record, recent>>
  BY DEF StopMisses, TypeOK
<1>2. /\ job[p] \in Jobs /\ job[p].plan \in Plans /\ lock = p /\ pc[p] \in Executing
      /\ job[p].changed = job[p].touched
  BY <1>1, JobFields DEF Executing, JobInv, JobOK
<1>3. /\ new \in Jobs /\ new.steps = <<>> /\ new.missed = TRUE /\ new.plan = job[p].plan
      /\ new.command = job[p].command /\ new.cfg = job[p].cfg
      /\ new.invoker = job[p].invoker /\ new.changed = new.touched
  <2>1. <<>> \in Seq(StepNames)
    OBVIOUS
  <2>2. QED BY <1>2, <2>1 DEF Jobs
<1> HIDE DEF new
<1>4. job'[p] = new /\ pc'[p] = "step"
  BY <1>1 DEF TypeOK
<1>5. Whole(p)' = Whole(p)
  BY <1>1, <1>3, <1>4 DEF Whole, UninstallSteps
<1>6. InstallerTyped(p)'
  BY <1>1, <1>2, <1>3, <1>4, InstallersAssumption DEF InstallerTyped, Executing
<1>7. Planned(p)'
  BY <1>2, <1>3, <1>4 DEF JobInv, JobOK, Planned, FactsOn
<1>8. JobOK(p)' /\ RecordOK(p)'
  BY <1>1, <1>2, <1>3, <1>4, <1>7 DEF JobInv, JobOK, RecordOK, Executing
<1>9. ProgressOK(p)'
  <2>1. Elems(job[p].steps) = {"stop"}
    <3>1. DOMAIN <<"stop">> = {1} /\ <<"stop">>[1] = "stop"
      OBVIOUS
    <3>2. QED BY <1>1, <3>1 DEF Elems
  <2>2. \A t \in Whole(p) \ {"stop"} : Done(t, job[p].plan, host)
    BY <1>2, <2>1 DEF ProgressInv, ProgressOK
  <2>3. QED BY <1>1, <1>3, <1>4, <1>5, <2>2, ElemsEmpty DEF ProgressOK
<1>10. record' = recent'
  BY <1>1, <1>2, OnlyOne DEF RecordInv, RecordFaithful, Executing
<1>11. pc' = [pc EXCEPT ![p] = "step"]
  BY <1>1 DEF TypeOK
<1>12. QED
  BY <1>1, <1>2, <1>6, <1>8, <1>9, <1>10, <1>11, OneInstaller DEF TypeOK

LEMMA FinishStep ==
    ASSUME LifecycleInv, NEW p \in Installers, Finish(p) \/ Save(p)
    PROVE  LifecycleInv'
<1> USE DEF LifecycleInv
<1>1. /\ pc[p] \in {"step", "save"} /\ pc[p] \in Executing /\ job[p].steps = <<>>
      /\ UNCHANGED <<job, lock, host>>
  BY DEF Finish, Save, Executing, JobInv, JobOK
<1>2. /\ job[p] \in Jobs /\ job[p].plan \in Plans /\ lock = p
      /\ job[p].changed = job[p].touched /\ job[p].changed \in BOOLEAN
  BY <1>1, JobFields DEF Executing, JobInv, JobOK
<1>3. PICK x \in {"save", "ok"} :
        /\ pc' = [pc EXCEPT ![p] = x]
        /\ x = "save" => job[p].command = "apply" /\ recent' = job[p].plan
        /\ x = "ok" => record' = recent'
        /\ {record, recent}' \subseteq Plans \cup {None}
  <2>1. CASE Save(p)
    <3>1. record' = job[p].plan /\ recent' = recent /\ pc' = [pc EXCEPT ![p] = "ok"]
      BY <2>1 DEF Save
    <3>2. recent = job[p].plan
      BY <2>1 DEF Save, RecordInv, RecordOK
    <3>3. QED BY <1>2, <3>1, <3>2
  <2>2. CASE Finish(p)
    <3>1. record = recent /\ record' = record /\ {record, recent} \subseteq Plans \cup {None}
      BY <1>1, <2>2, OnlyOne DEF Finish, RecordInv, RecordFaithful, Executing, TypeOK
    <3>2. QED BY <1>2, <2>2, <3>1 DEF Finish
  <2>3. QED BY <2>1, <2>2
<1>4. pc'[p] = x /\ job'[p] = job[p] /\ job' = [job EXCEPT ![p] = job[p]]
  BY <1>1, <1>3 DEF TypeOK
<1>5. InstallerTyped(p)'
  BY <1>1, <1>2, <1>4, InstallersAssumption DEF InstallerTyped, Executing
<1>6. Planned(p)'
  BY <1>1, <1>4 DEF JobInv, JobOK, Planned, FactsOn
<1>7. JobOK(p)' /\ RecordOK(p)'
  BY <1>1, <1>2, <1>3, <1>4, <1>6 DEF JobInv, JobOK, RecordOK, Executing
<1>8. ProgressOK(p)'
  <2>1. Whole(p)' = Whole(p)
    BY <1>1, <1>4 DEF Whole, UninstallSteps
  <2>2. QED BY <1>1, <1>4, <2>1 DEF ProgressInv, ProgressOK
<1>9. QED
  BY <1>1, <1>2, <1>3, <1>4, <1>5, <1>7, <1>8, OneInstaller DEF TypeOK

\* The operator touches nothing that a command has done.
LEMMA OperatorStep ==
    ASSUME LifecycleInv, InstallRuntime \/ UNCHANGED vars
    PROVE  LifecycleInv'
<1> USE DEF LifecycleInv
<1>1. UNCHANGED <<pc, job, lock, record, recent>>
  BY DEF InstallRuntime, vars
<1>2. host' = host \/ \E r \in Runtimes :
                        host' = [host EXCEPT !.installed = host.installed \cup {r}]
  BY DEF InstallRuntime, vars
<1>3. /\ host' \in Hosts /\ host'.files = host.files /\ host'.accounts = host.accounts
      /\ host'.conf = host.conf /\ host'.svc = host.svc /\ host'.stack = host.stack
      /\ host'.rows = host.rows /\ host.installed \subseteq host'.installed
  <2>1. CASE host' = host
    BY <2>1 DEF TypeOK
  <2>2. CASE host' # host
    <3>1. PICK r \in Runtimes : host' = [host EXCEPT !.installed = host.installed \cup {r}]
      BY <1>2, <2>2
    <3>2. host \in Hosts /\ r \in PackageGroups
      BY DEF TypeOK, PackageGroups
    <3>3. QED BY <3>1, <3>2 DEF Hosts
  <2>3. QED BY <2>1, <2>2
<1>4. TypeOK'
  BY <1>1, <1>3 DEF TypeOK
<1>5. JobInv'
  BY <1>1 DEF JobInv, JobOK, Planned
<1>6. ProgressInv'
  <2>1. ASSUME NEW p \in Installers PROVE ProgressOK(p)'
    <3>1. Whole(p)' = Whole(p)
      BY <1>1, <1>3 DEF Whole, UninstallSteps
    <3>2. \A s : Done(s, job[p].plan, host) => Done(s, job[p].plan, host')
      BY <1>3 DEF Done
    <3>3. QED BY <1>1, <3>1, <3>2 DEF ProgressInv, ProgressOK
  <2>2. QED BY <2>1 DEF ProgressInv
<1>7. RecordInv'
  BY <1>1 DEF RecordInv, RecordOK, RecordFaithful
<1>8. QED BY <1>4, <1>5, <1>6, <1>7

-----------------------------------------------------------------------------
(* The theorems *)

LEMMA Invariance == Spec => []LifecycleInv
<1>1. LifecycleInv /\ [Next]_vars => LifecycleInv'
  <2> SUFFICES ASSUME LifecycleInv, [Next]_vars PROVE LifecycleInv'
    OBVIOUS
  <2>1. ASSUME NEW p \in Installers, Command(p) PROVE LifecycleInv'
    BY <2>1, StartStep, EndStep, EnterStep, StepStep, StopMissesStep, FinishStep
       DEF Command
  <2>2. QED BY <2>1, OperatorStep DEF Next
<1>2. QED BY InitOK, <1>1, PTL DEF Spec

\* Whoever executes a plan holds the lock, and what the steps of any plan leave of the
\* host is what the model takes a host to be.
THEOREM TypeCorrect == Spec => []TypeOK
BY Invariance, PTL DEF LifecycleInv

\* state.json names the plan of the last completed apply, for any number of installers
\* that plan before and save after waiting for the lock (_save_state, executor.locked).
THEOREM RecordAlwaysFaithful == Spec => []RecordFaithful
BY Invariance, PTL DEF LifecycleInv, RecordInv

\* What apply_plan and uninstall report, the host is: for every configuration the schema
\* admits, every family and all users, no step of a plan undoes an earlier one, and no
\* other installer comes in between.
THEOREM CommandsConverge == Spec => []Converged
<1>1. LifecycleInv => Converged
  <2> SUFFICES ASSUME LifecycleInv, NEW p \in Installers, pc[p] = "ok",
                      NEW s \in Whole(p)
               PROVE  \/ Effect(s, job[p].plan, host) = host
                      \/ s = "stop" /\ job[p].missed
    BY DEF Converged, Whole, Elems
  <2> USE DEF LifecycleInv
  <2>1. pc[p] \in Executing /\ job[p].steps = <<>>
    BY DEF Executing, JobInv, JobOK
  <2>2. Done(s, job[p].plan, host) \/ (s = "stop" /\ job[p].missed)
    BY <2>1, ElemsEmpty DEF ProgressInv, ProgressOK
  <2>3. host \in Hosts /\ job[p].plan \in Plans /\ s \in StepNames
    BY <2>1, JobFields, WholeSteps DEF TypeOK, Executing
  <2>4. QED BY <2>2, <2>3, DoneFixed
<1>2. QED BY Invariance, <1>1, PTL

\* verify, which plans anew from what is on PATH by then, finds healthy what an ok apply
\* has set up, and unhealthy what an ok uninstall has stopped.
THEOREM VerifyAlwaysAgrees == Spec => []VerifyAgrees
<1>1. LifecycleInv => VerifyAgrees
  <2> SUFFICES ASSUME LifecycleInv, NEW p \in Installers, pc[p] = "ok"
               PROVE  LET healthy == Verify(Facts(job[p].invoker), job[p].cfg, host) IN
                        IF job[p].command = "apply" THEN healthy
                        ELSE Managed(job[p].cfg) /\ ~job[p].missed => ~healthy
    BY DEF VerifyAgrees
  <2> USE DEF LifecycleInv
  <2> DEFINE now == host.installed \cap Runtimes
             plan == job[p].plan
             config == job[p].cfg
             again == Build(FactsOn(job[p].invoker, now), config)
             healthy == /\ again.level # "unsupported"
                        /\ again.user \in host.accounts
                        /\ Managed(config) => again.user \in host.svc
                        /\ again.compose => again.runtime \in host.installed
                                              /\ host.stack # {}
  <2>1. Verify(Facts(job[p].invoker), job[p].cfg, host) = healthy
    BY DEF Verify, Facts
  <2>2. /\ pc[p] \in Executing /\ job[p].steps = <<>> /\ Planned(p)
        /\ job[p].command = "apply" => Supported(plan)
    BY DEF Executing, JobInv, JobOK
  <2>3. /\ config \in Configs /\ job[p].invoker \in Invokers /\ plan \in Plans
        /\ job[p].command \in {"apply", "uninstall"}
    BY <2>2, JobFields DEF Executing
  <2>4. PICK path \in SUBSET Runtimes :
            plan = Build(FactsOn(job[p].invoker, path), config)
    BY <2>2 DEF Planned
  <2>5. /\ again.level = plan.level /\ again.user = plan.user
        /\ again.compose = Compose(config)
        /\ plan.runtime \in now => again.runtime \in now
    BY <2>3, <2>4, PathDecides
  <2>6. \A s \in Whole(p) : Done(s, plan, host) \/ (s = "stop" /\ job[p].missed)
    BY <2>2, ElemsEmpty DEF ProgressInv, ProgressOK
  <2> HIDE DEF again
  <2>7. CASE job[p].command = "apply"
    <3>1. Whole(p) = Elems(plan.steps)
      BY <2>7 DEF Whole
    <3>2. /\ "target-user" \in Whole(p)
          /\ Managed(config) => "vnc-service" \in Whole(p)
          /\ Compose(config) => "guacamole-compose" \in Whole(p)
          /\ "guacamole-compose" \in Whole(p) => plan.runtime \in Runtimes
      BY <2>2, <2>3, <2>4, <2>7, <3>1, StepsOfPlan
    <3>3. /\ plan.user \in host.accounts
          /\ Managed(config) => plan.user \in host.svc
          /\ Compose(config) => plan.runtime \in host.stack /\ plan.runtime \in now
      BY <2>6, <3>2 DEF Done
    <3>4. healthy
      BY <2>2, <2>5, <2>7, <3>3 DEF Supported
    <3>5. QED BY <2>1, <2>7, <3>4
  <2>8. CASE job[p].command = "uninstall"
    <3>1. "stop" \in Whole(p)
      BY <2>3, <2>8, UninstallElems DEF Whole, Plans
    <3>2. ~job[p].missed => plan.user \notin host.svc
      BY <2>6, <3>1 DEF Done
    <3>3. Managed(config) /\ ~job[p].missed => ~healthy
      BY <2>5, <3>2
    <3>4. QED BY <2>1, <2>8, <3>3
  <2>9. QED BY <2>3, <2>7, <2>8
<1>2. QED BY Invariance, <1>1, PTL

=================================================================================
