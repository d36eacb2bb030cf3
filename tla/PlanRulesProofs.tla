---------------------------- MODULE PlanRulesProofs -----------------------------
(***************************************************************************)
(* Theorems about the plans of PlanRules, for every host and every          *)
(* configuration that passes the schema: what a step refuses or reads, the  *)
(* planner has refused or provided before.  A plan that is supported raised *)
(* no objection (Unobjected), so each rule can be used as a fact about it;  *)
(* where a step stands in the plan follows part by part from the way the    *)
(* plan is put together (StepsElems, StepsOrderly).                         *)
(***************************************************************************)
EXTENDS PlanCommand, TLAPS, NaturalsInduction, WellFoundedInduction

PlanSteps ==
    {"target-user", "packages", "vnc-config", "vnc-service", "guacamole-secrets",
     "guacamole-schema", "guacamole-compose", "database-password", "guacamole-admin",
     "guacamole-connection", "reverse-proxy"}

Elems(steps) == {steps[i] : i \in DOMAIN steps}

\* The steps before the i-th.
Prior(steps, i) == {steps[j] : j \in 1 .. (i - 1)}

ProvidedBy(S, aplan) == UNION {Provides(s, aplan) : s \in S}

\* Each step reads only what those of `before` and the ones ahead of it provide.
Orderly(steps, aplan, before) ==
    \A i \in DOMAIN steps :
        Reads(steps[i], aplan) \subseteq ProvidedBy(before \cup Prior(steps, i), aplan)

PlanInv ==
    /\ cfg \in Settings /\ host.env \subseteq SessionVariables
    /\ plan = None \/ plan = Build(Detect(host), cfg)

-----------------------------------------------------------------------------
(* Sequences *)

LEMMA ConcatParts ==
    ASSUME NEW S, NEW s \in Seq(S), NEW t \in Seq(S)
    PROVE  /\ s \o t \in Seq(S) /\ Len(s) \in Nat
           /\ \A i \in DOMAIN s : i \in DOMAIN (s \o t) /\ (s \o t)[i] = s[i]
           /\ \A i \in DOMAIN t : /\ i + Len(s) \in DOMAIN (s \o t)
                                  /\ (s \o t)[i + Len(s)] = t[i]
           /\ \A i \in DOMAIN (s \o t) : i \notin DOMAIN s => i - Len(s) \in DOMAIN t
           /\ DOMAIN s = 1 .. Len(s) /\ DOMAIN t = 1 .. Len(t)
OBVIOUS

LEMMA ElemsConcat ==
    ASSUME NEW S, NEW s \in Seq(S), NEW t \in Seq(S)
    PROVE  s \o t \in Seq(S) /\ Elems(s \o t) = Elems(s) \cup Elems(t)
<1>1. ASSUME NEW i \in DOMAIN (s \o t) PROVE (s \o t)[i] \in Elems(s) \cup Elems(t)
  <2>1. CASE i \in DOMAIN s
    BY <2>1, ConcatParts DEF Elems
  <2>2. CASE i \notin DOMAIN s
    <3>1. i - Len(s) \in DOMAIN t /\ i = (i - Len(s)) + Len(s)
      BY <2>2, ConcatParts
    <3>2. (s \o t)[i] = t[i - Len(s)]
      BY <3>1, ConcatParts
    <3>3. QED BY <3>1, <3>2 DEF Elems
  <2>3. QED BY <2>1, <2>2
<1>2. ASSUME NEW i \in DOMAIN s PROVE s[i] \in Elems(s \o t)
  BY ConcatParts DEF Elems
<1>3. ASSUME NEW i \in DOMAIN t PROVE t[i] \in Elems(s \o t)
  <2>1. i + Len(s) \in DOMAIN (s \o t) /\ (s \o t)[i + Len(s)] = t[i]
    BY ConcatParts
  <2>2. QED BY <2>1 DEF Elems
<1>4. Elems(s \o t) \subseteq Elems(s) \cup Elems(t)
  BY <1>1 DEF Elems
<1>5. Elems(s) \cup Elems(t) \subseteq Elems(s \o t)
  BY <1>2, <1>3 DEF Elems
<1>6. QED BY <1>4, <1>5, ConcatParts

LEMMA ElemsEmpty == Elems(<<>>) = {}
BY DEF Elems

LEMMA ElemsWhen ==
    ASSUME NEW S, NEW s \in Seq(S), NEW cond \in BOOLEAN
    PROVE  When(cond, s) \in Seq(S) /\ Elems(When(cond, s)) = IF cond THEN Elems(s) ELSE {}
<1>1. CASE cond
  BY <1>1 DEF When
<1>2. CASE ~cond
  <2>1. When(cond, s) = <<>> /\ <<>> \in Seq(S)
    BY <1>2 DEF When
  <2>2. QED BY <1>2, <2>1, ElemsEmpty
<1>3. QED BY <1>1, <1>2

LEMMA ProvidedMore ==
    ASSUME NEW S, NEW T, NEW aplan, S \subseteq T
    PROVE  ProvidedBy(S, aplan) \subseteq ProvidedBy(T, aplan)
BY DEF ProvidedBy

LEMMA OrderlyConcat ==
    ASSUME NEW S, NEW s \in Seq(S), NEW t \in Seq(S), NEW aplan, NEW before,
           Orderly(s, aplan, before), Orderly(t, aplan, before \cup Elems(s))
    PROVE  Orderly(s \o t, aplan, before)
<1> SUFFICES ASSUME NEW i \in DOMAIN (s \o t)
             PROVE  Reads((s \o t)[i], aplan)
                      \subseteq ProvidedBy(before \cup Prior(s \o t, i), aplan)
  BY DEF Orderly
<1>1. CASE i \in DOMAIN s
  <2>1. \A j \in 1 .. (i - 1) : j \in DOMAIN s /\ (s \o t)[j] = s[j]
    BY <1>1, ConcatParts
  <2>2. Prior(s, i) \subseteq Prior(s \o t, i)
    BY <2>1 DEF Prior
  <2>3. Reads(s[i], aplan) \subseteq ProvidedBy(before \cup Prior(s, i), aplan)
    BY <1>1 DEF Orderly
  <2>4. (s \o t)[i] = s[i]
    BY <1>1, ConcatParts
  <2>5. before \cup Prior(s, i) \subseteq before \cup Prior(s \o t, i)
    BY <2>2
  <2>6. QED BY <2>3, <2>4, <2>5, ProvidedMore
<1>2. CASE i \notin DOMAIN s
  <2> DEFINE k == i - Len(s)
  <2>1. k \in DOMAIN t /\ k \in Nat /\ i = k + Len(s) /\ (s \o t)[i] = t[k]
    <3>1. k \in DOMAIN t /\ i = k + Len(s) /\ k \in Nat
      BY <1>2, ConcatParts
    <3>2. QED BY <3>1, ConcatParts
  <2>2. Elems(s) \subseteq Prior(s \o t, i)
    <3>1. \A j \in DOMAIN s : j \in 1 .. (i - 1) /\ (s \o t)[j] = s[j]
      BY <2>1, ConcatParts
    <3>2. QED BY <3>1 DEF Elems, Prior
  <2>3. Prior(t, k) \subseteq Prior(s \o t, i)
    <3>1. ASSUME NEW j \in 1 .. (k - 1)
          PROVE  j + Len(s) \in 1 .. (i - 1) /\ (s \o t)[j + Len(s)] = t[j]
      <4>1. j \in DOMAIN t /\ j + Len(s) \in 1 .. (i - 1)
        BY <2>1, ConcatParts
      <4>2. QED BY <4>1, ConcatParts
    <3>2. QED BY <3>1 DEF Prior
  <2>4. Reads(t[k], aplan)
          \subseteq ProvidedBy((before \cup Elems(s)) \cup Prior(t, k), aplan)
    BY <2>1 DEF Orderly
  <2>5. (before \cup Elems(s)) \cup Prior(t, k) \subseteq before \cup Prior(s \o t, i)
    BY <2>2, <2>3
  <2>6. QED BY <2>1, <2>4, <2>5, ProvidedMore
<1>3. QED BY <1>1, <1>2

LEMMA OrderlyWhen ==
    ASSUME NEW s, NEW cond \in BOOLEAN, NEW aplan, NEW before,
           cond => Orderly(s, aplan, before)
    PROVE  Orderly(When(cond, s), aplan, before)
<1>1. CASE cond
  BY <1>1 DEF When
<1>2. CASE ~cond
  <2>1. When(cond, s) = <<>>
    BY <1>2 DEF When
  <2>2. QED BY <2>1 DEF Orderly
<1>3. QED BY <1>1, <1>2

LEMMA MinIn == ASSUME NEW S \in SUBSET Nat, S # {} PROVE Min(S) \in S
<1> DEFINE R == OpToRel(<, Nat)
<1>1. IsWellFoundedOn(R, Nat)
  BY NatLessThanWellFounded
<1> HIDE DEF R
<1>2. PICK x \in S : \A y \in S : <<y, x>> \notin R
  BY <1>1, WFMin
<1>3. \A y \in S : x <= y
  <2> SUFFICES ASSUME NEW y \in S, ~(x <= y) PROVE FALSE
    OBVIOUS
  <2>1. <<y, x>> \in Nat \X Nat /\ y < x
    OBVIOUS
  <2>2. <<y, x>> \in R
    BY <2>1 DEF R, OpToRel
  <2>3. QED BY <1>2, <2>2
<1>4. QED BY <1>3 DEF Min

-----------------------------------------------------------------------------
(* The steps of a plan *)

LEMMA StepsElems ==
    ASSUME NEW facts, NEW config
    PROVE  /\ Steps(facts, config) \in Seq(PlanSteps)
           /\ Elems(Steps(facts, config)) =
                {"target-user", "packages"}
                  \cup (IF Managed(config) THEN {"vnc-config", "vnc-service"} ELSE {})
                  \cup (IF Compose(config)
                        THEN Elems(StackSteps)
                               \cup (IF Managed(config) /\ config.vnc # "wayvnc"
                                     THEN {"guacamole-connection"} ELSE {})
                        ELSE {})
                  \cup (IF Proxy(config) \notin {"none", "external"}
                        THEN {"reverse-proxy"} ELSE {})
           /\ Elems(StackSteps) = {"guacamole-secrets", "guacamole-schema",
                                   "guacamole-compose", "database-password",
                                   "guacamole-admin"}
<1> DEFINE A == <<"target-user", "packages">>
           B == <<"vnc-config", "vnc-service">>
           C == <<"guacamole-connection">>
           D == <<"reverse-proxy">>
           m == Managed(config)
           c == Compose(config)
           w == Managed(config) /\ config.vnc # "wayvnc"
           r == Proxy(config) \notin {"none", "external"}
<1>1. /\ A \in Seq(PlanSteps) /\ B \in Seq(PlanSteps) /\ C \in Seq(PlanSteps)
      /\ D \in Seq(PlanSteps) /\ StackSteps \in Seq(PlanSteps)
  BY DEF PlanSteps, StackSteps
<1>2. Elems(A) = {"target-user", "packages"}
  <2>1. DOMAIN A = {1, 2} /\ A[1] = "target-user" /\ A[2] = "packages"
    OBVIOUS
  <2>2. QED BY <2>1 DEF Elems
<1>3. Elems(B) = {"vnc-config", "vnc-service"}
  <2>1. DOMAIN B = {1, 2} /\ B[1] = "vnc-config" /\ B[2] = "vnc-service"
    OBVIOUS
  <2>2. QED BY <2>1 DEF Elems
<1>4. Elems(C) = {"guacamole-connection"} /\ Elems(D) = {"reverse-proxy"}
  <2>1. DOMAIN C = {1} /\ C[1] = "guacamole-connection"
        /\ DOMAIN D = {1} /\ D[1] = "reverse-proxy"
    OBVIOUS
  <2>2. QED BY <2>1 DEF Elems
<1>5. Elems(StackSteps) = {"guacamole-secrets", "guacamole-schema", "guacamole-compose",
                           "database-password", "guacamole-admin"}
  <2>1. /\ DOMAIN StackSteps = {1, 2, 3, 4, 5}
        /\ StackSteps[1] = "guacamole-secrets" /\ StackSteps[2] = "guacamole-schema"
        /\ StackSteps[3] = "guacamole-compose" /\ StackSteps[4] = "database-password"
        /\ StackSteps[5] = "guacamole-admin"
    BY DEF StackSteps
  <2>2. QED BY <2>1 DEF Elems
<1>6. m \in BOOLEAN /\ c \in BOOLEAN /\ w \in BOOLEAN /\ r \in BOOLEAN
  BY DEF Managed, Compose
<1>7. Steps(facts, config) =
        ((A \o When(m, B)) \o When(c, StackSteps \o When(w, C))) \o When(r, D)
  BY DEF Steps
<1> HIDE DEF A, B, C, D, m, c, w, r
<1>8. When(w, C) \in Seq(PlanSteps) /\ Elems(When(w, C)) = IF w THEN Elems(C) ELSE {}
  BY <1>1, <1>6, ElemsWhen
<1>9. /\ StackSteps \o When(w, C) \in Seq(PlanSteps)
      /\ Elems(StackSteps \o When(w, C)) =
            Elems(StackSteps) \cup (IF w THEN Elems(C) ELSE {})
  BY <1>1, <1>8, ElemsConcat
<1>10. /\ When(c, StackSteps \o When(w, C)) \in Seq(PlanSteps)
       /\ Elems(When(c, StackSteps \o When(w, C))) =
             IF c THEN Elems(StackSteps) \cup (IF w THEN Elems(C) ELSE {}) ELSE {}
  BY <1>6, <1>9, ElemsWhen
<1>11. When(m, B) \in Seq(PlanSteps) /\ Elems(When(m, B)) = IF m THEN Elems(B) ELSE {}
  BY <1>1, <1>6, ElemsWhen
<1>12. /\ A \o When(m, B) \in Seq(PlanSteps)
       /\ Elems(A \o When(m, B)) = Elems(A) \cup (IF m THEN Elems(B) ELSE {})
  BY <1>1, <1>11, ElemsConcat
<1>13. When(r, D) \in Seq(PlanSteps) /\ Elems(When(r, D)) = IF r THEN Elems(D) ELSE {}
  BY <1>1, <1>6, ElemsWhen
<1> DEFINE X == A \o When(m, B)
           Y == When(c, StackSteps \o When(w, C))
           Z == When(r, D)
<1>14. X \o Y \in Seq(PlanSteps) /\ Elems(X \o Y) = Elems(X) \cup Elems(Y)
  <2>1. X \in Seq(PlanSteps) /\ Y \in Seq(PlanSteps)
    BY <1>10, <1>12
  <2> HIDE DEF X, Y
  <2>2. QED BY <2>1, ElemsConcat
<1>15. /\ (X \o Y) \o Z \in Seq(PlanSteps)
       /\ Elems((X \o Y) \o Z) = Elems(X \o Y) \cup Elems(Z)
  <2>1. Z \in Seq(PlanSteps)
    BY <1>13
  <2> DEFINE W == X \o Y
  <2>2. W \in Seq(PlanSteps)
    BY <1>14
  <2> HIDE DEF W, Z
  <2>3. W \o Z \in Seq(PlanSteps) /\ Elems(W \o Z) = Elems(W) \cup Elems(Z)
    BY <2>1, <2>2, ElemsConcat
  <2>4. QED BY <2>3 DEF W
<1>a. Steps(facts, config) = (X \o Y) \o Z
  BY <1>7
<1>b. /\ Elems(X) = Elems(A) \cup (IF m THEN Elems(B) ELSE {})
      /\ Elems(Y) = IF c THEN Elems(StackSteps) \cup (IF w THEN Elems(C) ELSE {}) ELSE {}
      /\ Elems(Z) = IF r THEN Elems(D) ELSE {}
  BY <1>10, <1>12, <1>13
<1> HIDE DEF X, Y, Z
<1>c. /\ Elems(X) = {"target-user", "packages"}
                       \cup (IF m THEN {"vnc-config", "vnc-service"} ELSE {})
      /\ Elems(Y) = IF c THEN Elems(StackSteps)
                                \cup (IF w THEN {"guacamole-connection"} ELSE {}) ELSE {}
      /\ Elems(Z) = IF r THEN {"reverse-proxy"} ELSE {}
  BY <1>b, <1>2, <1>3, <1>4
<1>d. Elems(Steps(facts, config)) = (Elems(X) \cup Elems(Y)) \cup Elems(Z)
  BY <1>a, <1>14, <1>15
<1>16. QED BY <1>5, <1>15, <1>a, <1>c, <1>d DEF m, c, w, r

\* The password of the VNC server comes from vnc-config, which is ahead of all of
\* Guacamole, and the other secrets from the first step of Guacamole.
LEMMA StepsOrderly ==
    ASSUME NEW facts, NEW config, NEW aplan
    PROVE  Orderly(Steps(facts, config), aplan, {})
<1> DEFINE A == <<"target-user", "packages">>
           B == <<"vnc-config", "vnc-service">>
           C == <<"guacamole-connection">>
           D == <<"reverse-proxy">>
           m == Managed(config)
           c == Compose(config)
           w == Managed(config) /\ config.vnc # "wayvnc"
           r == Proxy(config) \notin {"none", "external"}
<1>1. /\ A \in Seq(PlanSteps) /\ B \in Seq(PlanSteps) /\ C \in Seq(PlanSteps)
      /\ D \in Seq(PlanSteps) /\ StackSteps \in Seq(PlanSteps)
  BY DEF PlanSteps, StackSteps
<1>2. \A before : Orderly(A, aplan, before)
  <2>1. DOMAIN A = {1, 2} /\ A[1] = "target-user" /\ A[2] = "packages"
    OBVIOUS
  <2>2. QED BY <2>1 DEF Orderly, Reads
<1>3. (\A before : Orderly(B, aplan, before)) /\ "vnc-config" \in Elems(B)
  <2>1. DOMAIN B = {1, 2} /\ B[1] = "vnc-config" /\ B[2] = "vnc-service"
    OBVIOUS
  <2>2. QED BY <2>1 DEF Orderly, Reads, Elems
<1>4. \A before : "vnc-config" \in before => Orderly(C, aplan, before)
  <2>1. DOMAIN C = {1} /\ C[1] = "guacamole-connection"
    OBVIOUS
  <2>2. SUFFICES ASSUME NEW before, "vnc-config" \in before
                 PROVE  Reads("guacamole-connection", aplan)
                          \subseteq ProvidedBy(before \cup Prior(C, 1), aplan)
    BY <2>1 DEF Orderly
  <2>3. Reads("guacamole-connection", aplan) = Provides("vnc-config", aplan)
    BY DEF Reads, Provides
  <2>4. QED BY <2>2, <2>3 DEF ProvidedBy
<1>5. \A before : Orderly(D, aplan, before)
  <2>1. DOMAIN D = {1} /\ D[1] = "reverse-proxy"
    OBVIOUS
  <2>2. QED BY <2>1 DEF Orderly, Reads
<1>6. \A before : Orderly(StackSteps, aplan, before)
  <2>1. /\ DOMAIN StackSteps = {1, 2, 3, 4, 5}
        /\ StackSteps[1] = "guacamole-secrets" /\ StackSteps[2] = "guacamole-schema"
        /\ StackSteps[3] = "guacamole-compose" /\ StackSteps[4] = "database-password"
        /\ StackSteps[5] = "guacamole-admin"
    BY DEF StackSteps
  <2>2. SUFFICES ASSUME NEW before, NEW i \in {1, 2, 3, 4, 5}
                 PROVE  Reads(StackSteps[i], aplan)
                          \subseteq ProvidedBy(before \cup Prior(StackSteps, i), aplan)
    BY <2>1 DEF Orderly
  <2>3. CASE i = 1
    BY <2>1, <2>3 DEF Reads
  <2>4. CASE i # 1
    <3>1. "guacamole-secrets" \in Prior(StackSteps, i)
      BY <2>1, <2>4 DEF Prior
    <3>2. {"database password", "admin password"}
            \subseteq ProvidedBy(before \cup Prior(StackSteps, i), aplan)
      BY <3>1 DEF ProvidedBy, Provides
    <3>3. Reads(StackSteps[i], aplan) \subseteq {"database password", "admin password"}
      BY <2>1, <2>4 DEF Reads
    <3>4. QED BY <3>2, <3>3
  <2>5. QED BY <2>3, <2>4
<1>7. m \in BOOLEAN /\ c \in BOOLEAN /\ w \in BOOLEAN /\ r \in BOOLEAN /\ (w => m)
  BY DEF Managed, Compose
<1>8. Steps(facts, config) =
        ((A \o When(m, B)) \o When(c, StackSteps \o When(w, C))) \o When(r, D)
  BY DEF Steps
<1> DEFINE X == A \o When(m, B)
           U == StackSteps \o When(w, C)
           Y == When(c, U)
           Z == When(r, D)
<1> HIDE DEF A, B, C, D, m, c, w, r
<1>9. /\ When(m, B) \in Seq(PlanSteps) /\ When(w, C) \in Seq(PlanSteps)
      /\ Z \in Seq(PlanSteps) /\ (m => Elems(When(m, B)) = Elems(B))
  BY <1>1, <1>7, ElemsWhen
<1>10. /\ X \in Seq(PlanSteps) /\ Elems(X) = Elems(A) \cup Elems(When(m, B))
       /\ U \in Seq(PlanSteps)
  BY <1>1, <1>9, ElemsConcat
<1>11. Orderly(X, aplan, {})
  <2>1. Orderly(When(m, B), aplan, {} \cup Elems(A))
    BY <1>3, <1>7, OrderlyWhen
  <2>2. QED BY <1>1, <1>2, <1>9, <2>1, OrderlyConcat
<1>12. Orderly(Y, aplan, {} \cup Elems(X))
  <2>1. w => Orderly(C, aplan, ({} \cup Elems(X)) \cup Elems(StackSteps))
    BY <1>3, <1>4, <1>7, <1>9, <1>10
  <2>2. Orderly(When(w, C), aplan, ({} \cup Elems(X)) \cup Elems(StackSteps))
    BY <1>7, <2>1, OrderlyWhen
  <2>3. Orderly(U, aplan, {} \cup Elems(X))
    BY <1>1, <1>6, <1>9, <2>2, OrderlyConcat
  <2> HIDE DEF U
  <2>4. QED BY <1>7, <2>3, OrderlyWhen
<1>13. Orderly(X \o Y, aplan, {}) /\ X \o Y \in Seq(PlanSteps)
  <2>1. Y \in Seq(PlanSteps)
    <3> HIDE DEF U
    <3>1. QED BY <1>7, <1>10, ElemsWhen
  <2> HIDE DEF X, Y
  <2>2. QED BY <1>10, <1>11, <1>12, <2>1, OrderlyConcat, ElemsConcat
<1>14. Orderly((X \o Y) \o Z, aplan, {})
  <2> DEFINE V == X \o Y
  <2>1. V \in Seq(PlanSteps) /\ Orderly(V, aplan, {})
    BY <1>13
  <2>2. Orderly(Z, aplan, {} \cup Elems(V))
    <3> HIDE DEF V
    <3>1. QED BY <1>5, <1>7, OrderlyWhen
  <2> HIDE DEF V, Z
  <2>3. Orderly(V \o Z, aplan, {})
    BY <1>9, <2>1, <2>2, OrderlyConcat
  <2>4. QED BY <2>3 DEF V
<1>15. QED BY <1>8, <1>14

LEMMA PackagesElems ==
    ASSUME NEW facts, NEW config \in Settings,
           Compose(config), HasRuntimePackages(Runtime(facts, config), facts.family)
    PROVE  Runtime(facts, config) \in Elems(Packages(facts, config))
<1> DEFINE run == Runtime(facts, config)
           S == {config.environment, config.vnc, run, Proxy(config)}
           A == <<config.environment>>
           B == <<config.vnc>>
           C == <<run>>
           D == <<Proxy(config)>>
           d == config.desktopOn /\ config.environment \in Desktops
           m == Managed(config)
           c == Compose(config) /\ HasRuntimePackages(run, facts.family)
           p == Proxy(config) \in {"nginx", "apache"}
<1>1. A \in Seq(S) /\ B \in Seq(S) /\ C \in Seq(S) /\ D \in Seq(S)
  OBVIOUS
<1>2. d \in BOOLEAN /\ m \in BOOLEAN /\ c \in BOOLEAN /\ p \in BOOLEAN /\ c
  BY DEF Settings, Managed
<1>3. run \in Elems(C)
  <2>1. DOMAIN C = {1} /\ C[1] = run
    OBVIOUS
  <2>2. QED BY <2>1 DEF Elems
<1>4. Packages(facts, config) =
        ((When(d, A) \o When(m, B)) \o When(c, C)) \o When(p, D)
  BY DEF Packages
<1> HIDE DEF run, S, A, B, C, D, d, m, c, p
<1>5. /\ When(d, A) \in Seq(S) /\ When(m, B) \in Seq(S) /\ When(p, D) \in Seq(S)
      /\ When(c, C) \in Seq(S) /\ Elems(When(c, C)) = Elems(C)
  BY <1>1, <1>2, ElemsWhen
<1> DEFINE X == When(d, A) \o When(m, B)
           Y == X \o When(c, C)
<1>6. X \in Seq(S)
  BY <1>5, ElemsConcat
<1> HIDE DEF X
<1>7. Y \in Seq(S) /\ run \in Elems(Y)
  BY <1>3, <1>5, <1>6, ElemsConcat
<1> HIDE DEF Y
<1>8. run \in Elems(Y \o When(p, D))
  BY <1>5, <1>7, ElemsConcat
<1>9. QED BY <1>4, <1>8 DEF X, Y, run

-----------------------------------------------------------------------------
(* Supported plans *)

LEMMA BuildFields ==
    ASSUME NEW facts, NEW config
    PROVE  LET aplan == Build(facts, config) IN
              /\ aplan.level = Level(facts, config)
              /\ aplan.steps = IF Errors(facts, config) = {} THEN Steps(facts, config)
                               ELSE <<>>
              /\ aplan.packages = Elems(Packages(facts, config))
              /\ aplan.runtime = Runtime(facts, config)
              /\ aplan.manager = Manager(facts.family) /\ aplan.init = facts.init
              /\ aplan.proxy = Proxy(config) /\ aplan.desktop = config.environment
              /\ aplan.vnc = config.vnc /\ aplan.auth = config.auth
BY DEF Build, Elems

LEMMA Unobjected ==
    ASSUME NEW name, NEW violated \in BOOLEAN, Objection(name, violated) = {}
    PROVE  ~violated
BY DEF Objection

\* What the rules leave of the facts and the settings.
LEMMA SupportedMeans ==
    ASSUME NEW facts, NEW config \in Settings, Supported(Build(facts, config))
    PROVE  /\ Errors(facts, config) = {}
           /\ facts.family # "custom" /\ Selected(config) # "custom"
           /\ ~(config.vncOn /\ config.vnc = "custom")
           /\ facts.init \in ServiceInit(facts.family)
           /\ config.vncOn /\ config.vnc \notin Unmanaged =>
                HasVncPackages(config.vnc, facts.family)
           /\ config.vncOn /\ config.vnc \in Virtual => Selected(config) # "none"
           /\ Selected(config) = "auto" => Detected(facts) # "auto"
           /\ Manager(facts.family) \in facts.managers \cup {"custom"}
           /\ Compose(config) => Runtime(facts, config) # "none"
           /\ Proxy(config) \in {"none", "external", "nginx", "apache"}
           /\ config.vnc # "wayvnc"
           /\ config.vnc = "x11vnc" => config.auth = "none"
<1>1. /\ Errors(facts, config) = {}
      /\ facts.family # "custom" /\ Selected(config) # "custom"
      /\ ~(config.vncOn /\ config.vnc = "custom")
  BY BuildFields DEF Supported, Level
<1>2. /\ PlatformErrors(facts) = {} /\ PackageErrors(facts, config) = {}
      /\ DesktopErrors(facts, config) = {} /\ PlannerErrors(facts, config) = {}
  BY <1>1 DEF Errors
<1>3. facts.init \in ServiceInit(facts.family)
  BY <1>2 DEF PlatformErrors, Objection
<1>4. config.vncOn /\ config.vnc \notin Unmanaged =>
        HasVncPackages(config.vnc, facts.family)
  BY <1>2 DEF PackageErrors, Objection
<1>5. /\ config.vncOn /\ config.vnc \in Virtual => Selected(config) # "none"
      /\ Selected(config) = "auto" => Detected(facts) # "auto"
  BY <1>2 DEF DesktopErrors, Objection
<1>6. /\ Manager(facts.family) \in facts.managers \cup {"custom"}
      /\ Compose(config) => Runtime(facts, config) # "none"
      /\ Proxy(config) \in Proxies \ {"traefik", "caddy"}
      /\ config.vnc # "wayvnc"
      /\ config.vnc = "x11vnc" => config.auth = "none"
  BY <1>2 DEF PlannerErrors, Objection
<1>7. Proxy(config) \in {"none", "external", "nginx", "apache"}
  BY <1>6 DEF Proxies
<1>8. QED BY <1>1, <1>3, <1>4, <1>5, <1>6, <1>7

\* The rules on what a VNC server can serve, on the display and the desktop there is.
LEMMA SupportedMode ==
    ASSUME NEW facts, NEW config \in Settings, Supported(Build(facts, config)),
           config.vncOn
    PROVE  /\ config.vnc = "x11vnc" => facts.display # "wayland"
           /\ config.vnc = "wayvnc" => Resolved(facts, config) \notin Desktops
           /\ config.vnc = "tightvnc" =>
                Resolved(facts, config) \notin {"gnome", "kde", "cinnamon"}
<1>1. VncErrors(facts, config) = {}
  BY SupportedMeans DEF Errors
<1>2. ModeErrors(facts, config, Resolved(facts, config)) = {}
  BY <1>1 DEF VncErrors
<1>3. QED BY <1>2 DEF ModeErrors, Objection

LEMMA FamilyTyped == ASSUME NEW id, NEW like PROVE Platform(id, like) \in Families
<1> DEFINE own == {f \in Families : id \in OsIds(f)}
           ranks == {i \in DOMAIN Precedence : LikeTokens(Precedence[i]) \cap like # {}}
<1>1. CASE own # {}
  BY <1>1 DEF Platform
<1>2. CASE own = {} /\ ranks # {}
  <2>1. DOMAIN Precedence = 1 .. 6
    BY DEF Precedence
  <2>2. ranks \in SUBSET Nat
    BY <2>1
  <2>3. Min(ranks) \in 1 .. 6
    BY <1>2, <2>1, <2>2, MinIn
  <2>4. Precedence[Min(ranks)] \in Families
    BY <2>3 DEF Precedence, Families
  <2>5. QED BY <1>2, <2>4 DEF Platform
<1>3. CASE own = {} /\ ranks = {}
  BY <1>3 DEF Platform, Families
<1>4. QED BY <1>1, <1>2, <1>3

LEMMA ManagerNamed ==
    ASSUME NEW family \in Families, family # "custom" PROVE Manager(family) # "custom"
BY DEF Manager, Families

\* A supported plan has no step that its own rules let through and its code refuses.
LEMMA NoStepRefuses ==
    ASSUME NEW facts, facts.family \in Families, NEW config \in Settings
    PROVE  StepsCanRun(facts, config, Build(facts, config))
<1> DEFINE b == Build(facts, config)
           s(i) == b.steps[i]
<1> SUFFICES ASSUME Supported(b), NEW i \in DOMAIN b.steps
             PROVE  \/ CanRun(s(i), b, facts)
                    \/ s(i) = "vnc-config" /\ Selected(config) = "auto"
                    \/ /\ s(i) = "guacamole-compose"
                       /\ ~HasRuntimePackages(b.runtime, facts.family)
  BY DEF StepsCanRun
<1>1. /\ b.steps = Steps(facts, config) /\ b.runtime = Runtime(facts, config)
      /\ b.packages = Elems(Packages(facts, config))
      /\ b.manager = Manager(facts.family) /\ b.init = facts.init
      /\ b.proxy = Proxy(config) /\ b.desktop = config.environment
      /\ b.vnc = config.vnc /\ b.auth = config.auth
  BY BuildFields, SupportedMeans
<1>2. /\ s(i) \in Elems(Steps(facts, config))
      /\ s(i) \in PlanSteps
      /\ s(i) = "vnc-config" => Managed(config)
      /\ s(i) = "vnc-service" => Managed(config)
      /\ s(i) \in {"guacamole-schema", "guacamole-compose"} => Compose(config)
      /\ s(i) = "reverse-proxy" => Proxy(config) \notin {"none", "external"}
  <2>1. s(i) \in Elems(Steps(facts, config))
    BY <1>1 DEF Elems
  <2>2. QED BY <2>1, StepsElems DEF PlanSteps
<1> HIDE DEF b, s
<1>3. CASE s(i) = "packages"
  <2>1. Manager(facts.family) # "custom"
    BY SupportedMeans, ManagerNamed DEF b
  <2>2. QED BY <1>1, <1>3, <2>1, SupportedMeans DEF CanRun, b
<1>4. CASE s(i) = "vnc-config"
  <2>1. Managed(config)
    BY <1>2, <1>4
  <2>2. b.vnc # "wayvnc" /\ ~(b.vnc = "x11vnc" /\ b.auth = "password")
    BY <1>1, SupportedMeans DEF b
  <2>3. ASSUME config.vnc \in Virtual, Selected(config) # "auto"
        PROVE  HasSessionArgv(config.environment)
    <3>1. Selected(config) \notin {"none", "custom", "auto"}
      BY <2>1, <2>3, SupportedMeans DEF Managed, b
    <3>2. Selected(config) = config.environment
      BY <3>1 DEF Selected
    <3>3. config.environment \in Environments
      BY DEF Settings
    <3>4. QED BY <3>1, <3>2, <3>3 DEF Environments, HasSessionArgv
  <2>4. QED BY <1>1, <1>4, <2>2, <2>3 DEF CanRun
<1>5. CASE s(i) = "vnc-service"
  <2>1. ServiceInit(facts.family) \in SUBSET {"systemd", "openrc"}
    BY SupportedMeans DEF ServiceInit, b
  <2>2. QED BY <1>1, <1>5, <2>1, SupportedMeans DEF CanRun, b
<1>6. CASE s(i) \in {"guacamole-schema", "guacamole-compose"}
  <2>1. Compose(config) /\ Runtime(facts, config) # "none"
    BY <1>2, <1>6, SupportedMeans DEF b
  <2>2. Runtime(facts, config) \in Runtimes
    BY <2>1 DEF Runtime, Settings, Runtimes
  <2>3. HasRuntimePackages(b.runtime, facts.family) => b.runtime \in b.packages
    BY <1>1, <2>1, PackagesElems
  <2>4. QED BY <1>1, <1>6, <2>2, <2>3 DEF CanRun
<1>7. CASE s(i) = "reverse-proxy"
  BY <1>1, <1>2, <1>7, SupportedMeans DEF CanRun, b
<1>8. CASE s(i) \notin {"packages", "vnc-config", "vnc-service", "guacamole-schema",
                        "guacamole-compose", "reverse-proxy"}
  BY <1>8 DEF CanRun
<1>9. QED BY <1>3, <1>4, <1>5, <1>6, <1>7, <1>8

LEMMA EverySecretProvided ==
    ASSUME NEW facts, NEW config PROVE SecretsProvided(Build(facts, config))
<1> DEFINE b == Build(facts, config)
<1>1. CASE Errors(facts, config) # {}
  <2>1. b.steps = <<>>
    BY <1>1, BuildFields
  <2>2. QED BY <2>1 DEF SecretsProvided
<1>2. CASE Errors(facts, config) = {}
  <2>1. Orderly(b.steps, b, {})
    BY <1>2, BuildFields, StepsOrderly
  <2> HIDE DEF b
  <2>2. ASSUME NEW i \in DOMAIN b.steps
        PROVE  Reads(b.steps[i], b)
                 \subseteq UNION {Provides(b.steps[j], b) : j \in 1 .. (i - 1)}
    <3>1. Reads(b.steps[i], b) \subseteq ProvidedBy({} \cup Prior(b.steps, i), b)
      BY <2>1 DEF Orderly
    <3>2. ProvidedBy({} \cup Prior(b.steps, i), b)
            \subseteq UNION {Provides(b.steps[j], b) : j \in 1 .. (i - 1)}
      BY DEF ProvidedBy, Prior
    <3>3. QED BY <3>1, <3>2
  <2>3. QED BY <2>2 DEF SecretsProvided, b
<1>3. QED BY <1>1, <1>2

\* With a variable that tells Wayland from X11, the display server is the session's
\* or "wayland".
LEMMA DisplayKnown ==
    ASSUME NEW h, h.env \subseteq SessionVariables, h.env \notin {{}, {"DISPLAY"}}
    PROVE  DisplayServerOf(h) \in {h.session, "wayland"}
<1>1. "XDG_SESSION_TYPE" \in h.env \/ "WAYLAND_DISPLAY" \in h.env
  BY DEF SessionVariables
<1>2. CASE "XDG_SESSION_TYPE" \in h.env
  BY <1>2 DEF DisplayServerOf
<1>3. CASE "XDG_SESSION_TYPE" \notin h.env
  BY <1>1, <1>3 DEF DisplayServerOf
<1>4. QED BY <1>2, <1>3

LEMMA MatrixIsHonoured ==
    ASSUME NEW h, h.env \subseteq SessionVariables, NEW config \in Settings
    PROVE  MatrixHonoured(h, Detect(h), config, Build(Detect(h), config))
<1> DEFINE facts == Detect(h)
           b == Build(facts, config)
<1> SUFFICES ASSUME Supported(b), config.vncOn
             PROVE  /\ facts.family # "custom" /\ Selected(config) # "custom"
                    /\ config.vnc # "custom"
                    /\ ~(facts.family = "alpine" /\ facts.init = "systemd")
                    /\ (config.vnc = "x11vnc" /\ h.env \notin {{}, {"DISPLAY"}}) =>
                          h.session # "wayland"
                    /\ config.vnc = "wayvnc" => Resolved(facts, config) \notin Desktops
                    /\ config.vnc \in Virtual => Resolved(facts, config) # "none"
                    /\ config.vnc = "tightvnc" =>
                         /\ Resolved(facts, config) \notin {"gnome", "kde", "cinnamon"}
                         /\ facts.family \notin {"rhel", "fedora", "arch", "alpine"}
  BY DEF MatrixHonoured
<1>1. facts.display = DisplayServerOf(h)
  BY DEF Detect
<1> HIDE DEF facts
<1>2. /\ facts.family # "custom" /\ Selected(config) # "custom"
      /\ config.vnc # "custom"
  BY SupportedMeans
<1>3. ~(facts.family = "alpine" /\ facts.init = "systemd")
  BY SupportedMeans DEF ServiceInit
<1>4. config.vnc = "x11vnc" /\ h.env \notin {{}, {"DISPLAY"}} => h.session # "wayland"
  <2> SUFFICES ASSUME config.vnc = "x11vnc", h.env \notin {{}, {"DISPLAY"}},
                      h.session = "wayland"
               PROVE  FALSE
    OBVIOUS
  <2>1. facts.display = "wayland"
    BY <1>1, DisplayKnown
  <2>2. QED BY <2>1, SupportedMode
<1>5. config.vnc = "wayvnc" => Resolved(facts, config) \notin Desktops
  BY SupportedMode
<1>6. config.vnc \in Virtual => Resolved(facts, config) # "none"
  <2>1. config.vnc \in Virtual => Selected(config) # "none"
    BY SupportedMeans
  <2>2. Detected(facts) # "none"
    BY DEF Detected, Desktops
  <2>3. QED BY <2>1, <2>2 DEF Resolved
<1>7. config.vnc = "tightvnc" =>
        /\ Resolved(facts, config) \notin {"gnome", "kde", "cinnamon"}
        /\ facts.family \notin {"rhel", "fedora", "arch", "alpine"}
  BY SupportedMode, SupportedMeans DEF HasVncPackages, Unmanaged
<1>8. QED BY <1>2, <1>3, <1>4, <1>5, <1>6, <1>7

-----------------------------------------------------------------------------
(* The command *)

LEMMA Invariance == Spec => []PlanInv
<1>1. Init => PlanInv
  BY InputsAssumption DEF Init, PlanInv
<1>2. PlanInv /\ [Next]_vars => PlanInv'
  <2> SUFFICES ASSUME PlanInv, [Next]_vars PROVE PlanInv'
    OBVIOUS
  <2>1. CASE Plan
    BY <2>1 DEF PlanInv, Plan
  <2>2. CASE UNCHANGED vars
    BY <2>2 DEF PlanInv, vars
  <2>3. QED BY <2>1, <2>2 DEF Next
<1>3. QED BY <1>1, <1>2, PTL DEF Spec

\* What a step refuses, the planner has refused before, for every host and every
\* configuration, with the two gaps that StepsCanRun names.
THEOREM SupportedPlansRun == Spec => []NoDoomedPlan
<1>1. PlanInv => NoDoomedPlan
  <2>1. Detect(host).family \in Families
    BY FamilyTyped DEF Detect
  <2>2. QED BY <2>1, NoStepRefuses DEF PlanInv, NoDoomedPlan
<1>2. QED BY <1>1, Invariance, PTL

\* Every step of every plan reads only secrets that a step ahead of it provides.
THEOREM SecretsComeFirst == Spec => []SecretsInOrder
<1>1. PlanInv => SecretsInOrder
  BY EverySecretProvided DEF PlanInv, SecretsInOrder
<1>2. QED BY <1>1, Invariance, PTL

\* No supported plan is one of the combinations that docs/SUPPORT_MATRIX.md names as
\* unsupported.
THEOREM MatrixAlwaysRefused == Spec => []MatrixRefused
<1>1. PlanInv => MatrixRefused
  BY MatrixIsHonoured DEF PlanInv, MatrixRefused
<1>2. QED BY <1>1, Invariance, PTL
=============================================================================
