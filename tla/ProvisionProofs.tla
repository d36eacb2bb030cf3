----------------------------- MODULE ProvisionProofs -----------------------------
(***************************************************************************)
(* Theorems about Provision, for all package groups, sequences of           *)
(* passwords, password sources, users and interpreters.  Layers of the      *)
(* invariant: what an apply has obtained and stored, password by password   *)
(* (StoredInv); that it stores below a directory it has just made private,  *)
(* and that what services rely on is in its file (SecretInv); that what it  *)
(* chose covers every group and is installed by then (PackageInv); and that *)
(* a settled host provides what each step looks for (SettledInv).           *)
(***************************************************************************)
EXTENDS Provision, WellFoundedInduction, TLAPS

SecretSteps == {"obtain", "store", "salt", "store-salt", "use", "finish"}
PackagesDone == {"directory", "ok"} \cup SecretSteps

\* The file of n holds the value this apply works with, the configured one if there is
\* one.
FromSource(n) == n \in KindSet /\ source[n] # None
Obtained(n) == runtime[n] # None /\ (FromSource(n) => runtime[n] = source[n])
Held(n) == Obtained(n) /\ managed[n] = runtime[n]

StoredInv ==
    /\ pc \in Stopped => nth = 1 /\ ~changed
    /\ \A i \in 1 .. (nth - 1) : Held(Kinds[i])
    /\ pc = "store" =>
        /\ Obtained(Kinds[nth])
        /\ FromSource(Kinds[nth]) \/ Held(Kinds[nth])
    /\ pc \in {"salt", "store-salt", "use", "finish"} => \A k \in KindSet : Held(k)
    /\ pc = "store-salt" => runtime["salt"] # None
    /\ pc \in {"use", "finish"} => Held("salt")

SeesNothing == invoker = "user" /\ python = "false"

SecretInv ==
    /\ pc \in SecretSteps => dir = "private"
    /\ pc \in Steps /\ ~blind => ~SeesNothing
    /\ pc = "store-salt" /\ ~blind /\ relied["salt"] # None =>
        runtime["salt"] = relied["salt"]

\* P has a complete alternative of every group.
Covers(P) ==
    \A g \in DOMAIN Groups : \E i \in DOMAIN Groups[g] : Groups[g][i] \subseteq P

PackageInv ==
    /\ pc \in {"update", "install"} => Covers(chosen) /\ chosen \subseteq installed \cup missing
    /\ pc \in {"directory"} \cup SecretSteps => chosen \subseteq installed
    /\ pc \in PackagesDone => Covers(installed)

SettledInv ==
    /\ pc = "idle" => ~settled
    /\ settled /\ ~blind =>
        /\ Selectable /\ Selected \subseteq installed
        /\ dir = "private" /\ managed["salt"] # None
        /\ \A k \in KindSet : managed[k] # None /\ source[k] \in {None, managed[k]}
        /\ pc \in Steps => ~changed
        /\ pc \notin {"update", "install"}
        /\ pc = "store" => runtime[Kinds[nth]] = managed[Kinds[nth]]
        /\ pc = "store-salt" => runtime["salt"] = managed["salt"]

ProvisionInv ==
    TypeOK /\ StoredInv /\ SecretInv /\ ReliedOnKept /\ PackageInv /\ SettledInv

-----------------------------------------------------------------------------
(* Facts about the constants and the choice of packages *)

LEMMA KindFacts ==
    /\ DOMAIN Kinds = 1 .. Len(Kinds) /\ Len(Kinds) \in Nat \ {0} /\ 1 \in DOMAIN Kinds
    /\ "salt" \notin KindSet
    /\ \A i \in DOMAIN Kinds : Kinds[i] \in KindSet /\ Kinds[i] \in Names
    /\ KindSet \subseteq Names /\ "salt" \in Names
BY KindsAssumption DEF KindSet, Names

\* The preferred alternative of a group exists.
LEMMA MinIn == ASSUME NEW S \in SUBSET Nat, S # {} PROVE Min(S) \in S
<1> DEFINE R == OpToRel(<, Nat)
<1>1. IsWellFoundedOn(R, Nat)
  BY NatLessThanWellFounded
<1> HIDE DEF R
<1>2. PICK x \in S : \A y \in S : <<y, x>> \notin R
  BY <1>1, WFMin
<1>3. \A y \in S : x <= y
  <2> SUFFICES ASSUME NEW y \in S, ~(x <= y) PROVE FALSE
    OBVIOUS
  <2>1. <<y, x>> \in Nat \X Nat /\ y < x
    OBVIOUS
  <2>2. <<y, x>> \in R
    BY <2>1 DEF R, OpToRel
  <2>3. QED BY <1>2, <2>2
<1>4. QED BY <1>3 DEF Min

LEMMA SelectedCovers ==
    ASSUME Selectable PROVE Covers(Selected) /\ Selected \subseteq AllPackages
<1>1. ASSUME NEW g \in DOMAIN Groups
      PROVE  Min(Candidates(g)) \in DOMAIN Groups[g]
  <2>1. Candidates(g) \subseteq DOMAIN Groups[g] /\ Candidates(g) # {}
    BY DEF Selectable, Candidates
  <2>2. DOMAIN Groups[g] \subseteq Nat
    BY GroupsAssumption
  <2>3. QED BY <2>1, <2>2, MinIn
<1>2. Covers(Selected)
  BY <1>1 DEF Covers, Selected
<1>3. Selected \subseteq AllPackages
  BY <1>1 DEF Selected, AllPackages, Alternatives
<1>4. QED BY <1>2, <1>3

-----------------------------------------------------------------------------
(* Types *)

LEMMA InitOK == Init => ProvisionInv
<1> SUFFICES ASSUME Init PROVE ProvisionInv
  OBVIOUS
<1>1. managed = Nothing /\ runtime = Nothing /\ relied = Nothing /\ nth = 1 /\ pc = "idle"
  BY DEF Init, SecretsInit
<1>2. SecretsTypeOK
  BY <1>1, SecretsAssumption DEF Init, SecretsInit, SecretsTypeOK, Nothing, Values
<1>3. PackagesTypeOK
  BY DEF Init, PackagesInit, PackagesTypeOK
<1>4. TypeOK
  BY <1>1, <1>2, <1>3, KindFacts DEF Init, TypeOK, Stopped
<1>5. ReliedOnKept
  BY <1>1 DEF ReliedOnKept, Nothing
<1>6. QED
  BY <1>1, <1>4, <1>5 DEF Init, ProvisionInv, StoredInv, SecretInv, PackageInv, SettledInv,
     Stopped, Steps, SecretSteps, PackagesDone

LEMMA PackagesTypeStep == TypeOK /\ [Next]_vars => PackagesTypeOK'
<1> SUFFICES ASSUME TypeOK, [Next]_vars PROVE PackagesTypeOK'
  OBVIOUS
<1> USE DEF TypeOK, PackagesTypeOK, pkgVars, pkgLocals
<1>1. CASE UNCHANGED pkgVars
  BY <1>1
<1>2. CASE Select
  BY <1>2, SelectedCovers DEF Select, SelectPackages
<1>3. CASE Update \/ Install
  BY <1>3 DEF Update, UpdateIndex, Install, InstallMissing, Unpack
<1>4. CASE Finish
  BY <1>4 DEF Finish, Forget
<1>5. CASE Refuse \/ Deny \/ Abort
  BY <1>5 DEF Refuse, Deny, Abort, Ends, Forget, NothingInstalled
<1>6. CASE InstallFails
  BY <1>6 DEF InstallFails, InstallPart, Unpack, Ends, Forget
<1>7. CASE Between
  BY <1>7 DEF Between, Publish, RefreshIndex, RemovePackage
<1>8. QED
  BY <1>1, <1>2, <1>3, <1>4, <1>5, <1>6, <1>7
     DEF Next, Apply, vars, Start, Directory, Obtain, StoreKind, Salt, StoreSalt, Use

LEMMA SecretsTypeStep == TypeOK /\ SecretInv /\ [Next]_vars => SecretsTypeOK'
<1> SUFFICES ASSUME TypeOK, SecretInv, [Next]_vars PROVE SecretsTypeOK'
  OBVIOUS
<1>a. None # "private" /\ Random \subseteq Values
  BY SecretsAssumption DEF Values
<1>b. Kinds[nth] \in KindSet /\ Kinds[nth] \in Names /\ "salt" \in Names
  BY KindFacts DEF TypeOK
<1>c. /\ \A n \in Names : managed[n] \in Values \cup {None}
      /\ \A n \in Names : runtime[n] \in Values \cup {None}
  BY DEF TypeOK, SecretsTypeOK
<1> USE DEF TypeOK, SecretsTypeOK, secretVars, Goto
<1>1. CASE UNCHANGED secretVars
  BY <1>1
<1>2. CASE Start \/ Directory
  BY <1>2, <1>a DEF Start, Directory, EnsureDirectory
<1>3. CASE Obtain
  <2>1. dir = "private" /\ UNCHANGED <<python, invoker, dir, source, relied>>
    BY <1>3 DEF Obtain, ReadSource, ReadManaged, Generate, SecretInv, SecretSteps
  <2>2. CASE ReadSource(Kinds[nth])
    <3>1. source[Kinds[nth]] \in Values
      BY <1>b, <2>2 DEF ReadSource, Values
    <3>2. QED BY <1>a, <1>b, <2>1, <2>2, <3>1 DEF ReadSource
  <2>3. CASE ReadManaged(Kinds[nth])
    BY <1>a, <1>b, <1>c, <2>1, <2>3 DEF ReadManaged
  <2>4. CASE Generate(Kinds[nth])
    BY <1>a, <1>b, <2>1, <2>4 DEF Generate, Fresh
  <2>5. QED BY <1>3, <2>2, <2>3, <2>4 DEF Obtain
<1>4. CASE StoreKind \/ StoreSalt
  <2>1. PICK n \in Names : Store(n)
    BY <1>4, <1>b DEF StoreKind, StoreSalt
  <2>2. dir = "private" /\ UNCHANGED <<python, invoker, dir, source, runtime>>
    BY <1>4, <2>1 DEF StoreKind, StoreSalt, Store, SecretInv, SecretSteps
  <2>3. managed' \in [Names -> Values \cup {None}]
    BY <1>c, <2>1 DEF Store
  <2>4. relied' \in [Names -> Random \cup {None}]
    <3>1. relied[n] \in Random \cup {None}
      OBVIOUS
    <3>2. QED BY <2>1, <3>1 DEF Store
  <2>5. QED BY <1>a, <2>2, <2>3, <2>4
<1>5. CASE Salt
  <2>1. UNCHANGED <<python, invoker, dir, source, managed, relied>>
    BY <1>5 DEF Salt, ReadSalt
  <2>2. runtime' \in [Names -> Values \cup {None}]
    BY <1>5, <1>a, <1>b, <1>c DEF Salt, ReadSalt, Fresh
  <2>3. QED BY <2>1, <2>2
<1>6. CASE Use
  BY <1>6 DEF Use, HandOver
<1>7. CASE Finish \/ Refuse \/ Deny \/ Abort \/ InstallFails
  <2>1. runtime' = Nothing /\ UNCHANGED <<python, invoker, dir, source, managed, relied>>
    BY <1>7 DEF Finish, Refuse, Deny, Abort, InstallFails, Ends, Forget
  <2>2. QED BY <2>1 DEF Nothing
<1>8. CASE Between
  <2>1. CASE SetSource
    <3>1. PICK k \in KindSet : \E s \in Sources[k] : source' = [source EXCEPT ![k] = s]
      BY <2>1 DEF SetSource
    <3>2. PICK s \in Sources[k] : source' = [source EXCEPT ![k] = s]
      BY <3>1
    <3>3. s \in AllSources
      BY <3>2 DEF AllSources
    <3>4. QED BY <2>1, <3>2, <3>3 DEF SetSource
  <2>2. CASE OpenDirectory
    BY <1>a, <2>2, SecretsAssumption DEF OpenDirectory
  <2>3. CASE DeleteSecret
    BY <2>3 DEF DeleteSecret
  <2>4. QED BY <1>1, <1>8, <2>1, <2>2, <2>3 DEF Between
<1>9. QED
  BY <1>1, <1>2, <1>3, <1>4, <1>5, <1>6, <1>7, <1>8
     DEF Next, Apply, vars, Select, Update, Install

LEMMA TypeOKStep == TypeOK /\ StoredInv /\ SecretInv /\ [Next]_vars => TypeOK'
<1> SUFFICES ASSUME TypeOK, StoredInv, SecretInv, [Next]_vars
             PROVE  /\ pc' \in Stopped \cup Steps
                    /\ nth' \in DOMAIN Kinds
                    /\ {changed', settled', blind'} \subseteq BOOLEAN
                    /\ pc' \in {"update", "install"} => missing' # {}
                    /\ pc' = "store" => runtime'[Kinds[nth']] # None
                    /\ pc' = "use" => \A n \in Names : runtime'[n] # None
  BY PackagesTypeStep, SecretsTypeStep DEF TypeOK
<1>1. CASE UNCHANGED vars
  BY <1>1 DEF TypeOK, vars, pkgVars, pkgLocals, secretVars, control
<1> USE DEF TypeOK, Goto, Keep, Mark, Stopped, Steps
<1>2. CASE Start
  BY <1>2 DEF Start, pkgVars, pkgLocals
<1>3. CASE Select
  BY <1>3 DEF Select, secretVars
<1>4. CASE Update \/ Install
  BY <1>4 DEF Update, UpdateIndex, Install, pkgLocals, secretVars
<1>5. CASE Directory
  BY <1>5 DEF Directory
<1>6. CASE Obtain
  <2>1. runtime'[Kinds[nth]] # None
    <3>1. Kinds[nth] \in Names /\ runtime \in [Names -> Values \cup {None}]
      BY KindFacts DEF SecretsTypeOK
    <3>2. QED
      BY <1>6, <3>1, SecretsAssumption
         DEF Obtain, ReadSource, ReadManaged, Exists, Generate, Fresh
  <2>2. QED BY <1>6, <2>1 DEF Obtain
<1>7. CASE StoreKind
  BY <1>7, KindFacts DEF StoreKind, Before
<1>8. CASE Salt
  BY <1>8 DEF Salt
<1>9. CASE StoreSalt
  <2>1. \A n \in Names : runtime[n] # None
    BY <1>9, KindFacts DEF StoreSalt, StoredInv, Held, Obtained, Names
  <2>2. QED BY <1>9, <2>1 DEF StoreSalt, Store
<1>10. CASE Use
  BY <1>10 DEF Use
<1>11. CASE Finish
  BY <1>11, KindFacts DEF Finish, Forget
<1>12. CASE Refuse \/ Deny \/ Abort \/ InstallFails
  BY <1>12, KindFacts DEF Refuse, Deny, Abort, InstallFails, Ends, Forget
<1>13. CASE Between
  BY <1>13 DEF Between
<1>14. QED
  BY <1>1, <1>2, <1>3, <1>4, <1>5, <1>6, <1>7, <1>8, <1>9, <1>10, <1>11, <1>12, <1>13
     DEF Next, Apply

-----------------------------------------------------------------------------
(* What an apply has obtained and stored *)

\* Steps that end an apply lose its local variables and start counting anew.
Ending == Finish \/ Refuse \/ Deny \/ Abort \/ InstallFails

LEMMA EndingForgets ==
    ASSUME Ending
    PROVE  /\ pc' \in Stopped /\ nth' = 1 /\ changed' = FALSE
           /\ UNCHANGED <<index, dir, source, managed, relied, blind>>
BY DEF Ending, Finish, Refuse, Deny, Abort, InstallFails, Ends, Forget, Goto, Stopped

LEMMA StoredInvStep == TypeOK /\ StoredInv /\ [Next]_vars => StoredInv'
<1> SUFFICES ASSUME TypeOK, StoredInv, [Next]_vars PROVE StoredInv'
  OBVIOUS
<1>a. /\ nth \in 1 .. Len(Kinds) /\ Len(Kinds) \in Nat
      /\ Kinds[nth] \in KindSet /\ Kinds[nth] \in Names
      /\ \A i \in 1 .. nth : Kinds[i] \in KindSet
  BY KindFacts DEF TypeOK
<1>b. /\ runtime \in [Names -> Values \cup {None}] /\ managed \in [Names -> Values \cup {None}]
      /\ "salt" \in Names /\ "salt" \notin KindSet /\ KindSet \subseteq Names
  BY KindFacts DEF TypeOK, SecretsTypeOK
<1> USE DEF StoredInv, Goto, Keep, Stopped
<1>1. CASE UNCHANGED vars
  BY <1>1 DEF vars, pkgVars, pkgLocals, secretVars, control, Held, Obtained, FromSource
<1>2. CASE Start
  BY <1>2 DEF Start, Held, Obtained, FromSource
<1>3. CASE Select \/ Update \/ Install
  BY <1>3 DEF Select, Update, Install, secretVars, Held, Obtained, FromSource
<1>4. CASE Directory
  BY <1>4 DEF Directory, EnsureDirectory, Held, Obtained, FromSource
<1>5. CASE Obtain
  <2>1. pc = "obtain" /\ pc' = "store" /\ UNCHANGED <<source, nth>>
    BY <1>5 DEF Obtain, ReadSource, ReadManaged, Generate
  <2>2. \A n \in Names \ {Kinds[nth]} : runtime'[n] = runtime[n] /\ managed'[n] = managed[n]
    BY <1>5, <1>a, <1>b DEF Obtain, ReadSource, ReadManaged, Generate
  <2>3. Obtained(Kinds[nth])'
    <3>1. runtime'[Kinds[nth]] # None
      BY <1>5, <1>a, <1>b, SecretsAssumption
         DEF Obtain, ReadSource, ReadManaged, Exists, Generate, Fresh
    <3>2. source[Kinds[nth]] # None => runtime'[Kinds[nth]] = source[Kinds[nth]]
      BY <1>5, <1>a, <1>b DEF Obtain, ReadSource, ReadManaged, Generate
    <3>3. QED BY <2>1, <3>1, <3>2 DEF Obtained, FromSource
  <2>4. source[Kinds[nth]] = None => managed'[Kinds[nth]] = runtime'[Kinds[nth]]
    BY <1>5, <1>a, <1>b DEF Obtain, ReadSource, ReadManaged, Generate
  <2>5. source[Kinds[nth]] # None => managed' = managed
    BY <1>5 DEF Obtain, ReadSource, ReadManaged, Generate
  <2>6. ASSUME NEW i \in 1 .. (nth - 1) PROVE Held(Kinds[i])'
    <3>1. Held(Kinds[i]) /\ Kinds[i] \in KindSet /\ Kinds[i] \in Names
      BY <1>a, <1>b
    <3>2. CASE Kinds[i] # Kinds[nth]
      BY <2>1, <2>2, <3>1, <3>2 DEF Held, Obtained, FromSource
    <3>3. CASE Kinds[i] = Kinds[nth]
      BY <2>1, <2>3, <2>4, <2>5, <3>1, <3>3 DEF Held, Obtained, FromSource
    <3>4. QED BY <3>2, <3>3
  <2>7. FromSource(Kinds[nth])' \/ Held(Kinds[nth])'
    BY <1>a, <2>1, <2>3, <2>4 DEF Held, FromSource
  <2>8. QED BY <2>1, <2>3, <2>6, <2>7
<1>6. CASE StoreKind
  <2>1. /\ pc = "store" /\ UNCHANGED <<source, runtime>>
        /\ managed' = [managed EXCEPT ![Kinds[nth]] = runtime[Kinds[nth]]]
    BY <1>6 DEF StoreKind, Store
  <2>2. ASSUME NEW n \in Names, Held(n) \/ n = Kinds[nth] PROVE Held(n)'
    BY <1>b, <2>1, <2>2 DEF Held, Obtained, FromSource
  <2>3. \A i \in 1 .. nth : Held(Kinds[i])'
    BY <1>a, <1>b, <2>2
  <2>4. CASE nth < Len(Kinds) /\ nth' = nth + 1 /\ pc' = Before(Kinds[nth + 1])
    BY <1>a, <2>3, <2>4 DEF Before
  <2>5. CASE nth = Len(Kinds) /\ nth' = nth /\ pc' = "salt"
    <3>1. \A k \in KindSet : Held(k)'
      BY <2>3, <2>5, KindFacts DEF KindSet
    <3>2. QED BY <1>a, <2>3, <2>5, <3>1
  <2>6. QED BY <1>6, <2>4, <2>5 DEF StoreKind
<1>7. CASE Salt
  <2>1. /\ pc = "salt" /\ pc' = "store-salt" /\ UNCHANGED <<source, managed, nth>>
        /\ \A n \in Names \ {"salt"} : runtime'[n] = runtime[n]
    BY <1>7, <1>b DEF Salt, ReadSalt
  <2>2. runtime'["salt"] # None
    BY <1>7, <1>b, SecretsAssumption DEF Salt, ReadSalt, Exists, Fresh
  <2>3. \A k \in KindSet : Held(k) => Held(k)'
    BY <1>b, <2>1 DEF Held, Obtained, FromSource
  <2>4. QED BY <1>a, <2>1, <2>2, <2>3
<1>8. CASE StoreSalt
  <2>1. /\ pc = "store-salt" /\ pc' = "use" /\ UNCHANGED <<source, runtime, nth>>
        /\ managed' = [managed EXCEPT !["salt"] = runtime["salt"]]
    BY <1>8 DEF StoreSalt, Store
  <2>2. \A k \in KindSet : Held(k) => Held(k)'
    BY <1>b, <2>1 DEF Held, Obtained, FromSource
  <2>3. Held("salt")'
    BY <1>b, <2>1 DEF Held, Obtained, FromSource
  <2>4. QED BY <1>a, <2>1, <2>2, <2>3
<1>9. CASE Use
  BY <1>9 DEF Use, HandOver, Held, Obtained, FromSource
<1>10. CASE Ending
  BY <1>10, EndingForgets
<1>11. CASE Between
  BY <1>11 DEF Between
<1>12. QED
  BY <1>1, <1>2, <1>3, <1>4, <1>5, <1>6, <1>7, <1>8, <1>9, <1>10, <1>11
     DEF Next, Apply, Ending

-----------------------------------------------------------------------------
(* The directory, and what services rely on *)

LEMMA SecretInvStep ==
    TypeOK /\ StoredInv /\ SecretInv /\ ReliedOnKept /\ [Next]_vars
        => SecretInv' /\ ReliedOnKept'
<1> SUFFICES ASSUME TypeOK, StoredInv, SecretInv, ReliedOnKept, [Next]_vars
             PROVE  SecretInv' /\ ReliedOnKept'
  OBVIOUS
<1>a. /\ Kinds[nth] \in KindSet /\ Kinds[nth] \in Names
      /\ "salt" \in Names /\ "salt" \notin KindSet
  BY KindFacts DEF TypeOK
<1>b. /\ runtime \in [Names -> Values \cup {None}]
      /\ managed \in [Names -> Values \cup {None}]
      /\ relied \in [Names -> Random \cup {None}]
  BY DEF TypeOK, SecretsTypeOK
<1>c. python \in {"raises", "false"}
  BY SecretsAssumption DEF TypeOK, SecretsTypeOK
<1> USE DEF SecretInv, ReliedOnKept, SeesNothing, Goto, Keep, Stopped, Steps, SecretSteps
<1>1. CASE UNCHANGED vars
  BY <1>1 DEF vars, pkgVars, pkgLocals, secretVars, control
<1>2. CASE Start
  BY <1>2 DEF Start
<1>3. CASE Select \/ Update \/ Install
  BY <1>3 DEF Select, Update, Install, secretVars
<1>4. CASE Directory
  BY <1>4 DEF Directory, EnsureDirectory
<1>5. CASE Obtain
  <2>1. /\ pc = "obtain" /\ pc' = "store"
        /\ UNCHANGED <<python, invoker, dir, source, relied, blind>>
    BY <1>5 DEF Obtain, ReadSource, ReadManaged, Generate
  <2>2. ~blind /\ relied[Kinds[nth]] # None => ~Generate(Kinds[nth])
    BY <1>a, <1>b, <1>c, <2>1 DEF Generate, Exists, ExistsRaises, Hidden
  <2>3. ~blind => \A n \in Names : relied[n] # None => managed'[n] = managed[n]
    BY <1>5, <1>a, <1>b, <2>2 DEF Obtain, ReadSource, ReadManaged, Generate
  <2>4. QED BY <2>1, <2>3
<1>6. CASE StoreKind
  <2>1. /\ pc = "store" /\ UNCHANGED <<python, invoker, dir, source, runtime, blind>>
        /\ managed' = [managed EXCEPT ![Kinds[nth]] = runtime[Kinds[nth]]]
        /\ pc' \in {"directory", "obtain", "salt"}
    BY <1>6 DEF StoreKind, Store, Before
  <2>2. relied' = [relied EXCEPT ![Kinds[nth]] =
                     IF FromSource(Kinds[nth]) THEN None ELSE relied[Kinds[nth]]]
    BY <1>6 DEF StoreKind, Store, FromSource
  <2>3. ~FromSource(Kinds[nth]) => managed[Kinds[nth]] = runtime[Kinds[nth]]
    BY <2>1 DEF StoredInv, Held
  <2>4. QED BY <1>a, <1>b, <2>1, <2>2, <2>3
<1>7. CASE Salt
  <2>1. /\ pc = "salt" /\ pc' = "store-salt"
        /\ UNCHANGED <<python, invoker, dir, managed, relied, blind>>
    BY <1>7 DEF Salt, ReadSalt
  <2>2. ~blind /\ relied["salt"] # None => runtime'["salt"] = managed["salt"]
    BY <1>7, <1>a, <1>b, <1>c, <2>1 DEF Salt, ReadSalt, Exists, ExistsRaises, Hidden
  <2>3. QED BY <1>a, <2>1, <2>2
<1>8. CASE StoreSalt
  <2>1. /\ pc = "store-salt" /\ pc' = "use" /\ UNCHANGED <<python, invoker, dir, blind>>
        /\ managed' = [managed EXCEPT !["salt"] = runtime["salt"]]
        /\ relied'["salt"] = relied["salt"]
        /\ \A n \in Names : relied'[n] = relied[n]
    BY <1>8, <1>a, <1>b DEF StoreSalt, Store
  <2>2. QED BY <1>a, <1>b, <2>1
<1>9. CASE Use
  <2>1. \A n \in Names : managed[n] = runtime[n]
    BY <1>9, <1>a DEF Use, StoredInv, Held, Names
  <2>2. /\ pc = "use" /\ pc' = "finish"
        /\ UNCHANGED <<python, invoker, dir, managed, blind>>
        /\ \A n \in Names : relied'[n] # None => relied'[n] = runtime[n]
    BY <1>9 DEF Use, HandOver
  <2>3. QED BY <2>1, <2>2
<1>10. CASE Ending
  BY <1>10, EndingForgets
<1>11. CASE Between
  <2>1. pc' = "idle" /\ UNCHANGED blind
    BY <1>11 DEF Between
  <2>2. CASE DeleteSecret
    BY <1>b, <2>1, <2>2 DEF DeleteSecret
  <2>3. CASE UNCHANGED <<managed, relied>>
    BY <2>1, <2>3
  <2>4. QED BY <1>11, <2>2, <2>3 DEF Between, SetSource, OpenDirectory, secretVars
<1>12. QED
  BY <1>1, <1>2, <1>3, <1>4, <1>5, <1>6, <1>7, <1>8, <1>9, <1>10, <1>11
     DEF Next, Apply, Ending

-----------------------------------------------------------------------------
(* What was chosen, and what is installed *)

LEMMA CoversMore == ASSUME NEW P, NEW Q, Covers(P), P \subseteq Q PROVE Covers(Q)
BY DEF Covers

\* The choice depends on the index and the installed packages alone.
LEMMA SelectedSame ==
    ASSUME UNCHANGED <<index, installed, lists>>
    PROVE  Selected' = Selected /\ Selectable' = Selectable
BY DEF Selected, Selectable, Candidates, Probe

LEMMA PackageInvStep == TypeOK /\ PackageInv /\ [Next]_vars => PackageInv'
<1> SUFFICES ASSUME TypeOK, PackageInv, [Next]_vars PROVE PackageInv'
  OBVIOUS
<1> USE DEF PackageInv, Goto, PackagesDone, SecretSteps
<1>1. CASE UNCHANGED vars
  BY <1>1 DEF vars, pkgVars, pkgLocals, control, Covers
<1>2. CASE Start
  BY <1>2 DEF Start, Stopped
<1>3. CASE Select
  <2>1. /\ Covers(chosen)' /\ chosen' = Selected /\ missing' = Selected \ installed
        /\ installed' = installed
    BY <1>3, SelectedCovers DEF Select, SelectPackages, PackageInstalled, Covers
  <2>2. missing' = {} => Covers(installed)' /\ chosen' \subseteq installed'
    BY <2>1 DEF Covers
  <2>3. QED BY <1>3, <2>1, <2>2 DEF Select
<1>4. CASE Update
  BY <1>4 DEF Update, UpdateIndex, pkgLocals, Covers
<1>5. CASE Install
  <2>1. installed' = installed \cup missing /\ UNCHANGED <<chosen, missing>>
    BY <1>5 DEF Install, InstallMissing, Unpack, pkgLocals
  <2>2. chosen' \subseteq installed' /\ Covers(chosen)
    BY <1>5, <2>1 DEF Install
  <2>3. Covers(installed)'
    BY <2>1, <2>2 DEF Covers
  <2>4. QED BY <1>5, <2>2, <2>3 DEF Install
<1>6. CASE Directory \/ Obtain \/ StoreKind \/ Salt \/ StoreSalt \/ Use
  <2>1. UNCHANGED <<installed, chosen, missing>>
    BY <1>6 DEF Directory, Obtain, StoreKind, Salt, StoreSalt, Use, pkgVars, pkgLocals
  <2>2. pc \in {"directory"} \cup SecretSteps /\ pc' \in {"directory"} \cup SecretSteps
    BY <1>6 DEF Directory, Obtain, StoreKind, Before, Salt, StoreSalt, Use
  <2>3. QED BY <2>1, <2>2 DEF Covers
<1>7. CASE Finish
  BY <1>7 DEF Finish, Covers
<1>8. CASE Refuse \/ Deny \/ Abort \/ InstallFails \/ Between
  BY <1>8 DEF Refuse, Deny, Abort, InstallFails, Ends, Between
<1>9. QED
  BY <1>1, <1>2, <1>3, <1>4, <1>5, <1>6, <1>7, <1>8 DEF Next, Apply

-----------------------------------------------------------------------------
(* A settled host *)

\* What an apply that changes nothing leaves of a settled host.
LEMMA SettledStays ==
    ASSUME SettledInv, settled, ~blind,
           UNCHANGED <<index, installed, lists, dir, source, managed>>
    PROVE  /\ Selectable' /\ (Selected \subseteq installed)'
           /\ dir' = "private" /\ managed'["salt"] # None
           /\ \A k \in KindSet : managed'[k] # None /\ source'[k] \in {None, managed'[k]}
BY SelectedSame DEF SettledInv

\* The next step of an apply on a settled host finds everything in place.
LEMMA SettledStep ==
    ASSUME ProvisionInv, [Next]_vars, settled, ~blind, pc' # "idle"
    PROVE  /\ UNCHANGED <<index, installed, lists, dir, managed>>
           /\ UNCHANGED source
           /\ pc \in Steps => ~changed'
           /\ settled' => /\ pc' \in Steps => ~changed'
                          /\ pc' \notin {"update", "install"}
                          /\ pc' = "store" =>
                                /\ runtime'[Kinds[nth']] = managed'[Kinds[nth']]
                          /\ pc' = "store-salt" => runtime'["salt"] = managed'["salt"]
<1> USE DEF ProvisionInv, SettledInv, Goto, Mark
<1>a. Kinds[nth] \in KindSet /\ Kinds[nth] \in Names /\ "salt" \in Names /\ "salt" \notin KindSet
  BY KindFacts DEF TypeOK
<1>b. /\ runtime \in [Names -> Values \cup {None}]
      /\ managed \in [Names -> Values \cup {None}]
      /\ python \in {"raises", "false"}
  BY SecretsAssumption DEF TypeOK, SecretsTypeOK
<1>c. pc \in Stopped => ~changed
  BY DEF StoredInv
<1>d. pc \in SecretSteps => ~(Hidden /\ ~ExistsRaises)
  BY <1>b DEF SecretInv, SeesNothing, Hidden, ExistsRaises, SecretSteps, Steps
<1>1. CASE UNCHANGED vars
  BY <1>1 DEF vars, pkgVars, pkgLocals, secretVars, control
<1>2. CASE Start
  BY <1>2, <1>c DEF Start, pkgVars
<1>3. CASE Select
  BY <1>3 DEF Select, SelectPackages, PackageInstalled, secretVars, Steps
<1>4. CASE Update \/ Install
  BY <1>4 DEF Update, Install
<1>5. CASE Directory
  BY <1>5 DEF Directory, EnsureDirectory, pkgVars, Steps
<1>6. CASE Obtain
  <2>1. /\ pc = "obtain" /\ pc' = "store"
        /\ UNCHANGED <<index, installed, lists, dir, source, nth, changed>>
    BY <1>6 DEF Obtain, ReadSource, ReadManaged, Generate, pkgVars
  <2>2. ~Generate(Kinds[nth])
    BY <1>a, <1>d, <2>1 DEF Generate, Exists, SecretSteps
  <2>3. managed' = managed /\ runtime'[Kinds[nth]] = managed[Kinds[nth]]
    BY <1>6, <1>a, <1>b, <2>2 DEF Obtain, ReadSource, ReadManaged
  <2>4. QED BY <2>1, <2>3 DEF Steps
<1>7. CASE StoreKind
  <2>1. managed' = managed
    BY <1>7, <1>a, <1>b DEF StoreKind, Store
  <2>2. QED BY <1>7, <2>1 DEF StoreKind, Store, Before, pkgVars, Steps
<1>8. CASE Salt
  <2>1. runtime'["salt"] = managed["salt"]
    BY <1>8, <1>a, <1>b, <1>d DEF Salt, ReadSalt, Exists, SecretSteps
  <2>2. QED BY <1>8, <2>1 DEF Salt, ReadSalt, pkgVars, Steps
<1>9. CASE StoreSalt
  <2>1. managed' = managed
    BY <1>9, <1>a, <1>b DEF StoreSalt, Store
  <2>2. QED BY <1>9, <2>1 DEF StoreSalt, Store, pkgVars, Steps
<1>10. CASE Use
  BY <1>10 DEF Use, HandOver, pkgVars, Steps
<1>11. CASE Finish
  BY <1>11 DEF Finish, Forget, Steps
<1>12. CASE Refuse \/ Deny \/ Abort \/ InstallFails
  <2>1. pc \notin {"update", "install"}
    OBVIOUS
  <2>2. QED
    BY <1>12, <2>1
       DEF Refuse, Deny, Abort, InstallFails, Ends, Forget, NothingInstalled
<1>13. CASE Between
  BY <1>13 DEF Between
<1>14. QED
  BY <1>1, <1>2, <1>3, <1>4, <1>5, <1>6, <1>7, <1>8, <1>9, <1>10, <1>11, <1>12, <1>13
     DEF Next, Apply

LEMMA SettledInvStep == ProvisionInv /\ [Next]_vars => SettledInv'
<1> SUFFICES ASSUME ProvisionInv, [Next]_vars PROVE SettledInv'
  OBVIOUS
<1>0. pc' = "idle" => ~settled'
  BY DEF ProvisionInv, SettledInv, Next, Apply, vars, control, Start, Select, Update,
         Install, Directory, Obtain, StoreKind, Before, Salt, StoreSalt, Use, Finish,
         Refuse, Deny, Abort, InstallFails, Ends, Between, Goto
<1> SUFFICES ASSUME settled', ~blind' PROVE SettledInv'
  BY <1>0 DEF SettledInv
<1>a. ~blind
  BY DEF Next, Apply, vars, control, Start, Select, Update, Install, Directory, Obtain,
         StoreKind, Salt, StoreSalt, Use, Finish, Refuse, Deny, Abort, InstallFails, Ends,
         Between, Keep
<1>1. CASE Finish
  <2>1. /\ pc = "finish" /\ pc' = "ok" /\ Selectable /\ Selected = chosen
        /\ UNCHANGED <<index, installed, lists, dir, source, managed>>
    BY <1>1 DEF Finish, Goto
  <2>2. chosen \subseteq installed /\ dir = "private"
    BY <2>1 DEF ProvisionInv, PackageInv, SecretInv, SecretSteps
  <2>3. \A k \in KindSet : managed[k] # None /\ source[k] \in {None, managed[k]}
    BY <2>1 DEF ProvisionInv, StoredInv, Held, Obtained, FromSource
  <2>4. managed["salt"] # None
    BY <2>1 DEF ProvisionInv, StoredInv, Held, Obtained
  <2>5. Selectable' /\ (Selected \subseteq installed)'
    BY <2>1, <2>2, SelectedSame
  <2>6. QED BY <2>1, <2>2, <2>3, <2>4, <2>5 DEF SettledInv, Steps
<1>2. CASE ~Finish
  <2>1. (settled /\ pc # "idle" /\ pc' # "idle") \/ UNCHANGED vars
    BY <1>2 DEF ProvisionInv, SettledInv, Next, Apply, vars, Start, Select, Update,
         Install, Directory, Obtain, StoreKind, Before, Salt, StoreSalt, Use, Refuse, Deny,
         Abort, InstallFails, Ends, Between, Keep, Goto
  <2>2. CASE UNCHANGED vars
    <3>1. UNCHANGED <<index, installed, lists, dir, source, managed, runtime, pc, nth,
                      changed, settled>>
      BY <2>2 DEF vars, pkgVars, secretVars, control
    <3>2. Selectable' = Selectable /\ Selected' = Selected
      BY <3>1, SelectedSame
    <3>3. QED BY <3>1, <3>2, <1>a DEF ProvisionInv, SettledInv
  <2>3. CASE settled /\ pc # "idle" /\ pc' # "idle"
    <3>1. UNCHANGED <<index, installed, lists, dir, source, managed>>
      BY <1>a, <2>3, SettledStep
    <3>2. /\ Selectable' /\ (Selected \subseteq installed)'
          /\ dir' = "private" /\ managed'["salt"] # None
          /\ \A k \in KindSet : managed'[k] # None /\ source'[k] \in {None, managed'[k]}
      BY <1>a, <2>3, <3>1, SettledStays DEF ProvisionInv
    <3>3. QED BY <1>a, <2>3, <3>2, SettledStep DEF SettledInv
  <2>4. QED BY <2>1, <2>2, <2>3
<1>3. QED BY <1>1, <1>2

-----------------------------------------------------------------------------
(* The theorems *)

LEMMA Invariance == Spec => []ProvisionInv
<1>1. ProvisionInv /\ [Next]_vars => ProvisionInv'
  BY TypeOKStep, StoredInvStep, SecretInvStep, PackageInvStep, SettledInvStep
     DEF ProvisionInv
<1>2. QED BY InitOK, <1>1, PTL DEF Spec

\* Every step of apply finds the value it works with in place: what _runtime, the chosen
\* packages and the files below the secrets directory may be, whatever interrupted the
\* applies before.
THEOREM TypeCorrect == Spec => []TypeOK
BY Invariance, PTL DEF ProvisionInv

\* _ensure_packages leaves a complete alternative of every group installed, for all
\* groups and whatever the servers and the index do meanwhile.
THEOREM PackagesAlwaysProvided == Spec => []PackagesProvided
<1>1. ProvisionInv => PackagesProvided
  BY DEF ProvisionInv, PackageInv, PackagesProvided, PackagesDone, SecretSteps, Covers,
         Provided
<1>2. QED BY Invariance, <1>1, PTL

\* _read_or_create_secret and _ensure_secrets never replace a generated value that
\* services rely on, for any number of passwords, retries and interruptions.
THEOREM ReliedOnAlwaysKept == Spec => []ReliedOnKept
BY Invariance, PTL DEF ProvisionInv

\* Nothing is written below the secrets directory before ensure_directory has closed it
\* in the same apply.
THEOREM SecretsWrittenInPrivate == Spec => WrittenInPrivate
<1>1. ProvisionInv /\ [Next]_vars
        => [(\E n \in Names : managed'[n] \notin {managed[n], None}) => dir = "private"]_vars
  <2> SUFFICES ASSUME ProvisionInv, [Next]_vars,
                      NEW n \in Names, managed'[n] \notin {managed[n], None}
               PROVE  dir = "private"
    OBVIOUS
  <2>1. managed \in [Names -> Values \cup {None}]
    BY DEF ProvisionInv, TypeOK, SecretsTypeOK
  <2>2. pc \in SecretSteps \/ managed' = managed \/ DeleteSecret
    BY DEF Next, Apply, vars, secretVars, SecretSteps, Goto, Start, Select, Update, Install,
           Directory, EnsureDirectory, Obtain, StoreKind, Salt, StoreSalt, Use, HandOver,
           Finish, Refuse, Deny, Abort, InstallFails, Ends, Between, SetSource,
           OpenDirectory
  <2>3. ~DeleteSecret
    BY <2>1 DEF DeleteSecret
  <2>4. QED BY <2>2, <2>3 DEF ProvisionInv, SecretInv
<1>2. QED BY Invariance, <1>1, PTL DEF Spec, WrittenInPrivate

\* An apply of a settled host selects the packages it has, reads back every password and
\* the salt, and reports no change, for all groups and passwords.
THEOREM SettledChangesNothing == Spec => SettledNoOp
<1>1. ProvisionInv /\ [Next]_vars
        => [settled /\ pc # "idle" /\ pc' # "idle" /\ ~blind =>
              /\ UNCHANGED <<index, installed, dir, managed>>
              /\ pc \in Steps => ~changed']_vars
  BY SettledStep
<1>2. QED BY Invariance, <1>1, PTL DEF Spec, SettledNoOp

=================================================================================
