----------------------------- MODULE SecretFiles -----------------------------
(***************************************************************************)
(* The secrets directory (planner.py, _ensure_secrets and the first part of *)
(* _ensure_vnc): passwords that are imported from files the operator names, *)
(* read back from the managed copy, or generated, and the salt of the       *)
(* administrator's password hash.  The steps are relations on the variables *)
(* of this module; Provision orders them.                                   *)
(*                                                                          *)
(* A secret is one value, with its file's content compared as a whole.      *)
(***************************************************************************)
EXTENDS Naturals, Sequences

CONSTANTS
    Kinds,      \* sequence of the passwords of the plan: "vnc", "db", "admin"
    Sources,    \* Sources[k]: what the configuration may name as source of k
    Random,     \* values the generator may draw
    None,       \* no source, no file, no value
    Refused,    \* a source _read_secret_file or the validation refuses
    Invokers,   \* "root", "user": who runs the installer
    Pythons     \* Path.exists() in a directory one may not search: "raises"
                \* PermissionError, or is "false" (from Python 3.14 on)

KindSet == {Kinds[i] : i \in DOMAIN Kinds}
Names == KindSet \cup {"salt"}
AllSources == UNION {Sources[k] : k \in KindSet}
Values == Random \cup (AllSources \ {None, Refused})

ASSUME KindsAssumption == Kinds # <<>> /\ Kinds \in Seq({"vnc", "db", "admin"})
ASSUME SecretsAssumption ==
    /\ None \notin Values \cup {"private", "open"} /\ Random \cap {None, Refused} = {}
    /\ Invokers \subseteq {"root", "user"} /\ Pythons \subseteq {"raises", "false"}

VARIABLES
    python,     \* the interpreter
    invoker,    \* of the running apply
    dir,        \* <install_root>/secrets: None, "private" (0700 root) or "open"
    source,     \* source[k]: the configured password file of k
    managed,    \* managed[n]: the file below the secrets directory
    runtime,    \* runtime[n]: the value this apply works with (_runtime)
    relied      \* history: the generated value that services were given, until the
                \* operator deletes the managed file or imports another

secretVars == <<python, invoker, dir, source, managed, runtime, relied>>

SecretsTypeOK ==
    /\ python \in Pythons /\ invoker \in Invokers
    /\ dir \in {None, "private", "open"}
    /\ source \in [KindSet -> AllSources]
    /\ \A k \in KindSet : source[k] \in Sources[k]
    /\ managed \in [Names -> Values \cup {None}]
    /\ runtime \in [Names -> Values \cup {None}]
    /\ relied \in [Names -> Random \cup {None}]
    /\ dir = None => \A n \in Names : managed[n] = None

Nothing == [n \in Names |-> None]

SecretsInit ==
    /\ python \in Pythons /\ invoker \in Invokers
    /\ dir = None
    /\ source \in [KindSet -> AllSources]
    /\ \A k \in KindSet : source[k] \in Sources[k]
    /\ managed = Nothing /\ runtime = Nothing /\ relied = Nothing

-----------------------------------------------------------------------------
(* Helpers *)

\* The invoker may not search the directory; ensure_directory, read_file and
\* install_file then go through sudo, Path.exists() does not.
Hidden == invoker = "user" /\ dir = "private"

\* managed.exists(), where it returns.
Exists(n) == managed[n] # None /\ ~Hidden

\* Path.exists() raises PermissionError.
ExistsRaises == Hidden /\ python = "raises"

Fresh(n) == Random \ {managed[n], relied[n]}

-----------------------------------------------------------------------------
(* Steps *)

\* Faulty variant: the directory is expected to exist.
EnsureOmitted == UNCHANGED secretVars

\* Faulty variant: a directory that exists is not looked at.
EnsureIfAbsent ==
    /\ dir' = IF dir = None THEN "private" ELSE dir
    /\ UNCHANGED <<python, invoker, source, managed, runtime, relied>>

\* ensure_directory(secrets, 0700, root, root).
EnsureDirectory ==
    /\ dir' = "private"
    /\ UNCHANGED <<python, invoker, source, managed, runtime, relied>>

\* _read_or_create_secret with a source other than the managed file.
ReadSource(k) ==
    /\ source[k] \notin {None, Refused}
    /\ runtime' = [runtime EXCEPT ![k] = source[k]]
    /\ UNCHANGED <<python, invoker, dir, source, managed, relied>>

\* The managed file of an earlier apply.
ReadManaged(k) ==
    /\ source[k] = None /\ ~ExistsRaises /\ Exists(k)
    /\ runtime' = [runtime EXCEPT ![k] = managed[k]]
    /\ UNCHANGED <<python, invoker, dir, source, managed, relied>>

\* Faulty variant: the managed file is not looked for.
GenerateAlways(k) ==
    /\ source[k] = None
    /\ \E v \in Fresh(k) :
        /\ runtime' = [runtime EXCEPT ![k] = v]
        /\ managed' = [managed EXCEPT ![k] = v]
    /\ UNCHANGED <<python, invoker, dir, source, relied>>

\* A new password, installed at once.
Generate(k) ==
    /\ source[k] = None /\ ~ExistsRaises /\ ~Exists(k)
    /\ \E v \in Fresh(k) :
        /\ runtime' = [runtime EXCEPT ![k] = v]
        /\ managed' = [managed EXCEPT ![k] = v]
    /\ UNCHANGED <<python, invoker, dir, source, relied>>

\* install_file of the value read: imports what came from a source.
Store(n) ==
    /\ managed' = [managed EXCEPT ![n] = runtime[n]]
    /\ relied' = [relied EXCEPT ![n] =
                    IF n \in KindSet /\ source[n] # None THEN None ELSE @]
    /\ UNCHANGED <<python, invoker, dir, source, runtime>>

\* Faulty variant: a new salt for every apply.
DrawSalt ==
    /\ ~ExistsRaises
    /\ \E v \in Fresh("salt") : runtime' = [runtime EXCEPT !["salt"] = v]
    /\ UNCHANGED <<python, invoker, dir, source, managed, relied>>

\* The salt has no source, and is not written before Store.
ReadSalt ==
    /\ ~ExistsRaises
    /\ \/ Exists("salt") /\ runtime' = [runtime EXCEPT !["salt"] = managed["salt"]]
       \/ /\ ~Exists("salt")
          /\ \E v \in Fresh("salt") : runtime' = [runtime EXCEPT !["salt"] = v]
    /\ UNCHANGED <<python, invoker, dir, source, managed, relied>>

\* Later steps give the values to the VNC server, the database and Guacamole.
HandOver ==
    /\ relied' = [n \in Names |-> IF runtime[n] \in Random THEN runtime[n] ELSE None]
    /\ UNCHANGED <<python, invoker, dir, source, managed, runtime>>

-----------------------------------------------------------------------------
(* Between two applies: the operator *)

SetSource ==
    /\ \E k \in KindSet : \E s \in Sources[k] \ {source[k]} :
        source' = [source EXCEPT ![k] = s]
    /\ UNCHANGED <<python, invoker, dir, managed, runtime, relied>>

OpenDirectory ==
    /\ dir = "private" /\ dir' = "open"
    /\ UNCHANGED <<python, invoker, source, managed, runtime, relied>>

DeleteSecret ==
    /\ \E n \in Names :
        /\ managed[n] # None
        /\ managed' = [managed EXCEPT ![n] = None]
        /\ relied' = [relied EXCEPT ![n] = None]
    /\ UNCHANGED <<python, invoker, dir, source, runtime>>
=============================================================================
