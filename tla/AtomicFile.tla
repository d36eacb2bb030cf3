------------------------------ MODULE AtomicFile ------------------------------
(***************************************************************************)
(* What AtomicFileInstaller promises of a managed file: it is always absent *)
(* or whole, and the installer replaces it only once what it held is kept   *)
(* in a backup (or was its own rendering).  A power failure may undo the    *)
(* latest of its steps, but together: file and backups come back as they    *)
(* were at one moment.  Its promise does not reach a version that somebody  *)
(* else puts there while an install is under way.                           *)
(***************************************************************************)
CONSTANTS
    Versions,   \* whole file versions: content, mode and owner
    Missing     \* the file does not exist

VARIABLES
    target,   \* the version the path names
    kept,     \* versions held in backup files
    past,     \* the earlier states of both that a power failure may bring back
    fresh,    \* the target was created where nothing was, and is on trial
    own,      \* the version somebody else last put there
    unseen    \* "yes": the install under way does not know own; "lost": it put
              \* a version over it

fileVars == <<target, kept, past, fresh, own, unseen>>

FileInit ==
    /\ target \in Versions \cup {Missing} /\ own = target
    /\ kept = {} /\ past = {} /\ fresh = FALSE /\ unseen = "no"

Covered == unseen' = IF unseen = "yes" THEN "lost" ELSE unseen

\* What the installer takes the target to be.
Known == {target} \cup (IF unseen = "yes" THEN Versions ELSE {})

\* A backup of the current version appears.
Keep == /\ \E v \in Known \ {Missing} : kept' = kept \cup {v}
        /\ UNCHANGED <<target, fresh, own, unseen>>

\* The installer puts v in place of nothing, or of a version it has kept.
Put(v) == /\ target \in kept \cup {Missing}
          /\ target' = v
          /\ fresh' = (target = Missing)
          /\ UNCHANGED <<kept, own, unseen>>

\* Or it overtakes an edit.
PutOver(v) == /\ unseen = "yes" /\ unseen' = "lost"
              /\ target' = v /\ fresh' \in BOOLEAN
              /\ UNCHANGED <<kept, own>>

\* The trial of a new version ends, in its favour or by the installer's death.
Settle == fresh' = FALSE /\ UNCHANGED <<target, kept, own, unseen>>

\* A kept version comes back.
PutBack(v) == /\ v \in kept
              /\ target' = v
              /\ kept' \in {kept, kept \ {v}}
              /\ fresh' = FALSE /\ Covered
              /\ UNCHANGED own

\* Only a file on trial, created where nothing was, is ever removed.
Remove == /\ fresh /\ target' = Missing /\ fresh' = FALSE /\ Covered
          /\ UNCHANGED <<kept, own>>

\* Somebody else edits or removes the file.
Edit == /\ own' \in Versions \cup {Missing} /\ target' = own'
        /\ unseen' \in {"no", "yes"}
        /\ UNCHANGED <<kept, fresh>>

\* The installer looks at what is there.
Look == unseen = "yes" /\ unseen' = "no" /\ UNCHANGED <<target, kept, fresh, own>>

\* What was done is on disk.
Sync == UNCHANGED <<target, kept, fresh, own, unseen>>

Here == [target |-> target, backups |-> kept]

\* An earlier moment comes back, as a whole.
PowerFails ==
    /\ \E d \in past \cup {Here} : target' = d.target /\ kept' = d.backups
    /\ past' = {} /\ fresh' = FALSE
    /\ UNCHANGED <<own, unseen>>

FileNext ==
    \/ PowerFails
    \/ /\ past' \subseteq past \cup {Here}
       /\ \/ Keep \/ Settle \/ Remove \/ Edit \/ Look \/ Sync
          \/ \E v \in Versions : Put(v) \/ PutOver(v) \/ PutBack(v)

FileSpec == FileInit /\ [][FileNext]_fileVars
=============================================================================
