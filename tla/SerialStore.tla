----------------------------- MODULE SerialStore -----------------------------
(***************************************************************************)
(* What executor.py promises of its state file, independently of flock:    *)
(* installers are inside one at a time, only the one inside writes, and    *)
(* what has been saved stays readable, as the current record or as the     *)
(* backup of an earlier one.  The promise lasts until the lock breaks:     *)
(* from then on nothing is said.                                           *)
(***************************************************************************)
CONSTANTS
    Procs,     \* installer processes that use the store
    Records,   \* what they may save
    NoRecord   \* nothing is saved yet

VARIABLES
    inside,   \* the processes between lock() and its release
    current,  \* the record that was saved last
    held,     \* every record that can still be read
    broken    \* the lock no longer excludes

storeVars == <<inside, current, held, broken>>

StoreInit == inside = {} /\ current = NoRecord /\ held = {} /\ broken = FALSE

Enter(p) == inside = {} /\ inside' = {p} /\ UNCHANGED <<current, held>>

Update(p) == /\ inside = {p}
             /\ \E r \in Records : current' = r /\ held' = held \cup {r}
             /\ UNCHANGED inside

\* Release, or the death of the process: what it saved stays.
Leave(p) == inside = {p} /\ inside' = {} /\ UNCHANGED <<current, held>>

\* The lock breaks, or is broken: anything may have happened to the store.
Broken == broken' = TRUE

StoreNext ==
    \/ Broken
    \/ ~broken /\ ~broken' /\ \E p \in Procs : Enter(p) \/ Update(p) \/ Leave(p)

StoreSpec == StoreInit /\ [][StoreNext]_storeVars
=============================================================================
