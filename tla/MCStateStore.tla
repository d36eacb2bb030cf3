----------------------------- MODULE MCStateStore -----------------------------
(* StateStore for TLC.  Processes and inodes are interchangeable: no action    *)
(* or invariant names one, so the safety runs may use the symmetry.            *)
EXTENDS StateStore, TLC

Symmetry == Permutations(Procs) \cup Permutations(Inodes)
=============================================================================
