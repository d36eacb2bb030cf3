----------------------------- MODULE MCVncService -----------------------------
(* VncService for TLC: values of one kind are interchangeable.                 *)
EXTENDS VncService, TLC

Symmetry ==
    Permutations(Passwords) \cup Permutations(Confs) \cup Permutations(Units)
=============================================================================
