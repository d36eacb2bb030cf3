--------------------------- MODULE MCGuacamoleStack ---------------------------
(* GuacamoleStack for TLC.  Values of one kind are interchangeable, except that  *)
(* only some service definitions are valid.                                      *)
EXTENDS GuacamoleStack, TLC

Symmetry ==
    Permutations(Passwords) \cup Permutations(AdminPws) \cup Permutations(VncPws)
      \cup Permutations(Listeners) \cup Permutations(ValidSvcs)
=============================================================================
