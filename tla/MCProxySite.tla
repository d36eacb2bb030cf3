----------------------------- MODULE MCProxySite ------------------------------
(* ProxySite for TLC.  Valid sites are interchangeable.                         *)
EXTENDS ProxySite, TLC

Symmetry == Permutations(ValidSites)
=============================================================================
