----------------------------- MODULE MCFileInstall -----------------------------
(* FileInstall for TLC.  No action or property tells one version from another.  *)
EXTENDS FileInstall, TLC

Symmetry == Permutations(Versions)
=============================================================================
