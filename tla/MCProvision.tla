----------------------------- MODULE MCProvision -----------------------------
(* Provision for TLC: one group like the Docker packages of Debian, whose first *)
(* alternative may appear later.                                                *)
EXTENDS Provision, TLC

CONSTANTS docker, composeV2, plugin, s1, g1, g2, g3

MCGroups == << << {docker, composeV2}, {docker, plugin} >> >>
MCRepos == { {docker, plugin}, {docker, composeV2} }
MCKinds == <<"vnc", "db">>
MCSources == [k \in {"vnc", "db"} |-> IF k = "vnc" THEN {None} ELSE {None, s1, Refused}]
MCRandom == {g1, g2, g3}

Symmetry == Permutations(MCRandom)
=============================================================================
