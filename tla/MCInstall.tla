----------------------------- MODULE MCInstall ------------------------------
(* Instances of Install for TLC: two releases that share a skill; the      *)
(* second has dropped the other one, so that going from one release to the *)
(* other adds a skill or removes it.                                       *)
EXTENDS Install

CONSTANTS v1, v2

TwoSkills == {1, 2}

TwoReleases == [v \in Versions |-> IF v = v1 THEN {1, 2} ELSE {1}]

(* What the .cfg files name.  TLC sorts the value of a definition before    *)
(* its workers share it, and not one that is written where a .cfg points.  *)
TheSkills == TwoSkills
TheSkillsOf == TwoReleases
=============================================================================
