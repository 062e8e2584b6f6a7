---------------------------- MODULE MCStateStore ----------------------------
(* Instances of StateStore for TLC.                                        *)
EXTENDS StateStore, TLC

Symmetric == Permutations(Ids) \cup Permutations(Sessions)
=============================================================================
