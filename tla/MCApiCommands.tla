--------------------------- MODULE MCApiCommands ----------------------------
(* Instances of ApiCommands for TLC: a campaign and an ad set in it.       *)
EXTENDS ApiCommands, TLC

CONSTANTS camp, set, p1, p2, k1, k2

CampaignAndSet == (camp :> "campaign") @@ (set :> "ad_set")

SetInCampaign == (camp :> {}) @@ (set :> {camp})

Symmetric == Permutations(Processes) \cup Permutations(Creatives)

(* What the .cfg files name.  TLC sorts the value of a definition before    *)
(* its workers share it, and not one that is written where a .cfg points.  *)
TheType == CampaignAndSet
TheAbove == SetInCampaign
=============================================================================
