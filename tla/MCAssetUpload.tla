--------------------------- MODULE MCAssetUpload ----------------------------
(* Instances of AssetUpload for TLC.                                       *)
EXTENDS AssetUpload, TLC

Symmetric == Permutations(Processes) \cup Permutations(RemoteIds)
=============================================================================
