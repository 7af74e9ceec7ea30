--------------------------- MODULE MCAssetLifecycle ---------------------------
(* TLC instances of AssetLifecycle. *)
EXTENDS AssetLifecycle, TLC

AllOps == DOMAIN Plan
InsiderSymmetry == Permutations(Insiders)
=============================================================================
