-------------------------- MODULE MCAssetInventory --------------------------
EXTENDS AssetInventory, TLC

CONSTANTS g1, g2

\* Two games of different systems under one id, as unscraped games of one
\* file name are.
SharedId == (g1 :> 1) @@ (g2 :> 1)
OneGame == {g1}
Systems == (g1 :> "s1") @@ (g2 :> "s2")
=============================================================================
