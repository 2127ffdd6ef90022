----------------------------- MODULE MCAssetCache -----------------------------
(***************************************************************************)
(* An instance of AssetCache for TLC: of four versions, the second cannot  *)
(* be told from the first by time stamp and size.                          *)
(***************************************************************************)
EXTENDS AssetCache

MCLook == [v \in Versions |-> IF v = 0 THEN 0 ELSE v - 1]
===============================================================================
