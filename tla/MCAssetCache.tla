---------------------------- MODULE MCAssetCache ----------------------------
(***************************************************************************)
(* Two builds of the file, or none; a page that shows a secret or not.     *)
(***************************************************************************)
EXTENDS AssetCache, TLC

Symmetry == Permutations(Bodies)
=============================================================================
