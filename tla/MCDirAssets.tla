----------------------------- MODULE MCDirAssets -----------------------------
(***************************************************************************)
(* Two calls that share the cache, two bodies and three edits: a version,  *)
(* its replacement, and a return to the first body under a new stamp.      *)
(* Calls and bodies are interchangeable.                                   *)
(***************************************************************************)
EXTENDS DirAssets, TLC

Symmetry == Permutations(Calls) \cup Permutations(Bodies)
=============================================================================
