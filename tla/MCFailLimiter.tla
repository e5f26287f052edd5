---------------------------- MODULE MCFailLimiter ----------------------------
(***************************************************************************)
(* Two clients and a proxy, each of which can be blocked, for a map of two *)
(* entries, so evictions happen; two handlers so that verdicts go stale.   *)
(***************************************************************************)
EXTENDS Login, TLC

MCKeys == Addresses

Symmetry == Permutations(Hosts \ Proxies) \cup Permutations(Workers)
=============================================================================
