----------------------------- MODULE MCLifecycle -----------------------------
(***************************************************************************)
(* A web server and its redirect server, the pair RunTLS starts, each with *)
(* two connection slots.                                                   *)
(***************************************************************************)
EXTENDS Lifecycle
=============================================================================
