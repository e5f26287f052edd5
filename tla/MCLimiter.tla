------------------------------ MODULE MCLimiter ------------------------------
(***************************************************************************)
(* Two keys and a slow limiter: a bucket needs longer to refill than       *)
(* MinIdleEvict, Rate divides neither Burst nor Token, every computation   *)
(* may round by a unit either way, and RefillTime is the tick short that   *)
(* rounding and truncation can make it.  The keys are interchangeable and  *)
(* every property checked is a safety property.                            *)
(***************************************************************************)
EXTENDS Limiter, TLC

Symmetry == Permutations(Keys)
=============================================================================
