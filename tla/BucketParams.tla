----------------------------- MODULE BucketParams -----------------------------
(***************************************************************************)
(* The parameters of NewLimiter (src/ratelimit.go), shared by what Limiter *)
(* promises (TokenBucket) and by what it does (Limiter).  Tokens are       *)
(* counted in units: a bucket gains Rate units per tick of the clock up to *)
(* Burst units, and a request costs Token units.                           *)
(*                                                                         *)
(* The code computes in float64.  Slack bounds what one computation of a   *)
(* call may be off by (a few units in the last place of Burst): a refill   *)
(* gives any number of units within Slack of the exact sum, and the exact  *)
(* sum only by luck.  Taking a token from a bucket that has one is exact,  *)
(* and so is the cap.                                                      *)
(***************************************************************************)
EXTENDS Integers

CONSTANTS Keys,
          Rate, Token, Burst,   \* units per tick, per request, at most
          Slack,                \* units: the rounding of one computation
          MaxTime               \* bound: the clock stops here

\* NewLimiter panics unless the rate is positive and the burst a token or more.
\* A tick (a nanosecond) refills more than a computation rounds away.
ASSUME BucketAssumption ==
  /\ Rate \in Nat \ {0} /\ Token \in Nat \ {0}
  /\ Burst \in Nat /\ Burst >= Token
  /\ Slack \in Nat /\ 2 * Slack < Rate
  /\ MaxTime \in Nat

AtMost(a, b) == IF a < b THEN a ELSE b

\* A bucket that would hold this much but for the cap is full, however it rounds.
Full == Burst + Slack

\* What the float64 sum, capped by min, may be when it is exactly "sum".
Rounded(sum) ==
  {units \in 0 .. Burst :
     /\ units <= sum + Slack
     /\ units >= sum - Slack \/ units = Burst}

\* What a denied caller may be told to wait: ticks until its bucket holds a token,
\* rounded and then truncated, as the conversion to a Duration does.
Waits(units) ==
  {w \in 0 .. Token :
     /\ w * Rate <= Token - units + Slack
     /\ Token - units - Slack < (w + 1) * Rate}

\* What Allow returned, and when: its two results and the clock.
Answers == [ok : BOOLEAN, retry : Nat, at : Nat]
=============================================================================
