----------------------------- MODULE TokenBucket -----------------------------
(***************************************************************************)
(* What Limiter promises (src/ratelimit.go, doc of Limiter and Allow): one *)
(* token bucket per key that never forgets anything, up to the rounding of *)
(* one computation per call (BucketParams).                                *)
(***************************************************************************)
EXTENDS BucketParams, Sequences

VARIABLES
  now,      \* the clock, in ticks
  level,    \* level[k]: units available to k, before rounding and the cap
  grants,   \* grants[k]: when k's requests were admitted, oldest first
  answer    \* answer[k]: what the last Allow(k) returned, and when

bucketVars == <<now, level, grants, answer>>

BucketTypeOK ==
  /\ now \in Nat
  /\ level \in [Keys -> 0 .. Full]
  /\ grants \in [Keys -> Seq(Nat)]
  /\ answer \in [Keys -> Answers]

BucketInit ==
  /\ now = 0
  /\ level = [k \in Keys |-> Burst]
  /\ grants = [k \in Keys |-> <<>>]
  /\ answer = [k \in Keys |-> [ok |-> TRUE, retry |-> 0, at |-> 0]]

Refill ==
  /\ now < MaxTime
  /\ now' = now + 1
  /\ level' = [k \in Keys |-> AtMost(Full, level[k] + Rate)]
  /\ UNCHANGED <<grants, answer>>

\* What a call may find in the bucket: there is a sum to round only when time has
\* passed since the last call of its key.
Spendable(k) == IF now = answer[k].at THEN {level[k]} ELSE Rounded(level[k])

Admit(k) ==
  /\ \E units \in Spendable(k) :
       units >= Token /\ level' = [level EXCEPT ![k] = units - Token]
  /\ grants' = [grants EXCEPT ![k] = Append(grants[k], now)]
  /\ answer' = [answer EXCEPT ![k] = [ok |-> TRUE, retry |-> 0, at |-> now]]
  /\ UNCHANGED now

Deny(k) ==
  /\ \E units \in Spendable(k) : \E wait \in Waits(units) :
       /\ units < Token
       /\ level' = [level EXCEPT ![k] = units]
       /\ answer' = [answer EXCEPT ![k] = [ok |-> FALSE, retry |-> wait, at |-> now]]
  /\ UNCHANGED <<now, grants>>

BucketNext == Refill \/ \E k \in Keys : Admit(k) \/ Deny(k)

BucketSpec == BucketInit /\ [][BucketNext]_bucketVars

-----------------------------------------------------------------------------
\* No key is ever admitted more often than its rate and its burst allow: the
\* requests admitted in any window fit in Burst plus what the window refills, if
\* every tick of it gains by one rounding.
Conformance ==
  \A k \in Keys : \A j \in 1 .. Len(grants[k]) : \A i \in 1 .. j :
    (j - i + 1) * Token <= Burst + (Rate + Slack) * (grants[k][j] - grants[k][i])

\* retryAfter is honest: the next call for the key is denied while that time
\* has not passed, and admitted once it has, give or take the tick that the
\* truncation loses and one for the rounding.
HonestStep ==
  \A k \in Keys :
    (answer[k].ok = FALSE /\ answer'[k] # answer[k]) =>
      /\ now < answer[k].at + answer[k].retry => answer'[k].ok = FALSE
      /\ now > answer[k].at + answer[k].retry + 1 => answer'[k].ok = TRUE

RetryHonest == [][HonestStep]_bucketVars
=============================================================================
