------------------------------- MODULE Limiter -------------------------------
(***************************************************************************)
(* Limiter of src/ratelimit.go: buckets created on first use, refilled     *)
(* lazily when their key asks again, and dropped by a sweep that runs      *)
(* inside Allow.  Allow holds the mutex from its first line to its last    *)
(* and reads the clock under it, so a call is one action.                  *)
(*                                                                         *)
(* float64 tokens are integer units and every computation on them rounds   *)
(* (see BucketParams).  Durations are assumed to fit their int64.          *)
(* Operators whose names start with M are faulty variants of the           *)
(* definition after them, used only by the mutants of PROJECT.json.        *)
(***************************************************************************)
EXTENDS BucketParams, Sequences

CONSTANTS SweepInterval, MinIdleEvict,   \* ticks
          RefillTime   \* ticks: burst/rate as a Duration, rounded and truncated

\* RefillTime is no tick too short, but for its rounding.
ASSUME LimiterAssumption ==
  /\ SweepInterval \in Nat \ {0} /\ MinIdleEvict \in Nat
  /\ RefillTime \in Nat /\ Burst <= (RefillTime + 1) * Rate + Slack

VARIABLES
  now,
  buckets,     \* the map: a function on the keys that have a bucket
  lastSweep,
  grants, answer,  \* history: what Allow returned
  left             \* history: what the last call for a key left in its bucket

vars == <<now, buckets, lastSweep, grants, answer, left>>

Bucket == [tokens : 0 .. Burst, last : Nat]

TypeOK ==
  /\ now \in Nat
  /\ DOMAIN buckets \subseteq Keys
  /\ \A k \in DOMAIN buckets : buckets[k] \in Bucket /\ buckets[k].last <= now
  /\ lastSweep \in Int /\ lastSweep <= now
  /\ grants \in [Keys -> Seq(Nat)]
  /\ answer \in [Keys -> Answers]
  /\ left \in [Keys -> 0 .. Burst]

\* The zero time of lastSweep is far in the past: the first Allow sweeps.
Init ==
  /\ now = 0
  /\ buckets = [k \in {} |-> {}]
  /\ lastSweep = 0 - SweepInterval
  /\ grants = [k \in Keys |-> <<>>]
  /\ answer = [k \in Keys |-> [ok |-> TRUE, retry |-> 0, at |-> 0]]
  /\ left = [k \in Keys |-> Burst]

\* How long a bucket is idle before the sweep drops it.
MIdle == MinIdleEvict

Idle == IF RefillTime > MinIdleEvict THEN RefillTime ELSE MinIdleEvict

Due == now - lastSweep >= SweepInterval

\* The buckets a sweep leaves.
MKept == IF Due THEN {k \in DOMAIN buckets : now - buckets[k].last < Idle}
                ELSE DOMAIN buckets

Kept == IF Due THEN {k \in DOMAIN buckets : now - buckets[k].last <= Idle}
               ELSE DOMAIN buckets

MSweepTime == now

SweepTime == IF Due THEN now ELSE lastSweep

\* The ticks the bucket of k is refilled for.
Elapsed(k) == now - buckets[k].last

\* What the bucket of k may hold once Allow has found or created it and refilled
\* it.  The faulty variant counts whole tokens only.
MWholeTokens(k) ==
  IF k \in Kept
    THEN {AtMost(Burst, buckets[k].tokens + ((Elapsed(k) * Rate) \div Token) * Token)}
    ELSE {Burst}

Refilled(k) ==
  IF k \notin Kept THEN {Burst}
  ELSE IF Elapsed(k) = 0 THEN {buckets[k].tokens}
  ELSE Rounded(buckets[k].tokens + Elapsed(k) * Rate)

\* What a denied caller may be told to wait.  The faulty variant waits for a
\* full bucket.
MRetryAfters(units) == {(Burst - units) \div Rate}

RetryAfters(units) == Waits(units)

\* What a call leaves in the bucket.  The faulty variant charges denied calls too.
MSpent(units) == units - Token

Spent(units) == IF units >= Token THEN units - Token ELSE units

Allow(k) ==
  \E units \in Refilled(k) :
    LET ok   == units >= Token
        rest == Spent(units)
    IN /\ buckets' = [x \in Kept \cup {k} |->
                        IF x = k THEN [tokens |-> rest, last |-> now] ELSE buckets[x]]
       /\ lastSweep' = SweepTime
       /\ grants' = IF ok THEN [grants EXCEPT ![k] = Append(@, now)] ELSE grants
       /\ \E wait \in IF ok THEN {0} ELSE RetryAfters(units) :
            answer' = [answer EXCEPT ![k] = [ok |-> ok, retry |-> wait, at |-> now]]
       /\ left' = [left EXCEPT ![k] = rest]
       /\ UNCHANGED now

Tick == now < MaxTime /\ now' = now + 1 /\ UNCHANGED <<buckets, lastSweep, grants, answer, left>>

Next == Tick \/ \E k \in Keys : Allow(k)

Spec == Init /\ [][Next]_vars

-----------------------------------------------------------------------------
(* Properties.                                                             *)

\* What a bucket that is never dropped would hold of k's units now.
Level(k) == AtMost(Full, left[k] + (now - answer[k].at) * Rate)

TB == INSTANCE TokenBucket WITH level <- [k \in Keys |-> Level(k)]

\* Lazy refills and the sweep cannot be noticed: Limiter answers every call as
\* buckets that are never dropped would ("dropping a bucket early would hand
\* out tokens sooner than keeping it", ratelimit.go:83-85).
ImplementsBuckets == TB!BucketSpec

\* No window of time admits a key more often than rate and burst allow, idle
\* periods, evictions and a rounding per tick included.
RateConformance == TB!Conformance

\* A denial is deserved: had the request been admitted too, the requests since
\* some earlier one would no longer fit in Burst and what these ticks refill, each
\* short of at most one rounding.  A key that keeps to its burst and to a rate that
\* much lower is never denied, however often it asks and whatever was swept
\* (ratelimit.go:58-80); one that uses up the exact rate may be, at the boundary.
DenialDeserved ==
  \A k \in Keys : answer[k].ok = FALSE =>
    \E i \in 1 .. Len(grants[k]) :
      (Len(grants[k]) - i + 2) * Token
        > Burst + (Rate - Slack) * (answer[k].at - grants[k][i])

\* retryAfter is honest: the next call for the key is denied while that time has
\* not passed, and admitted once it has, give or take truncation and rounding
\* ("round it up when setting a Retry-After header", ratelimit.go:56-57).
RetryAfterHonest == [][TB!HonestStep]_vars

\* A flood of keys cannot grow the map without bound: every bucket was used
\* within a fixed time of the last call.
MemoryBounded ==
  \A j, k \in DOMAIN buckets :
    buckets[j].last - buckets[k].last < Idle + SweepInterval
=============================================================================
