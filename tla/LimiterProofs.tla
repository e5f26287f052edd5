---------------------------- MODULE LimiterProofs ----------------------------
(***************************************************************************)
(* Limiter implements TokenBucket, and so inherits what TokenBucketProofs  *)
(* proves of it; and it denies nobody without need.  Proved for every set  *)
(* of keys, rate, burst, rounding, sweep interval and eviction threshold.  *)
(***************************************************************************)
EXTENDS Limiter, TLAPS

TBP == INSTANCE TokenBucketProofs WITH level <- [k \in Keys |-> Level(k)]

\* Every bucket was used after the last sweep minus Idle, and before the next
\* sweep is due: what a sweep establishes and Allow preserves.
Recent ==
  \A k \in DOMAIN buckets :
    /\ lastSweep - buckets[k].last <= Idle
    /\ buckets[k].last - lastSweep < SweepInterval

\* A stored bucket is what the last call for its key left in it.  A key without
\* one would have a full bucket, had it been kept: but for a rounding, and for
\* certain if no time has passed since.
Histories ==
  \A k \in Keys :
    /\ answer[k].at <= now
    /\ k \in DOMAIN buckets =>
         buckets[k].tokens = left[k] /\ buckets[k].last = answer[k].at
    /\ k \notin DOMAIN buckets =>
         /\ left[k] + (now - answer[k].at) * Rate + Slack >= Burst
         /\ answer[k].at < now \/ left[k] = Burst

\* What k's requests from the i-th on cost with what is left in its bucket, and
\* what the ticks from the i-th to the last call refill at least.
Used(k, i)    == (Len(grants[k]) - i + 1) * Token + left[k]
Regained(k, i) == (Rate - Slack) * (answer[k].at - grants[k][i])

\* No stored bucket is short of what it should hold: since some request, what was
\* spent and what is left is all of Burst and of what was refilled.
Tight ==
  \A k \in DOMAIN buckets :
    \E i \in 1 .. Len(grants[k]) : Used(k, i) >= Burst + Regained(k, i)

LimiterInv == TypeOK /\ Recent /\ Histories

-----------------------------------------------------------------------------
(* Arithmetic.                                                             *)

\* The parameters and the sweep's threshold are numbers.
LEMMA ParamTypes ==
  /\ Rate \in Nat \ {0} /\ Token \in Nat \ {0} /\ Burst \in Nat /\ Burst >= Token
  /\ Slack \in Nat /\ Rate - Slack \in Nat /\ Full \in Nat /\ Full = Burst + Slack
  /\ SweepInterval \in Nat \ {0} /\ RefillTime \in Nat
  /\ Idle \in Nat /\ Idle >= RefillTime
  BY BucketAssumption, LimiterAssumption DEF Idle, Full

LEMMA ProductInt == ASSUME NEW a \in Int, NEW b \in Int PROVE a * b \in Int
  OBVIOUS

LEMMA ProductNat == ASSUME NEW a \in Nat, NEW b \in Nat PROVE a * b \in Nat
  OBVIOUS

\* More ticks refill more.
LEMMA LongerRefills ==
  ASSUME NEW r \in Nat, NEW c \in Nat, NEW d \in Nat, d >= c
  PROVE  d * r >= c * r
<1>1. PICK e \in Nat : d = c + e
  <2>1. d - c \in Nat /\ d = c + (d - c)
    OBVIOUS
  <2> QED BY <2>1
<1>2. d * r = c * r + e * r
  BY <1>1
<1>3. e * r \in Nat /\ c * r \in Nat
  BY <1>1
<1> QED BY <1>2, <1>3

\* More ticks than RefillTime refill a whole bucket, but for a rounding.
LEMMA FullAfterRefillTime ==
  ASSUME NEW d \in Nat, d > RefillTime
  PROVE  d * Rate + Slack >= Burst
<1>1. d * Rate >= (RefillTime + 1) * Rate
  <2>1. RefillTime + 1 \in Nat /\ d >= RefillTime + 1 /\ Rate \in Nat
    BY ParamTypes
  <2> QED BY <2>1, LongerRefills
<1>2. d * Rate \in Nat /\ (RefillTime + 1) * Rate \in Nat
  BY ParamTypes
<1>3. Burst <= (RefillTime + 1) * Rate + Slack
  BY LimiterAssumption
<1> QED BY <1>1, <1>2, <1>3, ParamTypes

\* A tick more is one more refill, and the cap may be applied at every tick.
LEMMA CapEachTick ==
  ASSUME NEW t \in Nat, NEW d \in Nat
  PROVE  AtMost(Full, t + (d + 1) * Rate) = AtMost(Full, AtMost(Full, t + d * Rate) + Rate)
<1> DEFINE gained == d * Rate
<1>1. (d + 1) * Rate = gained + Rate /\ gained \in Nat
  BY ParamTypes
<1> HIDE DEF gained
<1>2. AtMost(Full, t + (gained + Rate)) = AtMost(Full, AtMost(Full, t + gained) + Rate)
  BY <1>1, ParamTypes DEF AtMost
<1> QED BY <1>1, <1>2 DEF gained

\* A refill that rounds down gains at least Rate - Slack per tick.
LEMMA RefillGains ==
  ASSUME NEW d \in Nat \ {0}
  PROVE  /\ d * Rate - Slack >= (Rate - Slack) * d
         /\ d * Rate \in Nat /\ (Rate - Slack) * d \in Nat
<1>1. PICK e \in Nat : d = e + 1
  <2>1. d - 1 \in Nat /\ d = (d - 1) + 1
    OBVIOUS
  <2> QED BY <2>1
<1>2. (Rate - Slack) * d = Rate * d - Slack * d /\ Rate * d = d * Rate
  BY ParamTypes
<1>3. Slack * d = Slack * e + Slack /\ Slack * e \in Nat
  BY <1>1, ParamTypes
<1>4. d * Rate \in Nat /\ (Rate - Slack) * d \in Nat /\ Slack * d \in Nat
  BY ParamTypes
<1> QED BY <1>2, <1>3, <1>4, ParamTypes

-----------------------------------------------------------------------------
(* The invariant.                                                          *)

LEMMA KeyTypes ==
  ASSUME TypeOK, NEW k \in Keys
  PROVE  /\ now \in Nat /\ left[k] \in 0 .. Burst /\ answer[k].at \in Nat
         /\ grants[k] \in Seq(Nat) /\ Len(grants[k]) \in Nat
         /\ \A i \in 1 .. Len(grants[k]) : grants[k][i] \in Nat
         /\ k \in DOMAIN buckets =>
              /\ buckets[k].tokens \in 0 .. Burst /\ buckets[k].last \in Nat
              /\ buckets[k].last <= now
  BY DEF TypeOK, Answers, Bucket

LEMMA InitInv == Init => LimiterInv
<1> SUFFICES ASSUME Init PROVE LimiterInv
  OBVIOUS
<1>1. TypeOK /\ Recent
  BY ParamTypes DEF Init, TypeOK, Recent, Answers
<1>2. ASSUME NEW k \in Keys
      PROVE  /\ answer[k].at <= now /\ k \notin DOMAIN buckets
             /\ left[k] + (now - answer[k].at) * Rate + Slack >= Burst
             /\ left[k] = Burst
  BY ParamTypes DEF Init
<1> QED BY <1>1, <1>2 DEF LimiterInv, Histories

LEMMA TickInv == ASSUME LimiterInv, Tick PROVE LimiterInv'
<1>1. TypeOK' /\ Recent'
  BY ParamTypes DEF Tick, LimiterInv, TypeOK, Recent, Idle, Bucket
<1>2. ASSUME NEW k \in Keys, k \notin DOMAIN buckets
      PROVE  left[k] + ((now + 1) - answer[k].at) * Rate + Slack >= Burst
  <2> DEFINE d == now - answer[k].at
  <2>1. d \in Nat /\ (now + 1) - answer[k].at = d + 1 /\ left[k] \in Nat
    BY <1>2, KeyTypes DEF LimiterInv, Histories
  <2>2. left[k] + d * Rate + Slack >= Burst
    BY <1>2 DEF LimiterInv, Histories
  <2> HIDE DEF d
  <2>3. (d + 1) * Rate = d * Rate + Rate /\ d * Rate \in Nat
    BY <2>1, ParamTypes
  <2> QED BY <2>1, <2>2, <2>3, ParamTypes
<1>3. ASSUME NEW k \in Keys
      PROVE  answer[k].at <= now + 1 /\ answer[k].at < now + 1
  BY KeyTypes DEF LimiterInv, Histories
<1>4. Histories'
  <2>1. /\ now' = now + 1 /\ buckets' = buckets /\ answer' = answer /\ left' = left
    BY DEF Tick
  <2>2. \A k \in Keys : k \in DOMAIN buckets =>
          buckets[k].tokens = left[k] /\ buckets[k].last = answer[k].at
    BY DEF LimiterInv, Histories
  <2> QED BY <1>2, <1>3, <2>1, <2>2, Zenon DEF Histories
<1> QED BY <1>1, <1>4 DEF LimiterInv

\* A bucket the sweep drops would be full by now, but for a rounding.
LEMMA DroppedIsFull ==
  ASSUME LimiterInv, NEW k \in Keys, k \notin Kept
  PROVE  /\ left[k] + (now - answer[k].at) * Rate + Slack >= Burst
         /\ answer[k].at < now \/ left[k] = Burst
<1>1. CASE k \notin DOMAIN buckets
  BY <1>1 DEF LimiterInv, Histories
<1>2. CASE k \in DOMAIN buckets
  <2> DEFINE d == now - answer[k].at
  <2>1. d \in Nat /\ left[k] \in Nat /\ buckets[k].last = answer[k].at
        /\ answer[k].at \in Nat /\ now \in Nat
    BY <1>2, KeyTypes DEF LimiterInv, Histories
  <2>2. d > Idle
    BY <1>2, <2>1, ParamTypes DEF Kept
  <2>3. d > RefillTime /\ answer[k].at < now
    BY <2>1, <2>2, ParamTypes
  <2> HIDE DEF d
  <2>4. d * Rate + Slack >= Burst /\ d * Rate \in Nat
    BY <2>1, <2>3, FullAfterRefillTime, ParamTypes
  <2> QED BY <2>1, <2>3, <2>4, ParamTypes DEF d
<1> QED BY <1>1, <1>2

\* What a call finds and leaves: a number of units.
LEMMA RefilledType ==
  ASSUME NEW k \in Keys, TypeOK, NEW units \in Refilled(k)
  PROVE  units \in 0 .. Burst /\ Spent(units) \in 0 .. Burst
<1>1. units \in 0 .. Burst
  BY ParamTypes, KeyTypes DEF Refilled, Rounded, Kept
<1> QED BY <1>1, ParamTypes DEF Spent

\* A call, step by step.
LEMMA AllowSteps ==
  ASSUME NEW k \in Keys, LimiterInv, Allow(k)
  PROVE  \E units \in Refilled(k) : \E wait \in Nat :
           /\ units >= Token \/ wait \in RetryAfters(units)
           /\ units >= Token => wait = 0
           /\ DOMAIN buckets' = Kept \cup {k}
           /\ buckets'[k] = [tokens |-> Spent(units), last |-> now]
           /\ \A x \in Kept \ {k} : buckets'[x] = buckets[x]
           /\ lastSweep' = SweepTime /\ now' = now
           /\ grants' = IF units >= Token THEN [grants EXCEPT ![k] = Append(grants[k], now)]
                                          ELSE grants
           /\ answer' = [answer EXCEPT ![k] =
                           [ok |-> units >= Token, retry |-> wait, at |-> now]]
           /\ left' = [left EXCEPT ![k] = Spent(units)]
<1>1. PICK units \in Refilled(k) :
        /\ buckets' = [x \in Kept \cup {k} |->
                         IF x = k THEN [tokens |-> Spent(units), last |-> now] ELSE buckets[x]]
        /\ lastSweep' = SweepTime
        /\ grants' = IF units >= Token THEN [grants EXCEPT ![k] = Append(@, now)] ELSE grants
        /\ \E wait \in IF units >= Token THEN {0} ELSE RetryAfters(units) :
             answer' = [answer EXCEPT ![k] = [ok |-> units >= Token, retry |-> wait, at |-> now]]
        /\ left' = [left EXCEPT ![k] = Spent(units)]
        /\ now' = now
  BY Zenon DEF Allow
<1>2. PICK wait \in IF units >= Token THEN {0} ELSE RetryAfters(units) :
        answer' = [answer EXCEPT ![k] = [ok |-> units >= Token, retry |-> wait, at |-> now]]
  BY <1>1
<1>3. /\ wait \in Nat
      /\ units >= Token \/ wait \in RetryAfters(units)
      /\ units >= Token => wait = 0
  BY <1>2, ParamTypes DEF RetryAfters, Waits
<1>4. /\ DOMAIN buckets' = Kept \cup {k}
      /\ buckets'[k] = [tokens |-> Spent(units), last |-> now]
      /\ \A x \in Kept \ {k} : buckets'[x] = buckets[x]
  BY <1>1
<1> QED BY <1>1, <1>2, <1>3, <1>4, Zenon

LEMMA AllowInv == ASSUME NEW k \in Keys, LimiterInv, Allow(k) PROVE LimiterInv'
<1>1. PICK units \in Refilled(k) : \E wait \in Nat :
        /\ DOMAIN buckets' = Kept \cup {k}
        /\ buckets'[k] = [tokens |-> Spent(units), last |-> now]
        /\ \A x \in Kept \ {k} : buckets'[x] = buckets[x]
        /\ lastSweep' = SweepTime /\ now' = now
        /\ grants' = IF units >= Token THEN [grants EXCEPT ![k] = Append(grants[k], now)]
                                       ELSE grants
        /\ answer' = [answer EXCEPT ![k] = [ok |-> units >= Token, retry |-> wait, at |-> now]]
        /\ left' = [left EXCEPT ![k] = Spent(units)]
  BY AllowSteps, Zenon
<1> DEFINE rest == Spent(units)
<1>2. rest \in 0 .. Burst /\ Kept \subseteq DOMAIN buckets
  BY RefilledType DEF LimiterInv, Kept
<1> HIDE DEF rest
<1>3. PICK wait \in Nat :
        answer' = [answer EXCEPT ![k] = [ok |-> units >= Token, retry |-> wait, at |-> now]]
  BY <1>1
<1>4. /\ DOMAIN buckets' = Kept \cup {k}
      /\ buckets'[k] = [tokens |-> rest, last |-> now]
      /\ \A x \in Kept \ {k} : buckets'[x] = buckets[x]
      /\ lastSweep' = SweepTime /\ now' = now
      /\ grants' = IF units >= Token THEN [grants EXCEPT ![k] = Append(grants[k], now)]
                                     ELSE grants
      /\ left' = [left EXCEPT ![k] = rest]
  BY <1>1 DEF rest
<1>5. now \in Nat /\ lastSweep \in Int /\ lastSweep <= now
  BY DEF LimiterInv, TypeOK
<1>6. TypeOK'
  <2>1. DOMAIN buckets' \subseteq Keys
    BY <1>2, <1>4 DEF LimiterInv, TypeOK
  <2>2. \A x \in DOMAIN buckets' : buckets'[x] \in Bucket /\ buckets'[x].last <= now
    BY <1>2, <1>4, <1>5 DEF LimiterInv, TypeOK, Bucket
  <2>3. lastSweep' \in Int /\ lastSweep' <= now
    BY <1>4, <1>5 DEF SweepTime
  <2>4. grants' \in [Keys -> Seq(Nat)]
    <3>1. grants \in [Keys -> Seq(Nat)] /\ Append(grants[k], now) \in Seq(Nat)
      BY <1>5 DEF LimiterInv, TypeOK
    <3> QED BY <1>4, <3>1
  <2>5. answer' \in [Keys -> Answers]
    <3>1. [ok |-> units >= Token, retry |-> wait, at |-> now] \in Answers
      BY <1>3, <1>5 DEF Answers
    <3> QED BY <1>3, <3>1 DEF LimiterInv, TypeOK
  <2>6. left' \in [Keys -> 0 .. Burst]
    BY <1>2, <1>4 DEF LimiterInv, TypeOK
  <2> QED BY <1>4, <1>5, <2>1, <2>2, <2>3, <2>4, <2>5, <2>6 DEF TypeOK
<1>7. Recent'
  <2>1. Idle' = Idle
    BY DEF Idle
  <2>2. ASSUME NEW x \in Kept \cup {k}
        PROVE  /\ SweepTime - buckets'[x].last <= Idle
               /\ buckets'[x].last - SweepTime < SweepInterval
    <3>1. CASE x = k
      BY <1>4, <1>5, <3>1, ParamTypes DEF SweepTime, Due
    <3>2. CASE x # k
      <4>1. x \in DOMAIN buckets /\ buckets'[x] = buckets[x] /\ buckets[x].last \in Nat
            /\ buckets[x].last <= now
        BY <1>2, <1>4, <2>2, <3>2 DEF LimiterInv, TypeOK, Bucket
      <4>2. CASE Due
        BY <1>5, <2>2, <3>2, <4>1, <4>2, ParamTypes DEF SweepTime, Kept
      <4>3. CASE ~Due
        BY <1>5, <4>1, <4>3 DEF SweepTime, LimiterInv, Recent
      <4> QED BY <4>2, <4>3
    <3> QED BY <3>1, <3>2
  <2> QED BY <1>4, <2>1, <2>2 DEF Recent
<1>8. Histories'
  <2>1. /\ answer'[k].at = now /\ left'[k] = rest
        /\ \A x \in Keys \ {k} : answer'[x] = answer[x] /\ left'[x] = left[x]
    BY <1>3, <1>4 DEF LimiterInv, TypeOK
  <2>2. ASSUME NEW x \in Keys \ {k}, x \notin Kept
        PROVE  /\ left[x] + (now - answer[x].at) * Rate + Slack >= Burst
               /\ answer[x].at < now \/ left[x] = Burst
    BY <2>2, DroppedIsFull
  <2>3. ASSUME NEW x \in Keys \ {k}, x \in Kept
        PROVE  buckets'[x].tokens = left[x] /\ buckets'[x].last = answer[x].at
    BY <1>2, <1>4, <2>3 DEF LimiterInv, Histories
  <2>4. \A x \in Keys : answer[x].at <= now
    BY DEF LimiterInv, Histories
  <2>5. ASSUME NEW x \in Keys \ {k}
        PROVE  /\ answer'[x].at <= now'
               /\ x \in DOMAIN buckets' =>
                    buckets'[x].tokens = left'[x] /\ buckets'[x].last = answer'[x].at
               /\ x \notin DOMAIN buckets' =>
                    /\ left'[x] + (now' - answer'[x].at) * Rate + Slack >= Burst
                    /\ answer'[x].at < now' \/ left'[x] = Burst
    BY <1>4, <2>1, <2>2, <2>3, <2>4, Zenon
  <2>6. /\ answer'[k].at <= now' /\ k \in DOMAIN buckets'
        /\ buckets'[k].tokens = left'[k] /\ buckets'[k].last = answer'[k].at
    BY <1>4, <1>5, <2>1
  <2> QED BY <2>5, <2>6, Zenon DEF Histories
<1> QED BY <1>6, <1>7, <1>8 DEF LimiterInv

LEMMA NextInv == LimiterInv /\ [Next]_vars => LimiterInv'
<1> SUFFICES ASSUME LimiterInv, [Next]_vars PROVE LimiterInv'
  OBVIOUS
<1>1. CASE Tick
  BY <1>1, TickInv
<1>2. ASSUME NEW k \in Keys, Allow(k) PROVE LimiterInv'
  BY <1>2, AllowInv
<1>3. CASE UNCHANGED vars
  BY <1>3 DEF vars, LimiterInv, TypeOK, Recent, Idle, Histories
<1> QED BY <1>1, <1>2, <1>3 DEF Next

LEMMA Invariance == Spec => []LimiterInv
  BY InitInv, NextInv, PTL DEF Spec

\* Limiter's state always has its type.
THEOREM TypeCorrect == Spec => []TypeOK
<1>1. LimiterInv => TypeOK
  BY DEF LimiterInv
<1> QED BY <1>1, Invariance, PTL

\* The map holds only keys used within a fixed time of the last call.
THEOREM MemoryIsBounded == Spec => []MemoryBounded
<1>1. LimiterInv => MemoryBounded
  <2> SUFFICES ASSUME LimiterInv, NEW j \in DOMAIN buckets, NEW k \in DOMAIN buckets
               PROVE  buckets[j].last - buckets[k].last < Idle + SweepInterval
    BY DEF MemoryBounded
  <2>1. buckets[j].last \in Nat /\ buckets[k].last \in Nat /\ lastSweep \in Int
    BY DEF LimiterInv, TypeOK, Bucket
  <2>2. /\ lastSweep - buckets[k].last <= Idle
        /\ buckets[j].last - lastSweep < SweepInterval
    BY DEF LimiterInv, Recent
  <2> QED BY <2>1, <2>2, ParamTypes
<1> QED BY <1>1, Invariance, PTL

-----------------------------------------------------------------------------
(* The refinement.                                                         *)

LEMMA LevelType ==
  ASSUME LimiterInv, NEW k \in Keys
  PROVE  /\ Level(k) \in 0 .. Full
         /\ now - answer[k].at \in Nat /\ (now - answer[k].at) * Rate \in Nat
         /\ left[k] \in 0 .. Burst /\ now \in Nat /\ answer[k].at \in Nat
<1>1. /\ now - answer[k].at \in Nat /\ left[k] \in 0 .. Burst
      /\ now \in Nat /\ answer[k].at \in Nat
  BY KeyTypes DEF LimiterInv, Histories
<1> DEFINE gained == (now - answer[k].at) * Rate
<1>2. gained \in Nat
  BY <1>1, ProductNat, ParamTypes
<1>3. Level(k) = AtMost(Full, left[k] + gained)
  BY DEF Level
<1> HIDE DEF gained
<1>4. Level(k) \in 0 .. Full
  BY <1>1, <1>2, <1>3, ParamTypes DEF AtMost
<1> QED BY <1>1, <1>2, <1>4 DEF gained

\* A sum over the cap rounds to what the cap rounds to.
LEMMA RoundedCap ==
  ASSUME NEW sum \in Nat, NEW units \in Rounded(sum)
  PROVE  units \in Rounded(AtMost(Full, sum))
  BY ParamTypes DEF Rounded, AtMost

\* What Allow may find, in a bucket or for want of one, it may find in the bucket
\* that is never dropped.
LEMMA SweepKeepsLevels ==
  ASSUME LimiterInv, NEW k \in Keys, NEW units \in Refilled(k)
  PROVE  IF now = answer[k].at THEN units = Level(k) ELSE units \in Rounded(Level(k))
<1> DEFINE gained == (now - answer[k].at) * Rate
<1>1. /\ Level(k) = AtMost(Full, left[k] + gained) /\ gained \in Nat
      /\ left[k] \in 0 .. Burst /\ now \in Nat /\ answer[k].at \in Nat
  BY LevelType DEF Level
<1>2. now = answer[k].at => gained = 0
  <2>1. now = answer[k].at => now - answer[k].at = 0
    BY <1>1
  <2> QED BY <2>1, ParamTypes
<1>3. CASE k \in Kept
  <2>1. /\ buckets[k].tokens = left[k] /\ buckets[k].last = answer[k].at
    BY <1>3 DEF LimiterInv, Histories, Kept
  <2>2. CASE now = answer[k].at
    <3>1. Elapsed(k) = 0
      BY <1>1, <2>1, <2>2 DEF Elapsed
    <3>2. units = left[k]
      BY <1>3, <2>1, <3>1 DEF Refilled
    <3> HIDE DEF gained
    <3> QED BY <1>1, <1>2, <2>2, <3>2, ParamTypes DEF AtMost
  <2>3. CASE now # answer[k].at
    <3>1. Elapsed(k) # 0 /\ Elapsed(k) = now - answer[k].at
      BY <1>1, <2>1, <2>3 DEF Elapsed
    <3>2. units \in Rounded(left[k] + gained)
      BY <1>3, <2>1, <3>1 DEF Refilled
    <3> HIDE DEF gained
    <3>3. left[k] + gained \in Nat
      BY <1>1
    <3> QED BY <1>1, <2>3, <3>2, <3>3, RoundedCap
  <2> QED BY <2>2, <2>3
<1>4. CASE k \notin Kept
  <2>1. units = Burst
    BY <1>4 DEF Refilled
  <2>2. left[k] + gained + Slack >= Burst /\ (answer[k].at < now \/ left[k] = Burst)
    BY <1>4, DroppedIsFull
  <2> HIDE DEF gained
  <2>3. CASE now = answer[k].at
    BY <1>1, <1>2, <2>1, <2>2, <2>3, ParamTypes DEF AtMost
  <2>4. CASE now # answer[k].at
    <3>1. Burst \in Rounded(AtMost(Full, left[k] + gained))
      BY <1>1, <2>2, ParamTypes DEF Rounded, AtMost
    <3> QED BY <1>1, <2>1, <2>4, <3>1
  <2> QED BY <2>3, <2>4
<1> QED BY <1>3, <1>4

\* A level is what was left and when.
LEMMA LevelFollows ==
  ASSUME NEW x, NEW rest, NEW t, now' = now, left'[x] = rest, answer'[x].at = t
  PROVE  Level(x)' = AtMost(Full, rest + (now - t) * Rate)
  BY Zenon DEF Level, AtMost

\* The key that is asked for has what Allow left in its bucket; the others keep
\* their level.
LEMMA LevelsAfter ==
  ASSUME LimiterInv, NEW k \in Keys, NEW rest \in 0 .. Burst,
         NEW reply, reply.at = now, now' = now,
         answer' = [answer EXCEPT ![k] = reply], left' = [left EXCEPT ![k] = rest]
  PROVE  [x \in Keys |-> Level(x)]' = [[x \in Keys |-> Level(x)] EXCEPT ![k] = rest]
<1>1. /\ answer'[k].at = now /\ left'[k] = rest
      /\ \A x \in Keys \ {k} : answer'[x] = answer[x] /\ left'[x] = left[x]
  BY DEF LimiterInv, TypeOK
<1>2. Level(k)' = rest
  <2>1. (now - now) * Rate = 0
    BY LevelType, ParamTypes
  <2>2. Level(k)' = AtMost(Full, rest + (now - now) * Rate)
    BY <1>1, LevelFollows
  <2> QED BY <2>1, <2>2, ParamTypes DEF AtMost
<1>3. ASSUME NEW x \in Keys \ {k} PROVE Level(x)' = Level(x)
  <2>1. left'[x] = left[x] /\ answer'[x].at = answer[x].at
    BY <1>1, <1>3
  <2> QED BY <2>1, LevelFollows DEF Level
<1> QED BY <1>2, <1>3

\* Every call is an Admit or a Deny of the bucket that never forgets.
LEMMA AllowImplements ==
  ASSUME LimiterInv, NEW k \in Keys, Allow(k)
  PROVE  TB!Admit(k) \/ TB!Deny(k)
<1> DEFINE level == [x \in Keys |-> Level(x)]
<1>1. PICK units \in Refilled(k) : \E wait \in Nat :
        /\ units >= Token \/ wait \in RetryAfters(units)
        /\ units >= Token => wait = 0
        /\ now' = now
        /\ grants' = IF units >= Token THEN [grants EXCEPT ![k] = Append(grants[k], now)]
                                       ELSE grants
        /\ answer' = [answer EXCEPT ![k] = [ok |-> units >= Token, retry |-> wait, at |-> now]]
        /\ left' = [left EXCEPT ![k] = Spent(units)]
  BY AllowSteps, Zenon
<1>2. PICK wait \in Nat :
        /\ units >= Token \/ wait \in RetryAfters(units)
        /\ units >= Token => wait = 0
        /\ now' = now
        /\ grants' = IF units >= Token THEN [grants EXCEPT ![k] = Append(grants[k], now)]
                                       ELSE grants
        /\ answer' = [answer EXCEPT ![k] = [ok |-> units >= Token, retry |-> wait, at |-> now]]
        /\ left' = [left EXCEPT ![k] = Spent(units)]
  BY <1>1
<1>3. units \in TB!Spendable(k)
  <2>1. level[k] = Level(k)
    OBVIOUS
  <2>2. IF now = answer[k].at THEN units = level[k] ELSE units \in Rounded(level[k])
    BY <2>1, SweepKeepsLevels, Zenon
  <2> QED BY <2>2, Zenon DEF TB!Spendable, TB!Rounded, Rounded
<1>4. units \in 0 .. Burst /\ Spent(units) \in 0 .. Burst
  BY RefilledType DEF LimiterInv
<1>5. level' = [level EXCEPT ![k] = Spent(units)]
  <2> DEFINE reply == [ok |-> units >= Token, retry |-> wait, at |-> now]
  <2>1. reply.at = now /\ answer' = [answer EXCEPT ![k] = reply]
    BY <1>2
  <2> HIDE DEF reply
  <2> QED BY <1>2, <1>4, <2>1, LevelsAfter
<1>6. CASE units >= Token
  <2>1. /\ Spent(units) = units - Token
        /\ grants' = [grants EXCEPT ![k] = Append(grants[k], now)]
    BY <1>2, <1>6 DEF Spent
  <2>2. answer' = [answer EXCEPT ![k] = [ok |-> TRUE, retry |-> 0, at |-> now]]
    <3>1. (units >= Token) = TRUE /\ wait = 0
      BY <1>2, <1>6
    <3> QED BY <1>2, <3>1, Zenon
  <2> QED BY <1>2, <1>3, <1>5, <1>6, <2>1, <2>2, Zenon DEF TB!Admit
<1>7. CASE ~(units >= Token)
  <2>1. Spent(units) = units /\ grants' = grants /\ wait \in RetryAfters(units)
    BY <1>2, <1>7 DEF Spent
  <2>2. answer' = [answer EXCEPT ![k] = [ok |-> FALSE, retry |-> wait, at |-> now]]
    <3>1. (units >= Token) = FALSE
      BY <1>7
    <3> QED BY <1>2, <3>1, Zenon
  <2>3. wait \in TB!Waits(units) /\ units < Token
    BY <1>4, <1>7, <2>1, ParamTypes DEF RetryAfters, Waits, TB!Waits
  <2> QED BY <1>2, <1>3, <1>5, <2>1, <2>2, <2>3, Zenon DEF TB!Deny
<1> QED BY <1>6, <1>7

\* A tick refills every bucket, stored or forgotten.
LEMMA TickImplements == ASSUME LimiterInv, Tick PROVE TB!Refill
<1>1. ASSUME NEW k \in Keys PROVE Level(k)' = AtMost(Full, Level(k) + Rate)
  <2> DEFINE d == now - answer[k].at
  <2>1. d \in Nat /\ (now + 1) - answer[k].at = d + 1 /\ left[k] \in Nat
    BY LevelType
  <2>2. Level(k)' = AtMost(Full, left[k] + ((now + 1) - answer[k].at) * Rate)
    <3>1. now' = now + 1 /\ answer' = answer /\ left' = left
      BY DEF Tick
    <3> QED BY <3>1, Zenon DEF Level, AtMost
  <2>3. Level(k) = AtMost(Full, left[k] + d * Rate)
    BY DEF Level
  <2> HIDE DEF d
  <2> QED BY <2>1, <2>2, <2>3, CapEachTick
<1>2. \A k \in Keys : Level(k)' = TB!AtMost(TB!Full, Level(k) + Rate)
  BY <1>1 DEF AtMost, TB!AtMost, Full, TB!Full
<1> QED BY <1>2 DEF Tick, TB!Refill

\* Limiter implements the token bucket that never forgets a key.
THEOREM Refinement == Spec => ImplementsBuckets
<1>1. Init => TB!BucketInit
  <2> SUFFICES ASSUME Init PROVE TB!BucketInit
    OBVIOUS
  <2>1. ASSUME NEW k \in Keys PROVE Level(k) = Burst
    BY ParamTypes DEF Init, Level, AtMost
  <2> QED BY <2>1 DEF Init, TB!BucketInit
<1>2. LimiterInv /\ [Next]_vars => [TB!BucketNext]_(TB!bucketVars)
  <2> SUFFICES ASSUME LimiterInv, [Next]_vars
               PROVE  TB!BucketNext \/ UNCHANGED TB!bucketVars
    OBVIOUS
  <2>1. CASE Tick
    BY <2>1, TickImplements DEF TB!BucketNext
  <2>2. ASSUME NEW k \in Keys, Allow(k) PROVE TB!BucketNext
    BY <2>2, AllowImplements DEF TB!BucketNext
  <2>3. CASE UNCHANGED vars
    BY <2>3 DEF vars, TB!bucketVars, Level
  <2> QED BY <2>1, <2>2, <2>3 DEF Next
<1> QED BY <1>1, <1>2, Invariance, PTL DEF Spec, TB!BucketSpec, ImplementsBuckets

\* The two instances of the abstract module have the same behaviours ...
LEMMA SameBucket == TB!BucketSpec => TBP!BucketSpec
<1>1. TB!BucketInit => TBP!BucketInit
  BY DEF TB!BucketInit, TBP!BucketInit
<1>2. [TB!BucketNext]_(TB!bucketVars) => [TBP!BucketNext]_(TBP!bucketVars)
  BY DEF TB!BucketNext, TBP!BucketNext, TB!bucketVars, TBP!bucketVars, TB!Refill, TBP!Refill,
         TB!Admit, TBP!Admit, TB!Deny, TBP!Deny, TB!Spendable, TBP!Spendable,
         TB!Rounded, TBP!Rounded, TB!Waits, TBP!Waits, TB!Full, TBP!Full,
         TB!AtMost, TBP!AtMost
<1> QED BY <1>1, <1>2, PTL DEF TB!BucketSpec, TBP!BucketSpec

\* ... and the same properties.
LEMMA SameProperties ==
  /\ TBP!Conformance <=> TB!Conformance
  /\ TBP!HonestStep <=> TB!HonestStep
  BY DEF TB!Conformance, TBP!Conformance, TB!HonestStep, TBP!HonestStep

\* No key is admitted beyond its rate and burst, evictions included.
THEOREM Conforms == Spec => []RateConformance
<1>1. TBP!BucketAssumption
  BY BucketAssumption DEF TBP!BucketAssumption
<1>2. TBP!BucketSpec => []TBP!Conformance
  BY <1>1, TBP!BucketConforms
<1>3. TBP!Conformance => RateConformance
  BY SameProperties DEF RateConformance
<1> QED BY <1>2, <1>3, Refinement, SameBucket, PTL DEF ImplementsBuckets

\* What a denied caller is told to wait is neither too short nor too long.
THEOREM RetryIsHonest == Spec => RetryAfterHonest
<1>1. TBP!BucketAssumption
  BY BucketAssumption DEF TBP!BucketAssumption
<1>2. TBP!BucketSpec => TBP!RetryHonest
  BY <1>1, TBP!BucketRetryHonest
<1>3. [TBP!HonestStep]_(TBP!bucketVars) => [TB!HonestStep]_vars
  <2>1. UNCHANGED TBP!bucketVars => TB!HonestStep
    BY DEF TBP!bucketVars, TB!HonestStep
  <2> QED BY <2>1, SameProperties
<1> QED BY <1>2, <1>3, Refinement, SameBucket, PTL
        DEF ImplementsBuckets, RetryAfterHonest, TBP!RetryHonest

-----------------------------------------------------------------------------
(* Denials are deserved.                                                   *)

\* A stored bucket that is not full after a refill got all but a rounding of it:
\* since the same request, what was spent and what it now holds is tight.
LEMMA TightRefill ==
  ASSUME LimiterInv, Tight, NEW k \in Kept, NEW units \in Refilled(k), units # Burst
  PROVE  \E i \in 1 .. Len(grants[k]) :
           (Len(grants[k]) - i + 1) * Token + units
             >= Burst + (Rate - Slack) * (now - grants[k][i])
<1>0. k \in DOMAIN buckets /\ k \in Keys
  BY DEF Kept, LimiterInv, TypeOK
<1>1. PICK i \in 1 .. Len(grants[k]) : Used(k, i) >= Burst + Regained(k, i)
  BY <1>0 DEF Tight
<1> DEFINE spent == (Len(grants[k]) - i + 1) * Token
           start == grants[k][i]
           last  == answer[k].at
           d     == now - last
           back  == (Rate - Slack) * (last - start)
           gained == d * Rate
           fair  == (Rate - Slack) * d
<1>2. /\ Used(k, i) = spent + left[k] /\ Regained(k, i) = back
  BY DEF Used, Regained
<1>3. /\ now \in Nat /\ last \in Nat /\ start \in Nat /\ d \in Nat
      /\ left[k] \in Nat /\ units \in Nat
      /\ buckets[k].tokens = left[k] /\ buckets[k].last = last
  BY <1>0, KeyTypes, RefilledType, LevelType DEF LimiterInv, Histories
<1>4. Len(grants[k]) - i + 1 \in Int /\ last - start \in Int /\ now - start \in Int
  <2>1. Len(grants[k]) \in Nat
    BY <1>0, KeyTypes DEF LimiterInv
  <2> HIDE DEF last, start
  <2> QED BY <1>3, <2>1
<1>5. spent \in Int /\ back \in Int
  <2>1. Token \in Int /\ Rate - Slack \in Int
    BY ParamTypes
  <2> QED BY <1>4, <2>1, ProductInt, Zenon
<1>6. (Rate - Slack) * (now - start) = back + fair
  <2>1. now - start = (last - start) + d
    BY SMTT(30), <1>3
  <2> DEFINE a == last - start
  <2>2. a \in Int /\ Rate - Slack \in Int
    BY <1>4, ParamTypes
  <2> HIDE DEF a, d
  <2>3. (Rate - Slack) * (a + d) = (Rate - Slack) * a + (Rate - Slack) * d
    BY <1>3, <2>2
  <2> QED BY <2>1, <2>3 DEF a
<1>7. units >= left[k] + fair
  <2>1. Elapsed(k) = d
    BY <1>3 DEF Elapsed
  <2>2. CASE d = 0
    <3>1. units = left[k]
      BY <1>3, <2>1, <2>2 DEF Refilled
    <3>2. fair = 0
      <4> HIDE DEF d
      <4> QED BY <2>2, ParamTypes
    <3> QED BY <1>3, <3>1, <3>2
  <2>3. CASE d # 0
    <3>1. units \in Rounded(left[k] + gained)
      BY <1>3, <2>1, <2>3 DEF Refilled
    <3>2. gained - Slack >= fair /\ gained \in Nat /\ fair \in Nat
      <4> HIDE DEF d
      <4> QED BY <1>3, <2>3, RefillGains
    <3> HIDE DEF gained, fair
    <3>3. units >= (left[k] + gained) - Slack
      BY <3>1 DEF Rounded
    <3> QED BY <1>3, <3>2, <3>3, ParamTypes
  <2> QED BY <2>2, <2>3
<1>8. fair \in Int
  BY <1>3, ProductInt, ParamTypes
<1> HIDE DEF spent, start, last, d, back, gained, fair
<1>9. spent + units >= Burst + (back + fair)
  BY <1>1, <1>2, <1>3, <1>5, <1>7, <1>8, ParamTypes
<1>10. spent + units >= Burst + (Rate - Slack) * (now - start)
  BY <1>6, <1>9
<1> QED BY <1>10 DEF spent, start

\* What a call leaves is tight, and a denial is deserved.
LEMMA AllowTight ==
  ASSUME LimiterInv, Tight, DenialDeserved, NEW k \in Keys, Allow(k)
  PROVE  Tight' /\ DenialDeserved'
<1>1. PICK units \in Refilled(k) : \E wait \in Nat :
        /\ DOMAIN buckets' = Kept \cup {k}
        /\ grants' = IF units >= Token THEN [grants EXCEPT ![k] = Append(grants[k], now)]
                                       ELSE grants
        /\ answer' = [answer EXCEPT ![k] = [ok |-> units >= Token, retry |-> wait, at |-> now]]
        /\ left' = [left EXCEPT ![k] = Spent(units)]
  BY AllowSteps, Zenon
<1> DEFINE n == Len(grants[k])
<1>2. /\ units \in 0 .. Burst /\ now \in Nat /\ n \in Nat /\ grants[k] \in Seq(Nat)
  BY RefilledType, KeyTypes DEF LimiterInv
<1>3. /\ answer'[k].at = now /\ left'[k] = Spent(units)
      /\ answer'[k].ok = (units >= Token)
      /\ \A x \in Keys \ {k} : answer'[x] = answer[x] /\ left'[x] = left[x]
                             /\ grants'[x] = grants[x]
  BY <1>1 DEF LimiterInv, TypeOK
<1>4. /\ units >= Token => /\ Spent(units) = units - Token
                           /\ Len(grants'[k]) = n + 1 /\ grants'[k][n + 1] = now
                           /\ \A i \in 1 .. n : grants'[k][i] = grants[k][i]
      /\ ~(units >= Token) => Spent(units) = units /\ grants' = grants /\ units < Token
  <2>1. CASE units >= Token
    <3>1. grants'[k] = Append(grants[k], now)
      BY <1>1, <2>1 DEF LimiterInv, TypeOK
    <3> QED BY <1>2, <2>1, <3>1 DEF Spent
  <2>2. CASE ~(units >= Token)
    BY <1>1, <1>2, <2>2, ParamTypes DEF Spent
  <2> QED BY <2>1, <2>2
<1>5. \E i \in 1 .. Len(grants'[k]) : Used(k, i)' >= Burst + Regained(k, i)'
  <2>1. CASE units = Burst
    <3>1. /\ units >= Token /\ n + 1 \in 1 .. Len(grants'[k])
          /\ Len(grants'[k]) - (n + 1) + 1 = 1 /\ now - now = 0
      BY SMTT(30), <1>2, <1>4, <2>1, ParamTypes
    <3>2. PICK i \in 1 .. Len(grants'[k]) :
            /\ Len(grants'[k]) - i + 1 = 1 /\ grants'[k][i] = now
      BY <1>4, <3>1
    <3>3. Used(k, i)' = 1 * Token + (units - Token)
      BY <1>3, <1>4, <3>1, <3>2, Zenon DEF Used
    <3>4. Regained(k, i)' = (Rate - Slack) * 0
      <4>1. answer'[k].at - grants'[k][i] = now - now
        BY <1>3, <3>2, Zenon
      <4>2. now - now = 0
        BY <1>2
      <4> QED BY <4>1, <4>2, Zenon DEF Regained
    <3>5. Used(k, i)' >= Burst + Regained(k, i)'
      BY <1>2, <2>1, <3>3, <3>4, ParamTypes
    <3> QED BY <3>5
  <2>2. CASE units # Burst
    <3>0. k \in Kept
      BY <2>2 DEF Refilled
    <3>1. PICK i \in 1 .. n :
            (n - i + 1) * Token + units >= Burst + (Rate - Slack) * (now - grants[k][i])
      BY <2>2, <3>0, TightRefill
    <3> DEFINE spent == (n - i + 1) * Token
    <3>2. i \in 1 .. Len(grants'[k]) /\ grants'[k][i] = grants[k][i]
      BY <1>2, <1>4
    <3>3. Regained(k, i)' = (Rate - Slack) * (now - grants[k][i])
      BY <1>3, <3>2, Zenon DEF Regained
    <3>4. Used(k, i)' = spent + units
      <4>1. CASE ~(units >= Token)
        BY <1>3, <1>4, <4>1, Zenon DEF Used
      <4>2. CASE units >= Token
        <5> DEFINE m == n - i + 1
        <5>1. m \in Int /\ (n + 1) - i + 1 = m + 1
          <6> HIDE DEF n
          <6> QED BY <1>2
        <5>2. Used(k, i)' = (m + 1) * Token + (units - Token)
          BY <1>3, <1>4, <4>2, <5>1, Zenon DEF Used
        <5> HIDE DEF m
        <5>3. (m + 1) * Token = m * Token + Token /\ m * Token \in Int
          BY <5>1, ParamTypes
        <5>4. Used(k, i)' = m * Token + units
          BY <1>2, <5>2, <5>3, ParamTypes
        <5> QED BY <5>4 DEF m
      <4> QED BY <4>1, <4>2
    <3> QED BY <3>1, <3>2, <3>3, <3>4
  <2> QED BY <2>1, <2>2
<1>6. TypeOK'
  BY AllowInv DEF LimiterInv
<1>7. Tight'
  <2>1. ASSUME NEW x \in DOMAIN buckets', x # k
        PROVE  \E i \in 1 .. Len(grants'[x]) : Used(x, i)' >= Burst + Regained(x, i)'
    <3>1. x \in DOMAIN buckets /\ x \in Keys \ {k}
      BY <1>1, <2>1 DEF Kept, LimiterInv, TypeOK
    <3>2. PICK i \in 1 .. Len(grants[x]) : Used(x, i) >= Burst + Regained(x, i)
      BY <3>1 DEF Tight
    <3>3. Used(x, i)' = Used(x, i) /\ Regained(x, i)' = Regained(x, i)
      BY <1>3, <3>1, Zenon DEF Used, Regained
    <3> QED BY <1>3, <3>1, <3>2, <3>3
  <2> QED BY <1>5, <2>1, Zenon DEF Tight
<1>8. DenialDeserved'
  <2> SUFFICES ASSUME NEW x \in Keys, answer'[x].ok = FALSE
               PROVE  \E i \in 1 .. Len(grants'[x]) :
                        (Len(grants'[x]) - i + 2) * Token
                          > Burst + (Rate - Slack) * (answer'[x].at - grants'[x][i])
    BY DEF DenialDeserved
  <2>1. CASE x # k
    <3>1. answer'[x] = answer[x] /\ grants'[x] = grants[x]
      BY <1>3, <2>1
    <3> QED BY <3>1, Zenon DEF DenialDeserved
  <2>2. CASE x = k
    <3>1. ~(units >= Token)
      BY <1>3, <2>2
    <3>2. PICK i \in 1 .. Len(grants'[k]) : Used(k, i)' >= Burst + Regained(k, i)'
      BY <1>5
    <3> DEFINE m == Len(grants'[k]) - i + 1
    <3>3. m \in Int /\ Len(grants'[k]) - i + 2 = m + 1 /\ Regained(k, i)' \in Int
      <4>1. answer'[k].at \in Int /\ grants'[k][i] \in Int
        BY <1>6 DEF TypeOK, Answers
      <4>2. Regained(k, i)' = (Rate - Slack) * (answer'[k].at - grants'[k][i])
        BY Zenon DEF Regained
      <4>3. answer'[k].at - grants'[k][i] \in Int /\ Rate - Slack \in Int
        BY <4>1, ParamTypes
      <4>4. Regained(k, i)' \in Int
        BY <4>2, <4>3, ProductInt, Zenon
      <4>5. Len(grants'[k]) \in Nat
        BY <1>2, <1>4, <3>1
      <4> QED BY <4>4, <4>5
    <3>4. Used(k, i)' = m * Token + units
      BY <1>3, <1>4, <3>1, Zenon DEF Used
    <3> HIDE DEF m
    <3>5. (m + 1) * Token = m * Token + Token /\ m * Token \in Int
      BY <3>3, ParamTypes
    <3>6. (m + 1) * Token > Burst + Regained(k, i)'
      BY <1>2, <1>4, <3>1, <3>2, <3>3, <3>4, <3>5, ParamTypes
    <3>7. (Len(grants'[k]) - i + 2) * Token > Burst + Regained(k, i)'
      BY <3>3, <3>6, Zenon
    <3> QED BY <2>2, <3>7 DEF Regained
  <2> QED BY <2>1, <2>2
<1> QED BY <1>7, <1>8

\* No key that keeps to its burst and to its rate less a rounding per tick is ever
\* denied, whatever was swept.
THEOREM DenialIsDeserved == Spec => []DenialDeserved
<1>1. Init => Tight /\ DenialDeserved
  BY DEF Init, Tight, DenialDeserved
<1>2. LimiterInv /\ Tight /\ DenialDeserved /\ [Next]_vars => Tight' /\ DenialDeserved'
  <2> SUFFICES ASSUME LimiterInv, Tight, DenialDeserved, [Next]_vars
               PROVE  Tight' /\ DenialDeserved'
    OBVIOUS
  <2>1. CASE Tick
    BY <2>1 DEF Tick, Tight, DenialDeserved, Used, Regained
  <2>2. ASSUME NEW k \in Keys, Allow(k) PROVE Tight' /\ DenialDeserved'
    BY <2>2, AllowTight
  <2>3. CASE UNCHANGED vars
    BY <2>3 DEF vars, Tight, DenialDeserved, Used, Regained
  <2> QED BY <2>1, <2>2, <2>3 DEF Next
<1> QED BY <1>1, <1>2, Invariance, PTL DEF Spec
=============================================================================
