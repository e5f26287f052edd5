-------------------------- MODULE TokenBucketProofs --------------------------
(***************************************************************************)
(* The token bucket conforms, and is honest about how long to wait: proved *)
(* for every set of keys, rate, cost, burst, rounding and clock.           *)
(***************************************************************************)
EXTENDS TokenBucket, TLAPS

\* What k's requests from the i-th on cost, and what the bucket was refilled with
\* since, if each of its calls at a time of its own rounded up.
Spent(k, i)  == (Len(grants[k]) - i + 1) * Token
Gained(k, i) == Rate * (now - grants[k][i]) + Slack * (answer[k].at - grants[k][i])

\* Every past grant leaves room for what was granted since: the requests from
\* the i-th on, and what is left in the bucket, fit in Burst plus the refill
\* since the i-th.  Conformance alone says nothing of the units still unspent.
\* What a call left in the bucket is under the cap.
Accounted ==
  \A k \in Keys :
    /\ answer[k].at <= now
    /\ now = answer[k].at => level[k] <= Burst
    /\ \A i \in 1 .. Len(grants[k]) :
         /\ grants[k][i] <= answer[k].at
         /\ Spent(k, i) + level[k] <= Burst + Gained(k, i)

BucketInv == BucketTypeOK /\ Accounted /\ Conformance

-----------------------------------------------------------------------------
(* Arithmetic: cited where the provers would have to look for it among     *)
(* other products.                                                         *)

LEMMA ProductInt == ASSUME NEW a \in Int, NEW b \in Int PROVE a * b \in Int
  OBVIOUS

\* Multiplication by the rate distributes over one more tick.
LEMMA OneMoreTick ==
  ASSUME NEW r \in Nat, NEW d \in Int
  PROVE  r * (d + 1) = r * d + r
  OBVIOUS

\* Later by a tick or more is r or more.
LEMMA MoreTicks ==
  ASSUME NEW r \in Nat, NEW c \in Int, NEW d \in Int, d >= c + 1
  PROVE  r * d >= r * c + r
<1>1. PICK e \in Nat : d = c + 1 + e
  <2>1. d - c - 1 \in Nat /\ d = c + 1 + (d - c - 1)
    OBVIOUS
  <2> QED BY <2>1
<1>2. r * d = r * c + r + r * e
  BY <1>1
<1>3. r * e \in Nat /\ r * c \in Int
  BY <1>1
<1>4. r * d \in Int
  OBVIOUS
<1> QED BY <1>2, <1>3, <1>4

\* One more grant costs one more token.
LEMMA OneMoreGrant ==
  ASSUME NEW t \in Nat, NEW n \in Int
  PROVE  (n + 1) * t = n * t + t
  OBVIOUS

LEMMA RatesAdd ==
  ASSUME NEW r \in Nat, NEW s \in Nat, NEW d \in Int
  PROVE  (r + s) * d = r * d + s * d
  OBVIOUS

-----------------------------------------------------------------------------
(* The invariant.                                                          *)

\* The types of what Accounted and Conformance speak of.
LEMMA WindowTypes ==
  ASSUME BucketTypeOK, NEW k \in Keys
  PROVE  /\ now \in Nat /\ level[k] \in Nat /\ answer[k].at \in Nat /\ answer[k].retry \in Nat
         /\ grants[k] \in Seq(Nat) /\ Len(grants[k]) \in Nat
         /\ Token \in Nat /\ Rate \in Nat /\ Slack \in Nat /\ Burst \in Nat
         /\ \A i \in 1 .. Len(grants[k]) :
              /\ grants[k][i] \in Nat
              /\ Spent(k, i) \in Int /\ Gained(k, i) \in Int
              /\ Rate * (now - grants[k][i]) \in Int
              /\ Slack * (answer[k].at - grants[k][i]) \in Int
              /\ Slack * (now - grants[k][i]) \in Int
<1>1. /\ now \in Nat /\ level[k] \in Nat /\ answer[k].at \in Nat /\ answer[k].retry \in Nat
      /\ grants[k] \in Seq(Nat) /\ Len(grants[k]) \in Nat
      /\ Token \in Nat /\ Rate \in Nat /\ Slack \in Nat /\ Burst \in Nat
  BY BucketAssumption DEF BucketTypeOK, Answers, Full
<1>2. ASSUME NEW i \in 1 .. Len(grants[k])
      PROVE  /\ grants[k][i] \in Nat
             /\ Spent(k, i) \in Int /\ Gained(k, i) \in Int
             /\ Rate * (now - grants[k][i]) \in Int
             /\ Slack * (answer[k].at - grants[k][i]) \in Int
             /\ Slack * (now - grants[k][i]) \in Int
  <2>1. grants[k][i] \in Nat
    BY <1>1
  <2>2. /\ Len(grants[k]) - i + 1 \in Int /\ now - grants[k][i] \in Int
        /\ answer[k].at - grants[k][i] \in Int
        /\ Token \in Int /\ Rate \in Int /\ Slack \in Int
    BY SMTT(30), <1>1, <2>1
  <2>3. /\ Rate * (now - grants[k][i]) \in Int
        /\ Slack * (answer[k].at - grants[k][i]) \in Int
        /\ Slack * (now - grants[k][i]) \in Int
        /\ (Len(grants[k]) - i + 1) * Token \in Int
    BY <2>2, ProductInt, Zenon
  <2> QED BY <2>1, <2>3 DEF Spent, Gained
<1> QED BY <1>1, <1>2

\* The bucket starts full and nobody has been admitted.
LEMMA BucketInitInv == BucketInit => BucketInv
  BY BucketAssumption
  DEF BucketInit, BucketInv, BucketTypeOK, Accounted, Conformance, Answers, Full

\* A tick refills the bucket by no more than it adds to every open window.
LEMMA RefillInv == ASSUME BucketInv, Refill PROVE BucketInv'
<1>0. /\ now' = now + 1 /\ grants' = grants /\ answer' = answer
      /\ level' = [k \in Keys |-> AtMost(Full, level[k] + Rate)]
  BY DEF Refill
<1>1. BucketTypeOK'
  BY <1>0, BucketAssumption DEF BucketInv, BucketTypeOK, AtMost, Full
<1>2. Accounted'
  <2> SUFFICES ASSUME NEW k \in Keys
               PROVE  /\ answer'[k].at <= now'
                      /\ now' = answer'[k].at => level'[k] <= Burst
                      /\ \A i \in 1 .. Len(grants'[k]) :
                           /\ grants'[k][i] <= answer'[k].at
                           /\ Spent(k, i)' + level'[k] <= Burst + Gained(k, i)'
    BY Zenon DEF Accounted
  <2>1. answer'[k].at <= now' /\ now' # answer'[k].at
    BY <1>0, WindowTypes DEF BucketInv, Accounted
  <2>2. level'[k] <= level[k] + Rate /\ level'[k] \in Nat
    <3>1. level'[k] = AtMost(Full, level[k] + Rate)
      BY <1>0
    <3> QED BY <3>1, WindowTypes, BucketAssumption DEF BucketInv, AtMost, Full
  <2>3. ASSUME NEW i \in 1 .. Len(grants[k])
        PROVE  /\ grants'[k][i] <= answer'[k].at
               /\ Spent(k, i)' + level'[k] <= Burst + Gained(k, i)'
    <3>1. /\ grants[k][i] <= answer[k].at /\ Spent(k, i) + level[k] <= Burst + Gained(k, i)
          /\ Spent(k, i) \in Int /\ Gained(k, i) \in Int
      BY WindowTypes DEF BucketInv, Accounted
    <3>2. Gained(k, i)' = Gained(k, i) + Rate
      <4> DEFINE start == grants[k][i]
                 since == Slack * (answer[k].at - grants[k][i])
      <4>1. now \in Nat /\ start \in Nat /\ since \in Int
        BY WindowTypes DEF BucketInv
      <4> HIDE DEF start, since
      <4>2. (now + 1) - start = (now - start) + 1 /\ now - start \in Int
        BY <4>1
      <4>3. Rate * ((now + 1) - start) = Rate * (now - start) + Rate
        BY <4>2, OneMoreTick, BucketAssumption
      <4>4. Rate * (now - start) \in Int
        BY <4>2, ProductInt, BucketAssumption
      <4>5. Gained(k, i) = Rate * (now - start) + since
        BY Zenon DEF Gained, start, since
      <4>6. Gained(k, i)' = Rate * ((now + 1) - start) + since
        BY <1>0, Zenon DEF Gained, start, since
      <4> QED BY <4>1, <4>3, <4>4, <4>5, <4>6, BucketAssumption
    <3>3. Spent(k, i)' = Spent(k, i)
      BY <1>0, Zenon DEF Spent
    <3> QED BY SMTT(30), <1>0, <2>2, <3>1, <3>2, <3>3, WindowTypes, BucketAssumption DEF BucketInv
  <2> QED BY <1>0, <2>1, <2>3
<1>3. Conformance'
  BY <1>0, Zenon DEF Conformance, BucketInv
<1> QED BY <1>1, <1>2, <1>3 DEF BucketInv

\* What a call finds fits in every open window, counting the rounding of this
\* call when time has passed since the last.
LEMMA Found ==
  ASSUME BucketInv, NEW k \in Keys, NEW units \in Spendable(k)
  PROVE  /\ units \in 0 .. Burst
         /\ \A i \in 1 .. Len(grants[k]) :
              /\ grants[k][i] <= now
              /\ Spent(k, i) + units
                   <= Burst + Rate * (now - grants[k][i]) + Slack * (now - grants[k][i])
<1>1. /\ units \in 0 .. Burst
      /\ now # answer[k].at => units <= level[k] + Slack
      /\ now = answer[k].at => units = level[k]
  BY WindowTypes DEF Spendable, Rounded, BucketInv, Accounted
<1>2. ASSUME NEW i \in 1 .. Len(grants[k])
      PROVE  /\ grants[k][i] <= now
             /\ Spent(k, i) + units
                  <= Burst + Rate * (now - grants[k][i]) + Slack * (now - grants[k][i])
  <2> DEFINE spent == Spent(k, i)
             start == grants[k][i]
             last  == answer[k].at
             rate  == Rate * (now - start)
             slack == Slack * (last - start)
             more  == Slack * (now - start)
  <2>1. /\ spent \in Int /\ rate \in Int /\ slack \in Int /\ more \in Int
        /\ start \in Nat /\ last \in Nat /\ now \in Nat /\ level[k] \in Nat
        /\ Slack \in Nat /\ Burst \in Nat
    BY WindowTypes DEF BucketInv
  <2>2. start <= last /\ last <= now /\ spent + level[k] <= Burst + (rate + slack)
    BY DEF BucketInv, Accounted, Gained
  <2>3. now # last => more >= slack + Slack
    <3>1. start \in Nat /\ last \in Nat /\ now \in Nat /\ last <= now
      BY <2>1, <2>2
    <3> HIDE DEF start, last
    <3>2. now - start \in Int /\ last - start \in Int
      BY <3>1
    <3>3. now # last => now - start >= (last - start) + 1
      BY <3>1
    <3> QED BY <3>2, <3>3, MoreTicks, BucketAssumption
  <2>4. now = last => more = slack
    BY Zenon
  <2> HIDE DEF spent, start, last, rate, slack, more
  <2>5. start <= now
    BY <2>1, <2>2
  <2>6. spent + units <= Burst + rate + more
    <3>1. CASE now # last
      <4>1. units <= level[k] + Slack
        BY <1>1, <3>1 DEF last
      <4> QED BY <1>1, <2>1, <2>2, <2>3, <3>1, <4>1
    <3>2. CASE now = last
      <4>1. units = level[k]
        BY <1>1, <3>2 DEF last
      <4> QED BY <2>1, <2>2, <2>4, <3>2, <4>1
    <3> QED BY <3>1, <3>2
  <2> QED BY <2>5, <2>6 DEF spent, start, rate, more
<1> QED BY <1>1, <1>2, WindowTypes DEF BucketInv

\* A call leaves "rest" of what it found and makes of the grants "record": what
\* it admits now costs what it takes from the bucket.
LEMMA CallInv ==
  ASSUME BucketInv, NEW k \in Keys, NEW units \in Spendable(k), now' = now,
         NEW rest \in 0 .. Burst, level' = [level EXCEPT ![k] = rest],
         NEW reply \in Answers, reply.at = now, answer' = [answer EXCEPT ![k] = reply],
         \/ rest = units /\ grants' = grants
         \/ /\ rest = units - Token
            /\ grants' = [grants EXCEPT ![k] = Append(grants[k], now)]
  PROVE  BucketInv'
<1> DEFINE n == Len(grants[k])
<1>0. /\ now \in Nat /\ n \in Nat /\ grants[k] \in Seq(Nat) /\ Len(grants'[k]) \in {n, n + 1}
      /\ level'[k] = rest /\ answer'[k] = reply /\ units \in 0 .. Burst
      /\ \A i \in 1 .. n : grants'[k][i] = grants[k][i]
      /\ Len(grants'[k]) = n + 1 => grants'[k][n + 1] = now /\ rest = units - Token
      /\ Len(grants'[k]) = n => rest = units
      /\ \A x \in Keys \ {k} : /\ level'[x] = level[x] /\ grants'[x] = grants[x]
                               /\ answer'[x] = answer[x]
  <2>1. /\ level'[k] = rest /\ answer'[k] = reply
        /\ \A x \in Keys \ {k} : level'[x] = level[x] /\ answer'[x] = answer[x]
    BY DEF BucketInv, BucketTypeOK
  <2>2. /\ now \in Nat /\ n \in Nat /\ grants[k] \in Seq(Nat) /\ units \in 0 .. Burst
    BY WindowTypes, Found DEF BucketInv
  <2>3. CASE rest = units /\ grants' = grants
    BY <2>1, <2>2, <2>3
  <2>4. CASE /\ rest = units - Token
             /\ grants' = [grants EXCEPT ![k] = Append(grants[k], now)]
    <3>1. /\ grants'[k] = Append(grants[k], now)
          /\ \A x \in Keys \ {k} : grants'[x] = grants[x]
      BY <2>4 DEF BucketInv, BucketTypeOK
    <3>2. /\ Len(grants'[k]) = n + 1 /\ grants'[k][n + 1] = now
          /\ \A i \in 1 .. n : grants'[k][i] = grants[k][i]
      BY <2>2, <3>1
    <3> QED BY <2>1, <2>2, <2>4, <3>1, <3>2
  <2> QED BY <2>3, <2>4
<1>1. BucketTypeOK'
  <2>1. level' \in [Keys -> 0 .. Full]
    BY BucketAssumption DEF BucketInv, BucketTypeOK, Full
  <2>2. grants' \in [Keys -> Seq(Nat)]
    <3>1. grants \in [Keys -> Seq(Nat)] /\ Append(grants[k], now) \in Seq(Nat)
      BY <1>0 DEF BucketInv, BucketTypeOK
    <3> QED BY <3>1
  <2> QED BY <2>1, <2>2 DEF BucketInv, BucketTypeOK
<1>2. ASSUME NEW i \in 1 .. Len(grants'[k])
      PROVE  /\ grants'[k][i] <= now
             /\ Spent(k, i)' + rest <= Burst + Gained(k, i)'
  <2> DEFINE start == grants'[k][i]
             rate  == Rate * (now - start)
             slack == Slack * (now - start)
  <2>1. Gained(k, i)' = rate + slack
    <3>1. answer'[k].at = now
      BY <1>0
    <3> QED BY <3>1, Zenon DEF Gained
  <2>2. CASE i = n + 1
    <3>1. Len(grants'[k]) = n + 1 /\ start = now /\ rest = units - Token
      BY <1>0, <2>2
    <3>2. Spent(k, i)' = (1) * Token
      <4>1. Len(grants'[k]) - i + 1 = 1
        BY <1>0, <2>2, <3>1
      <4> QED BY <4>1, Zenon DEF Spent
    <3>3. rate = 0 /\ slack = 0
      <4> HIDE DEF start
      <4>1. now - start = 0
        BY <1>0, <3>1
      <4> QED BY <4>1, BucketAssumption
    <3> HIDE DEF start, rate, slack
    <3>4. start <= now /\ (1) * Token + rest <= Burst + (rate + slack)
      BY <1>0, <3>1, <3>3, BucketAssumption
    <3> QED BY <2>1, <3>2, <3>4, Zenon DEF start
  <2>3. CASE i # n + 1
    <3>1. i \in 1 .. n /\ start = grants[k][i]
      BY <1>0, <2>3
    <3>2. /\ start <= now /\ Spent(k, i) + units <= Burst + rate + slack
          /\ Spent(k, i) \in Int /\ rate \in Int /\ slack \in Int
      BY <3>1, Found, WindowTypes DEF BucketInv
    <3>3. Spent(k, i)' + rest = Spent(k, i) + units
      <4> DEFINE later == n - i
      <4>0. n \in Nat /\ i \in 1 .. n
        BY <1>0, <3>1
      <4>1. /\ later \in Int /\ n - i + 1 = later + 1
            /\ Len(grants'[k]) = n + 1 => Len(grants'[k]) - i + 1 = (later + 1) + 1
            /\ Len(grants'[k]) = n => Len(grants'[k]) - i + 1 = later + 1
        <5> HIDE DEF n
        <5> DEFINE m == Len(grants'[k])
        <5>1. later \in Int /\ n - i + 1 = later + 1
          BY <4>0
        <5>2. m = n + 1 => m - i + 1 = (later + 1) + 1
          <6> HIDE DEF m
          <6> QED BY <4>0
        <5>3. m = n => m - i + 1 = later + 1
          <6> HIDE DEF m
          <6> QED BY <4>0
        <5> QED BY <5>1, <5>2, <5>3
      <4>2. Spent(k, i) = (later + 1) * Token
        BY <4>1, Zenon DEF Spent
      <4>3. Spent(k, i)' = IF Len(grants'[k]) = n THEN (later + 1) * Token
                                                 ELSE ((later + 1) + 1) * Token
        BY <1>0, <4>1, Zenon DEF Spent
      <4>4. later + 1 \in Int
        BY <4>1
      <4> HIDE DEF later
      <4>5. ((later + 1) + 1) * Token = (later + 1) * Token + Token
        BY <4>4, OneMoreGrant, BucketAssumption
      <4>6. (later + 1) * Token \in Int
        BY <3>2, <4>2
      <4> HIDE DEF n
      <4>7. /\ Len(grants'[k]) = n \/ Len(grants'[k]) = n + 1
            /\ Len(grants'[k]) = n + 1 => rest = units - Token
            /\ Len(grants'[k]) = n => rest = units
            /\ units \in Nat /\ rest \in Nat /\ n \in Nat /\ Token \in Nat
        BY <1>0, BucketAssumption DEF n
      <4> DEFINE cost == (later + 1) * Token
      <4>8. Spent(k, i) = cost /\ ((later + 1) + 1) * Token = cost + Token /\ cost \in Int
        BY <4>2, <4>5, <4>6
      <4> HIDE DEF cost
      <4>9. CASE Len(grants'[k]) = n
        <5>1. Spent(k, i)' = cost /\ rest = units
          BY <4>3, <4>7, <4>9 DEF cost
        <5> QED BY <4>8, <5>1
      <4>10. CASE Len(grants'[k]) # n
        <5>1. Spent(k, i)' = cost + Token /\ rest = units - Token
          BY <4>3, <4>7, <4>8, <4>10
        <5> QED BY <4>7, <4>8, <5>1
      <4> QED BY <4>9, <4>10
    <3> HIDE DEF start, rate, slack
    <3>4. Spent(k, i)' + rest <= Burst + (rate + slack)
      BY <1>0, <3>2, <3>3, BucketAssumption
    <3> QED BY <2>1, <3>2, <3>4, Zenon DEF start
  <2> QED BY <2>2, <2>3
<1>3. Accounted'
  <2>1. ASSUME NEW x \in Keys \ {k}, NEW i \in 1 .. Len(grants[x])
        PROVE  Spent(x, i)' = Spent(x, i) /\ Gained(x, i)' = Gained(x, i)
    BY <1>0, Zenon DEF Spent, Gained
  <2>2. ASSUME NEW x \in Keys \ {k}
        PROVE  /\ answer'[x].at <= now'
               /\ now' = answer'[x].at => level'[x] <= Burst
               /\ \A i \in 1 .. Len(grants'[x]) :
                    /\ grants'[x][i] <= answer'[x].at
                    /\ Spent(x, i)' + level'[x] <= Burst + Gained(x, i)'
    BY <1>0, <2>1 DEF BucketInv, Accounted
  <2>3. /\ answer'[k].at <= now'
        /\ now' = answer'[k].at => level'[k] <= Burst
        /\ \A i \in 1 .. Len(grants'[k]) :
             /\ grants'[k][i] <= answer'[k].at
             /\ Spent(k, i)' + level'[k] <= Burst + Gained(k, i)'
    BY <1>0, <1>2
  <2> QED BY <2>2, <2>3, Zenon DEF Accounted
<1>4. Conformance'
  <2> SUFFICES ASSUME NEW x \in Keys, NEW j \in 1 .. Len(grants'[x]), NEW i \in 1 .. j
               PROVE  (j - i + 1) * Token
                        <= Burst + (Rate + Slack) * (grants'[x][j] - grants'[x][i])
    BY DEF Conformance
  <2>1. CASE x # k
    BY <1>0, <2>1 DEF BucketInv, Conformance
  <2>2. CASE x = k /\ j \in 1 .. n
    <3>1. i \in 1 .. n /\ grants'[x][j] = grants[k][j] /\ grants'[x][i] = grants[k][i]
      BY <1>0, <2>2
    <3>2. (j - i + 1) * Token <= Burst + (Rate + Slack) * (grants[k][j] - grants[k][i])
      BY <2>2 DEF BucketInv, Conformance
    <3> QED BY <3>1, <3>2, Zenon
  <2>3. CASE x = k /\ j \notin 1 .. n
    <3> DEFINE start == grants'[k][i]
               spent == (j - i + 1) * Token
               room  == Rate * (now - start) + Slack * (now - start)
    <3>0. Len(grants'[k]) = n + 1 /\ j = n + 1 /\ i \in 1 .. Len(grants'[k])
          /\ grants'[k][j] = now
      BY <1>0, <2>3
    <3>1. start \in Nat /\ now - start \in Int
      <4>1. grants'[k] \in Seq(Nat)
        BY <1>1 DEF BucketTypeOK
      <4>2. start \in Nat
        BY <3>0, <4>1
      <4> HIDE DEF start
      <4> QED BY <1>0, <4>2
    <3>2. Spent(k, i)' = spent /\ Gained(k, i)' = room
      <4>1. Len(grants'[k]) = j /\ answer'[k].at = now /\ now' = now
        BY <1>0, <3>0
      <4> QED BY <4>1, Zenon DEF Spent, Gained
    <3>3. spent + rest <= Burst + room
      BY <1>2, <3>0, <3>2
    <3>4. spent \in Int /\ room \in Int
      <4>1. j - i + 1 \in Int /\ Token \in Int /\ Rate \in Int /\ Slack \in Int
        BY <1>0, <3>0, BucketAssumption
      <4>2. spent \in Int /\ Rate * (now - start) \in Int /\ Slack * (now - start) \in Int
        BY <3>1, <4>1, ProductInt, Zenon
      <4> QED BY <4>2
    <3>5. room = (Rate + Slack) * (now - start)
      BY <3>1, RatesAdd, BucketAssumption
    <3> HIDE DEF spent, room, start
    <3>6. spent <= Burst + room
      BY <3>3, <3>4, BucketAssumption
    <3> QED BY <2>3, <3>0, <3>5, <3>6 DEF spent, start
  <2> QED BY <2>1, <2>2, <2>3
<1> QED BY <1>1, <1>3, <1>4 DEF BucketInv

LEMMA AdmitInv == ASSUME NEW k \in Keys, BucketInv, Admit(k) PROVE BucketInv'
<1>1. PICK units \in Spendable(k) :
        units >= Token /\ level' = [level EXCEPT ![k] = units - Token]
  BY DEF Admit
<1>2. units - Token \in 0 .. Burst
  BY <1>1, Found, BucketAssumption
<1>3. [ok |-> TRUE, retry |-> 0, at |-> now] \in Answers
  BY WindowTypes DEF BucketInv, Answers
<1> QED BY <1>1, <1>2, <1>3, CallInv DEF Admit

LEMMA DenyInv == ASSUME NEW k \in Keys, BucketInv, Deny(k) PROVE BucketInv'
<1>0. PICK units \in Spendable(k) : \E wait \in Waits(units) :
        /\ level' = [level EXCEPT ![k] = units]
        /\ answer' = [answer EXCEPT ![k] = [ok |-> FALSE, retry |-> wait, at |-> now]]
  BY DEF Deny
<1>1. PICK wait \in Waits(units) :
        /\ level' = [level EXCEPT ![k] = units]
        /\ answer' = [answer EXCEPT ![k] = [ok |-> FALSE, retry |-> wait, at |-> now]]
  BY <1>0
<1>2. units \in 0 .. Burst
  BY Found
<1>3. [ok |-> FALSE, retry |-> wait, at |-> now] \in Answers
  BY BucketAssumption, WindowTypes DEF BucketInv, Answers, Waits
<1> QED BY <1>1, <1>2, <1>3, CallInv DEF Deny

\* The bucket's state has its type and its grants conform, always.
THEOREM BucketInvariant == BucketSpec => []BucketInv
<1>1. BucketInv /\ [BucketNext]_bucketVars => BucketInv'
  <2> SUFFICES ASSUME BucketInv, [BucketNext]_bucketVars PROVE BucketInv'
    OBVIOUS
  <2>1. CASE Refill
    BY <2>1, RefillInv
  <2>2. ASSUME NEW k \in Keys, Admit(k) PROVE BucketInv'
    BY <2>2, AdmitInv
  <2>3. ASSUME NEW k \in Keys, Deny(k) PROVE BucketInv'
    BY <2>3, DenyInv
  <2>4. CASE UNCHANGED bucketVars
    BY <2>4 DEF bucketVars, BucketInv, BucketTypeOK, Accounted, Conformance, Spent, Gained
  <2> QED BY <2>1, <2>2, <2>3, <2>4 DEF BucketNext
<1> QED BY <1>1, BucketInitInv, PTL DEF BucketSpec

\* No behaviour of the token bucket admits a key beyond its rate and burst.
THEOREM BucketConforms == BucketSpec => []Conformance
<1>1. BucketInv => Conformance
  BY DEF BucketInv
<1> QED BY <1>1, BucketInvariant, PTL

-----------------------------------------------------------------------------
(* Denials are honest about how long to wait.                              *)

\* A denied key's bucket is what it was at the denial, plus the refills since.
Waiting ==
  \A k \in Keys : answer[k].ok = FALSE =>
    \E u \in 0 .. Token - 1 :
      /\ answer[k].retry \in Waits(u)
      /\ level[k] = AtMost(Full, u + (now - answer[k].at) * Rate)

\* A tick more is one more refill, and the cap may be applied at every tick.
LEMMA CapEachTick ==
  ASSUME NEW t \in Nat, NEW d \in Nat
  PROVE  AtMost(Full, t + (d + 1) * Rate) = AtMost(Full, AtMost(Full, t + d * Rate) + Rate)
<1> DEFINE gained == d * Rate
<1>1. (d + 1) * Rate = gained + Rate /\ gained \in Nat
  BY BucketAssumption
<1> HIDE DEF gained
<1>2. AtMost(Full, t + (gained + Rate)) = AtMost(Full, AtMost(Full, t + gained) + Rate)
  BY <1>1, BucketAssumption DEF AtMost, Full
<1> QED BY <1>1, <1>2 DEF gained

LEMMA WaitingInit == BucketInit => Waiting
  BY DEF BucketInit, Waiting

LEMMA WaitingNext ==
  ASSUME BucketInv, Waiting, [BucketNext]_bucketVars PROVE Waiting'
<1>1. CASE Refill
  <2> SUFFICES ASSUME NEW k \in Keys, answer'[k].ok = FALSE
               PROVE  \E u \in 0 .. Token - 1 :
                        /\ answer'[k].retry \in Waits(u)
                        /\ level'[k] = AtMost(Full, u + (now' - answer'[k].at) * Rate)
    BY DEF Waiting, Waits, AtMost, Full
  <2>0. answer' = answer /\ now' = now + 1 /\ answer[k].ok = FALSE
    BY <1>1 DEF Refill
  <2>1. now \in Nat /\ answer[k].at \in Nat /\ answer[k].at <= now
    BY WindowTypes DEF BucketInv, Accounted
  <2>2. PICK u \in 0 .. Token - 1 :
          /\ answer[k].retry \in Waits(u)
          /\ level[k] = AtMost(Full, u + (now - answer[k].at) * Rate)
    BY <2>0 DEF Waiting
  <2>3. level'[k] = AtMost(Full, level[k] + Rate)
    BY <1>1 DEF Refill
  <2>4. (now + 1) - answer[k].at = (now - answer[k].at) + 1 /\ now - answer[k].at \in Nat
    BY <2>1
  <2>5. u \in Nat
    BY BucketAssumption
  <2>6. level'[k] = AtMost(Full, u + ((now + 1) - answer[k].at) * Rate)
    BY <2>2, <2>3, <2>4, <2>5, CapEachTick
  <2>7. level'[k] = AtMost(Full, u + (now' - answer'[k].at) * Rate)
    <3>1. answer'[k].at = answer[k].at /\ now' = now + 1
      BY <2>0, Zenon
    <3>2. now' - answer'[k].at = (now + 1) - answer[k].at
      BY <3>1, Zenon
    <3> QED BY <2>6, <3>2, Zenon
  <2>8. answer'[k].retry \in Waits(u)
    BY <2>0, <2>2
  <2> QED BY <2>7, <2>8
<1>2. ASSUME NEW k \in Keys, Admit(k) PROVE Waiting'
  <2>1. /\ answer'[k].ok = TRUE /\ now' = now
        /\ \A x \in Keys \ {k} : answer'[x] = answer[x] /\ level'[x] = level[x]
    BY <1>2 DEF Admit, BucketInv, BucketTypeOK
  <2> QED BY <2>1 DEF Waiting
<1>3. ASSUME NEW k \in Keys, Deny(k) PROVE Waiting'
  <2>0. PICK units \in Spendable(k) : \E wait \in Waits(units) :
          /\ units < Token
          /\ level' = [level EXCEPT ![k] = units]
          /\ answer' = [answer EXCEPT ![k] = [ok |-> FALSE, retry |-> wait, at |-> now]]
    BY <1>3 DEF Deny
  <2>1. PICK wait \in Waits(units) :
          /\ units < Token
          /\ level' = [level EXCEPT ![k] = units]
          /\ answer' = [answer EXCEPT ![k] = [ok |-> FALSE, retry |-> wait, at |-> now]]
    BY <2>0
  <2>2. /\ level'[k] = units /\ answer'[k].retry = wait /\ answer'[k].at = now
        /\ now' = now
        /\ \A x \in Keys \ {k} : answer'[x] = answer[x] /\ level'[x] = level[x]
    BY <1>3, <2>1 DEF Deny, BucketInv, BucketTypeOK
  <2>3. units \in 0 .. Token - 1 /\ units \in 0 .. Burst /\ now \in Nat
    BY <2>1, Found, WindowTypes, BucketAssumption DEF BucketInv
  <2>4. units = AtMost(Full, units + (now - now) * Rate)
    <3>1. (now - now) * Rate = 0
      BY <2>3, BucketAssumption
    <3> QED BY <2>3, <3>1, BucketAssumption DEF AtMost, Full
  <2>5. \E u \in 0 .. Token - 1 :
          /\ answer'[k].retry \in Waits(u)
          /\ level'[k] = AtMost(Full, u + (now' - answer'[k].at) * Rate)
    BY <2>2, <2>3, <2>4
  <2> QED BY <2>2, <2>5, Zenon DEF Waiting
<1>4. CASE UNCHANGED bucketVars
  BY <1>4 DEF bucketVars, Waiting
<1> QED BY <1>1, <1>2, <1>3, <1>4 DEF BucketNext

\* While the promised time runs, less a rounding, what a call finds is short of a
\* token; a tick after it, not.
LEMMA WaitingLevel ==
  ASSUME BucketInv, Waiting, NEW k \in Keys, answer[k].ok = FALSE, NEW units \in Spendable(k)
  PROVE  /\ now < answer[k].at + answer[k].retry => units < Token
         /\ now > answer[k].at + answer[k].retry + 1 => units >= Token
<1>1. now \in Nat /\ answer[k].at \in Nat /\ answer[k].at <= now /\ units \in 0 .. Burst
  BY Found, WindowTypes DEF BucketInv, Accounted
<1>2. PICK u \in 0 .. Token - 1 :
        /\ answer[k].retry \in Waits(u)
        /\ level[k] = AtMost(Full, u + (now - answer[k].at) * Rate)
  BY DEF Waiting
<1> DEFINE d == now - answer[k].at
           w == answer[k].retry
           gained == d * Rate
           waited == w * Rate
<1>3. d \in Nat /\ u \in Nat /\ w \in Nat /\ gained \in Nat /\ waited \in Nat
  BY <1>1, <1>2, BucketAssumption DEF Waits
<1>4. waited <= Token - u + Slack /\ Token - u - Slack < waited + Rate
  <2>1. (w + 1) * Rate = waited + Rate
    BY <1>3, BucketAssumption
  <2> HIDE DEF w
  <2>2. w * Rate <= Token - u + Slack /\ Token - u - Slack < (w + 1) * Rate
    BY <1>2, Zenon DEF Waits, w
  <2> QED BY <2>1, <2>2
<1>5. /\ now < answer[k].at + w => d + 1 <= w
      /\ now > answer[k].at + w + 1 => d >= w + 2
  BY <1>1, <1>3
<1>6. level[k] = AtMost(Full, u + gained)
  BY <1>2
<1>7. /\ d + 1 <= w => gained + Rate <= waited
      /\ d >= w + 2 => gained >= waited + Rate + Rate
  <2> HIDE DEF d, w
  <2>1. Rate * d = d * Rate /\ Rate * w = w * Rate /\ Rate * (w + 1) = w * Rate + Rate
    BY <1>3, BucketAssumption
  <2>2. d + 1 <= w => Rate * w >= Rate * d + Rate
    BY <1>3, MoreTicks, BucketAssumption
  <2>3. d >= w + 2 => Rate * d >= Rate * (w + 1) + Rate
    <3>1. d >= w + 2 => d >= (w + 1) + 1 /\ w + 1 \in Int
      BY <1>3
    <3> QED BY <1>3, <3>1, MoreTicks, BucketAssumption
  <2> QED BY <2>1, <2>2, <2>3
<1>8. /\ units <= Burst
      /\ d = 0 => units = level[k]
      /\ d # 0 => units <= level[k] + Slack /\ (units >= level[k] - Slack \/ units = Burst)
  BY <1>1 DEF Spendable, Rounded
<1> HIDE DEF d, w, gained, waited
<1>9. d + 1 <= w => units < Token
  BY <1>3, <1>4, <1>6, <1>7, <1>8, <1>1, BucketAssumption DEF AtMost, Full
<1>10. d >= w + 2 => units >= Token
  BY <1>3, <1>4, <1>6, <1>7, <1>8, <1>1, BucketAssumption DEF AtMost, Full
<1> QED BY <1>5, <1>9, <1>10 DEF w

\* The denial's retryAfter is neither too short nor too long.
THEOREM BucketRetryHonest == BucketSpec => RetryHonest
<1>1. BucketInv /\ Waiting /\ [BucketNext]_bucketVars => [HonestStep]_bucketVars
  <2> SUFFICES ASSUME BucketInv, Waiting, BucketNext PROVE HonestStep
    OBVIOUS
  <2>1. CASE Refill
    BY <2>1 DEF Refill, HonestStep
  <2>2. ASSUME NEW k \in Keys, Admit(k) PROVE HonestStep
    <3>1. /\ answer'[k].ok = TRUE
          /\ \A x \in Keys \ {k} : answer'[x] = answer[x]
      BY <2>2 DEF Admit, BucketInv, BucketTypeOK
    <3>2. \E units \in Spendable(k) : ~(units < Token)
      BY <2>2, Found, BucketAssumption DEF Admit
    <3> QED BY <3>1, <3>2, WaitingLevel, Zenon DEF HonestStep
  <2>3. ASSUME NEW k \in Keys, Deny(k) PROVE HonestStep
    <3>1. /\ answer'[k].ok = FALSE
          /\ \A x \in Keys \ {k} : answer'[x] = answer[x]
      BY <2>3 DEF Deny, BucketInv, BucketTypeOK
    <3>2. \E units \in Spendable(k) : ~(units >= Token)
      BY <2>3, Found, BucketAssumption DEF Deny
    <3> QED BY <3>1, <3>2, WaitingLevel, Zenon DEF HonestStep
  <2> QED BY <2>1, <2>2, <2>3 DEF BucketNext
<1>2. BucketInv /\ Waiting /\ [BucketNext]_bucketVars => Waiting'
  BY WaitingNext
<1> QED BY <1>1, <1>2, WaitingInit, BucketInvariant, PTL DEF BucketSpec, RetryHonest
=============================================================================
