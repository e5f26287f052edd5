-------------------------- MODULE FailLimiterProofs --------------------------
(***************************************************************************)
(* FailLimiter proved for every set of keys and handlers, limit, window    *)
(* and map size: its map is capped, it refuses only keys that failed       *)
(* Limit times within a window, stale verdicts overshoot the limit by at   *)
(* most one failure per handler, and no period of a window's length lets   *)
(* twice the budget through.  Behind proxies, as Login composes it with    *)
(* ClientIP, it counts for the right host.                                 *)
(***************************************************************************)
EXTENDS Login, Integers, FiniteSetTheorems, WellFoundedInduction, TLAPS

\* The handlers comparing a credential for k.
Busy(k) == {w \in Workers : job[w] = k}

\* The entry of k counts k's latest failures, all since its window started.
Recorded ==
  \A k \in DOMAIN fails :
    /\ fails[k].count <= Len(failLog[k])
    /\ \A i \in (Len(failLog[k]) - fails[k].count + 1) .. Len(failLog[k]) :
         failLog[k][i] >= fails[k].windowStart /\ failLog[k][i] <= now

\* OvershootBounded speaks of the handlers between Blocked and Fail, not only
\* of the count: without them it is not inductive.
FailInv == TypeOK /\ OvershootBounded /\ Recorded

-----------------------------------------------------------------------------
(* Facts about the sets the counts are about.                              *)

LEMMA Numbers == Cardinality(Workers) \in Nat /\ IsFiniteSet(Keys) /\ IsFiniteSet(Workers)
  BY FailAssumption, FS_CardinalityType

LEMMA BusySize ==
  ASSUME NEW k
  PROVE  /\ IsFiniteSet(Busy(k)) /\ Cardinality(Busy(k)) \in Nat
         /\ Cardinality(Busy(k)) <= Cardinality(Workers)
<1>1. Busy(k) \in SUBSET Workers
  BY DEF Busy
<1> QED BY <1>1, Numbers, FS_Subset, FS_CardinalityType

\* A handler that is done with k leaves one handler less busy with k, and all
\* other keys as they were.
LEMMA OneLess ==
  ASSUME TypeOK, NEW w \in Workers, NEW k \in Keys, job[w] = k,
         job' = [job EXCEPT ![w] = None]
  PROVE  /\ Cardinality(Busy(k)') = Cardinality(Busy(k)) - 1
         /\ Cardinality(Busy(k)) >= 1
         /\ \A x \in Keys : x # k => Busy(x)' = Busy(x)
<1>1. Busy(k)' = Busy(k) \ {w} /\ w \in Busy(k)
  BY FailAssumption DEF Busy, TypeOK
<1>2. Cardinality(Busy(k) \ {w}) = Cardinality(Busy(k)) - 1 /\ Cardinality(Busy(k) \ {w}) \in Nat
  BY <1>1, BusySize, FS_RemoveElement, FS_CardinalityType
<1>3. \A x \in Keys : x # k => Busy(x)' = Busy(x)
  BY FailAssumption DEF Busy, TypeOK
<1> QED BY <1>1, <1>2, <1>3, BusySize

\* The tracked keys are finitely many.
LEMMA Tracked ==
  ASSUME TypeOK, NEW S \in SUBSET (DOMAIN fails)
  PROVE  IsFiniteSet(S) /\ Cardinality(S) \in Nat /\ Cardinality(S) <= Cardinality(DOMAIN fails)
         /\ IsFiniteSet(DOMAIN fails) /\ Cardinality(DOMAIN fails) \in Nat
<1>1. IsFiniteSet(DOMAIN fails)
  BY Numbers, FS_Subset DEF TypeOK
<1> QED BY <1>1, FS_Subset, FS_CardinalityType

\* The victims leave room for the new entry.
LEMMA VictimsLeaveRoom ==
  ASSUME TypeOK, NEW V \in Victims, NEW k
  PROVE  Cardinality((Swept \ V) \cup {k}) <= MaxKeys
<1>1. Swept \in SUBSET (DOMAIN fails) /\ V \in SUBSET Swept
  BY DEF Swept, Victims
<1>2. /\ IsFiniteSet(Swept) /\ Cardinality(Swept) \in Nat
      /\ Cardinality(Swept) <= Cardinality(DOMAIN fails) /\ Cardinality(DOMAIN fails) \in Nat
  BY <1>1, Tracked
<1>3. IsFiniteSet(V) /\ Cardinality(V) \in Nat
  BY <1>1, <1>2, FS_Subset, FS_CardinalityType
<1>4. IsFiniteSet(Swept \ V) /\ Cardinality(Swept \ V) \in Nat
  BY <1>2, FS_Subset, FS_CardinalityType
<1>5. Cardinality(Swept) = Cardinality(Swept \ V) + Cardinality(V)
  <2>1. (Swept \ V) \cup V = Swept /\ (Swept \ V) \cap V = {}
    BY <1>1
  <2>2. Cardinality((Swept \ V) \cap V) = 0
    BY <2>1, FS_EmptySet
  <2>3. Cardinality((Swept \ V) \cup V)
          = Cardinality(Swept \ V) + Cardinality(V) - Cardinality((Swept \ V) \cap V)
    BY <1>3, <1>4, FS_Union
  <2>4. Cardinality((Swept \ V) \cup V) = Cardinality(Swept)
    BY <2>1
  <2>5. Cardinality(Swept) = Cardinality(Swept \ V) + Cardinality(V) - 0
    BY <2>2, <2>3, <2>4
  <2> QED BY <1>3, <1>4, <2>5
<1>6. Cardinality(Swept \ V) <= MaxKeys - 1
  BY <1>2, <1>3, <1>4, <1>5, FailAssumption DEF Victims, TypeOK, Capped
<1>7. Cardinality((Swept \ V) \cup {k})
        = IF k \in Swept \ V THEN Cardinality(Swept \ V) ELSE Cardinality(Swept \ V) + 1
  BY <1>4, FS_AddElement
<1> QED BY <1>4, <1>6, <1>7, FailAssumption

-----------------------------------------------------------------------------
(* The invariant, action by action.                                        *)

LEMMA InitInv == Init => FailInv
<1> SUFFICES ASSUME Init PROVE FailInv
  OBVIOUS
<1>1. DOMAIN fails = {}
  BY DEF Init
<1>2. Cardinality(DOMAIN fails) = 0
  BY <1>1, FS_EmptySet
<1> QED BY <1>1, <1>2, FailAssumption DEF Init, FailInv, TypeOK, Capped, OvershootBounded, Recorded

LEMMA TickInv == FailInv /\ Tick => FailInv'
<1> SUFFICES ASSUME FailInv, Tick PROVE FailInv'
  OBVIOUS
<1>1. now \in Nat /\ now' = now + 1 /\ fails' = fails /\ job' = job /\ failLog' = failLog
  BY DEF Tick, FailInv, TypeOK
<1>2. TypeOK'
  BY <1>1 DEF FailInv, TypeOK, Capped, failTrack
<1>3. OvershootBounded'
  BY <1>1 DEF FailInv, OvershootBounded
<1>4. Recorded'
  <2> SUFFICES ASSUME NEW k \in DOMAIN fails,
                      NEW i \in (Len(failLog[k]) - fails[k].count + 1) .. Len(failLog[k])
               PROVE  /\ fails[k].count <= Len(failLog[k])
                      /\ failLog[k][i] >= fails[k].windowStart
                      /\ failLog[k][i] <= now + 1
    BY <1>1 DEF Recorded, FailInv
  <2>1. failLog[k] \in Seq(Nat) /\ fails[k].count \in Nat
    BY DEF FailInv, TypeOK, failTrack
  <2>2. /\ fails[k].count <= Len(failLog[k])
        /\ failLog[k][i] >= fails[k].windowStart /\ failLog[k][i] <= now
    BY DEF FailInv, Recorded
  <2>3. failLog[k][i] \in Nat
    BY <2>1, <2>2
  <2> QED BY <1>1, <2>2, <2>3
<1> QED BY <1>2, <1>3, <1>4 DEF FailInv

\* Dropping one tracked key keeps every other entry.
LEMMA DropInv ==
  ASSUME FailInv, NEW k \in Keys, fails' = Keep(DOMAIN fails \ {k}),
         now' = now, \A x \in Keys \ {k} : failLog'[x] = failLog[x] /\ Busy(x)' = Busy(x),
         failLog' \in [Keys -> Seq(Nat)], job' \in [Workers -> Keys \cup {None}]
  PROVE  FailInv'
<1>1. /\ DOMAIN fails' = DOMAIN fails \ {k}
      /\ \A x \in DOMAIN fails \ {k} : fails'[x] = fails[x]
  BY DEF Keep
<1>2. Capped'
  <2>1. Cardinality(DOMAIN fails \ {k}) \in Nat
        /\ Cardinality(DOMAIN fails \ {k}) <= Cardinality(DOMAIN fails)
        /\ Cardinality(DOMAIN fails) \in Nat
    BY Tracked DEF FailInv
  <2> QED BY <1>1, <2>1, FailAssumption DEF FailInv, TypeOK, Capped
<1>3. TypeOK'
  BY <1>1, <1>2 DEF FailInv, TypeOK
<1>4. OvershootBounded'
  BY <1>1 DEF FailInv, OvershootBounded, Busy, TypeOK
<1>5. Recorded'
  BY <1>1 DEF FailInv, Recorded, TypeOK
<1> QED BY <1>2, <1>3, <1>4, <1>5 DEF FailInv

LEMMA CheckInv ==
  ASSUME FailInv, NEW w \in Workers, NEW k \in Keys, Check(w, k)
  PROVE  FailInv'
<1>1. /\ job' \in [Workers -> Keys \cup {None}]
      /\ failLog' = failLog /\ now' = now
      /\ \A x \in Keys \ {k} : Busy(x)' = Busy(x)
  BY FailAssumption DEF Check, FailInv, TypeOK, Busy
<1>2. CASE k \in DOMAIN fails /\ ~Live(k)
  <2>1. fails' = Keep(DOMAIN fails \ {k})
    BY <1>2 DEF Check
  <2> QED BY <1>1, <2>1, DropInv DEF FailInv, TypeOK
<1>3. CASE ~(k \in DOMAIN fails /\ ~Live(k))
  <2>1. fails' = fails
    BY <1>3 DEF Check
  <2>2. TypeOK' /\ Recorded'
    BY <1>1, <2>1 DEF FailInv, TypeOK, Capped, Recorded
  <2>3. OvershootBounded'
    <3> SUFFICES ASSUME NEW x \in DOMAIN fails
                 PROVE  fails[x].count + Cardinality(Busy(x)')
                          <= Limit - 1 + Cardinality(Workers)
      BY <2>1 DEF OvershootBounded, Busy
    <3>1. fails[x].count + Cardinality(Busy(x)) <= Limit - 1 + Cardinality(Workers)
          /\ x \in Keys /\ fails[x].count \in Nat
      BY DEF FailInv, OvershootBounded, Busy, TypeOK, failTrack
    <3>2. CASE x # k \/ Blocked(k)
      <4>1. Busy(x)' = Busy(x)
        BY <1>1, <3>1, <3>2 DEF Check, Busy
      <4> QED BY <3>1, <4>1
    <3>3. CASE x = k /\ ~Blocked(k)
      <4>1. fails[k].count < Limit
        BY <1>3, <3>1, <3>3, FailAssumption DEF Blocked
      <4>2. Busy(k)' \in SUBSET Workers
        BY DEF Busy
      <4>3. Cardinality(Busy(k)') \in Nat /\ Cardinality(Busy(k)') <= Cardinality(Workers)
        BY <4>2, Numbers, FS_Subset, FS_CardinalityType
      <4> QED BY <3>1, <3>3, <4>1, <4>3, Numbers, FailAssumption
    <3> QED BY <3>2, <3>3
  <2> QED BY <2>2, <2>3 DEF FailInv
<1> QED BY <1>2, <1>3

LEMMA PassInv ==
  ASSUME FailInv, NEW w \in Workers, NEW k \in Keys, Pass(w, k)
  PROVE  FailInv'
<1>1. /\ job' \in [Workers -> Keys \cup {None}] /\ now' = now
      /\ failLog' \in [Keys -> Seq(Nat)]
      /\ \A x \in Keys \ {k} : failLog'[x] = failLog[x]
  BY FailAssumption DEF Pass, FailInv, TypeOK
<1>2. \A x \in Keys \ {k} : Busy(x)' = Busy(x)
  BY OneLess DEF Pass, FailInv
<1> QED BY <1>1, <1>2, DropInv DEF Pass

\* One more failure in a running window.
LEMMA CountInv ==
  ASSUME FailInv, NEW w \in Workers, NEW k \in Keys, job[w] = k,
         job' = [job EXCEPT ![w] = None], now' = now,
         k \in DOMAIN fails, Live(k), Count(k)
  PROVE  FailInv'
<1>1. /\ DOMAIN fails' = DOMAIN fails
      /\ fails'[k] = [count |-> fails[k].count + 1, windowStart |-> fails[k].windowStart]
      /\ \A x \in DOMAIN fails \ {k} : fails'[x] = fails[x]
      /\ fails[k].count \in Nat \ {0} /\ fails[k].windowStart \in Nat
      /\ fails[k].windowStart <= now /\ now \in Nat
  BY DEF Count, FailInv, TypeOK, failTrack
<1>2. /\ failLog[k] \in Seq(Nat) /\ failLog'[k] = Append(failLog[k], now)
      /\ Len(failLog'[k]) = Len(failLog[k]) + 1 /\ failLog'[k][Len(failLog[k]) + 1] = now
      /\ \A i \in 1 .. Len(failLog[k]) : failLog'[k][i] = failLog[k][i]
      /\ \A x \in Keys \ {k} : failLog'[x] = failLog[x]
  BY <1>1 DEF Count, FailInv, TypeOK
<1>3. TypeOK'
  <2>1. job' \in [Workers -> Keys \cup {None}] /\ failLog' \in [Keys -> Seq(Nat)]
    BY <1>1 DEF FailInv, TypeOK, Count
  <2>2. ASSUME NEW x \in DOMAIN fails'
        PROVE  fails'[x] \in failTrack /\ fails'[x].windowStart <= now
    <3>1. CASE x = k
      <4>1. fails[k].count + 1 \in Nat \ {0}
        BY <1>1
      <4> QED BY <1>1, <3>1, <4>1 DEF failTrack
    <3>2. CASE x # k
      BY <1>1, <3>2 DEF FailInv, TypeOK
    <3> QED BY <3>1, <3>2
  <2> QED BY <1>1, <2>1, <2>2 DEF FailInv, TypeOK, Capped
<1>4. OvershootBounded'
  <2> SUFFICES ASSUME NEW x \in DOMAIN fails
               PROVE  fails'[x].count + Cardinality(Busy(x)') <= Limit - 1 + Cardinality(Workers)
    BY <1>1 DEF OvershootBounded, Busy
  <2>1. fails[x].count + Cardinality(Busy(x)) <= Limit - 1 + Cardinality(Workers) /\ x \in Keys
    BY DEF FailInv, OvershootBounded, Busy, TypeOK
  <2>2. CASE x # k
    <3>1. Busy(x)' = Busy(x)
      BY <2>1, <2>2, OneLess DEF FailInv
    <3> QED BY <1>1, <2>1, <2>2, <3>1
  <2>3. CASE x = k
    <3>1. Cardinality(Busy(k)') = Cardinality(Busy(k)) - 1
      BY OneLess DEF FailInv
    <3> QED BY <1>1, <2>1, <2>3, <3>1, BusySize, Numbers, FailAssumption
  <2> QED BY <2>2, <2>3
<1>5. Recorded'
  <2> SUFFICES ASSUME NEW x \in DOMAIN fails
               PROVE  /\ fails'[x].count <= Len(failLog'[x])
                      /\ \A i \in (Len(failLog'[x]) - fails'[x].count + 1) .. Len(failLog'[x]) :
                           failLog'[x][i] >= fails'[x].windowStart /\ failLog'[x][i] <= now
    BY <1>1 DEF Recorded
  <2>1. x \in Keys
    BY DEF FailInv, TypeOK
  <2>2. CASE x # k
    BY <1>1, <1>2, <2>1, <2>2 DEF FailInv, Recorded
  <2>3. CASE x = k
    <3>1. /\ fails[k].count <= Len(failLog[k])
          /\ \A i \in (Len(failLog[k]) - fails[k].count + 1) .. Len(failLog[k]) :
               failLog[k][i] >= fails[k].windowStart /\ failLog[k][i] <= now
      BY DEF FailInv, Recorded
    <3>2. Len(failLog[k]) \in Nat
      BY <1>2
    <3>3. fails'[k].count = fails[k].count + 1 /\ fails'[k].windowStart = fails[k].windowStart
      BY <1>1
    <3>4. ASSUME NEW i \in (Len(failLog'[k]) - fails'[k].count + 1) .. Len(failLog'[k])
          PROVE  failLog'[k][i] >= fails[k].windowStart /\ failLog'[k][i] <= now
      <4>1. CASE i = Len(failLog[k]) + 1
        BY <1>1, <1>2, <4>1
      <4>2. CASE i # Len(failLog[k]) + 1
        <5>1. i \in (Len(failLog[k]) - fails[k].count + 1) .. Len(failLog[k])
              /\ i \in 1 .. Len(failLog[k])
          BY SMTT(30), <1>1, <1>2, <3>1, <3>2, <3>3, <3>4, <4>2
        <5> QED BY <1>2, <3>1, <5>1
      <4> QED BY <4>1, <4>2
    <3>5. fails'[k].count <= Len(failLog'[k])
      BY <1>1, <1>2, <3>1, <3>2, <3>3
    <3> QED BY <2>3, <3>3, <3>4, <3>5
  <2> QED BY <2>2, <2>3
<1> QED BY <1>3, <1>4, <1>5 DEF FailInv

\* The first failure of a window, which may push other keys out.
LEMMA OpenInv ==
  ASSUME FailInv, NEW w \in Workers, NEW k \in Keys, job[w] = k,
         job' = [job EXCEPT ![w] = None], now' = now, OpenWindow(k)
  PROVE  FailInv'
<1>1. PICK V \in Victims :
        /\ fails' = [x \in (Swept \ V) \cup {k} |->
                       IF x = k THEN [count |-> 1, windowStart |-> now] ELSE fails[x]]
        /\ failLog' = [x \in Keys |-> IF x = k THEN Append(failLog[x], now)
                                      ELSE IF x \in V THEN <<>> ELSE failLog[x]]
  BY DEF OpenWindow
<1>2. Swept \subseteq DOMAIN fails /\ DOMAIN fails \subseteq Keys /\ now \in Nat
  BY DEF Swept, FailInv, TypeOK
<1>3. TypeOK'
  <2>1. job' \in [Workers -> Keys \cup {None}] /\ failLog' \in [Keys -> Seq(Nat)]
    BY <1>1, <1>2 DEF FailInv, TypeOK
  <2>2. \A x \in DOMAIN fails' : fails'[x] \in failTrack /\ fails'[x].windowStart <= now
    BY <1>1, <1>2 DEF FailInv, TypeOK, failTrack
  <2>3. DOMAIN fails' \subseteq Keys
    BY <1>1, <1>2
  <2>4. Capped'
    <3>1. DOMAIN fails' = (Swept \ V) \cup {k}
      BY <1>1
    <3> QED BY <3>1, VictimsLeaveRoom DEF FailInv, Capped
  <2> QED BY <1>2, <2>1, <2>2, <2>3, <2>4 DEF TypeOK
<1>4. OvershootBounded'
  <2> SUFFICES ASSUME NEW x \in DOMAIN fails'
               PROVE  fails'[x].count + Cardinality(Busy(x)') <= Limit - 1 + Cardinality(Workers)
    BY DEF OvershootBounded, Busy
  <2>1. CASE x # k
    <3>1. x \in DOMAIN fails /\ x \in Keys /\ fails'[x] = fails[x]
      BY <1>1, <1>2, <2>1
    <3>2. Busy(x)' = Busy(x)
      BY <2>1, <3>1, OneLess DEF FailInv
    <3> QED BY <3>1, <3>2 DEF FailInv, OvershootBounded, Busy
  <2>2. CASE x = k
    <3>1. Cardinality(Busy(k)') = Cardinality(Busy(k)) - 1
      BY OneLess DEF FailInv
    <3>2. fails'[k].count = 1
      BY <1>1
    <3> QED BY <2>2, <3>1, <3>2, BusySize, Numbers, FailAssumption
  <2> QED BY <2>1, <2>2
<1>5. Recorded'
  <2> SUFFICES ASSUME NEW x \in DOMAIN fails'
               PROVE  /\ fails'[x].count <= Len(failLog'[x])
                      /\ \A i \in (Len(failLog'[x]) - fails'[x].count + 1) .. Len(failLog'[x]) :
                           failLog'[x][i] >= fails'[x].windowStart /\ failLog'[x][i] <= now
    BY DEF Recorded
  <2>1. CASE x # k
    <3>1. x \in DOMAIN fails /\ fails'[x] = fails[x] /\ failLog'[x] = failLog[x]
      BY <1>1, <1>2, <2>1
    <3> QED BY <3>1 DEF FailInv, Recorded
  <2>2. CASE x = k
    <3>1. /\ failLog[k] \in Seq(Nat) /\ Len(failLog[k]) \in Nat
          /\ failLog'[k] = Append(failLog[k], now)
          /\ Len(failLog'[k]) = Len(failLog[k]) + 1 /\ failLog'[k][Len(failLog[k]) + 1] = now
      BY <1>1, <1>2 DEF FailInv, TypeOK
    <3>2. fails'[k].count = 1 /\ fails'[k].windowStart = now
      BY <1>1
    <3> QED BY <1>2, <2>2, <3>1, <3>2
  <2> QED BY <2>1, <2>2
<1> QED BY <1>3, <1>4, <1>5 DEF FailInv

LEMMA NextInv == FailInv /\ [Next]_vars => FailInv'
<1> SUFFICES ASSUME FailInv, [Next]_vars PROVE FailInv'
  OBVIOUS
<1>1. CASE Tick
  BY <1>1, TickInv
<1>2. ASSUME NEW w \in Workers, NEW k \in Keys, Check(w, k) PROVE FailInv'
  BY <1>2, CheckInv
<1>3. ASSUME NEW w \in Workers, NEW k \in Keys, Fail(w, k) PROVE FailInv'
  <2>1. job[w] = k /\ job' = [job EXCEPT ![w] = None] /\ now' = now
    BY <1>3 DEF Fail
  <2>2. CASE k \in DOMAIN fails /\ Live(k)
    BY <1>3, <2>1, <2>2, CountInv DEF Fail
  <2>3. CASE ~(k \in DOMAIN fails /\ Live(k))
    BY <1>3, <2>1, <2>3, OpenInv DEF Fail
  <2> QED BY <2>2, <2>3
<1>4. ASSUME NEW w \in Workers, NEW k \in Keys, Pass(w, k) PROVE FailInv'
  BY <1>4, PassInv
<1>5. CASE UNCHANGED vars
  BY <1>5 DEF vars, FailInv, TypeOK, Capped, OvershootBounded, Recorded
<1> QED BY <1>1, <1>2, <1>3, <1>4, <1>5 DEF Next

LEMMA Invariance == Spec => []FailInv
  BY InitInv, NextInv, PTL DEF Spec

-----------------------------------------------------------------------------
(* The theorems.                                                           *)

\* FailLimiter's state always has its type, and its map never holds more than
\* maxFailKeys keys.
THEOREM TypeCorrect == Spec => []TypeOK
<1>1. FailInv => TypeOK
  BY DEF FailInv
<1> QED BY <1>1, Invariance, PTL

\* Handlers with a stale verdict overshoot the limit by at most one each.
THEOREM OvershootIsBounded == Spec => []OvershootBounded
<1>1. FailInv => OvershootBounded
  BY DEF FailInv
<1> QED BY <1>1, Invariance, PTL

\* A key is refused only for Limit failures of its own in the last Window.
THEOREM BlockedIsDeserved == Spec => []BlockedDeserved
<1>1. FailInv => BlockedDeserved
  <2> SUFFICES ASSUME FailInv, NEW k \in Keys, Blocked(k)
               PROVE  Cardinality({i \in 1 .. Len(failLog[k]) : now - failLog[k][i] < Window})
                        >= Limit
    BY DEF BlockedDeserved
  <2> DEFINE n == Len(failLog[k])
             c == fails[k].count
             recent == {i \in 1 .. n : now - failLog[k][i] < Window}
  <2>1. /\ k \in DOMAIN fails /\ c \in Nat /\ c >= Limit /\ n \in Nat /\ now \in Nat
        /\ fails[k].windowStart \in Nat /\ now - fails[k].windowStart < Window
        /\ failLog[k] \in Seq(Nat)
    BY DEF Blocked, Live, FailInv, TypeOK, failTrack
  <2>2. c <= n /\ \A i \in (n - c + 1) .. n : failLog[k][i] >= fails[k].windowStart
    BY <2>1 DEF FailInv, Recorded
  <2>3. (n - c + 1) .. n \in SUBSET recent
    <3> SUFFICES ASSUME NEW i \in (n - c + 1) .. n PROVE i \in recent
      OBVIOUS
    <3>1. i \in 1 .. n /\ failLog[k][i] \in Nat /\ failLog[k][i] >= fails[k].windowStart
      BY SMTT(30), <2>1, <2>2
    <3>2. now - failLog[k][i] < Window
      <4>1. now \in Int /\ failLog[k][i] \in Int /\ fails[k].windowStart \in Int /\ Window \in Int
        BY <2>1, <3>1, FailAssumption
      <4>2. now - failLog[k][i] <= now - fails[k].windowStart
        BY <3>1, <4>1
      <4> QED BY <2>1, <4>1, <4>2
    <3> QED BY <3>1, <3>2
  <2>4. IsFiniteSet(recent) /\ Cardinality(recent) \in Nat
    <3>1. IsFiniteSet(1 .. n) /\ recent \in SUBSET (1 .. n)
      BY <2>1, FS_Interval
    <3> QED BY <3>1, FS_Subset, FS_CardinalityType
  <2>5. Cardinality((n - c + 1) .. n) = c
    <3>1. n - c + 1 \in Int /\ n \in Int
      BY <2>1
    <3>2. Cardinality((n - c + 1) .. n) = IF n - c + 1 > n THEN 0 ELSE n - (n - c + 1) + 1
      BY <3>1, FS_Interval
    <3> QED BY <2>1, <3>2, FailAssumption
  <2>6. c <= Cardinality(recent)
    BY ZenonT(30), <2>3, <2>4, <2>5, FS_Subset
  <2> HIDE DEF recent, c
  <2>7. Cardinality(recent) >= Limit
    BY <2>1, <2>4, <2>6, FailAssumption
  <2> QED BY <2>7 DEF recent
<1> QED BY <1>1, Invariance, PTL

\* An eviction that loses a running window finds the map full of running
\* windows, and loses no other.
LEMMA EvictionIsNeeded ==
  ASSUME FailInv, NEW x \in Keys, OpenWindow(x),
         NEW k \in DOMAIN fails, Live(k), k \notin DOMAIN fails'
  PROVE  /\ Cardinality(DOMAIN fails) = MaxKeys
         /\ \A y \in DOMAIN fails : Live(y) /\ (y # k => y \in DOMAIN fails')
<1>1. PICK V \in Victims : DOMAIN fails' = (Swept \ V) \cup {x}
  BY DEF OpenWindow
<1>2. /\ Swept \in SUBSET (DOMAIN fails) /\ k \in Swept /\ V \in SUBSET Swept /\ k \in V
  BY <1>1 DEF Swept, Victims
<1>3. /\ IsFiniteSet(Swept) /\ Cardinality(Swept) \in Nat /\ IsFiniteSet(DOMAIN fails)
      /\ Cardinality(Swept) <= Cardinality(DOMAIN fails) /\ Cardinality(DOMAIN fails) \in Nat
  BY <1>2, Tracked DEF FailInv
<1>4. IsFiniteSet(V) /\ Cardinality(V) \in Nat /\ Cardinality(V) # 0
  BY <1>2, <1>3, FS_Subset, FS_CardinalityType, FS_EmptySet
<1>5. Cardinality(Swept) >= MaxKeys /\ Cardinality(V) = Cardinality(Swept) - MaxKeys + 1
  BY <1>3, <1>4, FailAssumption DEF Victims
<1>6. Cardinality(DOMAIN fails) = MaxKeys /\ Cardinality(Swept) = Cardinality(DOMAIN fails)
  BY <1>3, <1>5, FailAssumption DEF FailInv, TypeOK, Capped
<1>7. Swept = DOMAIN fails
  BY <1>2, <1>3, <1>6, FS_Subset
<1>8. V = {k}
  <2>1. Cardinality(V) = 1
    BY <1>5, <1>6, FailAssumption
  <2>2. PICK v : V = {v}
    BY <1>4, <2>1, FS_Singleton
  <2> QED BY <1>2, <2>2
<1>9. Swept = {y \in DOMAIN fails : Live(y)}
  BY <1>3, <1>6, FailAssumption DEF Swept
<1> QED BY <1>1, <1>6, <1>7, <1>8, <1>9

\* A running lockout is lost to its own key's success or to a full map only.
THEOREM LockoutsAreKept == Spec => LostOnlyWhenFull
<1>1. ASSUME FailInv, Next, NEW k \in DOMAIN fails, Live(k), k \notin DOMAIN fails'
      PROVE  MayLose(k)
  <2>1. CASE Tick
    BY <1>1, <2>1 DEF Tick
  <2>2. ASSUME NEW w \in Workers, NEW x \in Keys, Check(w, x) PROVE MayLose(k)
    BY <1>1, <2>2 DEF Check, Keep
  <2>3. ASSUME NEW w \in Workers, NEW x \in Keys, Fail(w, x) PROVE MayLose(k)
    <3>1. CASE x \in DOMAIN fails /\ Live(x)
      BY <1>1, <2>3, <3>1 DEF Fail, Count
    <3>2. CASE ~(x \in DOMAIN fails /\ Live(x))
      <4>1. OpenWindow(x)
        BY <2>3, <3>2 DEF Fail
      <4> QED BY <1>1, <4>1, EvictionIsNeeded DEF MayLose
    <3> QED BY <3>1, <3>2
  <2>4. ASSUME NEW w \in Workers, NEW x \in Keys, Pass(w, x) PROVE MayLose(k)
    <3>1. x = k /\ job[w] = k
      BY <1>1, <2>4 DEF Pass, Keep
    <3>2. job'[w] = None
      BY <1>1, <2>4 DEF Pass, FailInv, TypeOK
    <3> QED BY <3>1, <3>2 DEF MayLose
  <2> QED BY <1>1, <2>1, <2>2, <2>3, <2>4 DEF Next
<1>2. FailInv /\ [Next]_vars => [LoseStep]_vars
  BY <1>1 DEF LoseStep
<1> QED BY <1>2, Invariance, PTL DEF Spec, LostOnlyWhenFull

-----------------------------------------------------------------------------
(* Any period of a window's length.                                        *)

\* What one window lets through, handlers with stale verdicts included.
Budget == Limit - 1 + Cardinality(Workers)

\* The n failures of a key fall into windows that start at S: none has more
\* than the budget, and the next starts a Window or more after the one before.
Sorted(log, n) == \A i, j \in 1 .. n : i <= j => log[i] <= log[j]

Short(n, S) == \A j \in 1 .. n : \E t \in S : t <= j /\ j < t + Budget

Apart(log, S) ==
  \A t \in S : t = 1 \/ \E s \in S : s < t /\ t <= s + Budget /\ log[t] - log[s] >= Window

Divided(log, n, S) == Sorted(log, n) /\ Short(n, S) /\ Apart(log, S)

\* The next failure, at time x, may start a window.
MayStart(log, n, S, x) ==
  n = 0 \/ \E s \in S : n < s + Budget /\ x - log[s] >= Window

\* The entry of k is the last of these windows; without one it is over.
Current(k, n, S) ==
  IF k \in DOMAIN fails
    THEN /\ n - fails[k].count + 1 \in S
         /\ failLog[k][n - fails[k].count + 1] = fails[k].windowStart
    ELSE MayStart(failLog[k], n, S, now)

InWindows(k, n) ==
  /\ \A i \in 1 .. n : failLog[k][i] <= now
  /\ \E S \in SUBSET (1 .. n) : Divided(failLog[k], n, S) /\ Current(k, n, S)

WindowsInv == \A k \in Keys : InWindows(k, Len(failLog[k]))

\* The numbers are natural ones.
LEMMA BudgetType == Budget \in Nat /\ Limit \in Nat /\ Window \in Nat
BY Numbers, FailAssumption DEF Budget

\* One more failure, at time x.
Extended(log, n, new, x) ==
  /\ \A i \in 1 .. n : new[i] = log[i] /\ log[i] \in Nat /\ log[i] <= x
  /\ new[n + 1] = x

\* It comes last and moves no other.
LEMMA StaysSorted ==
  ASSUME NEW n \in Nat, NEW log, NEW new, NEW x \in Nat,
         Extended(log, n, new, x), Sorted(log, n)
  PROVE  Sorted(new, n + 1)
<1> SUFFICES ASSUME NEW i \in 1 .. n + 1, NEW j \in 1 .. n + 1, i <= j
             PROVE  new[i] <= new[j]
  BY DEF Sorted
<1>1. CASE j = n + 1
  BY <1>1 DEF Extended
<1>2. CASE j # n + 1
  <2>1. i \in 1 .. n /\ j \in 1 .. n
    BY <1>2
  <2> QED  BY <2>1 DEF Extended, Sorted
<1> QED  BY <1>1, <1>2

\* The windows before keep their distances.
LEMMA StaysApart ==
  ASSUME NEW n \in Nat, NEW S \in SUBSET (1 .. n), NEW log, NEW new, NEW x,
         Extended(log, n, new, x), Apart(log, S)
  PROVE  Apart(new, S)
BY DEF Apart, Extended

\* It belongs to the last window.
LEMMA LongerWindow ==
  ASSUME NEW n \in Nat, NEW S \in SUBSET (1 .. n), NEW log, NEW new, NEW x \in Nat,
         Extended(log, n, new, x), Divided(log, n, S),
         NEW t \in S, n + 1 < t + Budget
  PROVE  Divided(new, n + 1, S)
<1>1. Short(n + 1, S)
  <2> SUFFICES ASSUME NEW j \in 1 .. n + 1 PROVE \E s \in S : s <= j /\ j < s + Budget
    BY DEF Short
  <2>1. CASE j = n + 1
    BY <2>1
  <2>2. CASE j \in 1 .. n
    BY <2>2 DEF Divided, Short
  <2> QED  BY <2>1, <2>2
<1> QED  BY <1>1, StaysSorted, StaysApart DEF Divided

\* Or it starts another one.
LEMMA AnotherWindow ==
  ASSUME NEW n \in Nat, NEW S \in SUBSET (1 .. n), NEW log, NEW new, NEW x \in Nat,
         Extended(log, n, new, x), Divided(log, n, S),
         MayStart(log, n, S, x), Budget >= 1
  PROVE  Divided(new, n + 1, S \cup {n + 1})
<1>1. Short(n + 1, S \cup {n + 1})
  <2> SUFFICES ASSUME NEW j \in 1 .. n + 1
               PROVE  \E s \in S \cup {n + 1} : s <= j /\ j < s + Budget
    BY DEF Short
  <2>1. CASE j = n + 1
    BY <2>1, BudgetType
  <2>2. CASE j \in 1 .. n
    BY <2>2 DEF Divided, Short
  <2> QED  BY <2>1, <2>2
<1>2. Apart(new, S)
  BY StaysApart DEF Divided
<1>3. n = 0 \/ \E s \in S : s < n + 1 /\ n + 1 <= s + Budget /\ new[n + 1] - new[s] >= Window
  <2> SUFFICES ASSUME n # 0
               PROVE  \E s \in S : s < n + 1 /\ n + 1 <= s + Budget /\ new[n + 1] - new[s] >= Window
    OBVIOUS
  <2>1. PICK s \in S : n < s + Budget /\ x - log[s] >= Window
    BY DEF MayStart
  <2>2. s \in 1 .. n /\ new[n + 1] = x /\ new[s] = log[s]
    BY DEF Extended
  <2>3. s < n + 1 /\ n + 1 <= s + Budget
    BY <2>1, <2>2, BudgetType
  <2> QED  BY <2>1, <2>2, <2>3
<1>4. Apart(new, S \cup {n + 1})
  <2> SUFFICES ASSUME NEW t \in S \cup {n + 1}
               PROVE  t = 1 \/ \E s \in S : s < t /\ t <= s + Budget /\ new[t] - new[s] >= Window
    BY DEF Apart
  <2>1. CASE t \in S
    BY <2>1, <1>2 DEF Apart
  <2>2. CASE t = n + 1
    BY <2>2, <1>3
  <2> QED  BY <2>1, <2>2
<1> QED  BY <1>1, <1>4, StaysSorted DEF Divided

\* Within a Window of any failure there is room for the rest of its window and
\* for the next, but not for both to be full.
LEMMA Spread ==
  ASSUME NEW n \in Nat, NEW S \in SUBSET (1 .. n), NEW log, \A m \in 1 .. n : log[m] \in Nat,
         Divided(log, n, S),
         NEW i \in 1 .. n, NEW j \in 1 .. n, i <= j, log[j] - log[i] < Window
  PROVE  j <= i + (2 * Budget - 2) /\ Budget >= 1
<1>1. PICK t \in S : t <= j /\ j < t + Budget
  BY DEF Divided, Short
<1>2. Budget >= 1 /\ t \in 1 .. n
  BY <1>1, BudgetType
<1> SUFFICES ASSUME j > i + (2 * Budget - 2) PROVE FALSE
  BY <1>2, BudgetType
<1>3. t >= i + Budget
  BY <1>1, <1>2, BudgetType
<1>4. t # 1
  BY <1>2, <1>3, BudgetType
<1>5. PICK s \in S : s < t /\ t <= s + Budget /\ log[t] - log[s] >= Window
  BY <1>4 DEF Divided, Apart
<1>6. s \in 1 .. n /\ i <= s
  BY <1>2, <1>3, <1>5, BudgetType
<1>7. log[i] <= log[s] /\ log[t] <= log[j]
  BY <1>1, <1>2, <1>6 DEF Divided, Sorted
<1>8. log[i] \in Nat /\ log[j] \in Nat /\ log[s] \in Nat /\ log[t] \in Nat
  BY <1>2, <1>6
<1> QED  BY <1>5, <1>7, <1>8, BudgetType

\* What the invariant knows of an entry.
LEMMA EntryFacts ==
  ASSUME FailInv, NEW k \in Keys
  PROVE  /\ now \in Nat /\ failLog[k] \in Seq(Nat) /\ Len(failLog[k]) \in Nat
         /\ \A i \in 1 .. Len(failLog[k]) : failLog[k][i] \in Nat
         /\ k \in DOMAIN fails =>
              /\ fails[k].count \in Nat \ {0} /\ fails[k].windowStart \in Nat
              /\ fails[k].count <= Len(failLog[k])
              /\ fails[k].count + Cardinality(Busy(k)) <= Budget
<1>1. now \in Nat /\ failLog[k] \in Seq(Nat)
  BY DEF FailInv, TypeOK
<1>2. ASSUME k \in DOMAIN fails
      PROVE  /\ fails[k].count \in Nat \ {0} /\ fails[k].windowStart \in Nat
             /\ fails[k].count <= Len(failLog[k])
             /\ fails[k].count + Cardinality(Busy(k)) <= Budget
  BY <1>2 DEF FailInv, TypeOK, failTrack, Recorded, OvershootBounded, Busy, Budget
<1> QED  BY <1>1, <1>2

\* An expired window is over.
LEMMA ExpiredIsOver ==
  ASSUME FailInv, NEW k \in Keys, NEW n, n = Len(failLog[k]), NEW S \in SUBSET (1 .. n),
         Current(k, n, S), k \in DOMAIN fails => ~Live(k)
  PROVE  MayStart(failLog[k], n, S, now)
<1>1. CASE k \notin DOMAIN fails
  BY <1>1 DEF Current
<1>2. CASE k \in DOMAIN fails
  <2> DEFINE s == n - fails[k].count + 1
  <2>1. /\ fails[k].count \in Nat /\ n \in Nat /\ Cardinality(Busy(k)) \in Nat
        /\ fails[k].count + Cardinality(Busy(k)) <= Budget
    BY <1>2, EntryFacts, BusySize
  <2>2. s \in S /\ failLog[k][s] = fails[k].windowStart
    BY <1>2 DEF Current
  <2>3. n < s + Budget
    BY <2>1, BudgetType
  <2>4. now - failLog[k][s] >= Window
    BY <1>2, <2>2, EntryFacts, BudgetType DEF Live
  <2> HIDE DEF s
  <2> QED  BY <2>2, <2>3, <2>4 DEF MayStart
<1> QED  BY <1>1, <1>2

\* A key that does not fail in a step: its entry stays, or it has expired and
\* may go.
LEMMA OtherKey ==
  ASSUME FailInv, NEW k \in Keys, InWindows(k, Len(failLog[k])),
         failLog'[k] = failLog[k], now' \in Nat, now <= now',
         \/ k \in DOMAIN fails /\ k \in DOMAIN fails' /\ fails'[k] = fails[k]
         \/ k \notin DOMAIN fails' /\ (k \in DOMAIN fails => ~Live(k))
  PROVE  InWindows(k, Len(failLog[k]))'
<1> DEFINE n == Len(failLog[k])
<1>1. PICK S \in SUBSET (1 .. n) : Divided(failLog[k], n, S) /\ Current(k, n, S)
  BY DEF InWindows
<1>2. now \in Nat /\ n \in Nat /\ \A i \in 1 .. n : failLog[k][i] \in Nat
  BY EntryFacts
<1>3. \A i \in 1 .. n : failLog[k][i] <= now'
  BY <1>2 DEF InWindows
<1>4. Current(k, n, S)'
  <2>1. CASE k \in DOMAIN fails /\ k \in DOMAIN fails' /\ fails'[k] = fails[k]
    BY <1>1, <2>1 DEF Current
  <2>2. CASE k \notin DOMAIN fails' /\ (k \in DOMAIN fails => ~Live(k))
    <3>1. MayStart(failLog[k], n, S, now)
      BY <1>1, <2>2, ExpiredIsOver
    <3>2. MayStart(failLog[k], n, S, now')
      BY <1>2, <3>1, BudgetType DEF MayStart
    <3> QED  BY <2>2, <3>2 DEF Current
  <2> QED  BY <2>1, <2>2
<1>5. n' = n
  OBVIOUS
<1>6. Divided(failLog[k], n, S)'
  BY <1>1 DEF Divided, Sorted, Short, Apart, Budget
<1> QED  BY <1>1, <1>3, <1>4, <1>5, <1>6 DEF InWindows

\* A key that succeeds or is evicted starts afresh.
LEMMA Afresh ==
  ASSUME NEW k \in Keys, failLog'[k] = <<>>, k \notin DOMAIN fails'
  PROVE  InWindows(k, Len(failLog[k]))'
<1>1. Len(failLog'[k]) = 0
  OBVIOUS
<1>2. Divided(failLog'[k], 0, {}) /\ MayStart(failLog'[k], 0, {}, now')
  BY DEF Divided, Sorted, Short, Apart, MayStart
<1> QED  BY <1>1, <1>2 DEF InWindows, Current, Divided, Sorted, Short, Apart, MayStart

\* How to show that the next state has its windows.
LEMMA EntryAfter ==
  ASSUME NEW k \in Keys, k \in DOMAIN fails', NEW m, Len(failLog'[k]) = m, now' = now,
         \A i \in 1 .. m : failLog'[k][i] <= now,
         NEW S \in SUBSET (1 .. m), Divided(failLog'[k], m, S),
         m - fails'[k].count + 1 \in S,
         failLog'[k][m - fails'[k].count + 1] = fails'[k].windowStart
  PROVE  InWindows(k, Len(failLog[k]))'
BY DEF InWindows, Current, Divided, Sorted, Short, Apart, Budget

\* The key that fails, in its window or out of it.
LEMMA FailingKey ==
  ASSUME FailInv, NEW w \in Workers, NEW k \in Keys, job[w] = k,
         InWindows(k, Len(failLog[k])), job' = [job EXCEPT ![w] = None], now' = now,
         failLog'[k] = Append(failLog[k], now), k \in DOMAIN fails',
         \/ /\ k \in DOMAIN fails
            /\ fails'[k] = [count |-> fails[k].count + 1, windowStart |-> fails[k].windowStart]
         \/ /\ k \in DOMAIN fails => ~Live(k)
            /\ fails'[k] = [count |-> 1, windowStart |-> now]
  PROVE  InWindows(k, Len(failLog[k]))'
<1> DEFINE n == Len(failLog[k])  log == failLog[k]  new == failLog'[k]
<1>1. PICK S \in SUBSET (1 .. n) : Divided(log, n, S) /\ Current(k, n, S)
  BY DEF InWindows
<1>2. /\ now \in Nat /\ n \in Nat /\ \A i \in 1 .. n : log[i] \in Nat /\ log[i] <= now
      /\ log \in Seq(Nat)
  BY EntryFacts DEF InWindows
<1>3. Extended(log, n, new, now) /\ Len(new) = n + 1
  BY <1>2 DEF Extended
<1>4. \A i \in 1 .. n + 1 : new[i] <= now
  BY <1>2, <1>3 DEF Extended
<1>5. Cardinality(Busy(k)) >= 1 /\ Cardinality(Busy(k)) \in Nat
  BY OneLess, BusySize DEF FailInv
<1>6. Budget >= 1
  BY <1>5, BusySize, Numbers, FailAssumption DEF Budget
<1> DEFINE m == n + 1  first == m - fails'[k].count + 1
<1>7. ASSUME NEW T \in SUBSET (1 .. m), Divided(new, m, T),
             first \in T, new[first] = fails'[k].windowStart
      PROVE  InWindows(k, Len(failLog[k]))'
  <2>1. Len(failLog'[k]) = m /\ \A i \in 1 .. m : failLog'[k][i] <= now
    BY <1>3, <1>4
  <2> HIDE DEF m, n, log
  <2> QED  BY <1>7, <2>1, EntryAfter
<1>8. CASE /\ k \in DOMAIN fails
           /\ fails'[k] = [count |-> fails[k].count + 1, windowStart |-> fails[k].windowStart]
  <2> DEFINE t == n - fails[k].count + 1
  <2>1. /\ fails[k].count \in Nat \ {0} /\ fails[k].count <= n
        /\ fails[k].count + Cardinality(Busy(k)) <= Budget
    BY <1>8, EntryFacts
  <2>2. t \in S /\ log[t] = fails[k].windowStart
    BY <1>1, <1>8 DEF Current
  <2>3. n + 1 < t + Budget
    BY <1>2, <1>5, <2>1, BudgetType
  <2>4. first = t
    BY <1>2, <1>8, <2>1
  <2>5. new[t] = fails'[k].windowStart
    <3>1. t \in 1 .. n /\ log[t] = fails[k].windowStart
      BY <2>2
    <3>2. new[t] = log[t]
      BY <1>3, <3>1 DEF Extended
    <3>3. fails'[k].windowStart = fails[k].windowStart
      BY <1>8
    <3> HIDE DEF t, new, log
    <3> QED  BY <3>1, <3>2, <3>3
  <2> HIDE DEF first, t, log, new, n
  <2>6. Divided(new, n + 1, S)
    BY <1>1, <1>2, <1>3, <2>2, <2>3, LongerWindow
  <2>7. S \in SUBSET (1 .. n + 1)
    BY <1>1, <1>2
  <2> QED  BY <1>7, <2>2, <2>4, <2>5, <2>6, <2>7
<1>9. CASE /\ k \in DOMAIN fails => ~Live(k)
           /\ fails'[k] = [count |-> 1, windowStart |-> now]
  <2>1. MayStart(log, n, S, now)
    BY <1>1, <1>9, ExpiredIsOver
  <2> HIDE DEF first, log, new, n
  <2>2. Divided(new, n + 1, S \cup {n + 1})
    BY <1>1, <1>2, <1>3, <1>6, <2>1, AnotherWindow
  <2>3. first = n + 1 /\ new[n + 1] = fails'[k].windowStart
    BY <1>2, <1>3, <1>9 DEF Extended, first
  <2>4. S \cup {n + 1} \in SUBSET (1 .. n + 1) /\ n + 1 \in S \cup {n + 1}
    BY <1>1, <1>2
  <2> QED  BY <1>7, <2>2, <2>3, <2>4
<1> QED  BY <1>8, <1>9

\* Nobody has failed yet.
LEMMA InitWindows == Init => WindowsInv
<1> SUFFICES ASSUME Init, NEW k \in Keys PROVE InWindows(k, Len(failLog[k]))
  BY DEF WindowsInv
<1>1. Len(failLog[k]) = 0 /\ k \notin DOMAIN fails
  BY DEF Init
<1>2. Divided(failLog[k], 0, {}) /\ MayStart(failLog[k], 0, {}, now)
  BY DEF Divided, Sorted, Short, Apart, MayStart
<1> QED  BY <1>1, <1>2 DEF InWindows, Current

\* Each call fails one key at most and treats the others as OtherKey or Afresh.
LEMMA NextWindows ==
  ASSUME FailInv, WindowsInv, [Next]_vars
  PROVE  WindowsInv'
<1> SUFFICES ASSUME NEW k \in Keys PROVE InWindows(k, Len(failLog[k]))'
  BY DEF WindowsInv
<1> USE DEF WindowsInv
<1>1. now \in Nat
  BY EntryFacts
<1>2. CASE Tick
  <2>1. now' = now + 1 /\ fails' = fails /\ failLog' = failLog
    BY <1>2 DEF Tick
  <2>2. now' \in Nat /\ now <= now'
    BY <1>1, <2>1
  <2> QED  BY <2>1, <2>2, OtherKey
<1>3. ASSUME NEW w \in Workers, NEW x \in Keys, Check(w, x)
      PROVE  InWindows(k, Len(failLog[k]))'
  <2>1. now' = now /\ failLog' = failLog
    BY <1>3 DEF Check
  <2>2. \/ k \in DOMAIN fails /\ k \in DOMAIN fails' /\ fails'[k] = fails[k]
        \/ k \notin DOMAIN fails' /\ (k \in DOMAIN fails => ~Live(k))
    BY <1>3 DEF Check, Keep
  <2> QED  BY <1>1, <2>1, <2>2, OtherKey
<1>4. ASSUME NEW w \in Workers, NEW x \in Keys, Fail(w, x)
      PROVE  InWindows(k, Len(failLog[k]))'
  <2>1. job[w] = x /\ job' = [job EXCEPT ![w] = None] /\ now' = now
    BY <1>4 DEF Fail
  <2>2. CASE x \in DOMAIN fails /\ Live(x)
    <3>1. Count(x)
      BY <1>4, <2>2 DEF Fail
    <3>2. DOMAIN failLog = Keys
      BY DEF FailInv, TypeOK
    <3>3. CASE k = x
      <4>1. /\ failLog'[k] = Append(failLog[k], now) /\ k \in DOMAIN fails'
            /\ fails'[k] = [fails[k] EXCEPT !.count = @ + 1]
        BY <2>2, <3>1, <3>2, <3>3 DEF Count
      <4>2. fails'[k] = [count |-> fails[k].count + 1, windowStart |-> fails[k].windowStart]
        BY <2>2, <3>3, <4>1 DEF FailInv, TypeOK, failTrack
      <4> QED  BY <2>1, <2>2, <3>3, <4>1, <4>2, FailingKey
    <3>4. CASE k # x
      <4>1. failLog'[k] = failLog[k] /\ DOMAIN fails' = DOMAIN fails
            /\ (k \in DOMAIN fails => fails'[k] = fails[k])
        BY <2>2, <3>1, <3>2, <3>4 DEF Count
      <4> QED  BY <1>1, <2>1, <4>1, OtherKey
    <3> QED  BY <3>3, <3>4
  <2>3. CASE ~(x \in DOMAIN fails /\ Live(x))
    <3>1. PICK V \in Victims :
            /\ fails' = [y \in (Swept \ V) \cup {x} |->
                           IF y = x THEN [count |-> 1, windowStart |-> now] ELSE fails[y]]
            /\ failLog' = [y \in Keys |-> IF y = x THEN Append(failLog[y], now)
                                          ELSE IF y \in V THEN <<>> ELSE failLog[y]]
      BY <1>4, <2>3 DEF Fail, OpenWindow
    <3>2. Swept \subseteq DOMAIN fails /\ \A y \in DOMAIN fails \ Swept : ~Live(y)
      BY DEF Swept
    <3>3. CASE k = x
      <4>1. /\ failLog'[k] = Append(failLog[k], now) /\ k \in DOMAIN fails'
            /\ fails'[k] = [count |-> 1, windowStart |-> now]
        BY <3>1, <3>3
      <4> QED  BY <2>1, <2>3, <3>3, <4>1, FailingKey
    <3>4. CASE k # x /\ k \in V
      <4>1. failLog'[k] = <<>> /\ k \notin DOMAIN fails'
        BY <3>1, <3>4
      <4> QED  BY <4>1, Afresh
    <3>5. CASE k # x /\ k \notin V
      <4>1. failLog'[k] = failLog[k]
        BY <3>1, <3>5
      <4>2. \/ k \in DOMAIN fails /\ k \in DOMAIN fails' /\ fails'[k] = fails[k]
            \/ k \notin DOMAIN fails' /\ (k \in DOMAIN fails => ~Live(k))
        BY <3>1, <3>2, <3>5
      <4> QED  BY <1>1, <2>1, <4>1, <4>2, OtherKey
    <3> QED  BY <3>3, <3>4, <3>5
  <2> QED  BY <2>2, <2>3
<1>5. ASSUME NEW w \in Workers, NEW x \in Keys, Pass(w, x)
      PROVE  InWindows(k, Len(failLog[k]))'
  <2>1. DOMAIN failLog = Keys
    BY DEF FailInv, TypeOK
  <2>2. CASE k = x
    <3>1. failLog'[k] = <<>> /\ k \notin DOMAIN fails'
      BY <1>5, <2>1, <2>2 DEF Pass, Keep
    <3> QED  BY <3>1, Afresh
  <2>3. CASE k # x
    <3>1. /\ failLog'[k] = failLog[k] /\ now' = now
          /\ \/ k \in DOMAIN fails /\ k \in DOMAIN fails' /\ fails'[k] = fails[k]
             \/ k \notin DOMAIN fails' /\ k \notin DOMAIN fails
      BY <1>5, <2>1, <2>3 DEF Pass, Keep
    <3> QED  BY <1>1, <3>1, OtherKey
  <2> QED  BY <2>2, <2>3
<1>6. CASE UNCHANGED vars
  <2>1. now' = now /\ fails' = fails /\ failLog' = failLog
    BY <1>6 DEF vars
  <2> QED  BY <1>1, <2>1, OtherKey
<1> QED  BY <1>2, <1>3, <1>4, <1>5, <1>6 DEF Next

\* What the fixed windows guarantee over a rolling one, for every limit and
\* window and any number of handlers.
THEOREM RollingIsBounded == Spec => []RollingBound
<1>1. FailInv /\ WindowsInv => RollingBound
  <2> SUFFICES ASSUME FailInv, WindowsInv, NEW k \in Keys, NEW i \in 1 .. Len(failLog[k])
               PROVE  Cardinality({j \in i .. Len(failLog[k]) :
                                     failLog[k][j] - failLog[k][i] < Window}) <= 2 * Budget - 1
    BY DEF RollingBound, Budget
  <2> DEFINE n == Len(failLog[k])
             near == {j \in i .. n : failLog[k][j] - failLog[k][i] < Window}
             last == i + (2 * Budget - 2)
  <2>1. n \in Nat /\ i \in 1 .. n /\ \A m \in 1 .. n : failLog[k][m] \in Nat
    BY EntryFacts
  <2>2. PICK S \in SUBSET (1 .. n) : Divided(failLog[k], n, S)
    BY DEF WindowsInv, InWindows
  <2>3. \A j \in near : j \in 1 .. n /\ i <= j /\ j <= last /\ Budget >= 1
    <3> SUFFICES ASSUME NEW j \in near PROVE j \in 1 .. n /\ i <= j /\ j <= last /\ Budget >= 1
      OBVIOUS
    <3>1. j \in 1 .. n /\ i <= j /\ failLog[k][j] - failLog[k][i] < Window
      BY <2>1
    <3> HIDE DEF near, n
    <3> QED  BY <2>1, <2>2, <3>1, Spread
  <2>4. i \in near
    BY <2>1, BudgetType, FailAssumption
  <2>5. last \in Int /\ Budget >= 1
    BY <2>1, <2>3, <2>4, BudgetType
  <2>6. near \subseteq i .. last
    BY <2>1, <2>3, <2>5
  <2> HIDE DEF near, last, n
  <2>7. IsFiniteSet(i .. last) /\ Cardinality(i .. last) = IF i > last THEN 0 ELSE last - i + 1
    BY <2>1, <2>5, FS_Interval
  <2>8. Cardinality(near) <= Cardinality(i .. last)
    BY <2>6, <2>7, FS_Subset
  <2>9. Cardinality(i .. last) = 2 * Budget - 1
    BY <2>1, <2>5, <2>7, BudgetType DEF last
  <2> QED  BY <2>8, <2>9 DEF near, n
<1>2. Init => FailInv /\ WindowsInv
  BY InitInv, InitWindows
<1>3. FailInv /\ WindowsInv /\ [Next]_vars => FailInv' /\ WindowsInv'
  BY NextInv, NextWindows
<1> QED  BY <1>1, <1>2, <1>3, PTL DEF Spec

-----------------------------------------------------------------------------
(* Login: whatever route a request takes, its key is the responsible host.  *)

\* A non-empty set of positions has a last one.
LEMMA LastOf ==
  ASSUME NEW n \in Nat, NEW S \in SUBSET (1 .. n), S # {}
  PROVE  \E i \in S : \A j \in S : j <= i
<1> DEFINE R == {ss \in Nat \X Nat : ss[1] < ss[2]}
           T == {n - i : i \in S}
<1>1. IsWellFoundedOn(R, Nat)
  BY NatLessThanWellFounded, Zenon DEF OpToRel
<1>2. T \subseteq Nat /\ T # {}
  <2>1. \A i \in S : n - i \in Nat
    OBVIOUS
  <2> QED
    BY <2>1, Zenon
<1>3. \E x \in T : \A y \in T : ~ (<<y, x>> \in R)
  <2> HIDE DEF T, R
  <2> QED
    BY <1>1, <1>2, WFMin
<1>4. PICK x \in T : \A y \in T : ~ (<<y, x>> \in R)
  BY <1>3
<1>5. PICK i \in S : x = n - i
  BY <1>4
<1>6. ASSUME NEW j \in S PROVE j <= i
  <2>1. n - j \in T /\ ~(n - j < n - i)
    BY <1>2, <1>4, <1>5
  <2> QED
    BY <2>1
<1> QED
  BY <1>6

\* The stop of ClientIP is the last of the hops it may stop at.
LEMMA StopIsLast ==
  ASSUME NEW hops, Len(hops) \in Nat, Stops(hops) # {}
  PROVE  LET stop == CHOOSE i \in Stops(hops) : \A j \in Stops(hops) : j <= i
         IN  stop \in Stops(hops) /\ \A j \in Stops(hops) : j <= stop
<1>1. Stops(hops) \in SUBSET (1 .. Len(hops))
  BY DEF Stops
<1>2. \E i \in Stops(hops) : \A j \in Stops(hops) : j <= i
  BY <1>1, LastOf
<1> QED
  BY <1>2, Zenon

\* Every spelling of a host has one plain form, and trust is of the host.
LEMMA Spelled ==
  ASSUME NEW h \in Hosts, NEW a \in Spellings(h)
  PROVE  a \in Addresses /\ Unmap(a) = Plain(h) /\ (trusted(a) <=> h \in Proxies)
BY DEF Spellings, Unmap, Plain, trusted, Contains

\* Whatever a client writes into the header and whatever path its request
\* takes, ClientIP returns the host to hold responsible for it.
LEMMA ArrivalExact ==
  ASSUME NEW origin \in Hosts, NEW path \in UpTo(Proxies, MaxPath),
         NEW remote \in Spellings(Caller(origin, path, Len(path) + 1)),
         NEW forged \in Forged(origin), NEW appended \in Appended(origin, path)
  PROVE  ClientIP(remote, forged \o appended)
           = Plain(Responsible(origin, path, appended))
<1> DEFINE hop == Addresses \cup {Malformed}
           hops == forged \o appended
           m == Len(forged)
           n == Len(path)
           caller == Caller(origin, path, n + 1)
<1>0. MaxForged \in Nat /\ MaxPath \in Nat
  BY LoginAssumption DEF LoginAssumption
<1>1. n \in Nat /\ path \in [1 .. n -> Proxies] /\ path \in Seq(Proxies)
  BY <1>0 DEF UpTo
<1>2. m \in Nat /\ forged \in Seq(hop)
  <2>1. forged = <<>> \/ \E k \in 0 .. MaxForged : forged \in [1 .. k -> hop]
    BY DEF Forged, UpTo
  <2> HIDE DEF hop
  <2>2. CASE forged = <<>>
    BY <2>2
  <2>3. ASSUME NEW k \in 0 .. MaxForged, forged \in [1 .. k -> hop]
        PROVE  m \in Nat /\ forged \in Seq(hop)
    BY <1>0, <2>3
  <2> QED
    BY <2>1, <2>2, <2>3
<1>3. /\ Len(appended) = n /\ appended \in Seq(hop) /\ appended \in [1 .. n -> hop]
      /\ \A i \in 1 .. n : appended[i] \in Spellings(Caller(origin, path, i)) \cup {Malformed}
  BY <1>1 DEF Appended
<1>4. /\ Len(hops) = m + n
      /\ \A i \in 1 .. m + n : hops[i] = IF i <= m THEN forged[i] ELSE appended[i - m]
  BY <1>2, <1>3
<1>5. /\ \A i \in 2 .. n + 1 : Caller(origin, path, i) \in Proxies
      /\ Caller(origin, path, 1) = origin /\ Proxies \subseteq Hosts
  BY <1>1, ClientIPAssumption DEF ClientIPAssumption, Caller
<1>6. caller \in Hosts /\ peerAddr(remote) = Plain(caller)
      /\ (trusted(peerAddr(remote)) <=> caller \in Proxies)
  <2>1. caller \in Hosts
    BY <1>1, <1>5
  <2>2. Plain(caller) \in Spellings(caller)
    BY <2>1 DEF Spellings, Plain, Addresses
  <2> HIDE DEF caller
  <2> QED
    BY <2>1, <2>2, Spelled DEF peerAddr, caller
<1>7. \A i \in 1 .. m + n : i \in Stops(hops) <=> (hops[i] = Malformed \/ ~trusted(hops[i]))
  BY <1>4 DEF Stops
<1>8. Stops(hops) \subseteq 1 .. m + n /\ Len(hops) \in Nat
  BY <1>1, <1>2, <1>4 DEF Stops
\* Of the hops that trusted machines appended, only a malformed one or the
\* first, the origin's, can stop the walk.
<1>9. ASSUME NEW i \in 1 .. n, appended[i] # Malformed
      PROVE  /\ hops[m + i] = appended[i] /\ m + i \in 1 .. m + n
             /\ Unmap(hops[m + i]) = Plain(Caller(origin, path, i))
             /\ m + i \in Stops(hops) <=> Caller(origin, path, i) \notin Proxies
  <2>1. hops[m + i] = appended[i] /\ m + i \in 1 .. m + n
    BY <1>1, <1>2, <1>4
  <2>2. appended[i] \in Spellings(Caller(origin, path, i))
    BY <1>3, <1>9
  <2>3. Caller(origin, path, i) \in Hosts
    BY <1>1, <1>5
  <2> HIDE DEF hops
  <2> QED
    BY <1>7, <1>9, <2>1, <2>2, <2>3, Spelled
<1> HIDE DEF hops, caller, m, n
<1> DEFINE stop == CHOOSE i \in Stops(hops) : \A j \in Stops(hops) : j <= i
<1>10. ClientIP(remote, hops) =
         IF caller \notin Proxies \/ Stops(hops) = {} THEN Plain(caller)
         ELSE IF hops[stop] = Malformed THEN Plain(caller) ELSE Unmap(hops[stop])
  <2> HIDE DEF stop
  <2>1. CASE caller \notin Proxies \/ Stops(hops) = {}
    BY <1>6, <2>1, Zenon DEF ClientIP
  <2>2. CASE caller \in Proxies /\ Stops(hops) # {}
    <3>1. trusted(peerAddr(remote)) /\ peerAddr(remote) = Plain(caller)
      BY <1>6, <2>2
    <3>2. ClientIP(remote, hops) =
            IF hops[stop] = Malformed THEN peerAddr(remote) ELSE Unmap(hops[stop])
      BY <2>2, <3>1 DEF ClientIP, stop
    <3> QED
      BY <2>2, <3>1, <3>2
  <2> QED
    BY <2>1, <2>2
<1>11. Stops(hops) # {} => stop \in Stops(hops) /\ \A j \in Stops(hops) : j <= stop
  BY <1>8, StopIsLast
<1>12. CASE caller \notin Proxies
  <2>1. n = 0 /\ caller = origin
    BY <1>1, <1>5, <1>12 DEF caller
  <2>2. Responsible(origin, path, appended) = origin
    BY <2>1, <1>12 DEF Responsible, n
  <2> QED
    BY <1>10, <1>12, <2>1, <2>2, Zenon DEF hops
<1>13. CASE caller \in Proxies /\ \E i \in 1 .. n : appended[i] = Malformed
  <2>1. PICK i \in 1 .. n : appended[i] = Malformed
    BY <1>13
  <2>2. m + i \in Stops(hops)
    <3>1. m + i \in 1 .. m + n /\ hops[m + i] = appended[i]
      BY <1>1, <1>2, <1>4
    <3> QED
      BY <1>7, <2>1, <3>1, Zenon
  <2>3. stop \in 1 .. m + n /\ m + i <= stop /\ stop \in Stops(hops)
    BY <1>8, <1>11, <2>2
  <2>4. hops[stop] = Malformed
    <3> DEFINE k == stop - m
    <3> HIDE DEF stop
    <3>1. k \in 1 .. n /\ stop = m + k /\ i <= k
      BY <1>1, <1>2, <2>3
    <3> HIDE DEF k
    <3>2. CASE appended[k] = Malformed
      BY <1>1, <1>2, <1>4, <3>1, <3>2
    <3>3. CASE appended[k] # Malformed
      <4>1. k # 1
        BY <2>1, <3>1, <3>3
      <4>2. Caller(origin, path, k) \in Proxies
        BY <1>1, <1>5, <3>1, <4>1
      <4> QED
        BY <1>9, <2>3, <3>1, <3>3, <4>2
    <3> QED
      BY <3>2, <3>3
  <2>5. Responsible(origin, path, appended) = caller
    BY <2>1, Zenon DEF Responsible, caller, n
  <2> HIDE DEF stop
  <2> QED
    BY <1>10, <1>13, <2>2, <2>4, <2>5 DEF hops
<1>14. CASE caller \in Proxies /\ ~ \E i \in 1 .. n : appended[i] = Malformed
  <2>1. CASE origin \in Proxies
    <3>1. m = 0
      BY <2>1 DEF Forged, m
    <3>2. ASSUME NEW j \in Stops(hops) PROVE FALSE
      <4>1. j \in 1 .. n
        BY <1>1, <1>8, <3>1
      <4>2. Caller(origin, path, j) \in Proxies
        BY <1>1, <1>5, <2>1, <4>1
      <4>3. appended[j] # Malformed /\ m + j = j
        BY <1>14, <3>1, <4>1
      <4> QED
        BY <1>9, <4>1, <4>2, <4>3
    <3>3. Responsible(origin, path, appended) = caller
      BY <2>1, Zenon DEF Responsible, caller, n
    <3> QED
      BY <1>10, <3>2, <3>3 DEF hops
  <2>2. CASE origin \notin Proxies
    <3>1. 1 \in 1 .. n
      BY <1>1, <1>5, <1>14, <2>2 DEF caller
    <3>2. m + 1 \in Stops(hops) /\ Unmap(hops[m + 1]) = Plain(origin)
          /\ hops[m + 1] # Malformed
      BY <1>5, <1>9, <1>14, <2>2, <3>1
    <3>3. stop \in 1 .. m + n /\ m + 1 <= stop /\ stop \in Stops(hops)
      BY <1>8, <1>11, <3>2
    <3>4. stop = m + 1
      <4> DEFINE k == stop - m
      <4> HIDE DEF stop
      <4>1. k \in 1 .. n /\ stop = m + k
        BY <1>1, <1>2, <3>3
      <4> HIDE DEF k
      <4>2. Caller(origin, path, k) \notin Proxies
        BY <1>9, <1>14, <3>3, <4>1
      <4> QED
        BY <1>1, <1>5, <4>1, <4>2
    <3>5. Responsible(origin, path, appended) = origin
      BY <1>14, <2>2, Zenon DEF Responsible, n
    <3> HIDE DEF stop
    <3> QED
      BY <1>10, <1>14, <3>2, <3>4, <3>5 DEF hops
  <2> QED
    BY <2>1, <2>2
<1> QED
  BY <1>12, <1>13, <1>14

LEMMA ArrivalsExact == \A a \in Arrivals : a.key = a.owner /\ a.key \in Keys
<1> SUFFICES ASSUME NEW a \in Arrivals PROVE a.key = a.owner /\ a.key \in Keys
  OBVIOUS
<1>1. PICK origin \in Hosts, path \in UpTo(Proxies, MaxPath) : a \in Requests(origin, path)
  BY DEF Arrivals
<1>2. PICK remote \in Spellings(Caller(origin, path, Len(path) + 1)),
           forged \in Forged(origin), appended \in Appended(origin, path) :
             a = [key |-> ClientIP(remote, forged \o appended),
                  owner |-> Plain(Responsible(origin, path, appended))]
  BY <1>1 DEF Requests
<1>3. a.key = Plain(Responsible(origin, path, appended)) /\ a.owner = a.key
  BY <1>2, ArrivalExact
<1>4. Responsible(origin, path, appended) \in Hosts
  <2>1. path \in Seq(Proxies) /\ Len(path) \in Nat /\ path \in [1 .. Len(path) -> Proxies]
    BY LoginAssumption DEF LoginAssumption, UpTo
  <2> QED
    BY <2>1, ClientIPAssumption DEF ClientIPAssumption, Responsible, Caller
<1> QED
  BY <1>3, <1>4, LoginAssumption DEF LoginAssumption, Addresses, Plain

\* What Login does to the limiter is what FailLimiter allows, so all that is
\* proved of FailLimiter holds of it.
THEOREM LoginImplements == LoginSpec => Spec
<1>1. LoginInit => Init
  BY DEF LoginInit
<1>2. [LoginNext]_loginVars => [Next]_vars
  <2> SUFFICES ASSUME [LoginNext]_loginVars PROVE [Next]_vars
    OBVIOUS
  <2>1. ASSUME NEW w \in Workers, Arrive(w) PROVE Next
    <3>1. PICK a \in Arrivals : Check(w, a.key)
      BY <2>1 DEF Arrive
    <3> QED
      BY <3>1, ArrivalsExact DEF Next
  <2>2. ASSUME NEW w \in Workers, Verdict(w) PROVE Next
    BY <2>2 DEF Verdict, Next
  <2> QED
    BY <2>1, <2>2 DEF LoginNext, loginVars, Next
<1> QED
  BY <1>1, <1>2, PTL DEF LoginSpec, Spec

\* A failure or a success behind proxies counts for the host that made the
\* request (clientip.go:91-124, faillimit.go:15-18).
THEOREM AttributionIsExact == LoginSpec => []AttributionExact
<1> DEFINE Inv == /\ job \in [Workers -> Keys \cup {None}]
                  /\ DOMAIN owner = Workers
                  /\ AttributionExact
<1>1. LoginInit => Inv
  BY DEF LoginInit, Init, AttributionExact
<1>2. Inv /\ [LoginNext]_loginVars => Inv'
  <2> SUFFICES ASSUME Inv, [LoginNext]_loginVars PROVE Inv'
    OBVIOUS
  <2>1. ASSUME NEW w \in Workers, Arrive(w) PROVE Inv'
    <3>1. PICK a \in Arrivals :
            /\ Check(w, a.key)
            /\ owner' = [owner EXCEPT ![w] = IF job'[w] = None THEN None ELSE a.owner]
      BY <2>1 DEF Arrive
    <3>2. a.key = a.owner /\ a.key \in Keys
      BY ArrivalsExact
    <3>3. job[w] = None /\ (job' = job \/ job' = [job EXCEPT ![w] = a.key])
      BY <3>1 DEF Check
    <3> QED
      BY <3>1, <3>2, <3>3 DEF AttributionExact
  <2>2. ASSUME NEW w \in Workers, Verdict(w) PROVE Inv'
    <3>1. job' = [job EXCEPT ![w] = None] /\ owner' = [owner EXCEPT ![w] = None]
      BY <2>2 DEF Verdict, Fail, Pass
    <3> QED
      BY <3>1 DEF AttributionExact
  <2>3. CASE UNCHANGED <<job, owner>>
    BY <2>3 DEF AttributionExact
  <2> QED
    BY <2>1, <2>2, <2>3 DEF LoginNext, loginVars, vars, Tick
<1>3. Inv => AttributionExact
  OBVIOUS
<1> QED
  BY <1>1, <1>2, <1>3, PTL DEF LoginSpec
=============================================================================
