--------------------------- MODULE RenewLoopProofs ---------------------------
(***************************************************************************)
(* A served certificate never expires, for every margin that leaves room   *)
(* for the setbacks, and the code's constants leave it.  The argument is a *)
(* budget: at any moment, the time until the loop is next at its check,    *)
(* the attempts and pauses the setbacks still to come can cost, and the    *)
(* last attempt all fit before the expiry.                                 *)
(***************************************************************************)
EXTENDS RenewLoop, TLAPS

\* The attempt that is still to start, unless it runs already.
Pending == IF loop = "trying" THEN 0 ELSE Attempt

InBudget ==
  IF expiry = None
  THEN until + Pending <= Cost(setbacks) + Attempt
  ELSE until + Pending + Cost(MaxSetbacks - setbacks) <= expiry

IInv == TypeOK /\ now <= Limit /\ InBudget

-----------------------------------------------------------------------------
(* What setbacks cost.                                                     *)

\* The constants are natural numbers, the derived ones too.
LEMMA ConstantTypes ==
  /\ Attempt \in Nat /\ Gap \in Nat
  /\ RetryInterval <= Gap /\ MaxDown <= Gap
  /\ ObtainTimeout <= Attempt /\ Attempt = ObtainTimeout + CleanupTimeout
BY RenewAssumption DEF RenewAssumption, Attempt, Gap

\* A product of naturals is one.
LEMMA ProductNat == \A a, b \in Nat : a * b \in Nat
OBVIOUS

\* One more setback costs an attempt and a pause more.
LEMMA CostStep ==
  /\ Cost(0) = 0
  /\ \A n \in Nat : Cost(n) \in Nat /\ Cost(n + 1) = Cost(n) + Attempt + Gap
<1>1. \A c, n \in Nat : 0 * c = 0 /\ (n + 1) * c = n * c + c
  OBVIOUS
<1>2. Attempt + Gap \in Nat
  BY ConstantTypes
<1>3. ASSUME NEW n \in Nat
      PROVE  Cost(n) \in Nat /\ Cost(n + 1) = Cost(n) + (Attempt + Gap)
  BY <1>1, <1>2, <1>3, ProductNat, Zenon DEF Cost
<1>4. Cost(0) = 0
  BY <1>1, <1>2, Zenon DEF Cost
<1> QED
  BY SMTT(30), <1>3, <1>4, ConstantTypes

\* What m setbacks and k more cost is at least what m of them do.
LEMMA CostMonotone == \A m, n \in Nat : m <= n => Cost(m) <= Cost(n)
<1>1. \A c, k, m \in Nat : (m + k) * c = m * c + k * c
  OBVIOUS
<1> SUFFICES ASSUME NEW m \in Nat, NEW n \in Nat, m <= n
             PROVE  Cost(m) <= Cost(n)
  OBVIOUS
<1> DEFINE k == n - m
<1>2. k \in Nat /\ n = m + k
  OBVIOUS
<1>3. Attempt + Gap \in Nat
  BY ConstantTypes
<1>4. Cost(m + k) = Cost(m) + Cost(k)
  <2> HIDE DEF k
  <2> QED BY <1>1, <1>2, <1>3, Zenon DEF Cost
<1>5. Cost(k) \in Nat /\ Cost(m) \in Nat
  BY CostStep, <1>2
<1> HIDE DEF k
<1> QED
  BY <1>2, <1>4, <1>5

\* A certificate that has just been issued, or was found not due, has time
\* enough for the next check and for as many setbacks as may come.
LEMMA Margin ==
  /\ Needed \in Nat
  /\ Needed = RenewInterval + Cost(MaxSetbacks) + Attempt
  /\ \A l \in Lifetimes : l \in Nat /\ l >= Needed
  /\ RenewBefore >= Needed
BY RenewAssumption, MarginAssumption, ConstantTypes, CostStep
   DEF RenewAssumption, MarginAssumption, Needed

-----------------------------------------------------------------------------
(* The inductive invariant.                                                *)

LEMMA InitIInv == Init => IInv
BY RenewAssumption, ConstantTypes, CostStep
   DEF RenewAssumption, Init, IInv, TypeOK, Limit, InBudget, Pending

\* Check and Obtained start afresh: the whole budget is ahead.
LEMMA Afresh ==
  ASSUME IInv, Sleep(RenewInterval), setbacks' = 0, now' = now,
         expiry' \in Nat, expiry' >= now + Needed
  PROVE  IInv'
<1>1. until' = now + RenewInterval /\ loop' = "asleep"
  BY DEF Sleep
<1>2. TypeOK' /\ (now <= Limit)'
  BY <1>1, RenewAssumption DEF RenewAssumption, IInv, TypeOK, Limit
<1>3. Pending' = Attempt /\ MaxSetbacks - setbacks' = MaxSetbacks
  BY <1>1, RenewAssumption DEF RenewAssumption, Pending
<1>4. expiry' # None
  BY RenewAssumption DEF RenewAssumption
<1>5. until' + Attempt + Cost(MaxSetbacks) <= expiry'
  BY <1>1, Margin, ConstantTypes, CostStep, RenewAssumption
     DEF RenewAssumption, IInv, TypeOK
<1>6. InBudget'
  BY <1>3, <1>4, <1>5 DEF InBudget
<1> QED
  BY <1>2, <1>6 DEF IInv

\* After a setback the loop, or the next process, is at its check again
\* within a pause: the budget pays for that and for the attempt.
LEMMA AfterSetback ==
  ASSUME IInv, Setback, now' = now, loop' \in {"asleep", "down"},
         until' \in Nat, now <= until', until' <= now + Gap,
         \/ expiry' = expiry
         \/ expiry' \in Nat /\ expiry' >= now + Needed
  PROVE  IInv'
<1>1. /\ setbacks \in Nat /\ setbacks < MaxSetbacks /\ setbacks' = setbacks + 1
      /\ MaxSetbacks \in Nat /\ now \in Nat /\ until \in Nat /\ now <= until
  BY RenewAssumption DEF RenewAssumption, IInv, TypeOK, Setback
<1>2. TypeOK' /\ (now <= Limit)'
  BY <1>1 DEF IInv, TypeOK, Limit
<1>3. Pending' = Attempt /\ Pending \in Nat
  BY ConstantTypes DEF Pending
<1> DEFINE rest == MaxSetbacks - setbacks'
<1>4. rest \in Nat /\ MaxSetbacks - setbacks = rest + 1 /\ rest + 1 <= MaxSetbacks
  BY <1>1
<1>5. /\ Cost(rest) \in Nat /\ Cost(rest + 1) = Cost(rest) + Attempt + Gap
      /\ Cost(setbacks) \in Nat /\ Cost(setbacks') = Cost(setbacks) + Attempt + Gap
      /\ Cost(rest + 1) <= Cost(MaxSetbacks) /\ Cost(MaxSetbacks) \in Nat
  <2> HIDE DEF rest
  <2>1. Cost(rest) \in Nat /\ Cost(rest + 1) = Cost(rest) + Attempt + Gap
    BY <1>4, CostStep
  <2>2. Cost(setbacks) \in Nat /\ Cost(setbacks + 1) = Cost(setbacks) + Attempt + Gap
    BY <1>1, CostStep
  <2>3. rest + 1 \in Nat /\ Cost(MaxSetbacks) \in Nat
    BY <1>1, <1>4, CostStep
  <2>4. Cost(rest + 1) <= Cost(MaxSetbacks)
    BY <1>1, <1>4, <2>3, CostMonotone
  <2>5. Cost(setbacks') = Cost(setbacks + 1)
    BY <1>1
  <2> QED
    BY <2>1, <2>2, <2>3, <2>4, <2>5
<1>6. ASSUME expiry' = None PROVE until' + Attempt <= Cost(setbacks') + Attempt
  <2>1. expiry = None
    BY <1>6, RenewAssumption DEF RenewAssumption
  <2>2. until + Pending <= Cost(setbacks) + Attempt
    BY <2>1 DEF IInv, InBudget
  <2> QED
    BY <2>2, <1>1, <1>3, <1>5, ConstantTypes
<1>7. ASSUME expiry' # None PROVE until' + Attempt + Cost(rest) <= expiry'
  <2> HIDE DEF rest
  <2>1. CASE expiry' = expiry
    <3>1. expiry \in Nat /\ until + Pending + Cost(rest + 1) <= expiry
      BY <1>4, <1>7, <2>1 DEF IInv, TypeOK, InBudget
    <3> QED
      BY <3>1, <2>1, <1>1, <1>3, <1>5, ConstantTypes
  <2>2. CASE expiry' \in Nat /\ expiry' >= now + Needed
    BY <2>2, <1>1, <1>5, ConstantTypes, Margin, RenewAssumption DEF RenewAssumption
  <2> QED
    BY <2>1, <2>2
<1>8. InBudget'
  BY <1>3, <1>6, <1>7 DEF InBudget
<1> QED
  BY <1>2, <1>8 DEF IInv

LEMMA NextIInv == IInv /\ [Next]_vars => IInv'
<1> SUFFICES ASSUME IInv, [Next]_vars PROVE IInv'
  OBVIOUS
<1>0. /\ now \in Nat /\ until \in Nat /\ now <= until
      /\ setbacks \in Nat /\ setbacks <= MaxSetbacks /\ MaxSetbacks \in Nat
      /\ Cost(setbacks) \in Nat /\ Cost(MaxSetbacks - setbacks) \in Nat
  BY RenewAssumption, CostStep DEF RenewAssumption, IInv, TypeOK
<1>1. CASE Check
  <2>1. expiry \in Nat /\ expiry - now > RenewBefore
    BY <1>0, <1>1, RenewAssumption DEF RenewAssumption, Check, Due, IInv, TypeOK
  <2>2. expiry' \in Nat /\ expiry' >= now + Needed
    BY <1>0, <1>1, <2>1, Margin, RenewAssumption DEF RenewAssumption, Check
  <2> QED
    BY <1>1, <2>2, Afresh DEF Check
<1>2. CASE Try
  <2>1. /\ loop = "asleep" /\ now = until /\ loop' = "trying"
        /\ until' = now + Attempt /\ UNCHANGED <<now, expiry, setbacks>>
    BY <1>2 DEF Try
  <2>2. TypeOK' /\ (now <= Limit)'
    BY <1>0, <2>1, ConstantTypes, RenewAssumption
       DEF RenewAssumption, IInv, TypeOK, Limit
  <2>3. Pending = Attempt /\ Pending' = 0
    BY <2>1 DEF Pending
  <2>4. until' + 0 = until + Attempt
    BY <1>0, <2>1, ConstantTypes
  <2>5. InBudget'
    BY <2>1, <2>3, <2>4 DEF IInv, InBudget
  <2> QED
    BY <2>2, <2>5 DEF IInv
<1>3. CASE Obtained
  <2>1. PICK l \in Lifetimes : expiry' = now + l
    BY <1>3 DEF Obtained
  <2>2. expiry' \in Nat /\ expiry' >= now + Needed
    BY <1>0, <2>1, Margin
  <2> QED
    BY <1>3, <2>2, Afresh DEF Obtained
<1>4. CASE Failed
  <2>1. loop' = "asleep" /\ until' = now + RetryInterval
    BY <1>4 DEF Failed, Sleep
  <2>2. until' \in Nat /\ now <= until' /\ until' <= now + Gap
    BY <1>0, <2>1, ConstantTypes, RenewAssumption DEF RenewAssumption
  <2> QED
    BY <1>4, <2>1, <2>2, AfterSetback DEF Failed
<1>5. CASE Crash
  <2>1. until' \in Nat /\ now <= until' /\ until' <= now + Gap
    BY <1>0, <1>5, ConstantTypes, RenewAssumption DEF RenewAssumption, Crash
  <2>2. expiry' = expiry \/ (expiry' \in Nat /\ expiry' >= now + Needed)
    BY <1>0, <1>5, Margin DEF Crash
  <2> QED
    BY <1>5, <2>1, <2>2, AfterSetback DEF Crash
<1>6. CASE Restart
  <2>1. /\ loop = "down" /\ loop' = "asleep" /\ until' = now
        /\ UNCHANGED <<now, expiry, setbacks>>
    BY <1>0, <1>6 DEF Restart, Sleep
  <2>2. TypeOK' /\ (now <= Limit)'
    BY <1>0, <2>1 DEF IInv, TypeOK, Limit
  <2>3. Pending = Attempt /\ Pending' = Attempt
    BY <2>1 DEF Pending
  <2>4. InBudget'
    BY <1>0, <2>1, <2>3, ConstantTypes DEF IInv, TypeOK, InBudget
  <2> QED
    BY <2>2, <2>4 DEF IInv
<1>7. CASE Tick
  <2>1. now < Limit /\ now' = now + 1 /\ UNCHANGED <<loop, until, expiry, setbacks>>
    BY <1>7 DEF Tick
  <2>2. Limit \in Int /\ Limit <= until /\ Limit' = Limit
    BY <1>0, <2>1, RenewAssumption DEF RenewAssumption, Limit
  <2>3. TypeOK' /\ (now <= Limit)'
    BY <1>0, <2>1, <2>2 DEF IInv, TypeOK
  <2>4. InBudget'
    BY <2>1 DEF IInv, InBudget, Pending
  <2> QED
    BY <2>3, <2>4 DEF IInv
<1>8. CASE UNCHANGED vars
  BY <1>8 DEF vars, IInv, TypeOK, Limit, InBudget, Pending
<1> QED
  BY <1>1, <1>2, <1>3, <1>4, <1>5, <1>6, <1>7, <1>8 DEF Next

LEMMA Invariance == Spec => []IInv
BY InitIInv, NextIInv, PTL DEF Spec

-----------------------------------------------------------------------------
(* The theorems.                                                           *)

\* Type correctness (the state of renewLoop, dnscert.go:102-118).
THEOREM TypeCorrect == Spec => []TypeOK
<1>1. IInv => TypeOK
  BY DEF IInv
<1> QED
  BY <1>1, Invariance, PTL

\* The certificate a handshake is given never expires, whatever fails or
\* crashes up to MaxSetbacks times in a row (dnscert.go:84-130).
THEOREM NeverExpires == Spec => []NeverExpired
<1>1. IInv => NeverExpired
  <2> SUFFICES ASSUME IInv, loop # "down", expiry # None PROVE ~ (now > expiry)
    BY Zenon DEF NeverExpired, certificate
  <2>1. /\ now \in Nat /\ until \in Nat /\ now <= until /\ expiry \in Nat
        /\ Cost(MaxSetbacks - setbacks) \in Nat /\ Pending \in Nat
    BY ConstantTypes, CostStep, RenewAssumption
       DEF RenewAssumption, IInv, TypeOK, Pending
  <2>2. until + Pending + Cost(MaxSetbacks - setbacks) <= expiry
    BY DEF IInv, InBudget
  <2> QED
    BY <2>1, <2>2
<1> QED
  BY <1>1, Invariance, PTL

\* The first certificate is served within a time that only the setbacks
\* determine (dnscert.go:102-118).
THEOREM FirstComesInTime == Spec => []FirstInTime
<1>1. IInv => FirstInTime
  <2> SUFFICES ASSUME IInv, expiry = None
               PROVE  now <= Cost(MaxSetbacks) + ObtainTimeout
    BY DEF FirstInTime
  <2>1. /\ now \in Nat /\ until \in Nat /\ now <= until
        /\ setbacks \in Nat /\ setbacks <= MaxSetbacks /\ MaxSetbacks \in Nat
        /\ Pending \in Nat /\ ObtainTimeout \in Nat
    BY ConstantTypes, RenewAssumption DEF RenewAssumption, IInv, TypeOK, Pending
  <2>2. until + Pending <= Cost(setbacks) + Attempt
    BY DEF IInv, InBudget
  <2>3. CASE setbacks < MaxSetbacks
    <3>1. /\ Cost(setbacks) \in Nat /\ Cost(MaxSetbacks) \in Nat
          /\ Cost(setbacks) + Attempt + Gap <= Cost(MaxSetbacks)
      BY <2>1, <2>3, CostStep, CostMonotone
    <3> QED
      BY <2>1, <2>2, <3>1, ConstantTypes
  <2>4. CASE setbacks = MaxSetbacks /\ loop = "trying"
    <3>1. now <= until - CleanupTimeout
      BY <2>4 DEF IInv, Limit
    <3> QED
      BY <2>1, <2>2, <2>4, <3>1, ConstantTypes, CostStep, RenewAssumption
         DEF RenewAssumption
  <2>5. CASE setbacks = MaxSetbacks /\ loop # "trying"
    <3>1. Pending = Attempt
      BY <2>5 DEF Pending
    <3> QED
      BY <2>1, <2>2, <2>5, <3>1, ConstantTypes, CostStep
  <2> QED
    BY <2>1, <2>3, <2>4, <2>5
<1> QED
  BY <1>1, Invariance, PTL

\* The code's constants, in minutes (dnscert.go:46-56): 500 failures in a row,
\* with an hour down after each crash, are not too many.
THEOREM DefaultMargin ==
  ASSUME RenewBefore = 43200, RenewInterval = 720, RetryInterval = 60,
         ObtainTimeout = 15, CleanupTimeout = 1, MaxDown <= 60, MaxSetbacks <= 500
  PROVE  Needed <= RenewBefore
<1>1. Attempt = 16 /\ Gap = 60 /\ MaxSetbacks \in Nat
  BY RenewAssumption DEF RenewAssumption, Attempt, Gap
<1>2. Cost(MaxSetbacks) = MaxSetbacks * 76
  BY <1>1 DEF Cost
<1> QED
  BY <1>1, <1>2 DEF Needed
=============================================================================
