----------------------------- MODULE FailLimiter -----------------------------
(***************************************************************************)
(* FailLimiter of src/faillimit.go with the handlers that use it the way   *)
(* its doc prescribes: Blocked, then the credential compare, then Fail or  *)
(* Pass.  Each call is atomic (it holds the mutex and reads the clock      *)
(* under it); the sequence is not, so workers interleave between calls and *)
(* a verdict of Blocked may be stale when Fail is called.                  *)
(*                                                                         *)
(* Operators whose names start with M are faulty variants of the           *)
(* definition after them, used only by the mutants of PROJECT.json.        *)
(***************************************************************************)
EXTENDS Naturals, Sequences, FiniteSets

CONSTANTS Keys, Workers, None,
          Limit, Window,    \* the parameters of NewFailLimiter, Window in ticks
          MaxKeys,          \* maxFailKeys
          MaxTime, MaxLog   \* bounds: of the clock, of the recorded failures

ASSUME FailAssumption ==
  /\ IsFiniteSet(Keys) /\ IsFiniteSet(Workers) /\ None \notin Keys
  /\ Limit \in Nat \ {0} /\ Window \in Nat \ {0} /\ MaxKeys \in Nat \ {0}
  /\ MaxTime \in Nat /\ MaxLog \in Nat

VARIABLES
  now,
  fails,    \* the map: a function on the tracked keys
  job,      \* job[w]: the key w is comparing a credential for, or None
  failLog   \* history: when k failed since its last Pass or eviction

vars == <<now, fails, job, failLog>>

failTrack == [count : Nat \ {0}, windowStart : Nat]

\* The map never outgrows maxFailKeys (faillimit.go:39-43).
Capped == Cardinality(DOMAIN fails) <= MaxKeys

TypeOK ==
  /\ now \in Nat
  /\ DOMAIN fails \subseteq Keys /\ Capped
  /\ \A k \in DOMAIN fails : fails[k] \in failTrack /\ fails[k].windowStart <= now
  /\ job \in [Workers -> Keys \cup {None}]
  /\ failLog \in [Keys -> Seq(Nat)]

Init ==
  /\ now = 0
  /\ fails = [k \in {} |-> {}]
  /\ job = [w \in Workers |-> None]
  /\ failLog = [k \in Keys |-> <<>>]

Live(k) == now - fails[k].windowStart < Window

Keep(S) == [k \in S |-> fails[k]]

-----------------------------------------------------------------------------
\* What Blocked(k) answers: an expired window no longer counts.
MBlocked(k) == k \in DOMAIN fails /\ Live(k) /\ fails[k].count > Limit

Blocked(k) == k \in DOMAIN fails /\ Live(k) /\ fails[k].count >= Limit

\* A handler calls Blocked and goes on to the compare, or refuses at once.
\* Blocked deletes the entry it finds expired.
MCheck(w, k) ==
  /\ job[w] = None
  /\ job' = IF Blocked(k) THEN job ELSE [job EXCEPT ![w] = k]
  /\ fails' = IF k \in DOMAIN fails /\ (~Live(k) \/ Blocked(k))
                THEN Keep(DOMAIN fails \ {k}) ELSE fails
  /\ UNCHANGED <<now, failLog>>

Check(w, k) ==
  /\ job[w] = None
  /\ job' = IF Blocked(k) THEN job ELSE [job EXCEPT ![w] = k]
  /\ fails' = IF k \in DOMAIN fails /\ ~Live(k) THEN Keep(DOMAIN fails \ {k}) ELSE fails
  /\ UNCHANGED <<now, failLog>>

\* The tracked keys a new entry leaves room among: when the map is full the
\* expired entries go first.
Swept == IF Cardinality(DOMAIN fails) >= MaxKeys
           THEN {k \in DOMAIN fails : Live(k)} ELSE DOMAIN fails

\* Arbitrary victims (map order), until the new entry fits.
MVictims == {{}}

Victims ==
  LET excess == IF Cardinality(Swept) < MaxKeys THEN 0 ELSE Cardinality(Swept) - MaxKeys + 1
  IN  {V \in SUBSET Swept : Cardinality(V) = excess}

\* The failure is the first of its window: forget expired and evicted keys.
MOpenWindow(k) ==
  \E V \in {S \in SUBSET (DOMAIN fails) :
              IF Cardinality(DOMAIN fails) < MaxKeys THEN S = {} ELSE Cardinality(S) = 1} :
    /\ fails' = [x \in ((DOMAIN fails) \ V) \cup {k} |->
                   IF x = k THEN [count |-> 1, windowStart |-> now] ELSE fails[x]]
    /\ failLog' = [x \in Keys |-> IF x = k THEN Append(failLog[x], now)
                                  ELSE IF x \in V THEN <<>> ELSE failLog[x]]

OpenWindow(k) ==
  \E V \in Victims :
    /\ fails' = [x \in (Swept \ V) \cup {k} |->
                   IF x = k THEN [count |-> 1, windowStart |-> now] ELSE fails[x]]
    /\ failLog' = [x \in Keys |-> IF x = k THEN Append(failLog[x], now)
                                  ELSE IF x \in V THEN <<>> ELSE failLog[x]]

MCount(k) ==
  /\ fails' = [fails EXCEPT ![k] = [count |-> @.count + 1, windowStart |-> now]]
  /\ failLog' = [failLog EXCEPT ![k] = Append(@, now)]

Count(k) ==
  /\ fails' = [fails EXCEPT ![k].count = @ + 1]
  /\ failLog' = [failLog EXCEPT ![k] = Append(@, now)]

\* The credential was wrong: Fail(k).
Fail(w, k) ==
  /\ job[w] = k /\ Len(failLog[k]) < MaxLog
  /\ job' = [job EXCEPT ![w] = None]
  /\ IF k \in DOMAIN fails /\ Live(k) THEN Count(k) ELSE OpenWindow(k)
  /\ UNCHANGED now

\* The credential was right: Pass(k).
Pass(w, k) ==
  /\ job[w] = k
  /\ job' = [job EXCEPT ![w] = None]
  /\ fails' = Keep(DOMAIN fails \ {k})
  /\ failLog' = [failLog EXCEPT ![k] = <<>>]
  /\ UNCHANGED now

Tick == now < MaxTime /\ now' = now + 1 /\ UNCHANGED <<fails, job, failLog>>

Next ==
  \/ Tick
  \/ \E w \in Workers, k \in Keys : Check(w, k) \/ Fail(w, k) \/ Pass(w, k)

Spec == Init /\ [][Next]_vars

-----------------------------------------------------------------------------
(* Properties.                                                             *)

\* Only guessers are refused: a blocked key failed at least Limit times within
\* the last Window, with no success and no eviction in between.
BlockedDeserved ==
  \A k \in Keys : Blocked(k) =>
    Cardinality({i \in 1 .. Len(failLog[k]) : now - failLog[k][i] < Window}) >= Limit

\* Handlers that checked before the limit was reached can overshoot it, but
\* only by one failure each: Limit - 1 + |Workers| guesses in one window.
OvershootBounded ==
  \A k \in DOMAIN fails :
    fails[k].count + Cardinality({w \in Workers : job[w] = k})
      <= Limit - 1 + Cardinality(Workers)

\* What the fixed windows guarantee over a rolling one: twice the budget of
\* a window, less one, is the most that any Window-long period lets through.
RollingBound ==
  \A k \in Keys : \A i \in 1 .. Len(failLog[k]) :
    Cardinality({j \in i .. Len(failLog[k]) : failLog[k][j] - failLog[k][i] < Window})
      <= 2 * (Limit - 1 + Cardinality(Workers)) - 1

\* A running window ends only by its own key's success, or because the map is
\* full of running windows, and then it is the only one to go.
MayLose(k) ==
  \/ \E w \in Workers : job[w] = k /\ job'[w] = None
  \/ /\ Cardinality(DOMAIN fails) = MaxKeys
     /\ \A x \in DOMAIN fails : Live(x) /\ (x # k => x \in DOMAIN fails')

LoseStep == \A k \in DOMAIN fails : (Live(k) /\ k \notin DOMAIN fails') => MayLose(k)

LostOnlyWhenFull == [][LoseStep]_vars

\* The doc of FailLimiter (faillimit.go:9-11): it "blocks a key that fails
\* limit times inside a rolling window, until the window rolls over".
DocRollingWindow ==
  \A k \in Keys :
    Cardinality({i \in 1 .. Len(failLog[k]) : now - failLog[k][i] < Window}) >= Limit
      => Blocked(k)
=============================================================================
