------------------------------ MODULE RenewLoop ------------------------------
(***************************************************************************)
(* The renewLoop of src/dnscert.go against the clock: does the certificate *)
(* it serves ever expire?  DNSCert has the steps of an attempt; here an    *)
(* attempt is an interval that ends well or badly, and what matters is how *)
(* long everything takes: the loop's timer, the attempt's own timeout, the *)
(* cleanup that outlives it, crashes and the time until the next start.    *)
(* A start serves what is stored; one that fails to load it is in DNSCert. *)
(*                                                                         *)
(* Timers fire on time and the loop runs at once when they do.  Operators  *)
(* whose names start with M are faulty variants of the definition after    *)
(* them.                                                                   *)
(***************************************************************************)
EXTENDS Integers

CONSTANTS
  RenewBefore, RenewInterval, RetryInterval,   \* dnsRenewBefore, ...
  ObtainTimeout, CleanupTimeout,
  Lifetimes,     \* what a new certificate may have left when it is served
  MaxDown,       \* how long the process stays down after a crash, at most
  MaxSetbacks,   \* how many attempts and processes fail in a row, at most
  None,
  MaxTime        \* bound: the clock stops here

\* The longest attempt: the last cleanup has a timeout of its own.
Attempt == ObtainTimeout + CleanupTimeout

\* A setback costs an attempt and the wait for the next.
Gap == IF RetryInterval > MaxDown THEN RetryInterval ELSE MaxDown

Cost(n) == n * (Attempt + Gap)

\* From the last check that found the certificate not due to its renewal.
Needed == RenewInterval + Cost(MaxSetbacks) + Attempt

ASSUME RenewAssumption ==
  /\ RenewBefore \in Nat /\ RenewInterval \in Nat /\ RetryInterval \in Nat
  /\ ObtainTimeout \in Nat /\ CleanupTimeout \in Nat
  /\ MaxDown \in Nat /\ MaxSetbacks \in Nat /\ MaxTime \in Nat
  /\ Lifetimes \subseteq Nat /\ None \notin Nat

\* The margins of the code's constants: see DefaultMargin in RenewLoopProofs.
ASSUME MarginAssumption == RenewBefore >= Needed /\ \A l \in Lifetimes : l >= Needed

VARIABLES
  now,
  loop,      \* asleep (in the select), trying (in obtain), or down (no process)
  until,     \* when the timer fires, the attempt ends or the process is back
  expiry,    \* NotAfter of the certificate in memory and on disk, or None
  setbacks   \* failures in a row since a check found the certificate not due

vars == <<now, loop, until, expiry, setbacks>>

TypeOK ==
  /\ now \in Nat /\ until \in Nat /\ now <= until
  /\ loop \in {"asleep", "trying", "down"}
  /\ expiry \in Nat \cup {None}
  /\ setbacks \in 0 .. MaxSetbacks

\* The first start, with nothing stored.
Init ==
  /\ now = 0 /\ loop = "asleep" /\ until = 0 /\ expiry = None /\ setbacks = 0

Sleep(d) == loop' = "asleep" /\ until' = now + d

\* ensure finds a certificate that is not due yet ...
Due == IF expiry = None THEN TRUE ELSE expiry - now <= RenewBefore

Check ==
  /\ loop = "asleep" /\ now = until /\ ~Due
  /\ Sleep(RenewInterval)
  /\ setbacks' = 0
  /\ UNCHANGED <<now, expiry>>

\* ... or starts an attempt.  A call of obtain ends when its context does, and
\* a deferred cleanup later.
Try ==
  /\ loop = "asleep" /\ now = until /\ Due
  /\ loop' = "trying" /\ until' = now + Attempt
  /\ UNCHANGED <<now, expiry, setbacks>>

InTime == now <= until - CleanupTimeout

\* The new certificate is stored and served.
Obtained ==
  /\ loop = "trying" /\ InTime
  /\ Sleep(RenewInterval)
  /\ \E l \in Lifetimes : expiry' = now + l
  /\ setbacks' = 0
  /\ UNCHANGED now

\* Any error: the next attempt comes sooner than the next check would, which
\* the faulty variant forgets.
Setback == setbacks < MaxSetbacks /\ setbacks' = setbacks + 1

MFailed == loop = "trying" /\ Setback /\ Sleep(RenewInterval) /\ UNCHANGED <<now, expiry>>

Failed == loop = "trying" /\ Setback /\ Sleep(RetryInterval) /\ UNCHANGED <<now, expiry>>

\* The process dies, in an attempt or not; store may have renamed the new
\* certificate into place already.
Crash ==
  /\ loop # "down" /\ Setback
  /\ loop' = "down" /\ until' = now + MaxDown
  /\ \/ UNCHANGED expiry
     \/ loop = "trying" /\ InTime /\ \E l \in Lifetimes : expiry' = now + l
  /\ UNCHANGED now

\* newDNSCert loads what is stored, and renewLoop starts with a check.  The
\* faulty variant waits for its timer first.
MRestart == loop = "down" /\ Sleep(RenewInterval) /\ UNCHANGED <<now, expiry, setbacks>>

Restart == loop = "down" /\ Sleep(0) /\ UNCHANGED <<now, expiry, setbacks>>

\* When nothing more may go wrong, the attempt ends well in time.
Limit == IF loop = "trying" /\ setbacks = MaxSetbacks THEN until - CleanupTimeout ELSE until

MTick == now < MaxTime /\ now' = now + 1 /\ UNCHANGED <<loop, until, expiry, setbacks>>

Tick == now < Limit /\ now < MaxTime /\ now' = now + 1 /\ UNCHANGED <<loop, until, expiry, setbacks>>

Next == Check \/ Try \/ Obtained \/ Failed \/ Crash \/ Restart \/ Tick

Spec == Init /\ [][Next]_vars

-----------------------------------------------------------------------------
(* Properties.                                                             *)

\* What a TLS handshake gets from certificate, which never obtains one itself.
certificate ==
  CASE loop = "down"  -> "no server"
    [] expiry = None  -> "not yet obtained"
    [] OTHER          -> IF now > expiry THEN "expired" ELSE "served"

\* No handshake is refused because the certificate expired: whatever fails, up
\* to MaxSetbacks times in a row, and whenever it becomes due between two
\* checks, the renewal comes in time (renewLoop and ensure, dnscert.go:102-130).
NeverExpired == certificate # "expired"

\* The first certificate is there within a time fixed by the number of
\* setbacks, downtime included.
FirstInTime == expiry = None => now <= Cost(MaxSetbacks) + ObtainTimeout
=============================================================================
