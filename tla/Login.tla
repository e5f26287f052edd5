-------------------------------- MODULE Login --------------------------------
(***************************************************************************)
(* A login endpoint behind proxies: FailLimiter keyed by ClientIP, as the  *)
(* doc of FailLimiter asks.  Requests reach it from clients and proxies,   *)
(* directly or through trusted proxies that each append the address they   *)
(* were called from, or a word that is no address; what a client put into  *)
(* the header itself is arbitrary.                                         *)
(***************************************************************************)
EXTENDS FailLimiter, ClientIP

CONSTANTS MaxForged, MaxPath   \* bounds: hops a client makes up, proxies passed

ASSUME LoginAssumption ==
  Addresses \subseteq Keys /\ MaxForged \in Nat /\ MaxPath \in Nat

VARIABLE owner    \* history: whom w is to hold responsible, by the route taken

loginVars == <<vars, owner>>

LoginInit == Init /\ owner = [w \in Workers |-> None]

UpTo(S, n) == UNION {[1 .. m -> S] : m \in 0 .. n}

Spellings(h) == {a \in Addresses : a[1] = h}

\* The header a request starts with: a proxy's own request has none.
Forged(origin) ==
  IF origin \in Proxies THEN {<<>>} ELSE UpTo(Addresses \cup {Malformed}, MaxForged)

\* The caller of the i-th machine on a path, the server being the last.
Caller(origin, path, i) == IF i = 1 THEN origin ELSE path[i - 1]

\* What the proxies of a path append.
Appended(origin, path) ==
  {s \in [1 .. Len(path) -> Addresses \cup {Malformed}] :
     \A i \in 1 .. Len(path) : s[i] \in Spellings(Caller(origin, path, i)) \cup {Malformed}}

\* The client, unless a proxy on the way did not pass its address on; then,
\* and for a proxy's own request, the machine the server hears it from.
Responsible(origin, path, appended) ==
  IF origin \notin Proxies /\ \A i \in 1 .. Len(path) : appended[i] # Malformed
    THEN origin ELSE Caller(origin, path, Len(path) + 1)

\* Every request that comes from an origin along a path: the key the handler
\* uses and the one it should use.
Requests(origin, path) ==
  {[key |-> ClientIP(remote, forged \o appended),
    owner |-> Plain(Responsible(origin, path, appended))] :
      remote \in Spellings(Caller(origin, path, Len(path) + 1)),
      forged \in Forged(origin), appended \in Appended(origin, path)}

Arrivals == UNION {Requests(origin, path) : origin \in Hosts, path \in UpTo(Proxies, MaxPath)}

Arrive(w) ==
  \E a \in Arrivals :
    /\ Check(w, a.key)
    /\ owner' = [owner EXCEPT ![w] = IF job'[w] = None THEN None ELSE a.owner]

Verdict(w) ==
  /\ \E k \in Keys : Fail(w, k) \/ Pass(w, k)
  /\ owner' = [owner EXCEPT ![w] = None]

LoginNext == (Tick /\ UNCHANGED owner) \/ \E w \in Workers : Arrive(w) \/ Verdict(w)

LoginSpec == LoginInit /\ [][LoginNext]_loginVars

-----------------------------------------------------------------------------
\* Failures and successes count for the host that made the request, whatever
\* it put in the header and however many trusted proxies it passed; nobody is
\* blocked for another's guesses (clientip.go:91-124, faillimit.go:15-18).
AttributionExact == \A w \in Workers : job[w] # None => job[w] = owner[w]
=============================================================================
