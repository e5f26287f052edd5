------------------------------ MODULE ClientIP ------------------------------
(***************************************************************************)
(* ProxyTrust of src/clientip.go: which address a request is attributed    *)
(* to.  An IPv4 address has two spellings, plain and mapped into IPv6; the *)
(* header is the list of its hops, oldest first, all its lines joined.     *)
(*                                                                         *)
(* Operators whose names start with M are faulty variants of the           *)
(* definition after them.                                                  *)
(***************************************************************************)
EXTENDS Naturals, Sequences

CONSTANTS Hosts,
          Proxies,     \* those whose addresses the trust list contains
          Malformed    \* a hop that ParseAddr rejects

Addresses == Hosts \X {"plain", "mapped"}

Plain(h) == <<h, "plain">>

ASSUME ClientIPAssumption == Proxies \subseteq Hosts /\ Malformed \notin Addresses

Unmap(a) == Plain(a[1])

\* The prefixes of the list contain no mapped address.
Contains(a) == a[2] = "plain" /\ a[1] \in Proxies

trusted(a) == Contains(Unmap(a))

peerAddr(remote) == Unmap(remote)

\* Walking the hops right to left stops at the first that is malformed or not
\* trusted.  The faulty variant passes over the malformed ones.
MStops(hops) == {i \in 1 .. Len(hops) : hops[i] # Malformed /\ ~trusted(hops[i])}

Stops(hops) == {i \in 1 .. Len(hops) : hops[i] = Malformed \/ ~trusted(hops[i])}

ClientIP(remote, hops) ==
  LET peer == peerAddr(remote)
      stop == CHOOSE i \in Stops(hops) : \A j \in Stops(hops) : j <= i
  IN  IF ~trusted(peer) \/ Stops(hops) = {} THEN peer
      ELSE IF hops[stop] = Malformed THEN peer ELSE Unmap(hops[stop])
=============================================================================
