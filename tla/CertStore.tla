------------------------------ MODULE CertStore ------------------------------
(***************************************************************************)
(* What the wildcard certificates of RunTLS promise (newDNSCert, ensure    *)
(* and store of src/dnscert.go), without keys, accounts, orders, records,  *)
(* retries or files that are half written: a certificate is replaced only  *)
(* when it is due or could not be loaded, is on disk before it is served,  *)
(* and is served again from the moment a new process has loaded it.        *)
(* DNSCert implements it.                                                  *)
(***************************************************************************)
CONSTANT Managers

VARIABLES
  up,       \* whether there is a process
  stored,   \* stored[m]: the certificate that survives it: none, due or fresh
  served,   \* served[m]: the certificate handshakes get
  blind     \* who failed to load what is stored

storeVars == <<up, stored, served, blind>>

StoreInit ==
  /\ up = TRUE
  /\ stored = [m \in Managers |-> "none"]
  /\ served = [m \in Managers |-> "none"]
  /\ blind = {}

\* A certificate arrives, whole, in place of one that is missing, due or unknown.
Renew(m) ==
  /\ up /\ (stored[m] # "fresh" \/ m \in blind)
  /\ stored' = [stored EXCEPT ![m] = "fresh"] /\ blind' = blind \ {m}
  /\ UNCHANGED <<up, served>>

Serve(m) ==
  /\ up /\ stored[m] = "fresh" /\ m \notin blind
  /\ served' = [served EXCEPT ![m] = "fresh"]
  /\ UNCHANGED <<up, stored, blind>>

GetDue(m) ==
  /\ stored[m] = "fresh"
  /\ stored' = [stored EXCEPT ![m] = "due"]
  /\ served' = [served EXCEPT ![m] = IF @ = "fresh" THEN "due" ELSE @]
  /\ UNCHANGED <<up, blind>>

Crash ==
  /\ up /\ up' = FALSE
  /\ served' = [m \in Managers |-> "none"] /\ blind' = {}
  /\ UNCHANGED stored

\* Whoever can load what is stored serves it.
Restart ==
  /\ ~up /\ up' = TRUE
  /\ blind' \in SUBSET {m \in Managers : stored[m] # "none"}
  /\ served' = [m \in Managers |-> IF m \in blind' THEN "none" ELSE stored[m]]
  /\ UNCHANGED stored

StoreNext ==
  Crash \/ Restart \/ \E m \in Managers : Renew(m) \/ Serve(m) \/ GetDue(m)

StoreSpec == StoreInit /\ [][StoreNext]_storeVars
=============================================================================
