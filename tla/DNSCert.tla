------------------------------- MODULE DNSCert -------------------------------
(***************************************************************************)
(* The wildcard certificate managers of src/dnscert.go as RunTLS of        *)
(* src/tls.go runs them: one renewLoop per wildcard, all in one process    *)
(* and on one cache directory, talking to a certificate authority and to   *)
(* a DNS zone through Route53 of src/dns.go.                               *)
(*                                                                         *)
(* A call to the authority, the zone or the disk may fail, before or after *)
(* it took effect (after RunTLS returned remote ones are cancelled, which  *)
(* is one way to fail); the process may die between any two steps and be   *)
(* started again.  For the exact hosts the same process has an autocert    *)
(* manager on the same directory, of which only what it does to the        *)
(* account key is here.  Certificates have two ages, fresh and due for     *)
(* renewal; keys, records and authorizations are names.  Operators whose   *)
(* names start with M are faulty variants of the definition after them.    *)
(***************************************************************************)
EXTENDS Naturals, FiniteSets

CONSTANTS Managers,      \* the wildcards of ACME.Hosts
          Keys,          \* account keys that may be generated
          Authzs,        \* the authorizations of an order
          ExactHosts,    \* whether ACME.Hosts has hosts that are no wildcards
          MaxStops,      \* bound: how often the process dies or exits
          MaxMisreads,   \* bound: how often reading the key file fails
          Absent, Torn, Old   \* no file or value; a truncated file; a left-over record

ASSUME DNSAssumption ==
  /\ IsFiniteSet(Managers) /\ IsFiniteSet(Keys) /\ IsFiniteSet(Authzs)
  /\ ExactHosts \in BOOLEAN /\ MaxStops \in Nat /\ MaxMisreads \in Nat
  /\ Absent \notin Keys \cup Authzs \cup {Torn, Old}
  /\ Torn \notin Keys /\ Old \notin Authzs

VARIABLES
  run,        \* RunTLS: serving, returned (its context is cancelled), down
  stops,
  pc,         \* where each renewLoop is
  cert,       \* the certificate in memory: none, due or fresh
  blind,      \* history: the managers whose load of a good file failed
  attempt,    \* the local variables of the call of obtain in progress
  keyFile,    \* acme_account+key: Absent, Torn or a key
  auto,       \* autocert's way to its account: where it is, with which key
  unlinked,   \* the managers writing to a key file that autocert has replaced
  misreads,   \* history: how often reading a key file that is there failed
  certFile,   \* the stored certificate: none, due, fresh or torn
  zone,       \* the TXT record of each wildcard
  visible,    \* the record the zone's servers answer with
  accounts,   \* the accounts registered at the authority
  leak        \* history: why a record may have been left in the zone

proc   == <<run, stops>>
memory == <<cert, blind>>
keying == <<keyFile, auto, unlinked, misreads>>
disk   == <<keying, certFile>>
dns    == <<zone, visible, leak>>
remote == <<dns, accounts>>
vars   == <<proc, pc, memory, attempt, disk, remote>>

\* The client's account key, the authorizations of the order still to solve,
\* the one being solved, and whether solveAuthorization is returning nil.
Attempts == [key : Keys \cup {Absent}, todo : SUBSET Authzs,
             chal : Authzs \cup {Absent}, valid : BOOLEAN]

NoAttempt == [key |-> Absent, todo |-> {}, chal |-> Absent, valid |-> FALSE]

NoAuto == [at |-> "idle", key |-> Absent]

Records == Authzs \cup {Absent, Old}

Solving == {"upsert", "insync", "accept", "verdict", "cleanup"}

TypeOK ==
  /\ run \in {"serving", "returned", "down"} /\ stops \in 0 .. MaxStops
  /\ pc \in [Managers -> {"dead", "ensure", "readKey", "truncKey", "writeKey", "register",
                          "order", "authz", "finalize", "store", "rename", "swap", "sleep",
                          "exited"} \cup Solving]
  /\ cert \in [Managers -> {"none", "due", "fresh"}]
  /\ blind \subseteq Managers
  /\ attempt \in [Managers -> Attempts]
  /\ auto \in [at : {"idle", "put", "register", "done"}, key : Keys \cup {Absent}]
  /\ unlinked \subseteq Managers /\ misreads \in 0 .. MaxMisreads
  /\ keyFile \in Keys \cup {Absent, Torn}
  /\ certFile \in [Managers -> {"none", "due", "fresh", "torn"}]
  /\ zone \in [Managers -> Records] /\ visible \in [Managers -> Records]
  /\ accounts \subseteq Keys
  /\ leak \in [Managers -> SUBSET {"stop", "cleanup", "set"}]

\* What load returns: the stored certificate, or an error, for a file that is bad
\* and for one that cannot be read.
Loaded(m) == {"none"} \cup ({certFile[m]} \ {"torn"})

\* The first start, on an empty cache directory.
Init ==
  /\ run = "serving" /\ stops = 0
  /\ pc = [m \in Managers |-> "ensure"]
  /\ cert = [m \in Managers |-> "none"] /\ blind = {}
  /\ attempt = [m \in Managers |-> NoAttempt]
  /\ keyFile = Absent /\ auto = NoAuto /\ unlinked = {} /\ misreads = 0
  /\ certFile = [m \in Managers |-> "none"]
  /\ zone = [m \in Managers |-> Absent] /\ visible = [m \in Managers |-> Absent]
  /\ accounts = {}
  /\ leak = [m \in Managers |-> {}]

Goto(m, from, to) == pc[m] = from /\ pc' = [pc EXCEPT ![m] = to]

\* The call goes well, and the attempt with it goes on as "after".
Proceed(m, from, to, after) ==
  Goto(m, from, to) /\ attempt' = [attempt EXCEPT ![m] = after]

\* An error ends the attempt: the loop exits when its context is done, and
\* otherwise waits to retry.  The faulty variant exits on any error.
MFail(m, from) == Proceed(m, from, "exited", NoAttempt)

Fail(m, from) ==
  Proceed(m, from, IF run = "returned" THEN "exited" ELSE "sleep", NoAttempt)

-----------------------------------------------------------------------------
(* renewLoop and ensure.                                                   *)

Needs(m) == cert[m] # "fresh"

Ensure(m) ==
  /\ Goto(m, "ensure", IF Needs(m) THEN "readKey" ELSE "sleep")
  /\ UNCHANGED <<proc, memory, attempt, disk, remote>>

\* The timer of the select fires.
Wake(m) ==
  /\ Goto(m, "sleep", "ensure")
  /\ UNCHANGED <<proc, memory, attempt, disk, remote>>

\* The select sees that serving has stopped.
SeeDone(m) ==
  /\ run = "returned" /\ Goto(m, "sleep", "exited")
  /\ UNCHANGED <<proc, memory, attempt, disk, remote>>

-----------------------------------------------------------------------------
(* acmeClient and accountKey.                                              *)

\* A key nobody has: freshly generated.
Unused == Keys \ (accounts \cup {keyFile, auto.key} \cup {attempt[m].key : m \in Managers})

UseKey(m) == Proceed(m, "readKey", "register", [attempt[m] EXCEPT !.key = keyFile])

NewKey(m) ==
  \E k \in Unused : Proceed(m, "readKey", "truncKey", [attempt[m] EXCEPT !.key = k])

\* A key file that is there cannot be read, and counts as none.
Misread == keyFile # Absent /\ misreads < MaxMisreads /\ misreads' = misreads + 1

\* Any error of ReadFile leads to a new key; a file that is no key does not.
\* The faulty variant takes a torn file for a key.
MReadKey(m) ==
  /\ \/ keyFile # Absent /\ UseKey(m)
     \/ keyFile = Absent /\ NewKey(m)
  /\ UNCHANGED <<proc, memory, disk, remote>>

ReadKey(m) ==
  /\ \/ keyFile \in Keys /\ UseKey(m) /\ UNCHANGED misreads
     \/ keyFile = Torn /\ Fail(m, "readKey") /\ UNCHANGED misreads
     \/ keyFile = Absent /\ NewKey(m) /\ UNCHANGED misreads
     \/ Misread /\ NewKey(m)
  /\ UNCHANGED <<proc, memory, keyFile, auto, unlinked, certFile, remote>>

\* os.WriteFile opens and truncates ...
TruncateKey(m) ==
  /\ \/ Proceed(m, "truncKey", "writeKey", attempt[m]) /\ keyFile' = Torn
     \/ Fail(m, "truncKey") /\ UNCHANGED keyFile
  /\ UNCHANGED <<proc, memory, auto, unlinked, misreads, certFile, remote>>

\* ... and then writes, whatever became of the file meanwhile.  The faulty variant
\* loses the file.
MWriteKey(m) ==
  /\ Proceed(m, "writeKey", "register", attempt[m]) /\ keyFile' = Absent
  /\ UNCHANGED <<proc, memory, auto, unlinked, misreads, certFile, remote>>

WriteKey(m) ==
  /\ LET own == IF m \in unlinked THEN keyFile ELSE attempt[m].key IN
       \/ Proceed(m, "writeKey", "register", attempt[m]) /\ keyFile' = own
       \/ /\ Fail(m, "writeKey")
          /\ keyFile' \in IF m \in unlinked THEN {own} ELSE {keyFile, Torn, own}
  /\ unlinked' = unlinked \ {m}
  /\ UNCHANGED <<proc, memory, auto, misreads, certFile, remote>>

\* An account that exists already is no error; a lost reply may hide one.
Register(m) ==
  /\ LET registered == accounts \cup {attempt[m].key} IN
       \/ Proceed(m, "register", "order", attempt[m]) /\ accounts' = registered
       \/ Fail(m, "register") /\ accounts' \in {accounts, registered}
  /\ UNCHANGED <<proc, memory, disk, dns>>

-----------------------------------------------------------------------------
(* autocert, which builds its client at the first handshake for an exact   *)
(* host: external, as far as the key file is concerned.  Its cache writes  *)
(* a file under another name and renames it.                               *)

\* Only a file that is not there leads to a new key.
AutocertReads ==
  /\ ExactHosts /\ run # "down" /\ auto.at = "idle"
  /\ \/ keyFile \in Keys /\ auto' = [at |-> "register", key |-> keyFile]
     \/ keyFile = Absent /\ \E k \in Unused : auto' = [at |-> "put", key |-> k]
  /\ UNCHANGED <<proc, pc, memory, attempt, keyFile, unlinked, misreads, certFile, remote>>

AutocertPuts ==
  /\ auto.at = "put"
  /\ \/ /\ auto' = [auto EXCEPT !.at = "register"] /\ keyFile' = auto.key
        /\ unlinked' = {m \in Managers : pc[m] = "writeKey"}
     \/ auto' = NoAuto /\ UNCHANGED <<keyFile, unlinked>>
  /\ UNCHANGED <<proc, pc, memory, attempt, misreads, certFile, remote>>

AutocertRegisters ==
  /\ auto.at = "register"
  /\ LET registered == accounts \cup {auto.key} IN
       \/ auto' = [auto EXCEPT !.at = "done"] /\ accounts' = registered
       \/ auto' = NoAuto /\ accounts' \in {accounts, registered}
  /\ UNCHANGED <<proc, pc, memory, attempt, keyFile, unlinked, misreads, certFile, dns>>

Autocert == AutocertReads \/ AutocertPuts \/ AutocertRegisters

-----------------------------------------------------------------------------
(* obtain, solveAuthorization and Route53.                                 *)

\* A new order has new challenges: any record still in the zone is an old one.
Aged(r) == IF r = Absent THEN Absent ELSE Old

AuthorizeOrder(m) ==
  /\ \/ /\ Proceed(m, "order", "authz", [attempt[m] EXCEPT !.todo = Authzs])
        /\ zone' = [zone EXCEPT ![m] = Aged(@)]
        /\ visible' = [visible EXCEPT ![m] = Aged(@)]
     \/ Fail(m, "order") /\ UNCHANGED <<zone, visible>>
  /\ UNCHANGED <<proc, memory, disk, accounts, leak>>

\* The loop over the authorizations, one at a time: one that is valid already
\* needs no record.
NextAuthz(m) ==
  /\ \/ attempt[m].todo = {} /\ Proceed(m, "authz", "finalize", attempt[m])
     \/ \E a \in attempt[m].todo :
          \/ Proceed(m, "authz", "authz", [attempt[m] EXCEPT !.todo = @ \ {a}])
          \/ Proceed(m, "authz", "upsert", [attempt[m] EXCEPT !.chal = a])
          \/ Fail(m, "authz")
  /\ UNCHANGED <<proc, memory, disk, remote>>

\* The UPSERT of SetTXT replaces whatever record is there.
Upsert(m) ==
  /\ LET written == [zone EXCEPT ![m] = attempt[m].chal] IN
       \/ /\ Proceed(m, "upsert", "insync", attempt[m])
          /\ zone' = written /\ UNCHANGED leak
       \/ /\ Fail(m, "upsert")
          /\ \/ zone' = written /\ leak' = [leak EXCEPT ![m] = @ \cup {"set"}]
             \/ UNCHANGED <<zone, leak>>
  /\ UNCHANGED <<proc, memory, disk, visible, accounts>>

\* A change of the zone reaches its servers in its own time.
Propagate(m) ==
  /\ visible[m] # zone[m] /\ visible' = [visible EXCEPT ![m] = zone[m]]
  /\ UNCHANGED <<proc, pc, memory, attempt, disk, zone, leak, accounts>>

\* waitInSync returns once every server has the change.  Its error is an error
\* of SetTXT: the record is there, and the deferred cleanup is not yet.
MWaitInSync(m) ==
  /\ Proceed(m, "insync", "accept", attempt[m])
  /\ UNCHANGED <<proc, memory, disk, remote>>

WaitInSync(m) ==
  /\ \/ visible[m] = zone[m] /\ Proceed(m, "insync", "accept", attempt[m]) /\ UNCHANGED leak
     \/ Fail(m, "insync") /\ leak' = [leak EXCEPT ![m] = @ \cup {"set"}]
  /\ UNCHANGED <<proc, memory, disk, zone, visible, accounts>>

\* Accept tells the authority to look; its error goes through the deferred
\* cleanup, which the faulty variant does not have yet.
MAccept(m) ==
  /\ Proceed(m, "accept", "verdict", attempt[m]) \/ Fail(m, "accept")
  /\ UNCHANGED <<proc, memory, disk, remote>>

Accept(m) ==
  /\ \/ Proceed(m, "accept", "verdict", attempt[m])
     \/ Proceed(m, "accept", "cleanup", [attempt[m] EXCEPT !.valid = FALSE])
  /\ UNCHANGED <<proc, memory, disk, remote>>

\* WaitAuthorization: valid only if the authority saw the challenge's record;
\* an error, a timeout or a cancelled context otherwise.
Verdict(m) ==
  /\ \/ /\ visible[m] = attempt[m].chal
        /\ Proceed(m, "verdict", "cleanup", [attempt[m] EXCEPT !.valid = TRUE])
     \/ Proceed(m, "verdict", "cleanup", [attempt[m] EXCEPT !.valid = FALSE])
  /\ UNCHANGED <<proc, memory, disk, remote>>

\* The deferred CleanupTXT, with a context of its own: its failure is only
\* logged.  Then solveAuthorization returns.
Cleanup(m) ==
  /\ IF attempt[m].valid
       THEN Proceed(m, "cleanup", "authz",
                    [attempt[m] EXCEPT !.todo = @ \ {attempt[m].chal}, !.chal = Absent,
                                       !.valid = FALSE])
       ELSE Fail(m, "cleanup")
  /\ \/ zone' = [zone EXCEPT ![m] = Absent] /\ leak' = [leak EXCEPT ![m] = {}]
     \/ leak' = [leak EXCEPT ![m] = @ \cup {"cleanup"}] /\ UNCHANGED zone
  /\ UNCHANGED <<proc, memory, disk, visible, accounts>>

\* CreateOrderCert, with a key of its own.
Finalize(m) ==
  /\ Proceed(m, "finalize", "store", attempt[m]) \/ Fail(m, "finalize")
  /\ UNCHANGED <<proc, memory, disk, remote>>

\* store writes a temporary file.  The faulty variant writes in place.
MStore(m) ==
  /\ \/ /\ Proceed(m, "store", "rename", attempt[m])
        /\ certFile' = [certFile EXCEPT ![m] = "torn"]
     \/ Fail(m, "store") /\ UNCHANGED certFile
  /\ UNCHANGED <<proc, memory, keying, remote>>

Store(m) ==
  /\ Proceed(m, "store", "rename", attempt[m]) \/ Fail(m, "store")
  /\ UNCHANGED <<proc, memory, disk, remote>>

\* Then it renames it over the certificate's file.
Rename(m) ==
  /\ \/ /\ Proceed(m, "rename", "swap", attempt[m])
        /\ certFile' = [certFile EXCEPT ![m] = "fresh"] /\ blind' = blind \ {m}
     \/ Fail(m, "rename") /\ UNCHANGED <<certFile, blind>>
  /\ UNCHANGED <<proc, cert, keying, remote>>

\* The new certificate is served from now on.
Swap(m) ==
  /\ Proceed(m, "swap", "sleep", NoAttempt)
  /\ cert' = [cert EXCEPT ![m] = "fresh"]
  /\ UNCHANGED <<proc, blind, disk, remote>>

-----------------------------------------------------------------------------
(* RunTLS, the process and time.                                           *)

\* RunTLS returns: its deferred cancel tells the loops to stop.
RunReturns ==
  /\ run = "serving" /\ run' = "returned"
  /\ UNCHANGED <<stops, pc, memory, attempt, disk, remote>>

\* The process dies, or exits after RunTLS returned, wherever its loops are:
\* only disk and remote state survive.
Die ==
  /\ run # "down" /\ stops < MaxStops
  /\ run' = "down" /\ stops' = stops + 1
  /\ pc' = [m \in Managers |-> "dead"]
  /\ cert' = [m \in Managers |-> "none"] /\ blind' = {}
  /\ attempt' = [m \in Managers |-> NoAttempt] /\ auto' = NoAuto /\ unlinked' = {}
  /\ leak' = [m \in Managers |-> IF zone[m] = Absent THEN {} ELSE leak[m] \cup {"stop"}]
  /\ UNCHANGED <<keyFile, misreads, certFile, zone, visible, accounts>>

\* RunTLS again: newDNSCert loads what is stored, which the faulty variant
\* does not, ignores an error of that, and the loops start.
MStartAgain ==
  /\ run = "down" /\ run' = "serving"
  /\ pc' = [m \in Managers |-> "ensure"]
  /\ UNCHANGED <<stops, memory, attempt, disk, remote>>

StartAgain ==
  /\ run = "down" /\ run' = "serving"
  /\ cert' \in [Managers -> {"none", "due", "fresh"}]
  /\ \A m \in Managers : cert'[m] \in Loaded(m)
  /\ blind' = {m \in Managers : cert'[m] = "none" /\ certFile[m] \in {"due", "fresh"}}
  /\ pc' = [m \in Managers |-> "ensure"]
  /\ UNCHANGED <<stops, attempt, disk, remote>>

\* A certificate comes within dnsRenewBefore of its end.  TIMING ASSUMPTION:
\* not in the minutes between its issuance and the end of that attempt.
Age(m) ==
  /\ pc[m] \in {"sleep", "exited", "dead"} \/ m \in blind
  /\ certFile[m] = "fresh"
  /\ certFile' = [certFile EXCEPT ![m] = "due"]
  /\ cert' = [cert EXCEPT ![m] = IF @ = "fresh" THEN "due" ELSE @]
  /\ UNCHANGED <<proc, pc, blind, attempt, keying, remote>>

\* Every loop has ended, and the process has stopped as often as it may.
Ended == (\A m \in Managers : pc[m] = "exited") /\ UNCHANGED vars

Loop(m) ==
  \/ Ensure(m) \/ Wake(m) \/ SeeDone(m)
  \/ ReadKey(m) \/ TruncateKey(m) \/ WriteKey(m) \/ Register(m)
  \/ AuthorizeOrder(m) \/ NextAuthz(m)
  \/ Upsert(m) \/ WaitInSync(m) \/ Accept(m) \/ Verdict(m) \/ Cleanup(m)
  \/ Finalize(m) \/ Store(m) \/ Rename(m) \/ Swap(m)

Next ==
  \/ \E m \in Managers : Loop(m) \/ Propagate(m) \/ Age(m)
  \/ Autocert \/ RunReturns \/ Die \/ StartAgain \/ Ended

SafetySpec == Init /\ [][Next]_vars

\* Goroutines are scheduled, a process that died is started again, and changes
\* of the zone propagate.  Nothing obliges the process to stop, a certificate to
\* age, or a call to fail or to go well.
Fairness ==
  /\ WF_vars(StartAgain)
  /\ \A m \in Managers : WF_vars(Loop(m)) /\ WF_vars(Propagate(m))

Spec == SafetySpec /\ Fairness

-----------------------------------------------------------------------------
(* Properties.                                                             *)

Rank(c) == CASE c = "fresh" -> 2 [] c = "due" -> 1 [] OTHER -> 0

\* What is served is stored: no crash, failed attempt or restart makes a
\* manager lose a certificate it has served (store, dnscert.go:288-321, and
\* newDNSCert, dnscert.go:68-72).
ServedIsStored ==
  \A m \in Managers : /\ Rank(certFile[m]) >= Rank(cert[m])
                      /\ certFile[m] # "torn"

\* The calls of an attempt, its failures and the steps of a write cannot be
\* noticed: each manager is a certificate on disk that is replaced whole when due
\* or when it could not be loaded, served once it is there, and served again after
\* a crash if it can be loaded then (dnscert.go:58-130).
CS == INSTANCE CertStore WITH up <- run # "down", stored <- certFile, served <- cert

ImplementsStore == CS!StoreSpec

\* Once the authority is asked to look, every server answers with the record of
\* the challenge being validated, whatever an earlier authorization or attempt
\* left in the zone or on a server (SetTXT and waitInSync, dns.go:101-161).
RecordInPlace ==
  \A m \in Managers :
    pc[m] \in {"accept", "verdict"} => visible[m] = attempt[m].chal

\* A record outlives its attempt only for one of three reasons: the process
\* stopped, CleanupTXT failed, or SetTXT failed after its UPSERT took effect
\* (solveAuthorization, dnscert.go:211-232).
LeftoverExplained ==
  \A m \in Managers :
    (zone[m] # Absent /\ pc[m] \notin Solving) => leak[m] # {}

\* Who may find no key file: each manager and autocert.
Applicants == Cardinality(Managers) + (IF ExactHosts THEN 1 ELSE 0)

\* Retries, renewals and restarts reuse the account key: no more accounts are
\* ever registered than there are racing at the first start, and one for each
\* time an existing key file could not be read (accountKey, dnscert.go:257-282).
AccountsBounded == Cardinality(accounts) <= Applicants + misreads

\* A manager orders a certificate while the one on disk is not due only if this
\* process failed to load that one, and has not replaced it since; not after any
\* other crash or restart (newDNSCert and ensure, dnscert.go:68-130).
NoNeedlessOrder ==
  \A m \in Managers :
    pc[m] \in {"register", "order"} /\ certFile[m] = "fresh" => m \in blind

\* A call to the authority, the zone or the disk goes wrong, or the authority
\* refuses.  A key file that was read but is torn is no such failure.
CallFails(m) ==
  \/ misreads' # misreads
  \/ /\ pc[m] \notin {"ensure", "sleep", "readKey", "cleanup", "swap"}
     /\ pc'[m] \in {"sleep", "exited"}
  \/ pc[m] \in {"accept", "verdict"} /\ pc'[m] = "cleanup" /\ ~attempt'[m].valid

\* Once the process stays up and calls stop failing, a missing or due
\* certificate is replaced, and so is the next one, whatever failed before,
\* unless it left the key file torn (renewLoop, dnscert.go:102-118).
Renews ==
  \A m \in Managers :
    (<>[](run = "serving" /\ keyFile # Torn) /\ <>[][~CallFails(m)]_vars)
      => []<>(~Needs(m))

\* The comment on renewLoop (dnscert.go:100-101): it "obtains the certificate
\* if missing and keeps it renewed" while serving lasts and calls go well.
DocKeepsRenewed ==
  \A m \in Managers :
    (<>[](run = "serving") /\ <>[][~CallFails(m)]_vars) => []<>(~Needs(m))
=============================================================================
