---------------------------- MODULE DNSCertProofs ----------------------------
(***************************************************************************)
(* The safety properties of DNSCert proved for any number of wildcards,    *)
(* keys, authorizations, failures and crashes.  Three parts of the state   *)
(* do not depend on each other, so there are three invariants: of the      *)
(* certificates, of the zone and of the account keys.                      *)
(***************************************************************************)
EXTENDS DNSCert, FiniteSetTheorems, TLAPS

Locations ==
  {"dead", "ensure", "readKey", "truncKey", "writeKey", "register", "order", "authz",
   "finalize", "store", "rename", "swap", "sleep", "exited"} \cup Solving

\* Everything an attempt does before the new certificate is in its file.
Obtaining == Locations \ {"dead", "ensure", "swap", "sleep", "exited"}

\* From accountKey's read to Register the attempt has its key.
KeyChosen(m) == pc[m] \in {"truncKey", "writeKey", "register"} => attempt[m].key \in Keys

\* So has autocert, if there is one.
AutoChosen ==
  /\ auto.at \in {"put", "register"} => auto.key \in Keys /\ ExactHosts
  /\ ~ExactHosts => auto = NoAuto

\* The certificate in memory is as new as the one on disk, except between the
\* rename and the swap, and where it could not be loaded; an attempt runs only
\* while it is not fresh.
CertInv(m) ==
  /\ pc[m] = "dead" <=> run = "down"
  /\ Rank(certFile[m]) >= Rank(cert[m]) /\ certFile[m] # "torn"
  /\ m \in blind => cert[m] = "none" /\ pc[m] \notin {"swap", "dead"}
  /\ pc[m] = "swap" => certFile[m] = "fresh"
  /\ pc[m] \notin {"swap", "dead"} /\ certFile[m] = "fresh" /\ m \notin blind
       => cert[m] = "fresh"
  /\ pc[m] \in Obtaining => cert[m] # "fresh"

\* The record is in the zone from its UPSERT to its cleanup, and on every server
\* once SetTXT has returned.  One that is there before has its explanation.
ZoneInv(m) ==
  /\ pc[m] \in {"insync", "accept", "verdict"} => zone[m] = attempt[m].chal
  /\ pc[m] \in {"accept", "verdict"} => visible[m] = attempt[m].chal
  /\ zone[m] # Absent /\ (pc[m] \notin Solving \/ pc[m] = "upsert") => leak[m] # {}

Held == {attempt[m].key : m \in Managers} \cup {auto.key}

\* The keys that may still be registered, or are.
Live == accounts \cup ((Held \cup {keyFile}) \cap Keys)

\* No key is lost, and none is generated any more once a file has been created
\* but for those that a misread costs; until then each applicant holds one at most.
KeyInv ==
  /\ keyFile = Absent => accounts = {}
  /\ \A m \in Managers : pc[m] \in {"writeKey", "register"} => keyFile # Absent
  /\ auto.at = "register" => keyFile # Absent
  /\ Cardinality(Live) <= Applicants + misreads

-----------------------------------------------------------------------------
(* Type correctness.                                                       *)

USE DEF proc, memory, keying, disk, dns, remote

\* An action of a loop, the change of the zone or of a certificate, or a step
\* of the process.
LEMMA StepCases ==
  ASSUME [Next]_vars
  PROVE  \/ \E m \in Managers : Loop(m) \/ Propagate(m) \/ Age(m)
         \/ Autocert \/ RunReturns \/ Die \/ StartAgain \/ UNCHANGED vars
BY DEF Next, Ended

\* The updates of an attempt's record keep its type.
LEMMA AttemptTypes ==
  /\ NoAttempt \in Attempts
  /\ \A t \in Attempts :
       /\ t.key \in Keys \cup {Absent} /\ t.todo \in SUBSET Authzs
       /\ t.chal \in Authzs \cup {Absent}
       /\ \A k \in Keys : [t EXCEPT !.key = k] \in Attempts
       /\ [t EXCEPT !.todo = Authzs] \in Attempts
       /\ \A a : [t EXCEPT !.todo = @ \ {a}] \in Attempts
       /\ \A a \in Authzs : [t EXCEPT !.chal = a] \in Attempts
       /\ \A b \in BOOLEAN : [t EXCEPT !.valid = b] \in Attempts
       /\ \A a : [t EXCEPT !.todo = @ \ {a}, !.chal = Absent, !.valid = FALSE] \in Attempts
BY DEF Attempts, NoAttempt

\* An error ends the attempt.
LEMMA FailType ==
  ASSUME TypeOK, NEW m \in Managers, NEW from, Fail(m, from)
  PROVE  /\ pc[m] = from /\ pc' \in [Managers -> Locations]
         /\ attempt' \in [Managers -> Attempts]
BY AttemptTypes DEF Fail, Proceed, Goto, TypeOK, Locations

\* So does a call that goes well.
LEMMA ProceedType ==
  ASSUME TypeOK, NEW m \in Managers, NEW from, NEW to \in Locations,
         NEW after \in Attempts, Proceed(m, from, to, after)
  PROVE  /\ pc' \in [Managers -> Locations] /\ attempt' \in [Managers -> Attempts]
BY DEF Proceed, Goto, TypeOK, Locations

\* Each call of a loop keeps the types.
LEMMA LoopType ==
  ASSUME TypeOK, NEW m \in Managers, KeyChosen(m), Loop(m)
  PROVE  TypeOK'
<1> DEFINE Moves == pc' \in [Managers -> Locations] /\ attempt' \in [Managers -> Attempts]
<1> attempt[m] \in Attempts
  BY DEF TypeOK
<1>1. ASSUME Moves, UNCHANGED <<proc, memory, disk, remote>>
      PROVE  TypeOK'
  BY <1>1 DEF TypeOK, Locations
<1>2. CASE Ensure(m) \/ Wake(m) \/ SeeDone(m)
  BY <1>2 DEF Ensure, Wake, SeeDone, Goto, TypeOK
<1>3. CASE ReadKey(m)
  <2> \A k \in Keys : [attempt[m] EXCEPT !.key = k] \in Attempts
    BY AttemptTypes
  <2> Moves
    BY <1>3, FailType, ProceedType DEF ReadKey, UseKey, NewKey, Misread, Unused, Locations
  <2> misreads' \in 0 .. MaxMisreads
    BY <1>3, DNSAssumption DEF ReadKey, Misread, TypeOK, DNSAssumption
  <2> QED  BY <1>3 DEF ReadKey, TypeOK, Locations
<1>4. CASE TruncateKey(m)
  <2> Moves
    BY <1>4, FailType, ProceedType DEF TruncateKey, Locations
  <2> keyFile' \in {keyFile, Torn}
    BY <1>4 DEF TruncateKey
  <2> QED  BY <1>4 DEF TruncateKey, TypeOK, Locations
<1>5. CASE WriteKey(m)
  <2> Moves
    BY <1>5, FailType, ProceedType DEF WriteKey, Locations
  <2> keyFile' \in {keyFile, Torn, attempt[m].key} /\ unlinked' \subseteq Managers
    BY <1>5 DEF WriteKey, TypeOK
  <2> QED  BY <1>5, AttemptTypes DEF WriteKey, TypeOK, Locations
<1>6. CASE Register(m)
  <2> Moves
    BY <1>6, FailType, ProceedType DEF Register, Locations
  <2> accounts' \subseteq Keys
    BY <1>6 DEF Register, Proceed, Goto, Fail, KeyChosen, TypeOK
  <2> QED  BY <1>6 DEF Register, TypeOK, Locations
<1>7. CASE AuthorizeOrder(m)
  <2> [attempt[m] EXCEPT !.todo = Authzs] \in Attempts
    BY AttemptTypes
  <2> Moves
    BY <1>7, FailType, ProceedType DEF AuthorizeOrder, Locations
  <2> zone' \in [Managers -> Records] /\ visible' \in [Managers -> Records]
    BY <1>7 DEF AuthorizeOrder, Aged, Records, TypeOK
  <2> QED  BY <1>7 DEF AuthorizeOrder, TypeOK, Locations
<1>8. CASE NextAuthz(m)
  <2> \A a \in Authzs : /\ [attempt[m] EXCEPT !.todo = @ \ {a}] \in Attempts
                        /\ [attempt[m] EXCEPT !.chal = a] \in Attempts
    BY AttemptTypes
  <2> \A a \in attempt[m].todo : a \in Authzs
    BY AttemptTypes
  <2> Moves
    BY <1>8, FailType, ProceedType DEF NextAuthz, Locations, Solving
  <2> QED  BY <1>1, <1>8 DEF NextAuthz
<1>9. CASE Upsert(m)
  <2> Moves
    BY <1>9, FailType, ProceedType DEF Upsert, Locations, Solving
  <2> attempt[m].chal \in Records
    BY AttemptTypes DEF Records
  <2> zone' \in [Managers -> Records]
    BY <1>9 DEF Upsert, TypeOK
  <2> leak' \in [Managers -> SUBSET {"stop", "cleanup", "set"}]
    BY <1>9 DEF Upsert, TypeOK
  <2> QED  BY <1>9 DEF Upsert, TypeOK, Locations
<1>10. CASE WaitInSync(m)
  <2> Moves
    BY <1>10, FailType, ProceedType DEF WaitInSync, Locations, Solving
  <2> leak' \in [Managers -> SUBSET {"stop", "cleanup", "set"}]
    BY <1>10 DEF WaitInSync, TypeOK
  <2> QED  BY <1>10 DEF WaitInSync, TypeOK, Locations
<1>11. CASE Accept(m) \/ Verdict(m)
  <2> \A b \in BOOLEAN : [attempt[m] EXCEPT !.valid = b] \in Attempts
    BY AttemptTypes
  <2> Moves
    BY <1>11, ProceedType DEF Accept, Verdict, Locations, Solving
  <2> QED  BY <1>1, <1>11 DEF Accept, Verdict
<1>12. CASE Cleanup(m)
  <2> DEFINE t == [attempt[m] EXCEPT !.todo = @ \ {attempt[m].chal}, !.chal = Absent,
                                     !.valid = FALSE]
  <2> t \in Attempts
    BY AttemptTypes
  <2> Moves
    BY <1>12, FailType, ProceedType DEF Cleanup, Locations
  <2> zone' \in [Managers -> Records] /\ leak' \in [Managers -> SUBSET {"stop", "cleanup", "set"}]
    BY <1>12 DEF Cleanup, Records, TypeOK
  <2> QED  BY <1>12 DEF Cleanup, TypeOK, Locations
<1>13. CASE Finalize(m) \/ Store(m)
  <2> Moves
    BY <1>13, FailType, ProceedType DEF Finalize, Store, Locations
  <2> QED  BY <1>1, <1>13 DEF Finalize, Store
<1>14. CASE Rename(m)
  <2> Moves
    BY <1>14, FailType, ProceedType DEF Rename, Locations
  <2> certFile' \in [Managers -> {"none", "due", "fresh", "torn"}]
    BY <1>14 DEF Rename, TypeOK
  <2> blind' \subseteq Managers
    BY <1>14 DEF Rename, TypeOK
  <2> QED  BY <1>14 DEF Rename, TypeOK, Locations
<1>15. CASE Swap(m)
  <2> Moves
    BY <1>15, ProceedType, AttemptTypes DEF Swap, Locations
  <2> cert' \in [Managers -> {"none", "due", "fresh"}]
    BY <1>15 DEF Swap, TypeOK
  <2> QED  BY <1>15 DEF Swap, TypeOK, Locations
<1> QED
  BY <1>2, <1>3, <1>4, <1>5, <1>6, <1>7, <1>8, <1>9, <1>10, <1>11, <1>12, <1>13, <1>14, <1>15
     DEF Loop

\* A crash resets every loop.
LEMMA DieType ==
  ASSUME TypeOK, Die
  PROVE  TypeOK'
<1>1. run' \in {"serving", "returned", "down"} /\ stops' \in 0 .. MaxStops
  BY DNSAssumption DEF Die, DNSAssumption, TypeOK
<1>2. attempt' \in [Managers -> Attempts]
  BY AttemptTypes DEF Die
<1>3. leak' \in [Managers -> SUBSET {"stop", "cleanup", "set"}]
  BY DEF Die, TypeOK
<1> QED  BY <1>1, <1>2, <1>3 DEF Die, TypeOK, NoAuto

\* autocert's key and the key file's stay keys.
LEMMA AutocertType ==
  ASSUME TypeOK, AutoChosen, Autocert
  PROVE  TypeOK' /\ AutoChosen'
<1>1. CASE AutocertReads
  BY <1>1 DEF AutocertReads, TypeOK, AutoChosen, Unused
<1>2. CASE AutocertPuts
  <2>1. auto.key \in Keys /\ ExactHosts
    BY <1>2 DEF AutocertPuts, AutoChosen
  <2>2. auto' = [auto EXCEPT !.at = "register"] \/ auto' = NoAuto
    BY <1>2 DEF AutocertPuts
  <2>3. keyFile' \in {keyFile, auto.key} /\ unlinked' \subseteq Managers
    BY <1>2 DEF AutocertPuts, TypeOK
  <2> QED  BY <1>2, <2>1, <2>2, <2>3 DEF AutocertPuts, TypeOK, AutoChosen, NoAuto
<1>3. CASE AutocertRegisters
  <2>1. auto.key \in Keys /\ ExactHosts
    BY <1>3 DEF AutocertRegisters, AutoChosen
  <2>2. auto' = [auto EXCEPT !.at = "done"] \/ auto' = NoAuto
    BY <1>3 DEF AutocertRegisters
  <2>3. accounts' \subseteq accounts \cup {auto.key}
    BY <1>3 DEF AutocertRegisters
  <2> QED  BY <1>3, <2>1, <2>2, <2>3 DEF AutocertRegisters, TypeOK, AutoChosen, NoAuto
<1> QED  BY <1>1, <1>2, <1>3 DEF Autocert

\* With the names of the key files, types are inductive.
TypeInv == TypeOK /\ AutoChosen /\ \A m \in Managers : KeyChosen(m)

\* The first start has the types.
LEMMA InitType == Init => TypeInv
<1> SUFFICES ASSUME Init PROVE TypeInv
  OBVIOUS
<1>1. attempt \in [Managers -> Attempts]
  BY AttemptTypes DEF Init
<1>2. stops \in 0 .. MaxStops /\ misreads \in 0 .. MaxMisreads
  BY DNSAssumption DEF DNSAssumption, Init
<1> QED  BY <1>1, <1>2 DEF Init, TypeInv, TypeOK, Records, KeyChosen, AutoChosen, NoAuto

\* So does every step, and the attempt's key is chosen before it is used.
LEMMA NextType ==
  ASSUME TypeInv, [Next]_vars
  PROVE  TypeInv'
<1>1. TypeOK'
  <2>1. ASSUME NEW m \in Managers, Loop(m) PROVE TypeOK'
    BY <2>1, LoopType DEF TypeInv
  <2>2. ASSUME NEW m \in Managers, Propagate(m) PROVE TypeOK'
    BY <2>2 DEF Propagate, TypeInv, TypeOK
  <2>3. ASSUME NEW m \in Managers, Age(m) PROVE TypeOK'
    BY <2>3 DEF Age, TypeInv, TypeOK
  <2>4. CASE RunReturns
    BY <2>4 DEF RunReturns, TypeInv, TypeOK
  <2>5. CASE StartAgain
    BY <2>5 DEF StartAgain, TypeInv, TypeOK
  <2>6. CASE UNCHANGED vars
    BY <2>6 DEF vars, TypeInv, TypeOK
  <2> QED
    BY DieType, AutocertType, StepCases, <2>1, <2>2, <2>3, <2>4, <2>5, <2>6 DEF TypeInv
<1>3. AutoChosen'
  <2> USE DEF TypeInv, AutoChosen
  <2>1. ASSUME NEW m \in Managers, Loop(m) PROVE auto' = auto
    BY <2>1 DEF Loop, Ensure, Wake, SeeDone, ReadKey, TruncateKey, WriteKey, Register,
          AuthorizeOrder, NextAuthz, Upsert, WaitInSync, Accept, Verdict, Cleanup,
          Finalize, Store, Rename, Swap
  <2>2. ASSUME NEW m \in Managers, Propagate(m) \/ Age(m) PROVE auto' = auto
    BY <2>2 DEF Propagate, Age
  <2>3. CASE RunReturns \/ StartAgain \/ UNCHANGED vars
    BY <2>3 DEF RunReturns, StartAgain, vars
  <2>4. CASE Die
    BY <2>4 DEF Die, NoAuto
  <2> QED  BY AutocertType, StepCases, <2>1, <2>2, <2>3, <2>4
<1>2. ASSUME NEW n \in Managers PROVE KeyChosen(n)'
  <2> USE DEF TypeInv, TypeOK, KeyChosen
  <2>1. ASSUME NEW m \in Managers, Loop(m) PROVE KeyChosen(n)'
    <3>1. (pc'[n] = pc[n] /\ attempt'[n] = attempt[n]) \/ n = m
      BY <2>1 DEF Loop, Ensure, Wake, SeeDone, ReadKey, TruncateKey, WriteKey, Register,
            AuthorizeOrder, NextAuthz, Upsert, WaitInSync, Accept, Verdict, Cleanup,
            Finalize, Store, Rename, Swap, Fail, Proceed, Goto, UseKey, NewKey
    <3>2. CASE ReadKey(m)
      BY <3>1, <3>2 DEF ReadKey, UseKey, NewKey, Misread, Fail, Proceed, Goto, Attempts, Unused
    <3>3. CASE TruncateKey(m) \/ WriteKey(m)
      BY <3>1, <3>3 DEF TruncateKey, WriteKey, Fail, Proceed, Goto
    <3>4. CASE ~ReadKey(m) /\ ~TruncateKey(m) /\ ~WriteKey(m)
      <4> pc'[m] \notin {"truncKey", "writeKey", "register"}
        BY <2>1, <3>4 DEF Loop, Ensure, Wake, SeeDone, Register,
            AuthorizeOrder, NextAuthz, Upsert, WaitInSync, Accept, Verdict, Cleanup,
            Finalize, Store, Rename, Swap, Fail, Proceed, Goto
      <4> QED  BY <3>1
    <3> QED  BY <3>2, <3>3, <3>4
  <2>2. ASSUME NEW m \in Managers, Propagate(m) \/ Age(m) PROVE KeyChosen(n)'
    BY <2>2 DEF Propagate, Age
  <2>3. CASE RunReturns \/ UNCHANGED vars
    BY <2>3 DEF RunReturns, vars
  <2>4. CASE Die \/ StartAgain
    BY <2>4 DEF Die, StartAgain
  <2>5. CASE Autocert
    BY <2>5 DEF Autocert, AutocertReads, AutocertPuts, AutocertRegisters
  <2> QED  BY StepCases, <2>1, <2>2, <2>3, <2>4, <2>5
<1> QED  BY <1>1, <1>2, <1>3 DEF TypeInv

-----------------------------------------------------------------------------
(* The certificates.                                                       *)

\* A loop changes nothing of another's, and its call ends somewhere else than
\* in the process' death.
LEMMA Own ==
  ASSUME TypeInv, NEW m \in Managers, Loop(m)
  PROVE  /\ \A n \in Managers \ {m} :
              /\ pc'[n] = pc[n] /\ attempt'[n] = attempt[n] /\ cert'[n] = cert[n]
              /\ certFile'[n] = certFile[n] /\ zone'[n] = zone[n]
              /\ visible'[n] = visible[n] /\ leak'[n] = leak[n] /\ (n \in blind' <=> n \in blind)
         /\ run' = run /\ pc[m] # "dead" /\ pc'[m] # "dead"
<1> USE DEF TypeInv, TypeOK, Fail, Proceed, Goto, UseKey, NewKey, Misread
<1>1. CASE Ensure(m) \/ Wake(m) \/ SeeDone(m) \/ ReadKey(m) \/ TruncateKey(m) \/ WriteKey(m)
             \/ Register(m)
  BY <1>1 DEF Ensure, Wake, SeeDone, ReadKey, TruncateKey, WriteKey, Register
<1>2. CASE AuthorizeOrder(m) \/ NextAuthz(m) \/ Upsert(m) \/ WaitInSync(m)
  BY <1>2 DEF AuthorizeOrder, NextAuthz, Upsert, WaitInSync
<1>3. CASE Accept(m) \/ Verdict(m) \/ Cleanup(m)
  BY <1>3 DEF Accept, Verdict, Cleanup
<1>4. CASE Finalize(m) \/ Store(m) \/ Rename(m) \/ Swap(m)
  BY <1>4 DEF Finalize, Store, Rename, Swap
<1> QED  BY <1>1, <1>2, <1>3, <1>4 DEF Loop

\* Only the rename and the swap touch a certificate, and an attempt starts with
\* a check that finds it missing or due.
LEMMA Quiet ==
  ASSUME TypeInv, NEW m \in Managers, Loop(m), ~Rename(m), ~Swap(m)
  PROVE  /\ cert' = cert /\ certFile' = certFile /\ blind' = blind
         /\ pc[m] # "swap" /\ pc'[m] # "swap"
         /\ pc'[m] \in Obtaining => pc[m] \in Obtaining \/ cert[m] # "fresh"
<1> USE DEF TypeInv, TypeOK, Fail, Proceed, Goto, UseKey, NewKey, Misread, Obtaining,
            Locations, Solving
<1>1. CASE Ensure(m) \/ Wake(m) \/ SeeDone(m) \/ ReadKey(m) \/ TruncateKey(m) \/ WriteKey(m)
             \/ Register(m)
  BY <1>1 DEF Ensure, Wake, SeeDone, ReadKey, TruncateKey, WriteKey, Register, Needs
<1>2. CASE AuthorizeOrder(m) \/ NextAuthz(m) \/ Upsert(m) \/ WaitInSync(m)
  BY <1>2 DEF AuthorizeOrder, NextAuthz, Upsert, WaitInSync
<1>3. CASE Accept(m) \/ Verdict(m) \/ Cleanup(m) \/ Finalize(m) \/ Store(m)
  BY <1>3 DEF Accept, Verdict, Cleanup, Finalize, Store
<1> QED  BY <1>1, <1>2, <1>3 DEF Loop

\* The ranks of the ages.
LEMMA Ranks == Rank("fresh") = 2 /\ Rank("due") = 1 /\ Rank("none") = 0 /\ Rank("torn") = 0
BY DEF Rank

\* Nothing is stored and nothing served.
LEMMA InitCert == Init => \A m \in Managers : CertInv(m)
BY Ranks DEF Init, CertInv, Obtaining, Locations, Solving

\* The rename, the swap, the aging and the restart are what matters.
LEMMA NextCert ==
  ASSUME TypeInv, \A m \in Managers : CertInv(m), [Next]_vars
  PROVE  \A m \in Managers : CertInv(m)'
<1> SUFFICES ASSUME NEW n \in Managers PROVE CertInv(n)'
  OBVIOUS
<1> USE DEF CertInv, TypeInv, TypeOK
<1>1. ASSUME NEW m \in Managers, Loop(m), m # n PROVE CertInv(n)'
  BY <1>1, Own
<1>2. ASSUME Loop(n), ~Rename(n), ~Swap(n) PROVE CertInv(n)'
  BY <1>2, Own, Quiet
<1>3. CASE Rename(n)
  BY <1>3, Ranks DEF Rename, Fail, Proceed, Goto, Obtaining, Locations, Solving
<1>4. CASE Swap(n)
  BY <1>4, Ranks DEF Swap, Proceed, Goto, Obtaining, Locations, Solving
<1>5. ASSUME NEW m \in Managers, Age(m) PROVE CertInv(n)'
  BY <1>5, Ranks DEF Age, Obtaining, Locations, Solving
<1>6. CASE Die
  BY <1>6, Ranks DEF Die, Obtaining, Locations, Solving
<1>7. CASE StartAgain
  BY <1>7, Ranks DEF StartAgain, Loaded, Obtaining, Locations, Solving
<1>8. ASSUME NEW m \in Managers, Propagate(m) PROVE CertInv(n)'
  BY <1>8 DEF Propagate
<1>9. CASE Autocert \/ RunReturns \/ UNCHANGED vars
  BY <1>9 DEF Autocert, AutocertReads, AutocertPuts, AutocertRegisters, RunReturns, vars
<1> QED  BY StepCases, <1>1, <1>2, <1>3, <1>4, <1>5, <1>6, <1>7, <1>8, <1>9

-----------------------------------------------------------------------------
(* The zone.                                                               *)

\* The zone is empty.
LEMMA InitZone == Init => \A m \in Managers : ZoneInv(m)
BY DEF Init, ZoneInv

\* Who moves a record to where, and why one may be left.
LEMMA NextZone ==
  ASSUME TypeInv, \A m \in Managers : CertInv(m) /\ ZoneInv(m), [Next]_vars
  PROVE  \A m \in Managers : ZoneInv(m)'
<1> SUFFICES ASSUME NEW n \in Managers PROVE ZoneInv(n)'
  OBVIOUS
<1> USE DEF ZoneInv, TypeInv, TypeOK, Solving
<1>1. ASSUME NEW m \in Managers, Loop(m), m # n PROVE ZoneInv(n)'
  BY <1>1, Own
<1>2. ASSUME Loop(n) PROVE ZoneInv(n)'
  <2> USE DEF Fail, Proceed, Goto, UseKey, NewKey, Misread
  <2>1. CASE Ensure(n) \/ Wake(n) \/ SeeDone(n) \/ ReadKey(n) \/ TruncateKey(n) \/ WriteKey(n)
    BY <2>1 DEF Ensure, Wake, SeeDone, ReadKey, TruncateKey, WriteKey
  <2>2. CASE Register(n) \/ NextAuthz(n) \/ Finalize(n) \/ Store(n) \/ Rename(n) \/ Swap(n)
    BY <2>2 DEF Register, NextAuthz, Finalize, Store, Rename, Swap
  <2>3. CASE AuthorizeOrder(n)
    BY <2>3 DEF AuthorizeOrder, Aged
  <2>4. CASE Upsert(n)
    <3>1. CASE pc'[n] = "insync"
      BY <2>4, <3>1 DEF Upsert
    <3>2. CASE pc'[n] # "insync"
      <4>1. pc[n] = "upsert" /\ pc'[n] \in {"sleep", "exited"}
        BY <2>4, <3>2 DEF Upsert
      <4>2. (zone'[n] = zone[n] /\ leak'[n] = leak[n]) \/ "set" \in leak'[n]
        BY <2>4, <3>2 DEF Upsert
      <4> QED  BY <4>1, <4>2
    <3> QED  BY <3>1, <3>2
  <2>5. CASE WaitInSync(n)
    <3>1. CASE pc'[n] = "accept"
      BY <2>5, <3>1 DEF WaitInSync
    <3>2. CASE pc'[n] # "accept"
      <4>1. pc'[n] \in {"sleep", "exited"} /\ "set" \in leak'[n]
        BY <2>5, <3>2 DEF WaitInSync
      <4> QED  BY <4>1
    <3> QED  BY <3>1, <3>2
  <2>6. CASE Accept(n) \/ Verdict(n)
    BY <2>6 DEF Accept, Verdict
  <2>7. CASE Cleanup(n)
    <3>1. pc'[n] \notin Solving
      BY <2>7 DEF Cleanup
    <3>2. zone'[n] = Absent \/ "cleanup" \in leak'[n]
      BY <2>7 DEF Cleanup
    <3> QED  BY <3>1, <3>2
  <2> QED  BY <1>2, <2>1, <2>2, <2>3, <2>4, <2>5, <2>6, <2>7 DEF Loop
<1>3. ASSUME NEW m \in Managers, Propagate(m) PROVE ZoneInv(n)'
  BY <1>3 DEF Propagate
<1>4. CASE Die
  BY <1>4 DEF Die
<1>5. CASE StartAgain
  BY <1>5 DEF StartAgain, CertInv
<1>6. ASSUME NEW m \in Managers, Age(m) PROVE ZoneInv(n)'
  BY <1>6 DEF Age
<1>7. CASE Autocert \/ RunReturns \/ UNCHANGED vars
  BY <1>7 DEF Autocert, AutocertReads, AutocertPuts, AutocertRegisters, RunReturns, vars
<1> QED  BY StepCases, <1>1, <1>2, <1>3, <1>4, <1>5, <1>6, <1>7

-----------------------------------------------------------------------------
(* The account keys.                                                       *)

\* The attempts hold no more keys than there are managers.
LEMMA HeldBound ==
  ASSUME NEW f \in [Managers -> Attempts]
  PROVE  LET H == {f[m].key : m \in Managers}
         IN  IsFiniteSet(H) /\ Cardinality(H) <= Cardinality(Managers)
<1> DEFINE H == {f[m].key : m \in Managers}
           g == [m \in Managers |-> f[m].key]
<1>1. g \in Surjection(Managers, H)
  BY DEF Surjection
<1> HIDE DEF g
<1> QED  BY <1>1, FS_Surjection, DNSAssumption DEF DNSAssumption

\* Where keys come from: an attempt takes the one in the file, writes its own
\* and registers it.
LEMMA KeyFlow ==
  ASSUME TypeInv, NEW m \in Managers, Loop(m), ~(ReadKey(m) /\ NewKey(m))
  PROVE  /\ attempt'[m].key \in {attempt[m].key, keyFile, Absent}
         /\ keyFile' \in {keyFile, Torn, attempt[m].key}
         /\ accounts' \subseteq accounts \cup {attempt[m].key}
         /\ auto' = auto /\ misreads' = misreads
<1> USE DEF TypeInv, TypeOK, Fail, Proceed, Goto, NoAttempt, Attempts
<1>1. CASE Ensure(m) \/ Wake(m) \/ SeeDone(m)
  BY <1>1 DEF Ensure, Wake, SeeDone
<1>2. CASE ReadKey(m)
  BY <1>2 DEF ReadKey, UseKey
<1>3. CASE TruncateKey(m)
  BY <1>3 DEF TruncateKey
<1>4. CASE WriteKey(m)
  BY <1>4 DEF WriteKey
<1>5. CASE Register(m)
  BY <1>5 DEF Register
<1>6. CASE AuthorizeOrder(m)
  BY <1>6 DEF AuthorizeOrder
<1>7. CASE NextAuthz(m)
  BY <1>7 DEF NextAuthz
<1>8. CASE Upsert(m) \/ WaitInSync(m)
  BY <1>8 DEF Upsert, WaitInSync
<1>9. CASE Accept(m) \/ Verdict(m)
  BY <1>9 DEF Accept, Verdict
<1>10. CASE Cleanup(m)
  <2>1. attempt'[m].key \in {attempt[m].key, Absent}
    <3>1. CASE attempt[m].valid
      <4> DEFINE t == [attempt[m] EXCEPT !.todo = @ \ {attempt[m].chal}, !.chal = Absent,
                                         !.valid = FALSE]
      <4>1. attempt' = [attempt EXCEPT ![m] = t]
        BY <1>10, <3>1 DEF Cleanup
      <4>2. t.key = attempt[m].key
        OBVIOUS
      <4> HIDE DEF t
      <4> QED  BY <4>1, <4>2
    <3>2. CASE ~attempt[m].valid
      BY <1>10, <3>2 DEF Cleanup
    <3> QED  BY <3>1, <3>2
  <2> QED  BY <1>10, <2>1 DEF Cleanup
<1>11. CASE Finalize(m) \/ Store(m) \/ Rename(m) \/ Swap(m)
  BY <1>11 DEF Finalize, Store, Rename, Swap
<1> QED
  BY <1>1, <1>2, <1>3, <1>4, <1>5, <1>6, <1>7, <1>8, <1>9, <1>10, <1>11 DEF Loop

\* A new key is one more; it costs a misread unless no file was ever created.
LEMMA NewKeyFlow ==
  ASSUME TypeInv, NEW m \in Managers, ReadKey(m), NewKey(m)
  PROVE  /\ \E k \in Keys : \A n \in Managers : attempt'[n].key \in {attempt[n].key, k}
         /\ keyFile' = keyFile /\ accounts' = accounts /\ auto' = auto
         /\ keyFile = Absent \/ misreads' = misreads + 1
<1> USE DEF TypeInv, TypeOK, Proceed, Goto, Attempts
<1>1. PICK k \in Unused : Proceed(m, "readKey", "truncKey", [attempt[m] EXCEPT !.key = k])
  BY DEF NewKey
<1>2. k \in Keys /\ \A n \in Managers : attempt'[n].key \in {attempt[n].key, k}
  BY <1>1 DEF Unused
<1>3. pc'[m] = "truncKey"
  BY <1>1
<1>4. keyFile = Absent \/ misreads' = misreads + 1
  BY <1>3 DEF ReadKey, UseKey, Fail, Misread
<1> QED  BY <1>2, <1>4 DEF ReadKey

\* A step only loses keys, or it is a misread and adds one, or no file has ever
\* been created.
LEMMA LiveShrinks ==
  ASSUME TypeInv, KeyInv, [Next]_vars
  PROVE  \/ Live' \subseteq Live /\ misreads' = misreads
         \/ \E k \in Keys : Live' \subseteq Live \cup {k} /\ misreads' = misreads + 1
         \/ keyFile' = Absent /\ accounts' = {}
<1> USE DEF TypeInv, TypeOK
<1>1. ASSUME NEW m \in Managers, Loop(m), ~(ReadKey(m) /\ NewKey(m))
      PROVE  Live' \subseteq Live /\ misreads' = misreads
  <2>1. \A n \in Managers : attempt'[n].key \in {attempt[n].key, keyFile, Absent}
    BY <1>1, Own, KeyFlow
  <2>2. Held' \subseteq Held \cup {keyFile, Absent} /\ misreads' = misreads
    BY <1>1, <2>1, KeyFlow DEF Held
  <2>3. keyFile' \in Held \cup {keyFile, Torn} /\ accounts' \subseteq accounts \cup Held
    BY <1>1, KeyFlow DEF Held
  <2>4. accounts' \subseteq Keys
    BY NextType
  <2> QED  BY <2>2, <2>3, <2>4, DNSAssumption DEF Live, DNSAssumption
<1>2. ASSUME NEW m \in Managers, ReadKey(m), NewKey(m)
      PROVE  \/ \E k \in Keys : Live' \subseteq Live \cup {k} /\ misreads' = misreads + 1
             \/ keyFile' = Absent /\ accounts' = {}
  <2>1. CASE keyFile = Absent
    BY <1>2, <2>1, NewKeyFlow DEF KeyInv
  <2>2. CASE keyFile # Absent
    <3>1. PICK k \in Keys : \A n \in Managers : attempt'[n].key \in {attempt[n].key, k}
      BY <1>2, NewKeyFlow
    <3>2. Held' \subseteq Held \cup {k}
      BY <1>2, <3>1, NewKeyFlow DEF Held
    <3> QED  BY <1>2, <2>2, <3>2, NewKeyFlow DEF Live
  <2> QED  BY <2>1, <2>2
<1>3. ASSUME NEW m \in Managers, Propagate(m) \/ Age(m)
      PROVE  Live' \subseteq Live /\ misreads' = misreads
  BY <1>3 DEF Propagate, Age, Live, Held
<1>4. CASE Die
  BY <1>4, DNSAssumption DEF Die, Live, Held, NoAttempt, NoAuto, DNSAssumption
<1>5. CASE RunReturns \/ StartAgain \/ UNCHANGED vars
  BY <1>5 DEF RunReturns, StartAgain, vars, Live, Held
<1>6. CASE Autocert
  <2>1. CASE AutocertReads
    BY <2>1 DEF AutocertReads, KeyInv, Live, Held
  <2>2. CASE AutocertPuts
    <3>1. auto'.key \in {auto.key, Absent} /\ keyFile' \in {keyFile, auto.key}
          /\ attempt' = attempt /\ accounts' = accounts /\ misreads' = misreads
      BY <2>2 DEF AutocertPuts, NoAuto
    <3> QED  BY <3>1, DNSAssumption DEF Live, Held, DNSAssumption
  <2>3. CASE AutocertRegisters
    <3>1. auto'.key \in {auto.key, Absent} /\ accounts' \subseteq accounts \cup {auto.key}
          /\ attempt' = attempt /\ keyFile' = keyFile /\ misreads' = misreads
          /\ auto.key \in Keys
      BY <2>3 DEF AutocertRegisters, NoAuto, AutoChosen
    <3> QED  BY <3>1, DNSAssumption DEF Live, Held, DNSAssumption
  <2> QED  BY <1>6, <2>1, <2>2, <2>3 DEF Autocert
<1> QED  BY StepCases, <1>1, <1>2, <1>3, <1>4, <1>5, <1>6

\* How many applicants there are.
LEMMA ApplicantsType ==
  /\ IsFiniteSet(Keys) /\ IsFiniteSet(Managers)
  /\ Cardinality(Managers) \in Nat /\ Applicants \in Nat
  /\ Applicants = IF ExactHosts THEN Cardinality(Managers) + 1 ELSE Cardinality(Managers)
  BY FS_CardinalityType, DNSAssumption DEF Applicants, DNSAssumption

\* No keys at first.
LEMMA InitKeys == Init => KeyInv
<1> SUFFICES ASSUME Init PROVE KeyInv
  OBVIOUS
<1>1. Live = {}
  BY DNSAssumption DEF DNSAssumption, Init, Live, Held, NoAttempt, NoAuto
<1>2. Cardinality(Live) = 0
  BY <1>1, FS_EmptySet
<1>3. Cardinality(Live) <= Applicants + misreads
  BY <1>2, ApplicantsType DEF Init
<1> QED  BY <1>3 DEF Init, KeyInv, NoAuto

\* Nobody registers before a file has been created, and no file goes away.
LEMMA FileStays ==
  ASSUME TypeInv, KeyInv, [Next]_vars
  PROVE  /\ keyFile' = Absent => keyFile = Absent /\ accounts' = {}
         /\ \A n \in Managers : pc'[n] \in {"writeKey", "register"} => keyFile' # Absent
         /\ auto'.at = "register" => keyFile' # Absent
<1> USE DEF TypeInv, TypeOK, KeyInv
<1>1. ASSUME NEW m \in Managers, Loop(m)
      PROVE  /\ keyFile' = Absent => keyFile = Absent /\ accounts' = {}
             /\ pc'[m] \in {"writeKey", "register"} => keyFile' # Absent
             /\ auto' = auto
  <2> USE DNSAssumption DEF DNSAssumption, Fail, Proceed, Goto, UseKey, NewKey, Misread
  <2>1. CASE ReadKey(m)
    BY <2>1 DEF ReadKey
  <2>2. CASE TruncateKey(m)
    BY <2>2 DEF TruncateKey
  <2>3. CASE WriteKey(m)
    BY <2>3 DEF WriteKey, KeyChosen
  <2>4. CASE Register(m)
    BY <2>4 DEF Register
  <2>5. CASE Ensure(m) \/ Wake(m) \/ SeeDone(m) \/ AuthorizeOrder(m) \/ NextAuthz(m) \/ Upsert(m)
    BY <2>5 DEF Ensure, Wake, SeeDone, AuthorizeOrder, NextAuthz, Upsert
  <2>6. CASE WaitInSync(m) \/ Accept(m) \/ Verdict(m) \/ Cleanup(m)
    BY <2>6 DEF WaitInSync, Accept, Verdict, Cleanup
  <2>7. CASE Finalize(m) \/ Store(m) \/ Rename(m) \/ Swap(m)
    BY <2>7 DEF Finalize, Store, Rename, Swap
  <2> QED  BY <1>1, <2>1, <2>2, <2>3, <2>4, <2>5, <2>6, <2>7 DEF Loop
<1>2. ASSUME NEW m \in Managers, Loop(m) PROVE \A n \in Managers \ {m} : pc'[n] = pc[n]
  BY <1>2, Own
<1>3. ASSUME NEW m \in Managers, Propagate(m) \/ Age(m)
      PROVE  UNCHANGED <<keyFile, auto, accounts, pc>>
  BY <1>3 DEF Propagate, Age
<1>4. CASE Die \/ StartAgain
  BY <1>4 DEF Die, StartAgain, NoAuto
<1>5. CASE RunReturns \/ UNCHANGED vars
  BY <1>5 DEF RunReturns, vars
<1>6. CASE Autocert
  <2>1. CASE AutocertReads
    BY <2>1, DNSAssumption DEF AutocertReads, DNSAssumption
  <2>2. CASE AutocertPuts
    <3>1. auto.key \in Keys /\ auto.key # Absent
      BY <2>2, DNSAssumption DEF AutocertPuts, AutoChosen, DNSAssumption
    <3> QED  BY <2>2, <3>1 DEF AutocertPuts, NoAuto
  <2>3. CASE AutocertRegisters
    BY <2>3 DEF AutocertRegisters, NoAuto
  <2> QED  BY <1>6, <2>1, <2>2, <2>3 DEF Autocert
<1> QED  BY StepCases, <1>1, <1>2, <1>3, <1>4, <1>5, <1>6

\* A set grows by at most one with an element.
LEMMA AddOne ==
  ASSUME NEW S, NEW x, IsFiniteSet(S)
  PROVE  /\ IsFiniteSet(S \cup {x}) /\ Cardinality(S) \in Nat
         /\ Cardinality(S \cup {x}) \in Nat /\ Cardinality(S \cup {x}) <= Cardinality(S) + 1
<1>1. Cardinality(S) \in Nat
  BY FS_CardinalityType
<1>2. CASE x \in S
  <2>1. S \cup {x} = S
    BY <1>2
  <2>2. IsFiniteSet(S \cup {x}) /\ Cardinality(S \cup {x}) = Cardinality(S)
    BY <2>1, Zenon
  <2> QED  BY <1>1, <2>2
<1>3. CASE x \notin S
  <2>1. IsFiniteSet(S \cup {x}) /\ Cardinality(S \cup {x}) = Cardinality(S) + 1
    BY <1>3, FS_AddElement
  <2> QED  BY <1>1, <2>1
<1> QED  BY <1>2, <1>3

\* The keys held are no more than the applicants.
LEMMA HeldByApplicants ==
  ASSUME TypeInv
  PROVE  /\ IsFiniteSet(Held) /\ Cardinality(Held \ {Absent}) \in Nat
         /\ Cardinality(Held \ {Absent}) <= Applicants
<1> DEFINE H == {attempt[m].key : m \in Managers}
<1>1. IsFiniteSet(H) /\ Cardinality(H) <= Cardinality(Managers) /\ Cardinality(H) \in Nat
  BY HeldBound, FS_CardinalityType DEF TypeInv, TypeOK
<1>2. Held = H \cup {auto.key}
  BY DEF Held
<1> HIDE DEF H
<1>3. IsFiniteSet(Held) /\ Cardinality(Held) <= Cardinality(H) + 1 /\ Cardinality(Held) \in Nat
  BY <1>1, <1>2, AddOne
<1>4. IsFiniteSet(Held \ {Absent}) /\ Cardinality(Held \ {Absent}) \in Nat
      /\ Cardinality(Held \ {Absent}) <= Cardinality(Held)
  BY <1>3, FS_Subset, FS_CardinalityType
<1>5. CASE ExactHosts
  BY <1>1, <1>3, <1>4, <1>5, ApplicantsType
<1>6. CASE ~ExactHosts
  <2>1. Held \ {Absent} \subseteq H
    BY <1>2, <1>6 DEF TypeInv, AutoChosen, NoAuto
  <2>2. Cardinality(Held \ {Absent}) <= Cardinality(H)
    BY <1>1, <2>1, FS_Subset
  <2> QED  BY <1>1, <1>3, <1>4, <1>6, <2>2, ApplicantsType
<1> QED  BY <1>5, <1>6

\* Live keys only get fewer once there is a file, but for misreads, and before that
\* each applicant has one.
LEMMA NextKeys ==
  ASSUME TypeInv, TypeInv', KeyInv, [Next]_vars
  PROVE  KeyInv'
<1>1. /\ Applicants \in Nat /\ misreads \in Nat /\ misreads' \in Nat
      /\ Applicants' = Applicants
  BY ApplicantsType DEF TypeInv, TypeOK, Applicants
<1>2. IsFiniteSet(Live) /\ Cardinality(Live) \in Nat /\ Cardinality(Live) <= Applicants + misreads
  BY ApplicantsType, FS_Subset, FS_CardinalityType DEF Live, TypeInv, TypeOK, KeyInv
<1>3. Cardinality(Live') <= Applicants + misreads'
  <2>1. CASE Live' \subseteq Live /\ misreads' = misreads
    <3>1. Cardinality(Live') <= Cardinality(Live) /\ Cardinality(Live') \in Nat
      BY <1>2, <2>1, FS_Subset, FS_CardinalityType
    <3> QED  BY <2>1, <3>1, <1>1, <1>2
  <2>2. ASSUME NEW k \in Keys, Live' \subseteq Live \cup {k}, misreads' = misreads + 1
        PROVE  Cardinality(Live') <= Applicants + misreads'
    <3>1. /\ IsFiniteSet(Live \cup {k}) /\ Cardinality(Live \cup {k}) \in Nat
          /\ Cardinality(Live \cup {k}) <= Cardinality(Live) + 1
      BY <1>2, AddOne
    <3>2. Cardinality(Live') <= Cardinality(Live \cup {k}) /\ Cardinality(Live') \in Nat
      BY <2>2, <3>1, FS_Subset, FS_CardinalityType
    <3> QED  BY <1>1, <1>2, <2>2, <3>1, <3>2
  <2>3. CASE keyFile' = Absent /\ accounts' = {}
    <3>1. /\ IsFiniteSet(Held') /\ Cardinality((Held \ {Absent})') \in Nat
          /\ Cardinality((Held \ {Absent})') <= Applicants
      <4>1. (TypeInv => /\ IsFiniteSet(Held) /\ Cardinality(Held \ {Absent}) \in Nat
                       /\ Cardinality(Held \ {Absent}) <= Applicants)'
        BY HeldByApplicants, PTL
      <4> QED  BY <1>1, <4>1
    <3>2. Live' \subseteq (Held \ {Absent})'
      BY <2>3, DNSAssumption DEF Live, DNSAssumption
    <3>3. Cardinality(Live') <= Cardinality((Held \ {Absent})') /\ Cardinality(Live') \in Nat
      <4>1. IsFiniteSet((Held \ {Absent})')
        BY <3>1, FS_Subset
      <4> QED  BY <3>2, <4>1, FS_Subset, FS_CardinalityType
    <3> QED  BY <3>1, <3>3, <1>1
  <2> QED  BY <2>1, <2>2, <2>3, LiveShrinks
<1> QED  BY <1>1, <1>3, FileStays DEF KeyInv

-----------------------------------------------------------------------------
(* The theorems.                                                           *)

ManagersInv ==
  /\ TypeInv /\ KeyInv
  /\ \A m \in Managers : CertInv(m) /\ ZoneInv(m)

\* The three invariants hold at first.
LEMMA InitInv == Init => ManagersInv
BY InitType, InitCert, InitZone, InitKeys DEF ManagersInv

\* Each step keeps them.
LEMMA NextInv == ManagersInv /\ [Next]_vars => ManagersInv'
BY NextType, NextCert, NextZone, NextKeys DEF ManagersInv

\* They hold always.
LEMMA Invariance == SafetySpec => []ManagersInv
BY InitInv, NextInv, PTL DEF SafetySpec

\* Types, for any number of wildcards.
THEOREM TypeCorrect == SafetySpec => []TypeOK
<1>1. ManagersInv => TypeOK
  BY DEF ManagersInv, TypeInv
<1> QED  BY <1>1, Invariance, PTL

\* What is served is stored: no crash, failed attempt or restart loses it.
THEOREM ServedStaysStored == SafetySpec => []ServedIsStored
<1>1. ManagersInv => ServedIsStored
  BY DEF ManagersInv, CertInv, ServedIsStored
<1> QED  BY <1>1, Invariance, PTL

\* No order while the certificate on disk is not due, unless it could not be loaded.
THEOREM OrdersAreNeeded == SafetySpec => []NoNeedlessOrder
<1>1. ManagersInv => NoNeedlessOrder
  BY Ranks DEF ManagersInv, TypeInv, TypeOK, CertInv, Obtaining, Locations, NoNeedlessOrder
<1> QED  BY <1>1, Invariance, PTL

\* The authority never looks before every server has the record.
THEOREM RecordIsInPlace == SafetySpec => []RecordInPlace
<1>1. ManagersInv => RecordInPlace
  BY DEF ManagersInv, ZoneInv, RecordInPlace
<1> QED  BY <1>1, Invariance, PTL

\* A record that is left in the zone has a reason.
THEOREM LeftoversAreExplained == SafetySpec => []LeftoverExplained
<1>1. ManagersInv => LeftoverExplained
  BY DEF ManagersInv, ZoneInv, LeftoverExplained
<1> QED  BY <1>1, Invariance, PTL

\* No more accounts than applicants and misread key files, whatever else fails,
\* crashes or is retried.
THEOREM AccountsAreBounded == SafetySpec => []AccountsBounded
<1>1. ManagersInv => AccountsBounded
  <2> SUFFICES ASSUME ManagersInv PROVE AccountsBounded
    OBVIOUS
  <2>1. IsFiniteSet(Live) /\ accounts \subseteq Live
    BY FS_Subset, DNSAssumption DEF ManagersInv, TypeInv, TypeOK, Live, DNSAssumption
  <2>2. Cardinality(accounts) <= Cardinality(Live)
        /\ Cardinality(accounts) \in Nat /\ Cardinality(Live) \in Nat
    BY <2>1, FS_Subset, FS_CardinalityType
  <2>3. Applicants \in Nat /\ misreads \in Nat
    BY ApplicantsType DEF ManagersInv, TypeInv, TypeOK
  <2> QED  BY <2>2, <2>3 DEF ManagersInv, KeyInv, AccountsBounded
<1> QED  BY <1>1, Invariance, PTL

-----------------------------------------------------------------------------
(* DNSCert implements CertStore.                                           *)

\* Nothing is served or stored at first, by a process that is up.
LEMMA InitImplements == Init => CS!StoreInit
BY DEF Init, CS!StoreInit

\* A loop that neither renames nor swaps cannot be noticed.
LEMMA LoopImplements ==
  ASSUME ManagersInv, NEW m \in Managers, Loop(m)
  PROVE  CS!StoreNext \/ UNCHANGED CS!storeVars
<1>1. CertInv(m) /\ TypeInv /\ TypeOK
  BY DEF ManagersInv, TypeInv
<1>2. run' = run /\ run # "down"
  BY <1>1, Own DEF CertInv
<1>3. CASE Rename(m)
  <2>1. pc[m] = "rename" /\ cert' = cert
    BY <1>3 DEF Rename, Fail, Proceed, Goto
  <2>2. certFile[m] # "fresh" \/ m \in blind
    BY <1>1, <2>1 DEF CertInv, Obtaining, Locations
  <2>3. \/ certFile' = [certFile EXCEPT ![m] = "fresh"] /\ blind' = blind \ {m}
        \/ certFile' = certFile /\ blind' = blind
    BY <1>3 DEF Rename
  <2>4. CASE certFile' = [certFile EXCEPT ![m] = "fresh"] /\ blind' = blind \ {m}
    <3>1. CS!Renew(m)
      BY <1>2, <2>1, <2>2, <2>4 DEF CS!Renew
    <3> QED  BY <3>1 DEF CS!StoreNext
  <2> QED  BY <1>2, <2>1, <2>3, <2>4 DEF CS!storeVars
<1>4. CASE Swap(m)
  <2>1. /\ pc[m] = "swap" /\ certFile' = certFile /\ blind' = blind
        /\ cert' = [cert EXCEPT ![m] = "fresh"]
    BY <1>4 DEF Swap, Proceed, Goto
  <2>2. CS!Serve(m)
    BY <1>1, <1>2, <2>1 DEF CertInv, CS!Serve
  <2> QED  BY <2>2 DEF CS!StoreNext
<1>5. CASE ~Rename(m) /\ ~Swap(m)
  BY <1>1, <1>2, <1>5, Quiet DEF CS!storeVars
<1> QED  BY <1>3, <1>4, <1>5

LEMMA ProcessImplements ==
  ASSUME ManagersInv, RunReturns \/ Die \/ StartAgain
  PROVE  CS!StoreNext \/ UNCHANGED CS!storeVars
<1>1. CASE RunReturns
  BY <1>1 DEF RunReturns, CS!storeVars
<1>2. CASE Die
  <2>1. CS!Crash
    BY <1>2 DEF Die, CS!Crash
  <2> QED  BY <2>1 DEF CS!StoreNext
<1>3. CASE StartAgain
  <2>1. certFile \in [Managers -> {"none", "due", "fresh"}]
    BY DEF ManagersInv, TypeInv, TypeOK, CertInv
  <2>2. /\ blind' = {m \in Managers : cert'[m] = "none" /\ certFile[m] \in {"due", "fresh"}}
        /\ \A m \in Managers : cert'[m] \in {"none", certFile[m]}
        /\ cert' \in [Managers -> {"none", "due", "fresh"}]
    BY <1>3 DEF StartAgain, Loaded
  <2>3. blind' \in SUBSET {m \in Managers : certFile[m] # "none"}
    BY <2>2
  <2>4. cert' = [m \in Managers |-> IF m \in blind' THEN "none" ELSE certFile[m]]
    <3>1. \A m \in Managers : cert'[m] = IF m \in blind' THEN "none" ELSE certFile[m]
      BY <2>1, <2>2
    <3> QED  BY <2>2, <3>1
  <2>5. CS!Restart
    BY <1>3, <2>3, <2>4, Zenon DEF StartAgain, CS!Restart
  <2> QED  BY <2>5 DEF CS!StoreNext
<1> QED  BY <1>1, <1>2, <1>3

\* Whatever fails, wherever the process dies: each manager is a certificate on
\* disk, replaced whole and only when due or not loaded, and served while a process
\* that could load it is up.
THEOREM Refinement == SafetySpec => ImplementsStore
<1>1. ManagersInv /\ [Next]_vars => [CS!StoreNext]_(CS!storeVars)
  <2> SUFFICES ASSUME ManagersInv, [Next]_vars
               PROVE  CS!StoreNext \/ UNCHANGED CS!storeVars
    OBVIOUS
  <2>1. ASSUME NEW m \in Managers, Loop(m)
        PROVE  CS!StoreNext \/ UNCHANGED CS!storeVars
    BY <2>1, LoopImplements
  <2>2. ASSUME NEW m \in Managers, Age(m)
        PROVE  CS!StoreNext \/ UNCHANGED CS!storeVars
    <3>1. CS!GetDue(m)
      BY <2>2 DEF Age, CS!GetDue
    <3> QED  BY <3>1 DEF CS!StoreNext
  <2>3. ASSUME NEW m \in Managers, Propagate(m)
        PROVE  CS!StoreNext \/ UNCHANGED CS!storeVars
    BY <2>3 DEF Propagate, CS!storeVars
  <2>4. CASE RunReturns \/ Die \/ StartAgain
    BY <2>4, ProcessImplements
  <2>5. CASE Autocert \/ UNCHANGED vars
    BY <2>5 DEF Autocert, AutocertReads, AutocertPuts, AutocertRegisters, vars, CS!storeVars
  <2> QED  BY <2>1, <2>2, <2>3, <2>4, <2>5, StepCases
<1> QED  BY <1>1, InitImplements, Invariance, PTL DEF SafetySpec, ImplementsStore, CS!StoreSpec

-----------------------------------------------------------------------------
(* Renewal goes on.  TLC finds Renews to hold for one manager; for any     *)
(* number of managers and authorizations, these are the facts it rests on: *)
(* while the process serves, a loop waits for nothing but a change of the  *)
(* zone, and is bound to fail on nothing but a torn key file (NeverStalls) *)
(* and while calls go well its every step brings a new certificate closer, *)
(* which no other manager and no change of the zone undoes (Closer).       *)

\* An attempt solves one of its authorizations at a time and leaves nothing to
\* the next; a loop ends only when RunTLS has returned.
AttemptInv(m) ==
  /\ pc[m] = "exited" => run = "returned"
  /\ pc[m] \in Solving => attempt[m].chal \in attempt[m].todo
  /\ pc[m] \in {"dead", "ensure", "readKey", "sleep", "exited"} => attempt[m] = NoAttempt

\* The guard of what is no failure in the action at pc[m].
CanGo(m) ==
  /\ pc[m] \notin {"dead", "exited"}
  /\ pc[m] = "readKey" => keyFile \in Keys \/ (keyFile = Absent /\ Unused # {})
  /\ pc[m] = "insync" => visible[m] = zone[m]
  /\ pc[m] = "verdict" => visible[m] = attempt[m].chal

TornKey(m) == pc[m] = "readKey" /\ keyFile = Torn

NeverStalls ==
  \A m \in Managers :
    run = "serving" =>
      CanGo(m) \/ TornKey(m) \/ (pc[m] = "insync" /\ visible[m] # zone[m])

\* How many steps without failure are left to the swap.
Todo(m) == Cardinality(attempt[m].todo)

Order == 6 * Cardinality(Authzs) + 6

Left(m) ==
  CASE pc[m] = "swap" -> 1 [] pc[m] = "rename" -> 2 [] pc[m] = "store" -> 3
    [] pc[m] = "finalize" -> 4
    [] pc[m] = "cleanup" /\ attempt[m].valid -> 6 * Todo(m)
    [] pc[m] = "verdict" -> 6 * Todo(m) + 1 [] pc[m] = "accept" -> 6 * Todo(m) + 2
    [] pc[m] = "insync" -> 6 * Todo(m) + 3 [] pc[m] = "upsert" -> 6 * Todo(m) + 4
    [] pc[m] = "authz" -> 6 * Todo(m) + 5
    [] pc[m] = "order" -> Order [] pc[m] = "register" -> Order + 1
    [] pc[m] = "writeKey" -> Order + 2 [] pc[m] = "truncKey" -> Order + 3
    [] pc[m] = "readKey" -> Order + 4 [] pc[m] = "ensure" -> Order + 5
    [] pc[m] = "sleep" -> Order + 6
    [] pc[m] = "cleanup" /\ ~attempt[m].valid -> Order + 7
    [] pc[m] \in {"dead", "exited"} -> Order + 8

\* The premises of Renews, in one step.
Undisturbed(m) ==
  /\ run = "serving" /\ run' = "serving" /\ ~TornKey(m) /\ ~CallFails(m)
  /\ Needs(m) /\ Needs(m)'

Finite == \A m \in Managers : Left(m) \in Nat

Closer ==
  \A m \in Managers : Undisturbed(m) =>
    /\ Left(m)' <= Left(m)
    /\ Loop(m) => Left(m)' < Left(m)
    /\ pc[m] = "insync" /\ pc'[m] = "insync" /\ visible[m] = zone[m] => visible'[m] = zone'[m]

\* No attempt has begun.
LEMMA InitAttempt == Init => \A m \in Managers : AttemptInv(m)
BY DEF Init, AttemptInv, Solving

\* An attempt that fails leaves nothing.
LEMMA FailAttempt ==
  ASSUME TypeInv, NEW m \in Managers, NEW from, Fail(m, from), run' = run
  PROVE  AttemptInv(m)'
<1>1. pc'[m] = (IF run = "returned" THEN "exited" ELSE "sleep") /\ attempt'[m] = NoAttempt
  BY DEF TypeInv, TypeOK, Fail, Proceed, Goto
<1> QED  BY <1>1 DEF AttemptInv, Solving

\* A step out of an authorization, or within one, keeps what it is about.
LEMMA ProceedAttempt ==
  ASSUME TypeInv, NEW m \in Managers, NEW from, NEW to, NEW after, Proceed(m, from, to, after),
         to \notin {"dead", "ensure", "readKey", "exited"},
         to = "sleep" => after = NoAttempt,
         to \in Solving => after.chal \in after.todo
  PROVE  AttemptInv(m)'
<1>1. pc'[m] = to /\ attempt'[m] = after
  BY DEF TypeInv, TypeOK, Proceed, Goto
<1> QED  BY <1>1 DEF AttemptInv

\* The loop's own steps keep what it knows of its attempt.
LEMMA LoopAttempt ==
  ASSUME TypeInv, NEW m \in Managers, AttemptInv(m), Loop(m)
  PROVE  AttemptInv(m)'
<1>0. run' = run
  BY Own
<1>1. CASE Ensure(m) \/ Wake(m) \/ SeeDone(m)
  <2>1. pc[m] \in {"ensure", "sleep"} /\ attempt' = attempt
    BY <1>1 DEF Ensure, Wake, SeeDone, Goto
  <2>2. pc'[m] \in {"ensure", "readKey", "sleep", "exited"}
    BY <1>1 DEF Ensure, Wake, SeeDone, Goto, TypeInv, TypeOK
  <2>3. pc'[m] = "exited" => run = "returned"
    BY <1>1 DEF Ensure, Wake, SeeDone, Goto, TypeInv, TypeOK
  <2> QED  BY <1>0, <2>1, <2>2, <2>3 DEF AttemptInv, Solving
<1>2. CASE ReadKey(m)
  <2>1. CASE Fail(m, "readKey")
    BY <1>0, <2>1, FailAttempt
  <2>2. ASSUME NEW to \in {"register", "truncKey"}, NEW after, Proceed(m, "readKey", to, after)
        PROVE  AttemptInv(m)'
    BY <2>2, ProceedAttempt DEF Solving
  <2> QED  BY <1>2, <2>1, <2>2 DEF ReadKey, UseKey, NewKey
<1>3. CASE AuthorizeOrder(m)
  BY <1>0, <1>3, FailAttempt, ProceedAttempt DEF AuthorizeOrder, Solving
<1>4. CASE NextAuthz(m)
  <2>1. CASE Fail(m, "authz")
    BY <1>0, <2>1, FailAttempt
  <2>2. ASSUME NEW a \in attempt[m].todo,
               Proceed(m, "authz", "authz", [attempt[m] EXCEPT !.todo = @ \ {a}])
        PROVE  AttemptInv(m)'
    BY <2>2, ProceedAttempt DEF Solving
  <2>3. ASSUME NEW a \in attempt[m].todo,
               Proceed(m, "authz", "upsert", [attempt[m] EXCEPT !.chal = a])
        PROVE  AttemptInv(m)'
    <3> DEFINE after == [attempt[m] EXCEPT !.chal = a]
    <3>1. attempt[m] \in Attempts
      BY DEF TypeInv, TypeOK
    <3>2. after.chal \in after.todo
      BY <3>1 DEF Attempts
    <3>3. Proceed(m, "authz", "upsert", after)
      BY <2>3
    <3> HIDE DEF after
    <3> QED  BY <3>2, <3>3, ProceedAttempt
  <2>4. CASE Proceed(m, "authz", "finalize", attempt[m])
    BY <2>4, ProceedAttempt DEF Solving
  <2> QED  BY <1>4, <2>1, <2>2, <2>3, <2>4 DEF NextAuthz
<1>5. CASE Upsert(m) \/ WaitInSync(m)
  <2>1. ASSUME NEW from \in {"upsert", "insync"}, NEW to \in {"insync", "accept"},
               Proceed(m, from, to, attempt[m])
        PROVE  AttemptInv(m)'
    <3>1. attempt[m].chal \in attempt[m].todo
      BY <2>1 DEF Proceed, Goto, AttemptInv, Solving
    <3> QED  BY <2>1, <3>1, ProceedAttempt
  <2> QED  BY <1>0, <1>5, <2>1, FailAttempt DEF Upsert, WaitInSync
<1>6. CASE Accept(m) \/ Verdict(m)
  <2>1. ASSUME NEW from \in {"accept", "verdict"}, NEW to \in {"verdict", "cleanup"}, NEW after,
               Proceed(m, from, to, after), after.chal = attempt[m].chal,
               after.todo = attempt[m].todo
        PROVE  AttemptInv(m)'
    <3>1. attempt[m].chal \in attempt[m].todo
      BY <2>1 DEF Proceed, Goto, AttemptInv, Solving
    <3> QED  BY <2>1, <3>1, ProceedAttempt
  <2>2. attempt[m] \in Attempts
    BY DEF TypeInv, TypeOK
  <2>3. \A v \in BOOLEAN : /\ [attempt[m] EXCEPT !.valid = v].chal = attempt[m].chal
                           /\ [attempt[m] EXCEPT !.valid = v].todo = attempt[m].todo
    BY <2>2 DEF Attempts
  <2> QED  BY <1>6, <2>1, <2>3 DEF Accept, Verdict
<1>7. CASE Cleanup(m)
  BY <1>0, <1>7, FailAttempt, ProceedAttempt DEF Cleanup, Solving
<1>8. CASE Finalize(m) \/ Store(m)
  BY <1>0, <1>8, FailAttempt, ProceedAttempt DEF Finalize, Store, Solving
<1>9. CASE TruncateKey(m)
  BY <1>0, <1>9, FailAttempt, ProceedAttempt DEF TruncateKey, Solving
<1>10. CASE Swap(m)
  BY <1>10, ProceedAttempt DEF Swap, Solving
<1>11. CASE WriteKey(m)
  BY <1>0, <1>11, FailAttempt, ProceedAttempt DEF WriteKey, Solving
<1>12. CASE Rename(m)
  BY <1>0, <1>12, FailAttempt, ProceedAttempt DEF Rename, Solving
<1>13. CASE Register(m)
  BY <1>0, <1>13, FailAttempt, ProceedAttempt DEF Register, Solving
<1> QED  BY <1>1, <1>2, <1>3, <1>4, <1>5, <1>6, <1>7, <1>8, <1>9, <1>10,
         <1>11, <1>12, <1>13 DEF Loop

LEMMA NextAttempt ==
  ASSUME TypeInv, \A m \in Managers : AttemptInv(m) /\ CertInv(m), [Next]_vars
  PROVE  \A m \in Managers : AttemptInv(m)'
<1> SUFFICES ASSUME NEW n \in Managers PROVE AttemptInv(n)'
  OBVIOUS
<1>1. ASSUME NEW m \in Managers, Loop(m) PROVE AttemptInv(n)'
  BY <1>1, LoopAttempt, Own DEF AttemptInv
<1>2. CASE Die
  BY <1>2 DEF Die, AttemptInv, Solving
<1>3. CASE StartAgain
  BY <1>3 DEF StartAgain, AttemptInv, CertInv, Solving
<1>4. ASSUME NEW m \in Managers, Age(m) \/ Propagate(m) PROVE AttemptInv(n)'
  BY <1>4 DEF Age, Propagate, AttemptInv
<1>5. CASE Autocert \/ RunReturns \/ UNCHANGED vars
  BY <1>5 DEF Autocert, AutocertReads, AutocertPuts, AutocertRegisters, RunReturns, vars,
              AttemptInv
<1> QED  BY StepCases, <1>1, <1>2, <1>3, <1>4, <1>5

RenewalInv == ManagersInv /\ \A m \in Managers : AttemptInv(m)

LEMMA RenewalInvariance == SafetySpec => []RenewalInv
<1>1. Init => RenewalInv
  BY InitInv, InitAttempt DEF RenewalInv
<1>2. RenewalInv /\ [Next]_vars => RenewalInv'
  BY NextInv, NextAttempt DEF RenewalInv, ManagersInv
<1> QED  BY <1>1, <1>2, PTL DEF SafetySpec

\* Before there is a key file nothing is registered, and a manager that has no
\* key leaves one of as many keys as applicants to generate.
LEMMA KeyToGenerate ==
  ASSUME RenewalInv, Cardinality(Keys) >= Applicants,
         NEW m \in Managers, pc[m] = "readKey", keyFile = Absent
  PROVE  Unused # {}
<1> SUFFICES ASSUME Unused = {} PROVE FALSE
  OBVIOUS
<1> DEFINE H == {attempt[n].key : n \in Managers}
<1>1. accounts = {} /\ attempt[m].key = Absent
  BY DEF RenewalInv, ManagersInv, KeyInv, AttemptInv, NoAttempt
<1>2. Keys \subseteq (H \cup {auto.key}) \ {Absent}
  BY <1>1, DNSAssumption DEF Unused, DNSAssumption
<1>3. IsFiniteSet(H) /\ Cardinality(H) <= Cardinality(Managers) /\ Cardinality(H) \in Nat
  BY HeldBound, FS_CardinalityType DEF RenewalInv, ManagersInv, TypeInv, TypeOK
<1>4. Absent \in H
  BY <1>1
<1>5. ~ExactHosts => auto.key = Absent
  BY DEF RenewalInv, ManagersInv, TypeInv, AutoChosen, NoAuto
<1> HIDE DEF H
<1> DEFINE J == H \ {Absent}
<1>6. Cardinality(J) = Cardinality(H) - 1 /\ IsFiniteSet(J)
  BY <1>3, <1>4, FS_RemoveElement
<1> HIDE DEF J
<1>7. CASE ExactHosts
  <2>1. Keys \subseteq J \cup {auto.key}
    BY <1>2 DEF J
  <2>2. /\ IsFiniteSet(J \cup {auto.key}) /\ Cardinality(J \cup {auto.key}) \in Nat
        /\ Cardinality(J) \in Nat /\ Cardinality(J \cup {auto.key}) <= Cardinality(J) + 1
    BY <1>6, AddOne
  <2>3. Cardinality(Keys) <= Cardinality(J \cup {auto.key}) /\ Cardinality(Keys) \in Nat
    BY <2>1, <2>2, FS_Subset, FS_CardinalityType, ApplicantsType
  <2> QED  BY <1>3, <1>6, <1>7, <2>2, <2>3, ApplicantsType
<1>8. CASE ~ExactHosts
  <2>1. Keys \subseteq J
    BY <1>2, <1>5, <1>8 DEF J
  <2>2. Cardinality(Keys) <= Cardinality(J) /\ Cardinality(Keys) \in Nat
    BY <1>6, <2>1, FS_Subset, FS_CardinalityType, ApplicantsType
  <2> QED  BY <1>3, <1>6, <1>8, <2>2, ApplicantsType
<1> QED  BY <1>7, <1>8

\* While the process serves, no manager waits for another, for the authority or
\* for a lock: only for the zone, and it must fail only on a torn key file.  There
\* have to be as many keys to generate as applicants.
THEOREM RenewalNeverStalls ==
  ASSUME Cardinality(Keys) >= Applicants
  PROVE  SafetySpec => []NeverStalls
<1>1. RenewalInv => NeverStalls
  <2> SUFFICES ASSUME RenewalInv, NEW m \in Managers, run = "serving",
                      ~TornKey(m), pc[m] = "insync" => visible[m] = zone[m]
               PROVE  CanGo(m)
    BY DEF NeverStalls
  <2>1. pc[m] \notin {"dead", "exited"}
    BY DEF RenewalInv, AttemptInv, ManagersInv, CertInv
  <2>2. pc[m] = "readKey" => keyFile \in Keys \/ (keyFile = Absent /\ Unused # {})
    BY KeyToGenerate DEF RenewalInv, ManagersInv, TypeInv, TypeOK, TornKey
  <2>3. pc[m] = "verdict" => visible[m] = attempt[m].chal
    BY DEF RenewalInv, ManagersInv, ZoneInv
  <2> QED  BY <2>1, <2>2, <2>3 DEF CanGo
<1> QED  BY <1>1, RenewalInvariance, PTL

\* Where the loop goes when nothing fails.
Moves(m, from, to) == pc[m] \in from /\ pc'[m] = to

SameTodo(m) == attempt'[m].todo = attempt[m].todo

OneLess(m) ==
  \E a \in attempt[m].todo : attempt'[m].todo = attempt[m].todo \ {a}

LEMMA Strides ==
  ASSUME RenewalInv, NEW m \in Managers, Undisturbed(m), Loop(m)
  PROVE  \/ Moves(m, {"sleep"}, "ensure") \/ Moves(m, {"ensure"}, "readKey")
         \/ Moves(m, {"readKey"}, "truncKey") \/ Moves(m, {"truncKey"}, "writeKey")
         \/ Moves(m, {"readKey", "writeKey"}, "register") \/ Moves(m, {"register"}, "order")
         \/ Moves(m, {"order"}, "authz") /\ attempt'[m].todo = Authzs
         \/ Moves(m, {"authz"}, "authz") /\ OneLess(m)
         \/ SameTodo(m) /\ \/ Moves(m, {"authz"}, "upsert") \/ Moves(m, {"upsert"}, "insync")
                           \/ Moves(m, {"insync"}, "accept") \/ Moves(m, {"accept"}, "verdict")
                           \/ Moves(m, {"verdict"}, "cleanup") /\ attempt'[m].valid
         \/ Moves(m, {"cleanup"}, "authz") /\ attempt[m].valid /\ OneLess(m)
         \/ Moves(m, {"cleanup"}, "sleep") /\ ~attempt[m].valid
         \/ Moves(m, {"authz"}, "finalize") \/ Moves(m, {"finalize"}, "store")
         \/ Moves(m, {"store"}, "rename") \/ Moves(m, {"rename"}, "swap")
<1> TypeInv /\ TypeOK /\ AttemptInv(m) /\ run = "serving" /\ ~TornKey(m) /\ ~CallFails(m)
  BY DEF RenewalInv, ManagersInv, TypeInv, Undisturbed
<1> USE DEF TypeOK, Fail, Proceed, Goto, UseKey, NewKey, Moves, CallFails, Attempts
<1>1. CASE Ensure(m)
  BY <1>1 DEF Ensure, Undisturbed
<1>2. CASE Wake(m) \/ SeeDone(m)
  BY <1>2 DEF Wake, SeeDone
<1>3. CASE ReadKey(m)
  BY <1>3 DEF ReadKey, TornKey
<1>4. CASE TruncateKey(m)
  BY <1>4 DEF TruncateKey
<1>5. CASE WriteKey(m)
  BY <1>5 DEF WriteKey
<1>6. CASE Register(m)
  BY <1>6 DEF Register
<1>7. CASE AuthorizeOrder(m)
  BY <1>7 DEF AuthorizeOrder
<1>8. CASE NextAuthz(m)
  BY <1>8 DEF NextAuthz, SameTodo, OneLess
<1>9. CASE Upsert(m)
  BY <1>9 DEF Upsert, SameTodo
<1>10. CASE WaitInSync(m)
  BY <1>10 DEF WaitInSync, SameTodo
<1>11. CASE Accept(m)
  BY <1>11 DEF Accept, SameTodo
<1>12. CASE Verdict(m)
  BY <1>12 DEF Verdict, SameTodo
<1>13. CASE Cleanup(m)
  <2>1. attempt[m].chal \in attempt[m].todo /\ pc[m] = "cleanup"
    BY <1>13 DEF Cleanup, AttemptInv, Solving
  <2>2. CASE attempt[m].valid
    <3>1. pc'[m] = "authz"
          /\ attempt'[m] = [attempt[m] EXCEPT !.todo = @ \ {attempt[m].chal}, !.chal = Absent,
                                              !.valid = FALSE]
      BY <1>13, <2>2 DEF Cleanup
    <3>2. attempt'[m].todo = attempt[m].todo \ {attempt[m].chal}
      BY <3>1
    <3> QED  BY <2>1, <2>2, <3>1, <3>2 DEF OneLess
  <2>3. CASE ~attempt[m].valid
    BY <1>13, <2>1, <2>3 DEF Cleanup
  <2> QED  BY <2>2, <2>3
<1>14. CASE Finalize(m) \/ Store(m) \/ Rename(m)
  BY <1>14 DEF Finalize, Store, Rename
<1>15. CASE Swap(m)
  BY <1>15 DEF Swap, Undisturbed, Needs
<1> QED  BY <1>1, <1>2, <1>3, <1>4, <1>5, <1>6, <1>7, <1>8, <1>9, <1>10, <1>11, <1>12, <1>13,
            <1>14, <1>15 DEF Loop

LEMMA TodoSize ==
  ASSUME TypeInv, NEW m \in Managers
  PROVE  /\ IsFiniteSet(attempt[m].todo) /\ Todo(m) \in Nat
         /\ Todo(m) <= Cardinality(Authzs) /\ Cardinality(Authzs) \in Nat
<1>1. attempt[m].todo \in SUBSET Authzs
  BY DEF TypeInv, TypeOK, Attempts
<1> QED  BY <1>1, FS_Subset, FS_CardinalityType, DNSAssumption DEF DNSAssumption, Todo

LEMMA LoopCloser ==
  ASSUME RenewalInv, NEW m \in Managers, Undisturbed(m), Loop(m)
  PROVE  Left(m)' < Left(m)
<1>1. /\ IsFiniteSet(attempt[m].todo) /\ Todo(m) \in Nat /\ Todo(m) <= Cardinality(Authzs)
      /\ Cardinality(Authzs) \in Nat
  BY TodoSize DEF RenewalInv, ManagersInv
<1>2. SameTodo(m) => Todo(m)' = Todo(m)
  BY DEF SameTodo, Todo
<1>3. OneLess(m) => Todo(m)' = Todo(m) - 1
  BY <1>1, FS_RemoveElement DEF OneLess, Todo
<1>4. attempt'[m].todo = Authzs => Todo(m)' = Cardinality(Authzs)
  BY DEF Todo
<1> HIDE DEF Todo
<1> USE DEF Left, Order, Moves
<1>5. CASE \/ Moves(m, {"sleep"}, "ensure") \/ Moves(m, {"ensure"}, "readKey")
           \/ Moves(m, {"readKey"}, "truncKey") \/ Moves(m, {"truncKey"}, "writeKey")
           \/ Moves(m, {"readKey", "writeKey"}, "register") \/ Moves(m, {"register"}, "order")
           \/ Moves(m, {"cleanup"}, "sleep") /\ ~attempt[m].valid
  BY <1>1, <1>5
<1>6. CASE Moves(m, {"order"}, "authz") /\ attempt'[m].todo = Authzs
  BY <1>1, <1>4, <1>6
<1>7. CASE Moves(m, {"authz"}, "authz") /\ OneLess(m)
  BY <1>1, <1>3, <1>7
<1>8. CASE SameTodo(m) /\ \/ Moves(m, {"authz"}, "upsert") \/ Moves(m, {"upsert"}, "insync")
                          \/ Moves(m, {"insync"}, "accept") \/ Moves(m, {"accept"}, "verdict")
                          \/ Moves(m, {"verdict"}, "cleanup") /\ attempt'[m].valid
  BY <1>1, <1>2, <1>8
<1>9. CASE Moves(m, {"cleanup"}, "authz") /\ attempt[m].valid /\ OneLess(m)
  BY <1>1, <1>3, <1>9
<1>10. CASE \/ Moves(m, {"authz"}, "finalize") \/ Moves(m, {"finalize"}, "store")
            \/ Moves(m, {"store"}, "rename") \/ Moves(m, {"rename"}, "swap")
  BY <1>1, <1>10
<1> QED  BY <1>5, <1>6, <1>7, <1>8, <1>9, <1>10, Strides

\* Nobody else can lengthen the way, or undo a change of the zone that has
\* reached its servers.
LEMMA OthersKeepAway ==
  ASSUME RenewalInv, NEW m \in Managers, Undisturbed(m), ~Loop(m), [Next]_vars
  PROVE  /\ pc'[m] = pc[m] /\ attempt'[m] = attempt[m]
         /\ visible[m] = zone[m] => visible'[m] = zone'[m]
<1> TypeInv /\ TypeOK /\ run = "serving" /\ run' = "serving"
  BY DEF RenewalInv, ManagersInv, TypeInv, Undisturbed
<1>1. ASSUME NEW n \in Managers, Loop(n), n # m
      PROVE  pc'[m] = pc[m] /\ attempt'[m] = attempt[m] /\ visible'[m] = visible[m]
             /\ zone'[m] = zone[m]
  BY <1>1, Own
<1>2. ASSUME NEW n \in Managers, Propagate(n)
      PROVE  /\ pc' = pc /\ attempt' = attempt
             /\ visible[m] = zone[m] => visible'[m] = zone'[m]
  BY <1>2 DEF Propagate, TypeOK
<1>3. ASSUME NEW n \in Managers, Age(n) PROVE UNCHANGED <<pc, attempt, zone, visible>>
  BY <1>3 DEF Age
<1>4. CASE RunReturns \/ Die \/ StartAgain
  BY <1>4 DEF RunReturns, Die, StartAgain
<1>5. CASE Autocert \/ UNCHANGED vars
  BY <1>5 DEF Autocert, AutocertReads, AutocertPuts, AutocertRegisters, vars
<1> QED  BY <1>1, <1>2, <1>3, <1>4, <1>5, StepCases

\* A number that is left to the swap: not for ever can a loop go on without a
\* failure and without a certificate.
LEMMA LeftIsFinite == ASSUME RenewalInv, NEW m \in Managers PROVE Left(m) \in Nat
<1>1. Todo(m) \in Nat /\ Cardinality(Authzs) \in Nat
  BY TodoSize DEF RenewalInv, ManagersInv
<1>2. pc[m] \in Locations /\ attempt[m].valid \in BOOLEAN
  BY DEF RenewalInv, ManagersInv, TypeInv, TypeOK, Locations, Attempts
<1> QED  BY <1>1, <1>2 DEF Left, Order, Locations, Solving

\* Whatever failed before: while the process serves and calls go well, each step
\* of a manager's loop brings its certificate closer, and no step of another
\* takes it further away, for any number of managers and authorizations.
THEOREM RenewalsGetCloser == SafetySpec => []Finite /\ [][Closer]_vars
<1>1. RenewalInv => Finite
  BY LeftIsFinite DEF Finite
<1>2. RenewalInv /\ [Next]_vars => [Closer]_vars
  <2> SUFFICES ASSUME RenewalInv, [Next]_vars, NEW m \in Managers, Undisturbed(m)
               PROVE  /\ Left(m)' <= Left(m)
                      /\ Loop(m) => Left(m)' < Left(m)
                      /\ pc[m] = "insync" /\ pc'[m] = "insync" /\ visible[m] = zone[m]
                           => visible'[m] = zone'[m]
    BY DEF Closer
  <2>0. Left(m) \in Nat /\ Left(m)' \in Nat
    <3>1. (RenewalInv => Left(m) \in Nat)'
      BY LeftIsFinite, PTL
    <3>2. RenewalInv'
      BY NextInv, NextAttempt DEF RenewalInv, ManagersInv
    <3> QED  BY <3>1, <3>2, LeftIsFinite
  <2>1. CASE Loop(m)
    <3>1. Left(m)' < Left(m)
      BY <2>1, LoopCloser
    <3>2. ~(pc[m] = "insync" /\ pc'[m] = "insync")
      BY <2>0, <2>1, Strides DEF Moves
    <3> QED  BY <2>0, <2>1, <3>1, <3>2
  <2>2. CASE ~Loop(m)
    <3>1. Left(m)' = Left(m)
      BY <2>2, OthersKeepAway DEF Left, Todo
    <3> QED  BY <2>0, <2>2, <3>1, OthersKeepAway
  <2> QED  BY <2>1, <2>2
<1> QED  BY <1>1, <1>2, RenewalInvariance, PTL DEF SafetySpec
=============================================================================
