--------------------------- MODULE LifecycleProofs ---------------------------
(***************************************************************************)
(* The safety properties of runAll proved for every set of servers and     *)
(* connections.                                                            *)
(***************************************************************************)
EXTENDS Lifecycle, FiniteSetTheorems, TLAPS

SentBy == {s \in Servers : serve[s] = "sent"}

\* Every entry of errc is the report of one serve goroutine.
OneReportEach == Len(errc) = Cardinality(SentBy)

\* What each phase of runAll has established.
Phases ==
  /\ pc = "init" => \A s \in Servers : serve[s] = "unborn"
  /\ pc \in {"init", "select"} => received = 0 /\ serveErr = None
  /\ pc \in {"init", "select", "stop", "spawn"} => \A s \in Servers : drain[s] = "none"
  /\ pc = "wait" => \A s \in Servers : drain[s] # "none"
  /\ pc \in {"collect", "returned"} => \A s \in Servers : drain[s] \in {"drained", "expired"}
  /\ pc \in {"init", "spawn", "wait", "collect", "returned"} => sigHandler = "default"
  /\ pc = "returned" =>
       /\ received = Cardinality(Servers)
       /\ result = IF serveErr # None THEN "serve"
                   ELSE IF shutdownErr # None THEN "shutdown" ELSE "nil"

\* How far a drain is tells what its server can still do.
Draining ==
  \A s \in Servers :
    /\ drain[s] \in {"listeners", "select", "drained", "expired"} => s \in inShutdown
    /\ drain[s] \in {"select", "drained", "expired"} => serve[s] # "accepting"
    /\ drain[s] = "drained" => \A c \in Conns : conn[s][c] = "free"
    /\ grace = "expired" => drain[s] \in {"select", "drained", "expired"}

\* serveErr is the first error among the reports taken so far.
FirstTaken ==
  IF serveErr = None
    THEN \A i \in 1 .. received : errc[i] = None
    ELSE \E i \in 1 .. received : errc[i] = serveErr /\ \A j \in 1 .. i - 1 : errc[j] = None

\* There is a shutdown error exactly when some drain ran out of time.
ErrorKept == shutdownErr # None <=> \E s \in Servers : drain[s] = "expired"

LifecycleInv == TypeOK /\ OneReportEach /\ Phases /\ Draining /\ FirstTaken /\ ErrorKept

-----------------------------------------------------------------------------
LEMMA Sizes ==
  /\ IsFiniteSet(SentBy) /\ Cardinality(SentBy) \in Nat
  /\ Cardinality(Servers) \in Nat /\ Cardinality(SentBy) <= Cardinality(Servers)
  /\ Cardinality(SentBy) = Cardinality(Servers) => SentBy = Servers
<1>1. SentBy \in SUBSET Servers
  BY DEF SentBy
<1> QED BY <1>1, ServersAssumption, FS_Subset, FS_CardinalityType

LEMMA InitInv == Init => LifecycleInv
<1> SUFFICES ASSUME Init PROVE LifecycleInv
  OBVIOUS
<1>1. SentBy = {}
  BY DEF Init, SentBy
<1>2. OneReportEach
  BY <1>1, FS_EmptySet DEF Init, OneReportEach
<1>3. TypeOK
  <2>1. errc \in Seq(Servers \cup {None}) /\ received \in 0 .. Len(errc)
    BY DEF Init
  <2> QED BY <2>1 DEF Init, TypeOK
<1>4. Phases /\ Draining /\ FirstTaken /\ ErrorKept
  BY DEF Init, Phases, Draining, FirstTaken, ErrorKept
<1> QED BY <1>2, <1>3, <1>4 DEF LifecycleInv

\* Steps of the world: signals, callers and clients.
LEMMA WorldInv == LifecycleInv /\ (Cancel \/ Signal) => LifecycleInv'
<1> SUFFICES ASSUME LifecycleInv, Cancel \/ Signal PROVE LifecycleInv'
  OBVIOUS
<1>1. /\ alive' \in BOOLEAN /\ ctxDone' \in BOOLEAN
      /\ UNCHANGED <<pc, sigHandler, serve, inShutdown, conn, drain, grace, errc, loop>>
  BY DEF Cancel, Signal, LifecycleInv, TypeOK
<1>2. TypeOK'
  BY <1>1 DEF LifecycleInv, loop, TypeOK
<1>3. OneReportEach' /\ FirstTaken' /\ ErrorKept'
  BY <1>1 DEF LifecycleInv, loop, OneReportEach, SentBy, FirstTaken, ErrorKept
<1>4. Phases' /\ Draining'
  BY <1>1 DEF LifecycleInv, loop, Phases, Draining
<1> QED BY <1>2, <1>3, <1>4 DEF LifecycleInv

LEMMA CallerCloseInv ==
  ASSUME LifecycleInv, NEW s \in Servers, CallerClose(s) PROVE LifecycleInv'
<1>1. TypeOK' /\ Draining'
  BY DEF LifecycleInv, CallerClose, world, loop, TypeOK, Draining
<1>2. OneReportEach' /\ Phases' /\ FirstTaken' /\ ErrorKept'
  BY DEF LifecycleInv, CallerClose, world, loop, OneReportEach, SentBy, Phases,
         FirstTaken, ErrorKept
<1> QED BY <1>1, <1>2 DEF LifecycleInv

LEMMA ClientInv ==
  ASSUME LifecycleInv, NEW s \in Servers, Clients(s) PROVE LifecycleInv'
<1>1. PICK c \in Conns, from \in SUBSET {"free", "idle", "active"}, to \in {"free", "idle", "active"} :
        /\ SetConn(s, c, from, to)
        /\ "free" \in from => serve[s] = "accepting"
  BY DEF Clients, Connect, Request, Finish, HangUp
<1>2. TypeOK'
  BY <1>1 DEF SetConn, LifecycleInv, TypeOK, world, loop
<1>3. Draining'
  BY <1>1 DEF SetConn, LifecycleInv, TypeOK, Draining, world, loop
<1>4. OneReportEach' /\ Phases' /\ FirstTaken' /\ ErrorKept'
  BY <1>1 DEF SetConn, LifecycleInv, world, loop, OneReportEach, SentBy, Phases,
              FirstTaken, ErrorKept
<1> QED BY <1>2, <1>3, <1>4 DEF LifecycleInv

\* A serve goroutine advances without reporting yet.
LEMMA ServingInv ==
  ASSUME LifecycleInv, NEW s \in Servers, NEW from \in {"starting", "binding", "bound", "accepting"},
         NEW to \in {"closed", "binding", "bound", "failed", "accepting"},
         Serving(s, from, to), to = "accepting" => s \notin inShutdown
  PROVE  LifecycleInv'
<1>1. TypeOK'
  BY DEF Serving, LifecycleInv, TypeOK, world, loop
<1>2. SentBy' = SentBy
  BY DEF Serving, SentBy, LifecycleInv, TypeOK
<1>3. OneReportEach' /\ FirstTaken' /\ ErrorKept'
  BY <1>2 DEF Serving, LifecycleInv, OneReportEach, FirstTaken, ErrorKept, world, loop
<1>4. Phases' /\ Draining'
  BY DEF Serving, LifecycleInv, TypeOK, Phases, Draining, world, loop
<1> QED BY <1>1, <1>3, <1>4 DEF LifecycleInv

\* A serve goroutine reports.
LEMMA ReportInv ==
  ASSUME LifecycleInv, NEW s \in Servers, Report(s) PROVE LifecycleInv'
<1> DEFINE e == IF serve[s] = "closed" THEN None ELSE s
<1>1. /\ errc \in Seq(Servers \cup {None}) /\ e \in Servers \cup {None}
      /\ errc' = Append(errc, e) /\ Len(errc') = Len(errc) + 1 /\ Len(errc) \in Nat
      /\ \A i \in 1 .. Len(errc) : errc'[i] = errc[i]
      /\ serve' = [serve EXCEPT ![s] = "sent"] /\ serve[s] # "sent"
  BY DEF Report, LifecycleInv, TypeOK
<1>2. TypeOK'
  BY <1>1 DEF Report, LifecycleInv, TypeOK, world, loop
<1>3. OneReportEach'
  <2>1. SentBy' = SentBy \cup {s} /\ s \notin SentBy
    BY <1>1 DEF SentBy, LifecycleInv, TypeOK
  <2>2. Cardinality(SentBy \cup {s}) = Cardinality(SentBy) + 1
    BY <2>1, Sizes, FS_AddElement
  <2> QED BY <1>1, <2>1, <2>2 DEF OneReportEach, LifecycleInv
<1>4. FirstTaken'
  <2>1. received' = received /\ serveErr' = serveErr /\ received \in 0 .. Len(errc)
    BY DEF Report, loop, LifecycleInv, TypeOK
  <2>2. \A i \in 1 .. received : errc'[i] = errc[i]
    BY <1>1, <2>1
  <2> QED BY <2>1, <2>2 DEF LifecycleInv, FirstTaken
<1>5. Phases' /\ Draining' /\ ErrorKept'
  BY <1>1 DEF Report, LifecycleInv, TypeOK, Phases, Draining, ErrorKept, world, loop
<1> QED BY <1>2, <1>3, <1>4, <1>5 DEF LifecycleInv

LEMMA ServeStepInv ==
  ASSUME LifecycleInv, NEW s \in Servers, ServeStep(s) \/ AcceptFails(s) PROVE LifecycleInv'
<1>1. CASE Check(s)
  BY <1>1, ServingInv DEF Check
<1>2. CASE Bind(s)
  BY <1>2, ServingInv DEF Bind
<1>3. CASE Track(s)
  BY <1>3, ServingInv DEF Track
<1>4. CASE AcceptClosed(s) \/ AcceptFails(s)
  BY <1>4, ServingInv DEF AcceptClosed, AcceptFails
<1>5. CASE Report(s)
  BY <1>5, ReportInv
<1> QED BY <1>1, <1>2, <1>3, <1>4, <1>5 DEF ServeStep

\* runAll's own steps.  Only Start touches the serve goroutines.
LEMMA StartInv == ASSUME LifecycleInv, Start PROVE LifecycleInv'
<1>1. TypeOK'
  BY DEF Start, LifecycleInv, TypeOK, loop
<1>2. SentBy = {} /\ SentBy' = {}
  BY DEF Start, LifecycleInv, Phases, SentBy
<1>3. OneReportEach' /\ FirstTaken' /\ ErrorKept'
  BY <1>2 DEF Start, LifecycleInv, OneReportEach, FirstTaken, ErrorKept, loop
<1>4. Phases'
  BY DEF Start, LifecycleInv, Phases, loop
<1>5. Draining'
  BY DEF Start, LifecycleInv, Phases, Draining, loop
<1> QED BY <1>1, <1>3, <1>4, <1>5 DEF LifecycleInv

\* Taking one more report keeps the first error seen.
LEMMA TakeInv ==
  ASSUME LifecycleInv, received < Len(errc),
         received' = received + 1, errc' = errc,
         serveErr' = IF serveErr = None THEN errc[received + 1] ELSE serveErr
  PROVE  FirstTaken' /\ received' \in 0 .. Len(errc') /\ serveErr' \in Servers \cup {None}
<1>1. /\ received \in Nat /\ Len(errc) \in Nat /\ errc \in Seq(Servers \cup {None})
      /\ received + 1 \in 1 .. Len(errc)
  BY DEF LifecycleInv, TypeOK
<1>2. errc[received + 1] \in Servers \cup {None}
  BY <1>1
<1>3. serveErr' \in Servers \cup {None}
  BY <1>2 DEF LifecycleInv, TypeOK
<1>4. FirstTaken'
  <2>1. CASE serveErr # None
    <3>1. PICK i \in 1 .. received : errc[i] = serveErr /\ \A j \in 1 .. i - 1 : errc[j] = None
      BY <2>1 DEF LifecycleInv, FirstTaken
    <3>2. i \in 1 .. received + 1
      BY <1>1
    <3> QED BY <2>1, <3>1, <3>2 DEF FirstTaken
  <2>2. CASE serveErr = None /\ errc[received + 1] = None
    <3>1. \A i \in 1 .. received + 1 : errc[i] = None
      BY <1>1, <2>2 DEF LifecycleInv, FirstTaken
    <3> QED BY <2>2, <3>1 DEF FirstTaken
  <2>3. CASE serveErr = None /\ errc[received + 1] # None
    <3>1. \A j \in 1 .. (received + 1) - 1 : errc[j] = None
      BY <1>1, <2>3 DEF LifecycleInv, FirstTaken
    <3>2. received + 1 \in 1 .. received + 1
      BY <1>1
    <3> QED BY <2>3, <3>1, <3>2 DEF FirstTaken
  <2> QED BY <2>1, <2>2, <2>3
<1> QED BY <1>1, <1>3, <1>4

LEMMA TakeFirstInv == ASSUME LifecycleInv, TakeFirst PROVE LifecycleInv'
<1>1. received < Len(errc) /\ received' = received + 1 /\ errc' = errc
      /\ serveErr' = IF serveErr = None THEN errc[received + 1] ELSE serveErr
  BY DEF TakeFirst, LifecycleInv, Phases
<1>2. FirstTaken' /\ received' \in 0 .. Len(errc') /\ serveErr' \in Servers \cup {None}
  BY <1>1, TakeInv
<1>3. TypeOK'
  BY <1>2 DEF TakeFirst, LifecycleInv, TypeOK, world
<1>4. OneReportEach' /\ Phases' /\ Draining' /\ ErrorKept'
  BY DEF TakeFirst, LifecycleInv, OneReportEach, SentBy, Phases, Draining, ErrorKept, world
<1> QED BY <1>2, <1>3, <1>4 DEF LifecycleInv

LEMMA CollectInv == ASSUME LifecycleInv, Collect PROVE LifecycleInv'
<1>1. received < Len(errc) /\ received' = received + 1 /\ errc' = errc
      /\ serveErr' = IF serveErr = None THEN errc[received + 1] ELSE serveErr
  BY DEF Collect
<1>2. FirstTaken' /\ received' \in 0 .. Len(errc') /\ serveErr' \in Servers \cup {None}
  BY <1>1, TakeInv
<1>3. TypeOK'
  BY <1>2 DEF Collect, LifecycleInv, TypeOK, world
<1>4. OneReportEach' /\ Phases' /\ Draining' /\ ErrorKept'
  BY DEF Collect, LifecycleInv, OneReportEach, SentBy, Phases, Draining, ErrorKept, world
<1> QED BY <1>2, <1>3, <1>4 DEF LifecycleInv

LEMMA SeeCancelledInv == ASSUME LifecycleInv, SeeCancelled PROVE LifecycleInv'
<1>1. TypeOK'
  BY DEF SeeCancelled, LifecycleInv, TypeOK, world, loop
<1>2. OneReportEach' /\ Phases' /\ Draining' /\ FirstTaken' /\ ErrorKept'
  BY DEF SeeCancelled, LifecycleInv, OneReportEach, SentBy, Phases, Draining, FirstTaken,
         ErrorKept, world, loop
<1> QED BY <1>1, <1>2 DEF LifecycleInv

LEMMA RestoreInv == ASSUME LifecycleInv, RestoreSignals PROVE LifecycleInv'
<1>1. TypeOK'
  BY DEF RestoreSignals, LifecycleInv, TypeOK, loop
<1>2. OneReportEach' /\ Phases' /\ FirstTaken' /\ ErrorKept'
  BY DEF RestoreSignals, LifecycleInv, OneReportEach, SentBy, Phases, FirstTaken,
         ErrorKept, loop
<1>3. Draining'
  BY DEF RestoreSignals, LifecycleInv, Draining, Phases
<1> QED BY <1>1, <1>2, <1>3 DEF LifecycleInv

LEMMA SpawnInv == ASSUME LifecycleInv, Spawn PROVE LifecycleInv'
<1>1. TypeOK'
  BY DEF Spawn, LifecycleInv, TypeOK, world, loop
<1>2. OneReportEach' /\ FirstTaken'
  BY DEF Spawn, LifecycleInv, OneReportEach, SentBy, FirstTaken, loop
<1>3. Phases' /\ Draining' /\ ErrorKept'
  BY ServersAssumption DEF Spawn, LifecycleInv, Phases, Draining, ErrorKept, world, loop
<1> QED BY <1>1, <1>2, <1>3 DEF LifecycleInv

LEMMA JoinedInv == ASSUME LifecycleInv, Joined PROVE LifecycleInv'
<1>1. TypeOK'
  BY DEF Joined, LifecycleInv, TypeOK, world, loop
<1>2. OneReportEach' /\ Phases' /\ Draining' /\ FirstTaken' /\ ErrorKept'
  BY DEF Joined, LifecycleInv, OneReportEach, SentBy, Phases, Draining, FirstTaken,
         ErrorKept, world, loop
<1> QED BY <1>1, <1>2 DEF LifecycleInv

LEMMA ReturnInv == ASSUME LifecycleInv, Return PROVE LifecycleInv'
<1>1. TypeOK'
  BY DEF Return, LifecycleInv, TypeOK, world
<1>2. OneReportEach' /\ Phases' /\ Draining' /\ FirstTaken' /\ ErrorKept'
  BY DEF Return, LifecycleInv, OneReportEach, SentBy, Phases, Draining, FirstTaken,
         ErrorKept, world
<1> QED BY <1>1, <1>2 DEF LifecycleInv

\* The Shutdown goroutines.
LEMMA BeginShutdownInv ==
  ASSUME LifecycleInv, NEW s \in Servers, BeginShutdown(s) PROVE LifecycleInv'
<1>1. TypeOK'
  BY DEF BeginShutdown, LifecycleInv, TypeOK, world, loop
<1>2. OneReportEach' /\ FirstTaken'
  BY DEF BeginShutdown, LifecycleInv, OneReportEach, SentBy, FirstTaken, loop
<1>3. Phases' /\ Draining' /\ ErrorKept'
  BY DEF BeginShutdown, LifecycleInv, TypeOK, Phases, Draining, ErrorKept, world, loop
<1> QED BY <1>1, <1>2, <1>3 DEF LifecycleInv

LEMMA PollInv ==
  ASSUME LifecycleInv, NEW s \in Servers, ListenersGone(s) \/ PollAgain(s)
  PROVE  LifecycleInv'
<1>1. /\ Poll(s) /\ drain[s] \in {"listeners", "select"}
      /\ s \in inShutdown /\ serve[s] # "accepting"
  BY DEF ListenersGone, PollAgain, LifecycleInv, Draining
<1> DEFINE left == [c \in Conns |-> IF conn[s][c] = "idle" THEN "free" ELSE conn[s][c]]
           next == IF \E c \in Conns : conn[s][c] = "active" THEN "select" ELSE "drained"
<1>2. left \in [Conns -> {"free", "idle", "active"}]
  BY DEF LifecycleInv, TypeOK
<1>3. /\ conn' = [conn EXCEPT ![s] = left]
      /\ drain' = [drain EXCEPT ![s] = next]
      /\ UNCHANGED <<pc, world, serve, inShutdown, grace, errc, loop>>
  BY <1>1 DEF Poll
<1>4. next \in {"select", "drained"}
  OBVIOUS
<1>5. next = "drained" => \A c \in Conns : left[c] = "free"
  <2>1. CASE \E c \in Conns : conn[s][c] = "active"
    BY <2>1
  <2>2. CASE \A c \in Conns : conn[s][c] # "active"
    BY <2>2 DEF LifecycleInv, TypeOK
  <2> QED BY <2>1, <2>2
<1> HIDE DEF left, next
<1>6. TypeOK'
  <2>1. conn' \in [Servers -> [Conns -> {"free", "idle", "active"}]]
    <3> DEFINE Slots == [Conns -> {"free", "idle", "active"}]
    <3>1. conn \in [Servers -> Slots] /\ left \in Slots
      BY <1>2 DEF LifecycleInv, TypeOK
    <3> HIDE DEF Slots
    <3>2. conn' \in [Servers -> Slots]
      BY <1>3, <3>1
    <3> QED BY <3>2 DEF Slots
  <2>2. drain' \in [Servers -> {"none", "begin", "listeners", "select", "drained", "expired"}]
    BY <1>3, <1>4 DEF LifecycleInv, TypeOK
  <2> QED BY <1>3, <2>1, <2>2 DEF LifecycleInv, TypeOK, world, loop
<1>7. OneReportEach' /\ FirstTaken'
  BY <1>3 DEF LifecycleInv, OneReportEach, SentBy, FirstTaken, loop
<1>8. Draining'
  <2> SUFFICES ASSUME NEW x \in Servers
               PROVE  /\ drain'[x] \in {"listeners", "select", "drained", "expired"}
                           => x \in inShutdown
                      /\ drain'[x] \in {"select", "drained", "expired"} => serve[x] # "accepting"
                      /\ drain'[x] = "drained" => \A c \in Conns : conn'[x][c] = "free"
                      /\ grace = "expired" => drain'[x] \in {"select", "drained", "expired"}
    BY <1>3 DEF Draining
  <2>1. CASE x = s
    <3>1. drain'[x] = next /\ conn'[x] = left
      BY <1>3, <2>1 DEF LifecycleInv, TypeOK
    <3> QED BY <1>1, <1>4, <1>5, <2>1, <3>1
  <2>2. CASE x # s
    <3>1. drain'[x] = drain[x] /\ conn'[x] = conn[x]
      BY <1>3, <2>2 DEF LifecycleInv, TypeOK
    <3> QED BY <3>1 DEF LifecycleInv, Draining
  <2> QED BY <2>1, <2>2
<1>9. Phases' /\ ErrorKept'
  BY <1>1, <1>3, <1>4 DEF LifecycleInv, TypeOK, Phases, ErrorKept, world, loop
<1> QED BY <1>6, <1>7, <1>8, <1>9 DEF LifecycleInv

LEMMA GiveUpInv ==
  ASSUME LifecycleInv, NEW s \in Servers, GiveUp(s) PROVE LifecycleInv'
<1>1. TypeOK'
  BY DEF GiveUp, LifecycleInv, TypeOK, world
<1>2. OneReportEach' /\ FirstTaken'
  BY DEF GiveUp, LifecycleInv, OneReportEach, SentBy, FirstTaken
<1>3. Phases' /\ Draining'
  BY DEF GiveUp, LifecycleInv, TypeOK, Phases, Draining, world
<1>4. ErrorKept'
  <2>1. shutdownErr' # None
    BY NoneAssumption DEF GiveUp
  <2>2. drain'[s] = "expired"
    BY DEF GiveUp, LifecycleInv, TypeOK
  <2> QED BY <2>1, <2>2 DEF ErrorKept
<1> QED BY <1>1, <1>2, <1>3, <1>4 DEF LifecycleInv

LEMMA GraceInv == ASSUME LifecycleInv, GraceExpires PROVE LifecycleInv'
<1>1. TypeOK'
  BY DEF GraceExpires, LifecycleInv, TypeOK, world, loop
<1>2. OneReportEach' /\ FirstTaken' /\ Phases' /\ ErrorKept'
  BY DEF GraceExpires, LifecycleInv, OneReportEach, SentBy, FirstTaken, Phases,
         ErrorKept, world, loop
<1>3. Draining'
  <2>1. pc \in {"wait", "collect", "returned"}
    BY DEF GraceExpires, LifecycleInv, TypeOK, Phases
  <2>2. \A s \in Servers : drain[s] \in {"select", "drained", "expired"}
    BY <2>1 DEF GraceExpires, LifecycleInv, TypeOK, Phases
  <2> QED BY <2>2 DEF GraceExpires, LifecycleInv, Draining
<1> QED BY <1>1, <1>2, <1>3 DEF LifecycleInv

LEMMA NextInv == LifecycleInv /\ [Next]_vars => LifecycleInv'
<1> SUFFICES ASSUME LifecycleInv, [Next]_vars PROVE LifecycleInv'
  OBVIOUS
<1>1. CASE RunStep
  BY <1>1, StartInv, TakeFirstInv, SeeCancelledInv, RestoreInv, SpawnInv, JoinedInv,
     CollectInv, ReturnInv DEF RunStep
<1>2. CASE GraceExpires \/ Cancel \/ Signal
  BY <1>2, GraceInv, WorldInv
<1>3. ASSUME NEW s \in Servers,
             \/ ServeStep(s) \/ DrainStep(s) \/ PollAgain(s)
             \/ Clients(s) \/ CallerClose(s) \/ AcceptFails(s)
      PROVE  LifecycleInv'
  BY <1>3, ServeStepInv, BeginShutdownInv, PollInv, GiveUpInv, ClientInv, CallerCloseInv
     DEF DrainStep
<1>4. CASE UNCHANGED vars
  <2>1. TypeOK'
    BY <1>4 DEF vars, world, loop, LifecycleInv, TypeOK
  <2>2. OneReportEach' /\ Phases' /\ Draining' /\ FirstTaken' /\ ErrorKept'
    BY <1>4 DEF vars, world, loop, LifecycleInv, OneReportEach, SentBy, Phases, Draining,
                FirstTaken, ErrorKept
  <2> QED BY <2>1, <2>2 DEF LifecycleInv
<1> QED BY <1>1, <1>2, <1>3, <1>4 DEF Next, Ended

LEMMA Invariance == Spec => []LifecycleInv
  BY InitInv, NextInv, PTL DEF Spec

-----------------------------------------------------------------------------
(* The theorems.                                                           *)

\* runAll's state always has its type.
THEOREM TypeCorrect == Spec => []TypeOK
<1>1. LifecycleInv => TypeOK
  BY DEF LifecycleInv
<1> QED BY <1>1, Invariance, PTL

\* Every report was taken, so every serve goroutine has sent its own.
LEMMA ReturnedMeansSent ==
  ASSUME LifecycleInv, pc = "returned" \/ received = Cardinality(Servers)
  PROVE  received = Len(errc) /\ \A s \in Servers : serve[s] = "sent"
<1>1. received = Cardinality(Servers) /\ received <= Len(errc) /\ Len(errc) = Cardinality(SentBy)
  BY DEF LifecycleInv, TypeOK, Phases, OneReportEach
<1>2. SentBy = Servers /\ received = Len(errc)
  BY <1>1, Sizes
<1> QED BY <1>2 DEF SentBy

\* Nothing Run started is left running its listener when Run returns.
THEOREM ReturnsStopped == Spec => []AllStopped
<1>1. LifecycleInv => AllStopped
  <2> SUFFICES ASSUME LifecycleInv, pc = "returned"
               PROVE  /\ inShutdown = Servers
                      /\ \A s \in Servers : serve[s] = "sent"
                      /\ received = Len(errc)
    BY DEF AllStopped
  <2>1. inShutdown = Servers
    <3>1. \A s \in Servers : s \in inShutdown
      BY DEF LifecycleInv, Phases, Draining
    <3> QED BY <3>1 DEF LifecycleInv, TypeOK
  <2>2. received = Len(errc) /\ \A s \in Servers : serve[s] = "sent"
    BY ReturnedMeansSent
  <2> QED BY <2>1, <2>2
<1> QED BY <1>1, Invariance, PTL

\* Run returns the first cause: the first listener's error if there is one.
THEOREM ReturnsFirstCause == Spec => []ResultIsFirstCause
<1>1. LifecycleInv /\ AllStopped => ResultIsFirstCause
  <2> SUFFICES ASSUME LifecycleInv, AllStopped, pc = "returned"
               PROVE  \/ result = "serve" /\ FirstFailure(serveErr)
                      \/ /\ result \in {"nil", "shutdown"}
                         /\ \A i \in 1 .. Len(errc) : errc[i] = None
                         /\ (result = "shutdown") <=> \E s \in Servers : drain[s] = "expired"
    BY DEF ResultIsFirstCause
  <2>1. received = Len(errc)
    BY DEF AllStopped
  <2>2. result = IF serveErr # None THEN "serve"
                 ELSE IF shutdownErr # None THEN "shutdown" ELSE "nil"
    BY DEF LifecycleInv, Phases
  <2>3. CASE serveErr # None
    BY <2>1, <2>2, <2>3 DEF LifecycleInv, FirstTaken, FirstFailure
  <2>4. CASE serveErr = None
    BY <2>1, <2>2, <2>4 DEF LifecycleInv, FirstTaken, ErrorKept
  <2> QED BY <2>3, <2>4
<1> QED BY <1>1, Invariance, ReturnsStopped, PTL

\* A connection left open when Run returns used up its server's budget.
THEOREM HonoursDrain == Spec => []DrainHonoured
<1>1. LifecycleInv => DrainHonoured
  BY DEF LifecycleInv, Phases, Draining, ErrorKept, DrainHonoured
<1> QED BY <1>1, Invariance, PTL

\* The budget expires for all drains at once, and finds no listener open.
THEOREM SharesBudget == Spec => []SharedBudget
<1>1. LifecycleInv => SharedBudget
  BY DEF LifecycleInv, Draining, SharedBudget
<1> QED BY <1>1, Invariance, PTL

\* During the whole drain a second signal ends the process.
THEOREM DrainCanBeCut == Spec => []DrainInterruptible
<1>1. LifecycleInv => DrainInterruptible
  BY DEF LifecycleInv, TypeOK, Phases, DrainInterruptible
<1> QED BY <1>1, Invariance, PTL
-----------------------------------------------------------------------------
(* What the refinement and the progress of runAll need besides.            *)

\* Who is under way: goroutines and timer have started, signals are caught while
\* serving, and the select was left for a reason.
Underway ==
  /\ pc # "init" => \A s \in Servers : serve[s] # "unborn"
  /\ pc \in {"select", "stop"} => sigHandler = "notify"
  /\ pc = "stop" => StopRequested
  /\ pc \in {"spawn", "wait", "collect", "returned"} => grace # "off"

\* If any report is a failure there is a first one.
FaultKnown ==
  \/ \A i \in 1 .. Len(errc) : errc[i] = None
  \/ \E s \in Servers : FirstFailure(s)

RunInv == LifecycleInv /\ Underway /\ FaultKnown

\* One more report leaves the first failure what it was, and is the first
\* failure itself when there was none.
LEMMA FaultAfterReport ==
  ASSUME LifecycleInv, FaultKnown, NEW s \in Servers, Report(s)
  PROVE  /\ FaultKnown'
         /\ \A t \in Servers : FirstFailure(t) => FirstFailure(t)'
         /\ (\A i \in 1 .. Len(errc) : errc[i] = None) =>
              IF serve[s] = "failed" THEN FirstFailure(s)'
                                     ELSE \A i \in 1 .. Len(errc') : errc'[i] = None
<1> DEFINE n == Len(errc)
           e == IF serve[s] = "closed" THEN None ELSE s
<1>1. /\ n \in Nat /\ Len(errc') = n + 1 /\ errc'[n + 1] = e
      /\ \A i \in 1 .. n : errc'[i] = errc[i]
      /\ serve[s] \in {"closed", "failed"}
  BY DEF Report, LifecycleInv, TypeOK
<1>2. ASSUME NEW t \in Servers, FirstFailure(t) PROVE FirstFailure(t)'
  <2>1. PICK i \in 1 .. n : errc[i] = t /\ t # None /\ \A j \in 1 .. i - 1 : errc[j] = None
    BY <1>2 DEF FirstFailure
  <2>2. i \in 1 .. Len(errc') /\ errc'[i] = t /\ \A j \in 1 .. i - 1 : errc'[j] = None
    BY <1>1, <2>1
  <2> QED BY <2>1, <2>2 DEF FirstFailure
<1>3. ASSUME \A i \in 1 .. n : errc[i] = None
      PROVE  IF serve[s] = "failed" THEN FirstFailure(s)'
                                    ELSE \A i \in 1 .. Len(errc') : errc'[i] = None
  <2>1. CASE serve[s] = "failed"
    <3>1. /\ n + 1 \in 1 .. Len(errc') /\ errc'[n + 1] = s /\ s # None
          /\ \A j \in 1 .. (n + 1) - 1 : errc'[j] = None
      BY <1>1, <1>3, <2>1, NoneAssumption
    <3> QED BY <2>1, <3>1 DEF FirstFailure
  <2>2. CASE serve[s] = "closed"
    BY <1>1, <1>3, <2>2
  <2> QED BY <1>1, <2>1, <2>2
<1>4. FaultKnown'
  BY <1>1, <1>2, <1>3 DEF FaultKnown
<1> QED BY <1>2, <1>3, <1>4

\* No other step touches the reports.
LEMMA OnlyReportsFault ==
  ASSUME [Next]_vars, \A s \in Servers : ~Report(s) PROVE errc' = errc
<1>1. CASE RunStep
  BY <1>1 DEF RunStep, Start, TakeFirst, SeeCancelled, RestoreSignals, Spawn, Joined,
              Collect, Return
<1>2. CASE GraceExpires \/ Cancel \/ Signal
  BY <1>2 DEF GraceExpires, Cancel, Signal
<1>3. ASSUME NEW s \in Servers,
             \/ ServeStep(s) \/ DrainStep(s) \/ PollAgain(s)
             \/ Clients(s) \/ CallerClose(s) \/ AcceptFails(s)
      PROVE  errc' = errc
  BY <1>3 DEF ServeStep, Check, Bind, Track, AcceptClosed, AcceptFails, Serving, DrainStep,
              BeginShutdown, ListenersGone, PollAgain, Poll, GiveUp, Clients, Connect,
              Request, Finish, HangUp, SetConn, CallerClose
<1>4. CASE UNCHANGED vars
  BY <1>4 DEF vars
<1> QED BY <1>1, <1>2, <1>3, <1>4 DEF Next, Ended

\* A reason to stop does not go away: what a serve goroutine does next.
LEMMA ServeOnward ==
  ASSUME LifecycleInv, Underway, NEW s \in Servers, ServeStep(s) \/ AcceptFails(s)
  PROVE  Underway'
<1>1. PICK to \in {"closed", "binding", "bound", "failed", "accepting", "sent"} :
        /\ serve' = [serve EXCEPT ![s] = to]
        /\ serve[s] \in {"closed", "failed", "sent"} => to = "sent"
        /\ UNCHANGED <<pc, world, grace>>
  BY DEF ServeStep, Check, Bind, Track, AcceptClosed, AcceptFails, Serving, Report,
         LifecycleInv, TypeOK
<1> QED BY <1>1 DEF Underway, StopRequested, LifecycleInv, TypeOK, world

LEMMA RunOnward == ASSUME LifecycleInv, Underway, RunStep PROVE Underway'
<1>1. CASE Start
  BY <1>1 DEF Start, Underway
<1>2. CASE TakeFirst
  <2>1. PICK s \in Servers : serve[s] = "sent"
    <3>1. Len(errc) \in Nat /\ received \in Nat /\ Len(errc) = Cardinality(SentBy)
      BY DEF LifecycleInv, TypeOK, OneReportEach
    <3>2. Cardinality(SentBy) # 0
      BY <1>2, <3>1 DEF TakeFirst
    <3>3. SentBy # {}
      BY <3>2, FS_EmptySet
    <3> QED BY <3>3 DEF SentBy
  <2> QED BY <1>2, <2>1 DEF TakeFirst, Underway, StopRequested, world
<1>3. CASE SeeCancelled
  BY <1>3 DEF SeeCancelled, Underway, StopRequested, world
<1>4. CASE RestoreSignals \/ Spawn \/ Joined \/ Collect \/ Return
  BY <1>4 DEF RestoreSignals, Spawn, Joined, Collect, Return, Underway, world
<1> QED BY <1>1, <1>2, <1>3, <1>4 DEF RunStep

LEMMA UnderwayNext == ASSUME LifecycleInv, Underway, [Next]_vars PROVE Underway'
<1>1. CASE RunStep
  BY <1>1, RunOnward
<1>2. CASE GraceExpires \/ Cancel \/ Signal
  BY <1>2 DEF GraceExpires, Cancel, Signal, Underway, StopRequested, world
<1>3. ASSUME NEW s \in Servers, ServeStep(s) \/ AcceptFails(s) PROVE Underway'
  BY <1>3, ServeOnward
<1>4. ASSUME NEW s \in Servers,
             DrainStep(s) \/ PollAgain(s) \/ Clients(s) \/ CallerClose(s)
      PROVE  Underway'
  <2>1. UNCHANGED <<pc, world, serve, grace>>
    BY <1>4 DEF DrainStep, BeginShutdown, ListenersGone, PollAgain, Poll, GiveUp, Clients,
                Connect, Request, Finish, HangUp, SetConn, CallerClose
  <2> QED BY <2>1 DEF Underway, StopRequested, world
<1>5. CASE UNCHANGED vars
  BY <1>5 DEF vars, world, Underway, StopRequested
<1> QED BY <1>1, <1>2, <1>3, <1>4, <1>5 DEF Next, Ended

LEMMA RunInvariance == Spec => []RunInv
<1>1. Init => RunInv
  BY InitInv DEF Init, RunInv, Underway, FaultKnown
<1>2. RunInv /\ [Next]_vars => RunInv'
  <2> SUFFICES ASSUME RunInv, [Next]_vars PROVE RunInv'
    OBVIOUS
  <2>1. LifecycleInv' /\ Underway'
    BY NextInv, UnderwayNext DEF RunInv
  <2>2. FaultKnown'
    <3>1. ASSUME NEW s \in Servers, Report(s) PROVE FaultKnown'
      BY <3>1, FaultAfterReport DEF RunInv
    <3>2. CASE errc' = errc
      BY <3>2 DEF RunInv, FaultKnown, FirstFailure
    <3> QED BY <3>1, <3>2, OnlyReportsFault
  <2> QED BY <2>1, <2>2 DEF RunInv
<1> QED BY <1>1, <1>2, PTL DEF Spec
-----------------------------------------------------------------------------
(* Lifecycle implements RunContract.                                       *)

LEMMA FaultIsFirst == \A t \in Servers : FirstFailure(t) => FirstFault = t
<1>1. ASSUME NEW t \in Servers, FirstFailure(t), NEW u \in Servers, FirstFailure(u) PROVE u = t
  <2>1. PICK i \in 1 .. Len(errc) : errc[i] = t /\ t # None /\ \A j \in 1 .. i - 1 : errc[j] = None
    BY <1>1 DEF FirstFailure
  <2>2. PICK k \in 1 .. Len(errc) : errc[k] = u /\ u # None /\ \A j \in 1 .. k - 1 : errc[j] = None
    BY <1>1 DEF FirstFailure
  <2>3. ~(i < k) /\ ~(k < i)
    BY <2>1, <2>2
  <2> QED BY <2>1, <2>2, <2>3
<1> QED BY <1>1 DEF FirstFault

LEMMA NoFault == (\A i \in 1 .. Len(errc) : errc[i] = None) => FirstFault = None
  BY DEF FirstFault, FirstFailure

\* Both hold in the next state too.
LEMMA FaultIsFirstNext == \A t \in Servers : FirstFailure(t)' => FirstFault' = t
<1>1. (\A t \in Servers : FirstFailure(t) => FirstFault = t)'
  BY FaultIsFirst, PTL
<1> QED BY <1>1

LEMMA NoFaultNext == (\A i \in 1 .. Len(errc') : errc'[i] = None) => FirstFault' = None
<1>1. ((\A i \in 1 .. Len(errc) : errc[i] = None) => FirstFault = None)'
  BY NoFault, PTL
<1> QED BY <1>1

LEMMA FaultKept == ASSUME errc' = errc PROVE FirstFault' = FirstFault
  BY DEF FirstFault, FirstFailure

\* The mapping of runAll's control state, before and after a step.
LEMMA PhaseValues ==
  ASSUME TypeOK, TypeOK'
  PROVE  /\ Phase = "killed" <=> ~alive
         /\ alive /\ pc = "init" => Phase = "starting"
         /\ alive /\ pc \in {"select", "stop"} => Phase = "serving"
         /\ alive /\ pc \in {"spawn", "wait", "collect"} => Phase = "draining"
         /\ alive /\ pc = "returned" => Phase = "returned"
         /\ ~alive' => Phase' = "killed"
         /\ alive' /\ pc' = "init" => Phase' = "starting"
         /\ alive' /\ pc' \in {"select", "stop"} => Phase' = "serving"
         /\ alive' /\ pc' \in {"spawn", "wait", "collect"} => Phase' = "draining"
         /\ alive' /\ pc' = "returned" => Phase' = "returned"
  BY DEF Phase, TypeOK

\* What is mapped to the abstract variables is a function of runAll's.
LEMMA MapKept ==
  /\ UNCHANGED <<pc, alive>> => Phase' = Phase
  /\ UNCHANGED serve => Listening' = Listening /\ Stopped' = Stopped
  /\ UNCHANGED drain => Overdue' = Overdue
  /\ UNCHANGED conn => Held' = Held
  /\ UNCHANGED <<pc, serveErr>> => Culprit' = Culprit
<1>1. UNCHANGED <<pc, alive>> => Phase' = Phase
  BY DEF Phase
<1>2. UNCHANGED serve => Listening' = Listening /\ Stopped' = Stopped
  BY DEF Listening, Stopped
<1>3. (UNCHANGED drain => Overdue' = Overdue) /\ (UNCHANGED conn => Held' = Held)
  BY DEF Overdue, Held
<1>4. UNCHANGED <<pc, serveErr>> => Culprit' = Culprit
  BY DEF Culprit
<1> QED BY <1>1, <1>2, <1>3, <1>4

LEMMA InitImplements == Init => RC!RunInit
<1> SUFFICES ASSUME Init PROVE RC!RunInit
  OBVIOUS
<1>1. FirstFault = None
  BY NoFault DEF Init
<1> QED BY <1>1 DEF Init, RC!RunInit, Phase, Listening, Stopped, Overdue, Held, Culprit

LEMMA CancelImplements == ASSUME RunInv, alive, Cancel PROVE RC!Ask
<1>1. Phase # "killed"
  BY DEF Phase, RunInv, LifecycleInv, TypeOK
<1> QED BY <1>1, MapKept, FaultKept DEF Cancel, loop, RC!Ask

LEMMA SignalImplements == ASSUME RunInv, RunInv', alive, Signal PROVE RC!Ask \/ RC!Kill
<1>1. UNCHANGED <<FirstFault, Listening, Stopped, Overdue, Held, result, Culprit, pc>>
  BY MapKept, FaultKept DEF Signal, loop
<1>2. CASE sigHandler = "notify"
  <2>1. Phase' = Phase /\ Phase # "killed" /\ ctxDone' = TRUE
    BY <1>2, MapKept DEF Signal, Phase, RunInv, LifecycleInv, TypeOK
  <2> QED BY <1>1, <2>1 DEF RC!Ask
<1>3. CASE sigHandler # "notify"
  <2>1. pc \notin {"select", "stop"} /\ alive' = FALSE /\ ctxDone' = ctxDone
    BY <1>3 DEF Signal, RunInv, Underway
  <2>2. Phase \notin {"serving", "killed"} /\ Phase' = "killed"
    BY <2>1 DEF Phase, RunInv, LifecycleInv, TypeOK
  <2> QED BY <1>1, <2>1, <2>2 DEF RC!Kill
<1> QED BY <1>2, <1>3
\* A connection is opened, closed or changes its state.
LEMMA HeldAfter ==
  ASSUME TypeOK, NEW s \in Servers, NEW slots, conn' = [conn EXCEPT ![s] = slots]
  PROVE  /\ Held' \in {Held, Held \cup {s}, Held \ {s}}
         /\ (\A c \in Conns : slots[c] # "free" => conn[s][c] # "free")
              => Held' \in {Held, Held \ {s}}
<1>1. \A t \in Servers : conn'[t] = IF t = s THEN slots ELSE conn[t]
  BY DEF TypeOK
<1>2. \A t \in Servers \ {s} : t \in Held' <=> t \in Held
  BY <1>1 DEF Held
<1>3. Held \subseteq Servers /\ Held' \subseteq Servers
  BY DEF Held
<1>4. CASE s \in Held'
  <2>1. Held' = Held \cup {s}
    BY <1>2, <1>3, <1>4
  <2>2. ASSUME \A c \in Conns : slots[c] # "free" => conn[s][c] # "free" PROVE s \in Held
    BY <1>1, <1>4, <2>2 DEF Held
  <2> QED BY <2>1, <2>2
<1>5. CASE s \notin Held'
  BY <1>2, <1>3, <1>5
<1> QED BY <1>4, <1>5

\* The steps that only open or close connections: no server gets one unless it
\* listens.
LEMMA ConnImplements ==
  ASSUME RunInv, alive, NEW s \in Servers, NEW slots,
         conn' = [conn EXCEPT ![s] = slots],
         \/ serve[s] = "accepting"
         \/ \A c \in Conns : slots[c] # "free" => conn[s][c] # "free",
         UNCHANGED <<pc, world, serve, Overdue, errc, loop>>
  PROVE  RC!Connect(s) \/ RC!Disconnect(s) \/ UNCHANGED RC!runVars
<1>1. /\ UNCHANGED <<Phase, ctxDone, Listening, Stopped, FirstFault, Overdue, result, Culprit>>
      /\ Phase # "killed"
  BY MapKept, FaultKept DEF world, loop, Phase, RunInv, LifecycleInv, TypeOK
<1>2. /\ Held' \in {Held, Held \cup {s}, Held \ {s}}
      /\ s \in Listening \/ Held' \in {Held, Held \ {s}}
  BY HeldAfter DEF Listening, RunInv, LifecycleInv
<1> QED BY <1>1, <1>2 DEF RC!Connect, RC!Disconnect, RC!runVars

LEMMA ClientsImplement ==
  ASSUME RunInv, alive, NEW s \in Servers, Clients(s) \/ CallerClose(s)
  PROVE  RC!Connect(s) \/ RC!Disconnect(s) \/ UNCHANGED RC!runVars
<1>1. CASE Clients(s)
  <2>1. PICK c \in Conns, from \in SUBSET {"free", "idle", "active"}, to \in {"free", "idle", "active"} :
          /\ SetConn(s, c, from, to)
          /\ "free" \in from => serve[s] = "accepting"
    BY <1>1 DEF Clients, Connect, Request, Finish, HangUp
  <2> DEFINE slots == [conn[s] EXCEPT ![c] = to]
  <2>2. conn' = [conn EXCEPT ![s] = slots] /\ UNCHANGED <<pc, world, serve, drain, errc, loop>>
    BY <2>1 DEF SetConn
  <2>3. \/ serve[s] = "accepting"
        \/ \A d \in Conns : slots[d] # "free" => conn[s][d] # "free"
    BY <2>1 DEF SetConn, RunInv, LifecycleInv, TypeOK
  <2> HIDE DEF slots
  <2> QED BY <2>2, <2>3, MapKept, ConnImplements
<1>2. CASE CallerClose(s)
  <2> DEFINE slots == [c \in Conns |-> "free"]
  <2>1. /\ conn' = [conn EXCEPT ![s] = slots] /\ UNCHANGED <<pc, world, serve, drain, errc, loop>>
        /\ \A c \in Conns : slots[c] # "free" => conn[s][c] # "free"
    BY <1>2 DEF CallerClose
  <2> HIDE DEF slots
  <2> QED BY <2>1, MapKept, ConnImplements
<1> QED BY <1>1, <1>2

\* A serve goroutine that moves on without reporting: its listener opens, or it
\* stops, or nobody notices.
LEMMA ServingImplements ==
  ASSUME RunInv, alive, NEW s \in Servers,
         NEW from \in {"starting", "binding", "bound", "accepting"},
         NEW to \in {"closed", "binding", "bound", "failed", "accepting"},
         from = "accepting" => to \in {"closed", "failed"},
         Serving(s, from, to)
  PROVE  RC!Open(s) \/ RC!Stop(s) \/ UNCHANGED RC!runVars
<1>1. UNCHANGED <<Phase, ctxDone, FirstFault, Overdue, Held, result, Culprit>>
  BY MapKept, FaultKept DEF Serving, world, loop
<1>2. RC!Running
  <2>1. pc \notin {"init", "returned"}
    <3>1. pc # "init"
      BY DEF Serving, RunInv, LifecycleInv, Phases
    <3>2. pc # "returned"
      BY ReturnedMeansSent DEF Serving, RunInv
    <3> QED BY <3>1, <3>2
  <2> QED BY <2>1 DEF RC!Running, Phase, RunInv, LifecycleInv, TypeOK
<1>3. \A t \in Servers : serve'[t] = IF t = s THEN to ELSE serve[t]
  BY DEF Serving, RunInv, LifecycleInv, TypeOK
<1>4. serve[s] = from /\ s \notin Stopped
  BY DEF Serving, Stopped
<1>5. CASE to = "accepting"
  <2>1. Listening' = Listening \cup {s} /\ Stopped' = Stopped
    BY <1>3, <1>4, <1>5 DEF Listening, Stopped
  <2> QED BY <1>1, <1>2, <1>4, <2>1 DEF RC!Open
<1>6. CASE to \in {"closed", "failed"}
  <2>1. Listening' = Listening \ {s} /\ Stopped' = Stopped \cup {s}
    BY <1>3, <1>4, <1>6 DEF Listening, Stopped
  <2> QED BY <1>1, <1>2, <2>1 DEF RC!Stop
<1>7. CASE to \in {"binding", "bound"}
  <2>1. Listening' = Listening /\ Stopped' = Stopped
    BY <1>3, <1>4, <1>7 DEF Listening, Stopped
  <2> QED BY <1>1, <2>1 DEF RC!runVars
<1> QED BY <1>5, <1>6, <1>7

LEMMA ReportImplements ==
  ASSUME RunInv, alive, NEW s \in Servers, Report(s)
  PROVE  RC!Fault(s) \/ UNCHANGED RC!runVars
<1>1. UNCHANGED <<Phase, ctxDone, Overdue, Held, result, Culprit>>
  BY MapKept DEF Report, world, loop
<1>2. UNCHANGED <<Listening, Stopped>> /\ s \in Stopped
  <2>1. /\ \A t \in Servers : serve'[t] = IF t = s THEN "sent" ELSE serve[t]
        /\ serve[s] \in {"closed", "failed"}
    BY DEF Report, RunInv, LifecycleInv, TypeOK
  <2> QED BY <2>1 DEF Listening, Stopped
<1>3. RC!Running
  <2>1. pc \notin {"init", "returned"}
    <3>1. pc # "init"
      BY DEF Report, RunInv, LifecycleInv, Phases
    <3>2. pc # "returned"
      BY ReturnedMeansSent DEF Report, RunInv
    <3> QED BY <3>1, <3>2
  <2> QED BY <2>1 DEF RC!Running, Phase, RunInv, LifecycleInv, TypeOK
<1>4. CASE \E t \in Servers : FirstFailure(t)
  <2>1. PICK t \in Servers : FirstFailure(t)
    BY <1>4
  <2>2. FirstFailure(t)'
    BY <2>1, FaultAfterReport DEF RunInv
  <2>3. FirstFault = t /\ FirstFault' = t
    BY <2>1, <2>2, FaultIsFirst, FaultIsFirstNext
  <2> QED BY <1>1, <1>2, <2>3 DEF RC!runVars
<1>5. CASE \A i \in 1 .. Len(errc) : errc[i] = None
  <2>1. FirstFault = None
    BY <1>5, NoFault
  <2>2. CASE serve[s] = "failed"
    <3>1. FirstFault' = s
      BY <1>5, <2>2, FaultAfterReport, FaultIsFirstNext DEF RunInv
    <3> QED BY <1>1, <1>2, <1>3, <2>1, <3>1 DEF RC!Fault
  <2>3. CASE serve[s] # "failed"
    <3>1. FirstFault' = None
      BY <1>5, <2>3, FaultAfterReport, NoFaultNext DEF RunInv
    <3> QED BY <1>1, <1>2, <2>1, <3>1 DEF RC!runVars
  <2> QED BY <2>2, <2>3
<1> QED BY <1>4, <1>5 DEF RunInv, FaultKnown
\* runAll's own steps: only Start, RestoreSignals and Return can be noticed.
LEMMA RunImplements ==
  ASSUME RunInv, alive, RunStep
  PROVE  RC!Begin \/ RC!Drain \/ RC!Return \/ UNCHANGED RC!runVars
<1>0. TypeOK
  BY DEF RunInv, LifecycleInv
<1>1. CASE Start
  <2>1. UNCHANGED <<ctxDone, Listening, Stopped, FirstFault, Overdue, Held, result, Culprit>>
    <3>1. Listening' = Listening /\ Stopped' = Stopped
      BY <1>1 DEF Start, Listening, Stopped, RunInv, LifecycleInv, Phases
    <3> QED BY <1>1, <3>1, MapKept, FaultKept DEF Start, loop, Culprit
  <2>2. Phase = "starting" /\ Phase' = "serving"
    BY <1>1 DEF Start, Phase
  <2> QED BY <2>1, <2>2 DEF RC!Begin
<1>2. CASE TakeFirst \/ SeeCancelled \/ Joined \/ Collect
  <2>1. /\ UNCHANGED <<world, serve, conn, drain, errc, result>>
        /\ pc # "returned" /\ pc' # "returned"
        /\ \/ pc \in {"select", "stop"} /\ pc' \in {"select", "stop"}
           \/ pc \in {"spawn", "wait", "collect"} /\ pc' \in {"spawn", "wait", "collect"}
    BY <1>2 DEF TakeFirst, SeeCancelled, Joined, Collect, loop
  <2>2. Phase' = Phase
    BY <2>1 DEF Phase, world
  <2>3. Culprit' = Culprit
    BY <2>1 DEF Culprit
  <2> QED BY <2>1, <2>2, <2>3, MapKept, FaultKept DEF world, RC!runVars
<1>3. CASE RestoreSignals
  <2>1. /\ UNCHANGED <<Listening, Stopped, FirstFault, Overdue, Held, result, Culprit>>
        /\ ctxDone' = TRUE
    BY <1>3, MapKept, FaultKept DEF RestoreSignals, loop, Culprit
  <2>2. Phase = "serving" /\ Phase' = "draining"
    BY <1>3 DEF RestoreSignals, Phase
  <2>3. ctxDone \/ Stopped # {}
    BY <1>3 DEF RestoreSignals, RunInv, Underway, StopRequested, Stopped
  <2> QED BY <2>1, <2>2, <2>3 DEF RC!Drain
<1>4. CASE Spawn
  <2>1. Overdue' = Overdue
    BY <1>4 DEF Spawn, Overdue, RunInv, LifecycleInv, Phases
  <2>2. Phase' = Phase /\ Culprit' = Culprit
    BY <1>4 DEF Spawn, Phase, Culprit, world
  <2> QED BY <1>4, <2>1, <2>2, MapKept, FaultKept DEF Spawn, world, loop, RC!runVars
<1>5. CASE Return
  <2>1. received = Len(errc) /\ \A s \in Servers : serve[s] = "sent"
    BY <1>5, ReturnedMeansSent DEF Return, RunInv
  <2>2. Stopped = Servers
    BY <2>1 DEF Stopped
  <2>3. Held \subseteq Overdue
    BY <1>5 DEF Return, Held, Overdue, RunInv, LifecycleInv, Phases, Draining
  <2>4. serveErr = FirstFault
    <3>1. CASE serveErr = None
      BY <2>1, <3>1, NoFault DEF RunInv, LifecycleInv, FirstTaken
    <3>2. CASE serveErr # None
      <4>1. serveErr \in Servers /\ FirstFailure(serveErr)
        BY <1>0, <2>1, <3>2 DEF RunInv, LifecycleInv, FirstTaken, FirstFailure, TypeOK
      <4> QED BY <4>1, FaultIsFirst
    <3> QED BY <3>1, <3>2
  <2>5. shutdownErr # None <=> Overdue # {}
    BY DEF Overdue, RunInv, LifecycleInv, ErrorKept
  <2>6. result' = IF FirstFault # None THEN "serve" ELSE IF Overdue # {} THEN "shutdown" ELSE "nil"
    BY <1>5, <2>4, <2>5 DEF Return
  <2>7. Culprit' = FirstFault
    BY <1>5, <2>4 DEF Return, Culprit
  <2>8. Phase = "draining" /\ Phase' = "returned"
    BY <1>5 DEF Return, Phase, world
  <2>9. UNCHANGED <<ctxDone, Listening, Stopped, FirstFault, Overdue, Held>>
    BY <1>5, MapKept, FaultKept DEF Return, world
  <2> QED BY <2>2, <2>3, <2>6, <2>7, <2>8, <2>9 DEF RC!Return
<1> QED BY <1>1, <1>2, <1>3, <1>4, <1>5 DEF RunStep

\* The drains: polls close idle connections, and giving up is noticed.
LEMMA DrainImplements ==
  ASSUME RunInv, alive, NEW s \in Servers, DrainStep(s) \/ PollAgain(s)
  PROVE  RC!TimeUp(s) \/ RC!Connect(s) \/ RC!Disconnect(s) \/ UNCHANGED RC!runVars
<1>1. CASE BeginShutdown(s)
  <2>1. Overdue' = Overdue
    BY <1>1 DEF BeginShutdown, Overdue, RunInv, LifecycleInv, TypeOK
  <2> QED BY <1>1, <2>1, MapKept, FaultKept DEF BeginShutdown, world, loop, RC!runVars
<1>2. CASE ListenersGone(s) \/ PollAgain(s)
  <2> DEFINE slots == [c \in Conns |-> IF conn[s][c] = "idle" THEN "free" ELSE conn[s][c]]
             next  == IF \E c \in Conns : conn[s][c] = "active" THEN "select" ELSE "drained"
  <2>1. /\ conn' = [conn EXCEPT ![s] = slots]
        /\ drain' = [drain EXCEPT ![s] = next]
        /\ next # "expired" /\ drain[s] # "expired"
        /\ UNCHANGED <<pc, world, serve, errc, loop>>
        /\ \A c \in Conns : slots[c] # "free" => conn[s][c] # "free"
    BY <1>2 DEF ListenersGone, PollAgain, Poll
  <2> HIDE DEF slots, next
  <2>2. Overdue' = Overdue
    BY <2>1 DEF Overdue, RunInv, LifecycleInv, TypeOK
  <2> QED BY <2>1, <2>2, ConnImplements
<1>3. CASE GiveUp(s)
  <2>1. Overdue' = Overdue \cup {s}
    BY <1>3 DEF GiveUp, Overdue, RunInv, LifecycleInv, TypeOK
  <2>2. Listening = {}
    BY <1>3 DEF GiveUp, Listening, RunInv, LifecycleInv, Draining
  <2>3. pc = "wait"
    BY <1>3 DEF GiveUp, RunInv, LifecycleInv, TypeOK, Phases
  <2>4. Phase = "draining"
    BY <2>3 DEF Phase
  <2>5. UNCHANGED <<Phase, ctxDone, Listening, Stopped, FirstFault, Held, result, Culprit>>
    BY <1>3, <2>3, MapKept, FaultKept DEF GiveUp, world, Culprit
  <2> QED BY <2>1, <2>2, <2>4, <2>5 DEF RC!TimeUp
<1> QED BY <1>1, <1>2, <1>3 DEF DrainStep

LEMMA StepImplements ==
  ASSUME RunInv, RunInv', [Next]_vars PROVE [RC!RunNext]_(RC!runVars)
<1>1. CASE alive /\ RunStep
  BY <1>1, RunImplements DEF RC!RunNext
<1>2. CASE alive /\ GraceExpires
  BY <1>2, MapKept, FaultKept DEF GraceExpires, world, loop, RC!runVars
<1>3. CASE alive /\ (Cancel \/ Signal)
  BY <1>3, CancelImplements, SignalImplements DEF RC!RunNext
<1>4. ASSUME alive, NEW s \in Servers, DrainStep(s) \/ PollAgain(s) \/ Clients(s) \/ CallerClose(s)
      PROVE  [RC!RunNext]_(RC!runVars)
  BY <1>4, DrainImplements, ClientsImplement DEF RC!RunNext
<1>5. ASSUME alive, NEW s \in Servers, ServeStep(s) \/ AcceptFails(s)
      PROVE  [RC!RunNext]_(RC!runVars)
  <2>1. CASE Report(s)
    BY <1>5, <2>1, ReportImplements DEF RC!RunNext
  <2>2. PICK from \in {"starting", "binding", "bound", "accepting"},
             to \in {"closed", "binding", "bound", "failed", "accepting"} :
          \/ (from = "accepting" => to \in {"closed", "failed"}) /\ Serving(s, from, to)
          \/ Report(s)
    BY <1>5 DEF ServeStep, Check, Bind, Track, AcceptClosed, AcceptFails
  <2>3. CASE (from = "accepting" => to \in {"closed", "failed"}) /\ Serving(s, from, to)
    BY <1>5, <2>3, ServingImplements DEF RC!RunNext
  <2> QED BY <2>1, <2>2, <2>3
<1>6. CASE UNCHANGED vars
  BY <1>6, MapKept, FaultKept DEF vars, world, loop, RC!runVars
<1> QED BY <1>1, <1>2, <1>3, <1>4, <1>5, <1>6 DEF Next, Ended

\* runAll, with its goroutines, channel, polls and timer, does what Run promises,
\* for any number of servers and connections.
THEOREM Refinement == Spec => ImplementsRun
<1>1. RunInv /\ RunInv' /\ [Next]_vars => [RC!RunNext]_(RC!runVars)
  BY StepImplements
<1> QED BY <1>1, InitImplements, RunInvariance, PTL DEF Spec, RC!RunSpec, ImplementsRun
-----------------------------------------------------------------------------
(* runAll cannot hang.  TLC finds StopLeadsToReturn to hold for two        *)
(* servers; for any number of them, these are the three facts it rests on: *)
(* somebody who is scheduled can move until Run has returned (NeverStuck), *)
(* every such move uses up some of a finite amount of work that nothing    *)
(* adds to (Onward), and who can move can still move after any step that   *)
(* uses up nothing (Steady).                                               *)

\* The guards of RunStep, GraceExpires, ServeStep and DrainStep.
CanRun ==
  \/ pc \in {"init", "stop", "spawn"}
  \/ pc = "select" /\ (received < Len(errc) \/ ctxDone)
  \/ pc = "wait" /\ \A s \in Servers : drain[s] \in {"drained", "expired"}
  \/ /\ pc = "collect"
     /\ \/ received < Cardinality(Servers) /\ received < Len(errc)
        \/ received = Cardinality(Servers)

CanExpire ==
  /\ grace = "running" /\ \E s \in Servers : drain[s] = "select"
  /\ \A s \in Servers : drain[s] \notin {"begin", "listeners"}

CanServe(s) ==
  \/ serve[s] \in {"starting", "binding", "bound"}
  \/ serve[s] = "accepting" /\ s \in inShutdown
  \/ serve[s] \in {"closed", "failed"} /\ Len(errc) - received < Cardinality(Servers)

CanDrain(s) ==
  \/ drain[s] = "begin"
  \/ drain[s] = "listeners" /\ serve[s] # "accepting"
  \/ drain[s] = "select" /\ grace = "expired"

\* Whatever clients do, nobody waits for somebody who waits: the channel has
\* room for every report, the collecting loop only waits for goroutines whose
\* listener is closed, and Shutdown only for connections, under a timer.
NeverStuck ==
  (alive /\ StopRequested /\ pc # "returned") =>
    CanRun \/ CanExpire \/ \E s \in Servers : CanServe(s) \/ CanDrain(s)

\* How far runAll, the timer and each goroutine are from their end, and how many
\* reports runAll has yet to take.
RunLeft ==
  CASE pc = "init" -> 6 [] pc = "select" -> 5 [] pc = "stop" -> 4 [] pc = "spawn" -> 3
    [] pc = "wait" -> 2 [] pc = "collect" -> 1 [] pc = "returned" -> 0

GraceLeft == CASE grace = "off" -> 2 [] grace = "running" -> 1 [] grace = "expired" -> 0

ReportsLeft == Cardinality(Servers) - received

ServeLeft(s) ==
  CASE serve[s] = "unborn" -> 6 [] serve[s] = "starting" -> 5 [] serve[s] = "binding" -> 4
    [] serve[s] = "bound" -> 3 [] serve[s] = "accepting" -> 2
    [] serve[s] \in {"closed", "failed"} -> 1 [] serve[s] = "sent" -> 0

DrainLeft(s) ==
  CASE drain[s] = "none" -> 4 [] drain[s] = "begin" -> 3 [] drain[s] = "listeners" -> 2
    [] drain[s] = "select" -> 1 [] drain[s] \in {"drained", "expired"} -> 0

Finite ==
  /\ RunLeft \in Nat /\ GraceLeft \in Nat /\ ReportsLeft \in Nat
  /\ \A s \in Servers : ServeLeft(s) \in Nat /\ DrainLeft(s) \in Nat

NoneGrows ==
  /\ RunLeft' <= RunLeft /\ GraceLeft' <= GraceLeft /\ ReportsLeft' <= ReportsLeft
  /\ \A s \in Servers : ServeLeft(s)' <= ServeLeft(s) /\ DrainLeft(s)' <= DrainLeft(s)

SomeShrinks ==
  \/ RunLeft' < RunLeft \/ GraceLeft' < GraceLeft \/ ReportsLeft' < ReportsLeft
  \/ \E s \in Servers : ServeLeft(s)' < ServeLeft(s) \/ DrainLeft(s)' < DrainLeft(s)

Scheduled == RunStep \/ GraceExpires \/ \E s \in Servers : ServeStep(s) \/ DrainStep(s)

Onward == NoneGrows /\ (Scheduled => SomeShrinks)

Steady ==
  (alive' /\ ~SomeShrinks) =>
    /\ CanRun => CanRun'
    /\ CanExpire => CanExpire'
    /\ \A s \in Servers : (CanServe(s) => CanServe(s)') /\ (CanDrain(s) => CanDrain(s)')

\* The channel has room for a goroutine that has not reported.
LEMMA RoomToReport ==
  ASSUME LifecycleInv, NEW s \in Servers, serve[s] # "sent"
  PROVE  Len(errc) < Cardinality(Servers) /\ received \in Nat /\ Len(errc) \in Nat
<1>1. SentBy # Servers
  BY DEF SentBy
<1>2. Len(errc) = Cardinality(SentBy) /\ received \in Nat /\ Len(errc) \in Nat
  BY DEF LifecycleInv, OneReportEach, TypeOK
<1> QED BY <1>1, <1>2, Sizes

\* Until Run has returned some goroutine, or the timer, can move.
THEOREM DrainNeverHangs == Spec => []NeverStuck
<1>1. RunInv => NeverStuck
  <2> SUFFICES ASSUME RunInv, alive, StopRequested, pc # "returned"
               PROVE  CanRun \/ CanExpire \/ \E s \in Servers : CanServe(s) \/ CanDrain(s)
    BY DEF NeverStuck
  <2>0. TypeOK /\ received \in Nat /\ Len(errc) \in Nat /\ received <= Len(errc)
    BY DEF RunInv, LifecycleInv, TypeOK
  <2>1. CASE pc \in {"init", "stop", "spawn"}
    BY <2>1 DEF CanRun
  <2>2. CASE pc = "select"
    <3>1. CASE ctxDone
      BY <2>2, <3>1 DEF CanRun
    <3>2. ASSUME NEW s \in Servers, serve[s] \in {"closed", "failed"} PROVE CanServe(s)
      <4>1. Len(errc) - received < Cardinality(Servers)
        BY <3>2, <2>0, RoomToReport, Sizes DEF RunInv
      <4> QED BY <3>2, <4>1 DEF CanServe
    <3>3. ASSUME NEW s \in Servers, serve[s] = "sent" PROVE CanRun
      <4>1. Cardinality(SentBy) # 0
        BY <3>3, Sizes, FS_EmptySet DEF SentBy
      <4>2. received < Len(errc)
        BY <2>0, <2>2, <4>1 DEF RunInv, LifecycleInv, OneReportEach, Phases
      <4> QED BY <2>2, <4>2 DEF CanRun
    <3> QED BY <3>1, <3>2, <3>3 DEF StopRequested
  <2>3. CASE pc = "wait"
    <3>1. ASSUME NEW s \in Servers, drain[s] = "listeners" PROVE CanServe(s) \/ CanDrain(s)
      BY <3>1 DEF CanServe, CanDrain, RunInv, LifecycleInv, Draining
    <3>2. grace \in {"running", "expired"}
      BY <2>0, <2>3 DEF RunInv, Underway, TypeOK
    <3>3. ASSUME NEW s \in Servers, drain[s] = "select",
                 \A t \in Servers : drain[t] \notin {"begin", "listeners"}
          PROVE  CanExpire \/ CanDrain(s)
      BY <3>2, <3>3 DEF CanExpire, CanDrain
    <3>4. \A s \in Servers : drain[s] \in {"begin", "listeners", "select", "drained", "expired"}
      BY <2>0, <2>3 DEF RunInv, LifecycleInv, Phases, TypeOK
    <3> QED BY <2>3, <3>1, <3>3, <3>4 DEF CanRun, CanDrain
  <2>4. CASE pc = "collect"
    <3>1. CASE received < Len(errc)
      <4>1. Len(errc) <= Cardinality(Servers) /\ Cardinality(Servers) \in Nat
        BY Sizes DEF RunInv, LifecycleInv, OneReportEach
      <4> QED BY <2>0, <2>4, <3>1, <4>1 DEF CanRun
    <3>2. CASE received = Len(errc) /\ SentBy = Servers
      BY <2>4, <3>2 DEF CanRun, RunInv, LifecycleInv, OneReportEach
    <3>3. CASE received = Len(errc) /\ SentBy # Servers
      <4>1. PICK s \in Servers : serve[s] # "sent"
        BY <3>3 DEF SentBy
      <4>2. serve[s] # "unborn" /\ serve[s] # "accepting"
        BY <2>4 DEF RunInv, LifecycleInv, Underway, Phases, Draining
      <4>3. Len(errc) - received < Cardinality(Servers)
        BY <2>0, <3>3, <4>1, RoomToReport, Sizes DEF RunInv
      <4>4. serve[s] \in {"starting", "binding", "bound", "closed", "failed"}
        BY <2>0, <4>1, <4>2 DEF TypeOK
      <4> QED BY <4>3, <4>4 DEF CanServe
    <3> QED BY <2>0, <3>1, <3>2, <3>3
  <2> QED BY <2>0, <2>1, <2>2, <2>3, <2>4 DEF TypeOK
<1> QED BY <1>1, RunInvariance, PTL

LEMMA WorkIsFinite == LifecycleInv => Finite
<1> SUFFICES ASSUME LifecycleInv PROVE Finite
  OBVIOUS
<1>1. TypeOK /\ received \in Nat /\ Len(errc) \in Nat /\ received <= Len(errc)
  BY DEF LifecycleInv, TypeOK
<1>2. RunLeft \in Nat /\ GraceLeft \in Nat
  BY <1>1 DEF TypeOK, RunLeft, GraceLeft
<1>3. ReportsLeft \in Nat
  <2>1. Len(errc) <= Cardinality(Servers) /\ Cardinality(Servers) \in Nat
    BY Sizes DEF LifecycleInv, OneReportEach
  <2> QED BY <1>1, <2>1 DEF ReportsLeft
<1>4. ASSUME NEW s \in Servers PROVE ServeLeft(s) \in Nat /\ DrainLeft(s) \in Nat
  BY <1>1 DEF TypeOK, ServeLeft, DrainLeft
<1> QED BY <1>2, <1>3, <1>4 DEF Finite

LEMMA WorkKept ==
  ASSUME Finite
  PROVE  /\ UNCHANGED pc => RunLeft' <= RunLeft
         /\ UNCHANGED grace => GraceLeft' <= GraceLeft
         /\ UNCHANGED received => ReportsLeft' <= ReportsLeft
         /\ UNCHANGED serve => \A s \in Servers : ServeLeft(s)' <= ServeLeft(s)
         /\ UNCHANGED drain => \A s \in Servers : DrainLeft(s)' <= DrainLeft(s)
<1>1. ASSUME UNCHANGED pc PROVE RunLeft' <= RunLeft
  <2>1. RunLeft' = RunLeft
    BY <1>1 DEF RunLeft
  <2> QED BY <2>1 DEF Finite
<1>2. ASSUME UNCHANGED grace PROVE GraceLeft' <= GraceLeft
  <2>1. GraceLeft' = GraceLeft
    BY <1>2 DEF GraceLeft
  <2> QED BY <2>1 DEF Finite
<1>3. ASSUME UNCHANGED received PROVE ReportsLeft' <= ReportsLeft
  <2>1. ReportsLeft' = ReportsLeft
    BY <1>3 DEF ReportsLeft
  <2> QED BY <2>1 DEF Finite
<1>4. ASSUME UNCHANGED serve, NEW s \in Servers PROVE ServeLeft(s)' <= ServeLeft(s)
  <2>1. ServeLeft(s)' = ServeLeft(s)
    BY <1>4 DEF ServeLeft
  <2> QED BY <2>1 DEF Finite
<1>5. ASSUME UNCHANGED drain, NEW s \in Servers PROVE DrainLeft(s)' <= DrainLeft(s)
  <2>1. DrainLeft(s)' = DrainLeft(s)
    BY <1>5 DEF DrainLeft
  <2> QED BY <2>1 DEF Finite
<1> QED BY <1>1, <1>2, <1>3, <1>4, <1>5

LEMMA RunShrinks == ASSUME LifecycleInv, RunStep PROVE NoneGrows /\ SomeShrinks
<1>0. Finite /\ received \in Nat /\ Cardinality(Servers) \in Nat
  BY WorkIsFinite, Sizes DEF LifecycleInv, TypeOK
<1>1. CASE Start
  <2>1. RunLeft' < RunLeft /\ RunLeft' <= RunLeft
    BY <1>1 DEF Start, RunLeft
  <2>2. ASSUME NEW s \in Servers PROVE ServeLeft(s)' <= ServeLeft(s)
    <3>1. serve[s] = "unborn" /\ serve'[s] = "starting"
      BY <1>1 DEF Start, LifecycleInv, Phases
    <3> QED BY <3>1 DEF ServeLeft
  <2>8. grace' = grace /\ received' = received /\ drain' = drain
    BY <1>1 DEF Start, loop
  <2> QED BY <1>0, <2>8, <2>1, <2>2, WorkKept, Zenon DEF NoneGrows, SomeShrinks
<1>2. CASE TakeFirst
  <2>1. RunLeft' < RunLeft /\ RunLeft' <= RunLeft
    BY <1>2 DEF TakeFirst, RunLeft
  <2>2. ReportsLeft' <= ReportsLeft
    BY <1>0, <1>2 DEF TakeFirst, ReportsLeft
  <2>8. grace' = grace /\ serve' = serve /\ drain' = drain
    BY <1>2 DEF TakeFirst
  <2> QED BY <1>0, <2>8, <2>1, <2>2, WorkKept, Zenon DEF NoneGrows, SomeShrinks
<1>3. CASE SeeCancelled \/ Joined \/ Return
  <2>1. RunLeft' < RunLeft /\ RunLeft' <= RunLeft
    BY <1>3 DEF SeeCancelled, Joined, Return, RunLeft
  <2>8. grace' = grace /\ received' = received /\ serve' = serve /\ drain' = drain
    BY <1>3 DEF SeeCancelled, Joined, Return, loop
  <2> QED BY <1>0, <2>8, <2>1, WorkKept, Zenon DEF NoneGrows, SomeShrinks
<1>4. CASE RestoreSignals
  <2>1. RunLeft' < RunLeft /\ RunLeft' <= RunLeft
    BY <1>4 DEF RestoreSignals, RunLeft
  <2>2. GraceLeft' <= GraceLeft
    <3>1. grace \in {"off", "running"} /\ grace' = "running"
      BY <1>4, ServersAssumption
         DEF RestoreSignals, LifecycleInv, TypeOK, Phases, Draining
    <3> QED BY <3>1 DEF GraceLeft
  <2>8. received' = received /\ serve' = serve /\ drain' = drain
    BY <1>4 DEF RestoreSignals, loop
  <2> QED BY <1>0, <2>8, <2>1, <2>2, WorkKept, Zenon DEF NoneGrows, SomeShrinks
<1>5. CASE Spawn
  <2>1. RunLeft' < RunLeft /\ RunLeft' <= RunLeft
    BY <1>5 DEF Spawn, RunLeft
  <2>2. ASSUME NEW s \in Servers PROVE DrainLeft(s)' <= DrainLeft(s)
    <3>1. drain[s] = "none" /\ drain'[s] = "begin"
      BY <1>5 DEF Spawn, LifecycleInv, Phases
    <3> QED BY <3>1 DEF DrainLeft
  <2>8. grace' = grace /\ received' = received /\ serve' = serve
    BY <1>5 DEF Spawn, loop
  <2> QED BY <1>0, <2>8, <2>1, <2>2, WorkKept, Zenon DEF NoneGrows, SomeShrinks
<1>6. CASE Collect
  <2>1. ReportsLeft' < ReportsLeft
    BY <1>0, <1>6 DEF Collect, ReportsLeft
  <2>2. ReportsLeft' <= ReportsLeft
    BY <1>0, <1>6 DEF Collect, ReportsLeft
  <2>8. pc' = pc /\ grace' = grace /\ serve' = serve /\ drain' = drain
    BY <1>6 DEF Collect
  <2> QED BY <1>0, <2>8, <2>1, <2>2, WorkKept, Zenon DEF NoneGrows, SomeShrinks
<1> QED BY <1>1, <1>2, <1>3, <1>4, <1>5, <1>6 DEF RunStep

\* A goroutine that moves on moves closer to its end.
LEMMA ServeShrinks ==
  ASSUME LifecycleInv, NEW s \in Servers, ServeStep(s) \/ AcceptFails(s)
  PROVE  NoneGrows /\ SomeShrinks
<1>0. Finite /\ serve \in [Servers -> {"unborn", "starting", "binding", "bound",
                                       "accepting", "closed", "failed", "sent"}]
  BY WorkIsFinite DEF LifecycleInv, TypeOK
<1>1. UNCHANGED <<pc, grace, received, drain>>
  BY DEF ServeStep, Check, Bind, Track, AcceptClosed, AcceptFails, Report, Serving, loop
<1>2. PICK to \in {"binding", "bound", "accepting", "closed", "failed", "sent"} :
        /\ serve' = [serve EXCEPT ![s] = to]
        /\ \/ serve[s] = "starting" /\ to \in {"closed", "binding"}
           \/ serve[s] = "binding" /\ to \in {"bound", "failed"}
           \/ serve[s] = "bound" /\ to \in {"closed", "accepting"}
           \/ serve[s] = "accepting" /\ to \in {"closed", "failed"}
           \/ serve[s] \in {"closed", "failed"} /\ to = "sent"
  BY DEF ServeStep, Check, Bind, Track, AcceptClosed, AcceptFails, Report, Serving
<1>3. ServeLeft(s)' < ServeLeft(s)
  BY <1>0, <1>2 DEF ServeLeft
<1>4. ASSUME NEW t \in Servers PROVE ServeLeft(t)' <= ServeLeft(t)
  <2>1. CASE t # s
    <3>1. ServeLeft(t)' = ServeLeft(t)
      BY <1>0, <1>2, <2>1 DEF ServeLeft
    <3> QED BY <1>0, <3>1 DEF Finite
  <2>2. CASE t = s
    BY <1>0, <1>2, <2>2 DEF ServeLeft
  <2> QED BY <2>1, <2>2
<1> QED BY <1>0, <1>1, <1>3, <1>4, WorkKept DEF Finite, NoneGrows, SomeShrinks

LEMMA DrainShrinks ==
  ASSUME LifecycleInv, NEW s \in Servers, DrainStep(s) \/ PollAgain(s)
  PROVE  NoneGrows /\ (DrainStep(s) \/ drain' # drain => SomeShrinks)
<1>0. Finite /\ drain \in [Servers -> {"none", "begin", "listeners", "select",
                                       "drained", "expired"}]
  BY WorkIsFinite DEF LifecycleInv, TypeOK
<1>1. UNCHANGED <<pc, grace, received, serve>>
  BY DEF DrainStep, BeginShutdown, ListenersGone, PollAgain, GiveUp, Poll, loop
<1>2. PICK to \in {"listeners", "select", "drained", "expired"} :
        /\ drain' = [drain EXCEPT ![s] = to]
        /\ \/ drain[s] = "begin" /\ to = "listeners"
           \/ drain[s] = "listeners" /\ to \in {"select", "drained"}
           \/ drain[s] = "select" /\ to = "expired"
           \/ PollAgain(s) /\ drain[s] = "select" /\ to \in {"select", "drained"}
  BY DEF DrainStep, BeginShutdown, ListenersGone, PollAgain, GiveUp, Poll
<1>3. DrainLeft(s)' <= DrainLeft(s) /\ (to # drain[s] => DrainLeft(s)' < DrainLeft(s))
  BY <1>0, <1>2 DEF DrainLeft
<1>4. DrainStep(s) \/ drain' # drain => to # drain[s]
  BY <1>0, <1>2 DEF DrainStep, BeginShutdown, ListenersGone, GiveUp, Poll
<1>5. ASSUME NEW t \in Servers, t # s PROVE DrainLeft(t)' = DrainLeft(t)
  BY <1>0, <1>2, <1>5 DEF DrainLeft
<1> QED BY <1>0, <1>1, <1>3, <1>4, <1>5, WorkKept DEF Finite, NoneGrows, SomeShrinks

LEMMA GraceShrinks == ASSUME LifecycleInv, GraceExpires PROVE NoneGrows /\ SomeShrinks
<1>1. GraceLeft' < GraceLeft /\ GraceLeft' <= GraceLeft
  BY DEF GraceExpires, GraceLeft
<1>2. pc' = pc /\ received' = received /\ serve' = serve /\ drain' = drain
  BY DEF GraceExpires, loop
<1> QED BY <1>1, <1>2, WorkIsFinite, WorkKept, Zenon DEF NoneGrows, SomeShrinks

\* Everybody else leaves the work alone, and takes no move from anybody.
LEMMA WorldKeeps ==
  ASSUME Finite, UNCHANGED <<pc, serve, drain, grace, received>>
  PROVE  NoneGrows
  BY WorkKept, Zenon DEF NoneGrows

LEMMA MovesKept ==
  ASSUME UNCHANGED <<pc, serve, drain, grace, errc, received>>,
         ctxDone => ctxDone', inShutdown \subseteq inShutdown'
  PROVE  Steady
<1>1. CanRun => CanRun'
  BY DEF CanRun
<1>2. CanExpire => CanExpire'
  BY DEF CanExpire
<1>3. ASSUME NEW s \in Servers
      PROVE  (CanServe(s) => CanServe(s)') /\ (CanDrain(s) => CanDrain(s)')
  BY DEF CanServe, CanDrain
<1> QED BY <1>1, <1>2, <1>3, Zenon DEF Steady

\* The steps of the world, and a poll that finds what it found before.
LEMMA OtherSteps ==
  ASSUME LifecycleInv,
         \/ Cancel \/ Signal \/ UNCHANGED vars
         \/ \E s \in Servers :
              \/ Clients(s) \/ CallerClose(s)
              \/ PollAgain(s) /\ drain' = drain
  PROVE  NoneGrows /\ Steady
<1>1. /\ UNCHANGED <<pc, serve, drain, grace, errc, received>>
      /\ ctxDone => ctxDone'
      /\ inShutdown \subseteq inShutdown'
  BY DEF Cancel, Signal, vars, world, loop, Clients, Connect, Request, Finish, HangUp,
         SetConn, CallerClose, PollAgain, Poll
<1> QED BY <1>1, WorkIsFinite, WorldKeeps, MovesKept

LEMMA StepOnward ==
  ASSUME LifecycleInv, [Next]_vars PROVE Onward /\ Steady
<1>1. Scheduled => NoneGrows /\ SomeShrinks
  BY RunShrinks, GraceShrinks, ServeShrinks, DrainShrinks DEF Scheduled
<1>2. CASE Scheduled
  BY <1>1, <1>2 DEF Onward, Steady
<1>3. ASSUME NEW s \in Servers, AcceptFails(s) PROVE NoneGrows /\ Steady
  BY <1>3, ServeShrinks DEF Steady
<1>4. ASSUME NEW s \in Servers, PollAgain(s) PROVE NoneGrows /\ Steady
  <2>1. NoneGrows /\ (drain' # drain => SomeShrinks)
    BY <1>4, DrainShrinks
  <2>2. drain' = drain => Steady
    BY <1>4, OtherSteps
  <2> QED BY <2>1, <2>2 DEF Steady
<1>5. CASE Cancel \/ Signal \/ UNCHANGED vars
  BY <1>1, <1>5, OtherSteps DEF Onward
<1>6. ASSUME NEW s \in Servers, Clients(s) \/ CallerClose(s) PROVE NoneGrows /\ Steady
  BY <1>6, OtherSteps
<1> QED BY <1>1, <1>2, <1>3, <1>4, <1>5, <1>6 DEF Next, Ended, Scheduled, Onward

\* No step adds to the work that is left, which is finite, and every step of a
\* goroutine or of the timer, a poll that found its connections busy aside, does
\* some of it: polling and clients cannot keep runAll going for ever.
THEOREM WorkRunsOut == Spec => []Finite /\ [][Onward]_vars
<1>1. LifecycleInv => Finite
  BY WorkIsFinite
<1>2. LifecycleInv /\ [Next]_vars => [Onward]_vars
  BY StepOnward
<1> QED BY <1>1, <1>2, Invariance, PTL DEF Spec

\* Whoever can move stays able to move until some work is done or the process is
\* killed, so fairness to each goroutine is fairness enough.
THEOREM MovesStayPossible == Spec => [][Steady]_vars
<1>1. LifecycleInv /\ [Next]_vars => [Steady]_vars
  BY StepOnward
<1> QED BY <1>1, Invariance, PTL DEF Spec
=============================================================================
