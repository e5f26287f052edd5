------------------------------ MODULE Lifecycle ------------------------------
(***************************************************************************)
(* runAll of src/lifecycle.go, the one implementation behind Run and       *)
(* RunTLS: start every server, wait for the first reason to stop, drain    *)
(* every server inside one shared budget, collect what the serve           *)
(* goroutines report and choose the error to return.                       *)
(*                                                                         *)
(* The actors are runAll itself (pc), one serve goroutine per server       *)
(* (serve), one Shutdown goroutine per server (drain), the budget's timer  *)
(* (grace), and the world: callers, signals and clients.  net/http is not  *)
(* in the repository; Check, Bind, Track, Accept..., BeginShutdown,        *)
(* ListenersGone, PollAgain and GiveUp model what runAll relies on in it.  *)
(*                                                                         *)
(* An operator whose name starts with M is a faulty variant of the         *)
(* definition after it; nothing uses it but the mutants of PROJECT.json.   *)
(***************************************************************************)
EXTENDS Naturals, Sequences, FiniteSets

CONSTANTS Servers,   \* the servers handed to runAll
          Conns,     \* connection slots of each server
          None       \* the nil error

ASSUME ServersAssumption == IsFiniteSet(Servers) /\ Servers # {}
ASSUME NoneAssumption == None \notin Servers

VARIABLES
  pc,           \* runAll: init, select, stop, spawn, wait, collect, returned
  alive,        \* FALSE once a signal met the default disposition
  ctxDone,      \* Done of the context NotifyContext derived is closed
  sigHandler,   \* what SIGINT and SIGTERM do: "default" or "notify"
  serve,        \* where each serve goroutine is
  inShutdown,   \* servers whose shutting-down flag is set
  conn,         \* conn[s][c]: free, idle, or active (anything not idle)
  drain,        \* where each server's Shutdown goroutine is
  grace,        \* shutdownCtx: off, running, expired
  errc,         \* everything sent on errc, in order: None or the server at fault
  received,     \* how much of errc runAll has taken
  serveErr, shutdownErr,
  result        \* what runAll returned: none (not yet), nil, serve, shutdown

world == <<alive, ctxDone, sigHandler>>
loop  == <<received, serveErr, shutdownErr, result>>
vars  == <<pc, world, serve, inShutdown, conn, drain, grace, errc, loop>>

TypeOK ==
  /\ pc \in {"init", "select", "stop", "spawn", "wait", "collect", "returned"}
  /\ alive \in BOOLEAN /\ ctxDone \in BOOLEAN
  /\ sigHandler \in {"default", "notify"}
  /\ serve \in [Servers -> {"unborn", "starting", "binding", "bound",
                            "accepting", "closed", "failed", "sent"}]
  /\ inShutdown \subseteq Servers
  /\ conn \in [Servers -> [Conns -> {"free", "idle", "active"}]]
  /\ drain \in [Servers -> {"none", "begin", "listeners", "select",
                            "drained", "expired"}]
  /\ grace \in {"off", "running", "expired"}
  /\ errc \in Seq(Servers \cup {None})
  /\ received \in 0 .. Len(errc)
  /\ serveErr \in Servers \cup {None}
  /\ shutdownErr \in Servers \cup {None}
  /\ result \in {"none", "nil", "serve", "shutdown"}

Init ==
  /\ pc = "init" /\ alive = TRUE /\ ctxDone = FALSE /\ sigHandler = "default"
  /\ serve = [s \in Servers |-> "unborn"]
  /\ inShutdown = {}
  /\ conn = [s \in Servers |-> [c \in Conns |-> "free"]]
  /\ drain = [s \in Servers |-> "none"]
  /\ grace = "off"
  /\ errc = <<>> /\ received = 0
  /\ serveErr = None /\ shutdownErr = None /\ result = "none"

-----------------------------------------------------------------------------
(* The world.                                                              *)

\* The caller cancels the context it passed in.
Cancel ==
  /\ ctxDone' = TRUE
  /\ UNCHANGED <<pc, alive, sigHandler, serve, inShutdown, conn, drain, grace,
                 errc, loop>>

\* SIGINT or SIGTERM: caught while NotifyContext is registered, fatal after.
Signal ==
  /\ IF sigHandler = "notify"
       THEN ctxDone' = TRUE /\ UNCHANGED alive
       ELSE alive' = FALSE /\ UNCHANGED ctxDone
  /\ UNCHANGED <<pc, sigHandler, serve, inShutdown, conn, drain, grace, errc,
                 loop>>

\* The caller closes one server by itself: listeners and connections go.
CallerClose(s) ==
  /\ pc # "init" /\ s \notin inShutdown
  /\ inShutdown' = inShutdown \cup {s}
  /\ conn' = [conn EXCEPT ![s] = [c \in Conns |-> "free"]]
  /\ UNCHANGED <<pc, world, serve, drain, grace, errc, loop>>

SetConn(s, c, from, to) ==
  /\ conn[s][c] \in from
  /\ conn' = [conn EXCEPT ![s][c] = to]
  /\ UNCHANGED <<pc, world, serve, inShutdown, drain, grace, errc, loop>>

\* A client connects.  Accept may hand over a connection whose Serve loop has
\* not seen the closed listener yet, so the shutting-down flag is no guard.
Connect(s, c) == serve[s] = "accepting" /\ SetConn(s, c, {"free"}, "active")

\* A request arrives on a kept-alive connection.
Request(s, c) == SetConn(s, c, {"idle"}, "active")

\* A response ends: the connection is kept alive unless the server is closing.
Finish(s, c) ==
  SetConn(s, c, {"active"}, IF s \in inShutdown THEN "free" ELSE "idle")

\* The client hangs up.
HangUp(s, c) == SetConn(s, c, {"idle", "active"}, "free")

-----------------------------------------------------------------------------
(* The serve goroutine of a server: ListenAndServe(TLS), then errc <- err. *)

Serving(s, from, to) ==
  /\ serve[s] = from
  /\ serve' = [serve EXCEPT ![s] = to]
  /\ UNCHANGED <<pc, world, inShutdown, conn, drain, grace, errc, loop>>

\* ListenAndServe refuses to start on a server already shutting down.
Check(s) ==
  Serving(s, "starting", IF s \in inShutdown THEN "closed" ELSE "binding")

\* net.Listen (and, with TLS, loading the certificate) succeeds or fails.
Bind(s) == Serving(s, "binding", "bound") \/ Serving(s, "binding", "failed")

\* Serve registers the listener, unless Shutdown came first.
Track(s) ==
  Serving(s, "bound", IF s \in inShutdown THEN "closed" ELSE "accepting")

\* The listener was closed by Shutdown or Close.
AcceptClosed(s) == s \in inShutdown /\ Serving(s, "accepting", "closed")

\* Accept fails for good with the server still up.
AcceptFails(s) == s \notin inShutdown /\ Serving(s, "accepting", "failed")

\* http.ErrServerClosed becomes nil; the result goes to errc, which has room
\* for one result per server.
Report(s) ==
  /\ serve[s] \in {"closed", "failed"}
  /\ Len(errc) - received < Cardinality(Servers)
  /\ errc' = Append(errc, IF serve[s] = "closed" THEN None ELSE s)
  /\ serve' = [serve EXCEPT ![s] = "sent"]
  /\ UNCHANGED <<pc, world, inShutdown, conn, drain, grace, loop>>

-----------------------------------------------------------------------------
(* runAll.                                                                 *)

\* Install the signal handler and start every serve goroutine.
Start ==
  /\ pc = "init" /\ pc' = "select"
  /\ sigHandler' = "notify"
  /\ serve' = [s \in Servers |-> "starting"]
  /\ UNCHANGED <<alive, ctxDone, inShutdown, conn, drain, grace, errc, loop>>

\* select, case serveErr = <-errc: a listener stopped on its own.
TakeFirst ==
  /\ pc = "select" /\ received < Len(errc)
  /\ pc' = "stop"
  /\ received' = received + 1
  /\ serveErr' = errc[received + 1]
  /\ UNCHANGED <<world, serve, inShutdown, conn, drain, grace, errc,
                 shutdownErr, result>>

\* select, case <-ctx.Done(): nothing was received, so nothing is counted.
MCountsCancel ==
  /\ pc = "select" /\ ctxDone
  /\ pc' = "stop"
  /\ received' = received + 1
  /\ UNCHANGED <<world, serve, inShutdown, conn, drain, grace, errc,
                 serveErr, shutdownErr, result>>

SeeCancelled ==
  /\ pc = "select" /\ ctxDone
  /\ pc' = "stop"
  /\ UNCHANGED <<world, serve, inShutdown, conn, drain, grace, errc, loop>>

\* stop(): signals kill again, and the derived context is cancelled.  Then
\* the drain's own context starts its timer.
MKeepsHandler ==
  /\ pc = "stop" /\ pc' = "spawn"
  /\ ctxDone' = TRUE
  /\ grace' = "running"
  /\ UNCHANGED <<alive, sigHandler, serve, inShutdown, conn, drain, errc, loop>>

MNoTimer ==
  /\ pc = "stop" /\ pc' = "spawn"
  /\ sigHandler' = "default" /\ ctxDone' = TRUE
  /\ UNCHANGED <<alive, serve, inShutdown, conn, drain, grace, errc, loop>>

RestoreSignals ==
  /\ pc = "stop" /\ pc' = "spawn"
  /\ sigHandler' = "default" /\ ctxDone' = TRUE
  /\ grace' = "running"
  /\ UNCHANGED <<alive, serve, inShutdown, conn, drain, errc, loop>>

\* One Shutdown goroutine per server, all at once.
MSpawnOneByOne ==
  /\ pc = "spawn"
  /\ \E s \in Servers :
       /\ drain[s] = "none"
       /\ \A t \in Servers : drain[t] \in {"none", "drained", "expired"}
       /\ drain' = [drain EXCEPT ![s] = "begin"]
       /\ pc' = IF \E t \in Servers \ {s} : drain[t] = "none" THEN "spawn" ELSE "wait"
  /\ UNCHANGED <<world, serve, inShutdown, conn, grace, errc, loop>>

MSpawnAccepting ==
  /\ pc = "spawn" /\ pc' = "wait"
  /\ drain' = [s \in Servers |-> IF serve[s] = "accepting" THEN "begin" ELSE "drained"]
  /\ UNCHANGED <<world, serve, inShutdown, conn, grace, errc, loop>>

Spawn ==
  /\ pc = "spawn" /\ pc' = "wait"
  /\ drain' = [s \in Servers |-> "begin"]
  /\ UNCHANGED <<world, serve, inShutdown, conn, grace, errc, loop>>

\* wg.Wait().
Joined ==
  /\ pc = "wait" /\ pc' = "collect"
  /\ \A s \in Servers : drain[s] \in {"drained", "expired"}
  /\ UNCHANGED <<world, serve, inShutdown, conn, drain, grace, errc, loop>>

\* The collecting loop: the first error received wins.
MLastErrorWins ==
  /\ pc = "collect" /\ received < Cardinality(Servers) /\ received < Len(errc)
  /\ received' = received + 1
  /\ serveErr' = IF errc[received + 1] # None THEN errc[received + 1] ELSE serveErr
  /\ UNCHANGED <<pc, world, serve, inShutdown, conn, drain, grace, errc,
                 shutdownErr, result>>

Collect ==
  /\ pc = "collect" /\ received < Cardinality(Servers) /\ received < Len(errc)
  /\ received' = received + 1
  /\ serveErr' = IF serveErr = None THEN errc[received + 1] ELSE serveErr
  /\ UNCHANGED <<pc, world, serve, inShutdown, conn, drain, grace, errc,
                 shutdownErr, result>>

\* A listener's own error matters more than the drain's; defer stop().  The
\* faulty variant does not wait for the others once it has an error.
MReturnsEarly ==
  /\ pc = "collect" /\ (received = Cardinality(Servers) \/ serveErr # None)
  /\ pc' = "returned"
  /\ result' = IF serveErr # None THEN "serve"
               ELSE IF shutdownErr # None THEN "shutdown" ELSE "nil"
  /\ UNCHANGED <<world, serve, inShutdown, conn, drain, grace, errc, received,
                 serveErr, shutdownErr>>

Return ==
  /\ pc = "collect" /\ received = Cardinality(Servers)
  /\ pc' = "returned"
  /\ result' = IF serveErr # None THEN "serve"
               ELSE IF shutdownErr # None THEN "shutdown" ELSE "nil"
  /\ UNCHANGED <<world, serve, inShutdown, conn, drain, grace, errc, received,
                 serveErr, shutdownErr>>

-----------------------------------------------------------------------------
(* The Shutdown goroutines and the budget they share.                      *)

\* Shutdown sets the flag and closes the listeners.
BeginShutdown(s) ==
  /\ drain[s] = "begin"
  /\ drain' = [drain EXCEPT ![s] = "listeners"]
  /\ inShutdown' = inShutdown \cup {s}
  /\ UNCHANGED <<pc, world, serve, conn, grace, errc, loop>>

\* One round of closing idle connections: the server is drained when nothing
\* else was open, and otherwise waits for its ticker or the budget.
Poll(s) ==
  /\ conn' = [conn EXCEPT ![s] = [c \in Conns |->
                IF conn[s][c] = "idle" THEN "free" ELSE conn[s][c]]]
  /\ drain' = [drain EXCEPT ![s] =
                IF \E c \in Conns : conn[s][c] = "active" THEN "select" ELSE "drained"]
  /\ UNCHANGED <<pc, world, serve, inShutdown, grace, errc, loop>>

\* Shutdown waits for the Serve loop to leave, then polls for the first time.
ListenersGone(s) == drain[s] = "listeners" /\ serve[s] # "accepting" /\ Poll(s)

\* The ticker fires.
PollAgain(s) == drain[s] = "select" /\ Poll(s)

\* The budget is over: Shutdown returns its context's error, and the first
\* one is kept.  Connections are left alone: runAll never calls Close.
MDropsError(s) ==
  /\ drain[s] = "select" /\ grace = "expired"
  /\ drain' = [drain EXCEPT ![s] = "expired"]
  /\ UNCHANGED <<pc, world, serve, inShutdown, conn, grace, errc, loop>>

GiveUp(s) ==
  /\ drain[s] = "select" /\ grace = "expired"
  /\ drain' = [drain EXCEPT ![s] = "expired"]
  /\ shutdownErr' = IF shutdownErr = None THEN s ELSE shutdownErr
  /\ UNCHANGED <<pc, world, serve, inShutdown, conn, grace, errc, received,
                 serveErr, result>>

\* Ten seconds pass while some drain waits for a connection.  TIMING
\* ASSUMPTION: they are long enough for a Shutdown goroutine that only waits
\* for the scheduler to reach its ticker.
GraceExpires ==
  /\ grace = "running"
  /\ \E s \in Servers : drain[s] = "select"
  /\ \A s \in Servers : drain[s] \notin {"begin", "listeners"}
  /\ grace' = "expired"
  /\ UNCHANGED <<pc, world, serve, inShutdown, conn, drain, errc, loop>>

-----------------------------------------------------------------------------
Clients(s) ==
  \E c \in Conns : Connect(s, c) \/ Request(s, c) \/ Finish(s, c) \/ HangUp(s, c)

ServeStep(s) == Check(s) \/ Bind(s) \/ Track(s) \/ AcceptClosed(s) \/ Report(s)

DrainStep(s) == BeginShutdown(s) \/ ListenersGone(s) \/ GiveUp(s)

RunStep ==
  \/ Start \/ TakeFirst \/ SeeCancelled \/ RestoreSignals \/ Spawn
  \/ Joined \/ Collect \/ Return

\* The process is gone, or runAll has returned to its caller.
Ended == (~alive \/ pc = "returned") /\ UNCHANGED vars

Next ==
  \/ /\ alive
     /\ \/ RunStep
        \/ GraceExpires \/ Cancel \/ Signal
        \/ \E s \in Servers : \/ ServeStep(s) \/ DrainStep(s) \/ PollAgain(s)
                              \/ Clients(s) \/ CallerClose(s) \/ AcceptFails(s)
  \/ Ended

\* Goroutines are scheduled and the timer fires.  No client, caller or signal
\* is promised to do anything, and no listener to fail.
Fairness ==
  /\ WF_vars(alive /\ RunStep)
  /\ WF_vars(alive /\ GraceExpires)
  /\ \A s \in Servers : WF_vars(alive /\ ServeStep(s)) /\ WF_vars(alive /\ DrainStep(s))

Spec == Init /\ [][Next]_vars /\ Fairness

-----------------------------------------------------------------------------
(* What callers of Run rely on.                                            *)

\* When Run returns every server has been told to shut down, every serve
\* goroutine has reported, and no report was left on the channel: nothing
\* Run started is still listening, a listener that was slow to start included.
AllStopped ==
  pc = "returned" =>
    /\ inShutdown = Servers
    /\ \A s \in Servers : serve[s] = "sent"
    /\ received = Len(errc)

\* The error Run returns is the first one any listener reported, whenever one
\* did; a drain that ran out of time shows only when no listener failed, and
\* nil means that neither happened.
FirstFailure(e) == \E i \in 1 .. Len(errc) :
  errc[i] = e /\ e # None /\ \A j \in 1 .. i - 1 : errc[j] = None

FirstFault == IF \E s \in Servers : FirstFailure(s)
                THEN CHOOSE s \in Servers : FirstFailure(s) ELSE None

ResultIsFirstCause ==
  pc = "returned" =>
    \/ result = "serve" /\ FirstFailure(serveErr)
    \/ /\ result \in {"nil", "shutdown"}
       /\ \A i \in 1 .. Len(errc) : errc[i] = None
       /\ (result = "shutdown") <=> \E s \in Servers : drain[s] = "expired"

\* No request is abandoned silently: a connection still active when Run
\* returns belongs to a server whose drain used up the budget, and a nil
\* result means that no server holds a connection.
DrainHonoured ==
  pc = "returned" =>
    /\ \A s \in Servers : (\E c \in Conns : conn[s][c] # "free") => drain[s] = "expired"
    /\ result = "nil" => \A s \in Servers, c \in Conns : conn[s][c] = "free"

\* The budget is shared, not divided: by the time it expires every server has
\* stopped accepting and has begun to wait for its own connections only.
SharedBudget ==
  grace = "expired" =>
    \A s \in Servers : /\ drain[s] \in {"select", "drained", "expired"}
                       /\ serve[s] # "accepting"

\* From before the first listener closes, a second signal ends the process.
DrainInterruptible ==
  (\E s \in Servers : drain[s] # "none") => sigHandler = "default"

\* Goroutines, the channel, polls and the timer cannot be noticed: runAll stops
\* only for a reason, gives every server the same budget, returns once nothing
\* it started listens or can listen again, and returns the first cause (doc of
\* Run, lifecycle.go:46-71).  After the return clients can only leave.
Phase ==
  CASE ~alive -> "killed"
    [] alive /\ pc = "init" -> "starting"
    [] alive /\ pc \in {"select", "stop"} -> "serving"
    [] alive /\ pc \in {"spawn", "wait", "collect"} -> "draining"
    [] alive /\ pc = "returned" -> "returned"

Listening == {s \in Servers : serve[s] = "accepting"}

Stopped == {s \in Servers : serve[s] \in {"closed", "failed", "sent"}}

Overdue == {s \in Servers : drain[s] = "expired"}

Held == {s \in Servers : \E c \in Conns : conn[s][c] # "free"}

Culprit == IF pc = "returned" THEN serveErr ELSE None

RC == INSTANCE RunContract WITH
  phase <- Phase, asked <- ctxDone, listening <- Listening, stopped <- Stopped,
  fault <- FirstFault, overdue <- Overdue, held <- Held, outcome <- result,
  culprit <- Culprit

ImplementsRun == RC!RunSpec

\* Once there is a reason to stop, Run returns whatever the clients do (or a
\* second signal ends the process): no request can hold it past the budget.
StopRequested ==
  pc # "init" /\ (ctxDone \/ \E s \in Servers : serve[s] \in {"closed", "failed", "sent"})

StopLeadsToReturn == StopRequested ~> (pc = "returned" \/ ~alive)

\* The doc of Run (lifecycle.go:50-52): "a shutdown error if the drain runs
\* out of time - in that case in-flight connections were closed mid-request".
DocInFlightClosed ==
  (pc = "returned" /\ result = "shutdown") =>
    \A s \in Servers, c \in Conns : conn[s][c] # "active"
=============================================================================
