----------------------------- MODULE RunContract -----------------------------
(***************************************************************************)
(* What Run and RunTLS promise their caller (src/lifecycle.go, doc of Run  *)
(* and of shutdownGrace), without goroutines, channels or polling: serve   *)
(* until there is a reason to stop, drain every server inside one budget,  *)
(* return once nothing listens, with the first cause.  Lifecycle           *)
(* implements it.                                                          *)
(***************************************************************************)
CONSTANTS Servers, None

VARIABLES
  phase,       \* starting, serving, draining, returned, killed
  asked,       \* the context is done
  listening,   \* the servers that take connections
  stopped,     \* the servers whose serving has ended
  fault,       \* the first server reported to have failed, or None
  overdue,     \* the servers whose drain used up the budget
  held,        \* the servers with an open connection
  outcome,     \* nothing yet, nil, serve or shutdown
  culprit      \* the server whose error was returned, or None

runVars == <<phase, asked, listening, stopped, fault, overdue, held, outcome, culprit>>

RunInit ==
  /\ phase = "starting" /\ asked = FALSE
  /\ listening = {} /\ stopped = {} /\ overdue = {} /\ held = {}
  /\ fault = None /\ outcome = "none" /\ culprit = None

Running == phase \in {"serving", "draining"}

Ask ==
  /\ phase # "killed" /\ asked' = TRUE
  /\ UNCHANGED <<phase, listening, stopped, fault, overdue, held, outcome, culprit>>

Begin ==
  /\ phase = "starting" /\ phase' = "serving"
  /\ UNCHANGED <<asked, listening, stopped, fault, overdue, held, outcome, culprit>>

\* A listener opens, once: one that has stopped does not come back.
Open(s) ==
  /\ Running /\ s \notin stopped
  /\ listening' = listening \cup {s}
  /\ UNCHANGED <<phase, asked, stopped, fault, overdue, held, outcome, culprit>>

Stop(s) ==
  /\ Running
  /\ listening' = listening \ {s} /\ stopped' = stopped \cup {s}
  /\ UNCHANGED <<phase, asked, fault, overdue, held, outcome, culprit>>

\* A server that stopped did so by failing: the first one is remembered.
Fault(s) ==
  /\ Running /\ s \in stopped /\ fault = None
  /\ fault' = s
  /\ UNCHANGED <<phase, asked, listening, stopped, overdue, held, outcome, culprit>>

\* Only a server that listens gets connections.
Connect(s) ==
  /\ s \in listening /\ phase # "killed"
  /\ held' = held \cup {s}
  /\ UNCHANGED <<phase, asked, listening, stopped, fault, overdue, outcome, culprit>>

Disconnect(s) ==
  /\ phase # "killed"
  /\ held' = held \ {s}
  /\ UNCHANGED <<phase, asked, listening, stopped, fault, overdue, outcome, culprit>>

\* Serving ends for one of two reasons, and only for them.
Drain ==
  /\ phase = "serving" /\ (asked \/ stopped # {})
  /\ phase' = "draining" /\ asked' = TRUE
  /\ UNCHANGED <<listening, stopped, fault, overdue, held, outcome, culprit>>

\* The one budget is over for a server, when nothing listens any more.
TimeUp(s) ==
  /\ phase = "draining" /\ listening = {}
  /\ overdue' = overdue \cup {s}
  /\ UNCHANGED <<phase, asked, listening, stopped, fault, held, outcome, culprit>>

\* Everything has stopped, and whoever still holds a connection had its time.
Return ==
  /\ phase = "draining" /\ phase' = "returned"
  /\ stopped = Servers /\ held \subseteq overdue
  /\ culprit' = fault
  /\ outcome' = IF fault # None THEN "serve" ELSE IF overdue # {} THEN "shutdown" ELSE "nil"
  /\ UNCHANGED <<asked, listening, stopped, fault, overdue, held>>

\* A signal ends the process, but not while it serves.
Kill ==
  /\ phase \notin {"serving", "killed"} /\ phase' = "killed"
  /\ UNCHANGED <<asked, listening, stopped, fault, overdue, held, outcome, culprit>>

RunNext ==
  \/ Ask \/ Begin \/ Drain \/ Return \/ Kill
  \/ \E s \in Servers : \/ Open(s) \/ Stop(s) \/ Fault(s) \/ TimeUp(s)
                        \/ Connect(s) \/ Disconnect(s)

RunSpec == RunInit /\ [][RunNext]_runVars
=============================================================================
