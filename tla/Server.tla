------------------------------- MODULE Server -------------------------------
(***************************************************************************)
(* The server process around LeagueTx: cmd/server/main.go, the connection  *)
(* pool of repository/postgres/db.go, and the /ready probe.                *)
(*                                                                         *)
(* A handler holds one pool connection from the BEGIN of its transaction   *)
(* to its end, also while it waits for the league lock; a handler without  *)
(* one waits in the pool's queue, first come first served.  main waits for *)
(* a signal or for the listener to fail, lets the handlers drain for a     *)
(* while, closes the pool, which waits for every connection, and returns.  *)
(* The process may be killed at any moment, and it may be started again.   *)
(*                                                                         *)
(* A definition marked Variant is its successor with a plausible mistake;  *)
(* no specification uses it.                                               *)
(***************************************************************************)
EXTENDS LeagueTx, FiniteSets

CONSTANTS
  Probes,   \* the GET /ready requests
  PoolSize  \* the pool's MaxConns

ASSUME ServerAssumption ==
  /\ PoolSize \in Nat \ {0}
  /\ Probes \cap Requests = {}

Clients == Requests \cup Probes

VARIABLES
  main,      \* where run() is: at its select, in Shutdown, in pool.Close
  listener,  \* ListenAndServe: up, failed with an error, or closed
  exit,      \* what run() returns: its error is named by the text that wraps it
  queue,     \* the handlers waiting for a connection
  held,      \* the handlers holding one
  probe      \* per probe: where it is, in the end its answer

serverVars == <<main, listener, exit, queue, held, probe>>
allVars    == <<vars, serverVars>>

ServerInit ==
  /\ Init
  /\ main = "serving"
  /\ listener = "up"
  /\ exit = "none"
  /\ queue = <<>>
  /\ held = {}
  /\ probe = [p \in Probes |-> "new"]

(***************************************************************************)
(* The handlers and the pool.                                              *)
(***************************************************************************)
Waiting  == {queue[i] : i \in DOMAIN queue}
Free     == Cardinality(held) < PoolSize
IsNext(x) == queue # <<>> /\ Head(queue) = x

\* The queue without x, which is in it once.
Leave(x) ==
  LET i == CHOOSE i \in DOMAIN queue : queue[i] = x
  IN [j \in 1..Len(queue) - 1 |-> queue[IF j < i THEN j ELSE j + 1]]

\* The requests and probes whose handlers have not ended.
InFlight == Waiting \cup held

Fresh(x) == IF x \in Probes THEN probe[x] = "new" ELSE pc[x] = "new" /\ x \notin Waiting

\* The listener accepts a request until Shutdown closes it; the first thing
\* its handler needs is a connection.
Arrive(x) ==
  /\ main \in {"serving", "stopping"}
  /\ listener = "up"
  /\ Fresh(x)
  /\ queue' = Append(queue, x)
  /\ probe' = IF x \in Probes THEN [probe EXCEPT ![x] = "waiting"] ELSE probe
  /\ UNCHANGED <<vars, main, listener, exit, held>>

\* pool.Begin, or a statement through the pool: the next in line gets a
\* connection that is free.
Connect(r) ==
  /\ IsNext(r)
  /\ Free
  /\ main # "closing"
  /\ Begin(r)
  /\ queue' = Tail(queue)
  /\ held' = held \cup {r}
  /\ UNCHANGED <<main, listener, exit, probe>>

\* Variant: the step of a lock holder goes through the pool and needs a second
\* connection.
HandleThroughPool(r) ==
  /\ Step(r)
  /\ lock = r => Free
  /\ held' = IF pc'[r] = "done" THEN held \ {r} ELSE held
  /\ UNCHANGED <<main, listener, exit, queue, probe>>

\* A step of r's handler; the end of its transaction frees the connection.
Handle(r) ==
  /\ Step(r)
  /\ held' = IF pc'[r] = "done" THEN held \ {r} ELSE held
  /\ UNCHANGED <<main, listener, exit, queue, probe>>

\* Variant: the rollback of a cancelled request does not give its connection
\* back to the pool.
CancelKeepingConnection(r) ==
  /\ r \in held
  /\ Abort(r)
  /\ UNCHANGED serverVars

\* The client goes away, or a statement fails, in the middle of the handler.
Cancel(r) ==
  /\ Abort(r)
  /\ held' = held \ {r}
  /\ UNCHANGED <<main, listener, exit, queue, probe>>

\* The client goes away while its handler waits for a connection.
GiveUp(r) ==
  /\ r \in Waiting
  /\ End(r, "error")
  /\ queue' = Leave(r)
  /\ UNCHANGED <<rows, ratings, main, listener, exit, held, probe>>

\* Acquire on a pool that has been closed fails once it is r's turn.
TurnAway(r) ==
  /\ main = "closing"
  /\ IsNext(r)
  /\ Free
  /\ End(r, "error")
  /\ queue' = Tail(queue)
  /\ UNCHANGED <<rows, ratings, main, listener, exit, held, probe>>

(***************************************************************************)
(* GET /ready.  The database can be reached in every state of this model.  *)
(***************************************************************************)
PingStarts(p) ==
  /\ IsNext(p)
  /\ Free
  /\ main # "closing"
  /\ queue' = Tail(queue)
  /\ held' = held \cup {p}
  /\ probe' = [probe EXCEPT ![p] = "pinging"]
  /\ UNCHANGED <<vars, main, listener, exit>>

PingAnswers(p) ==
  /\ probe[p] = "pinging"
  /\ held' = held \ {p}
  /\ probe' = [probe EXCEPT ![p] = "ok"]
  /\ UNCHANGED <<vars, main, listener, exit, queue>>

\* readyPingTimeout expires while no connection is free, or the pool is closed.
PingFails(p) ==
  /\ p \in Waiting
  /\ ~Free \/ main = "closing"
  /\ queue' = Leave(p)
  /\ probe' = [probe EXCEPT ![p] = "unavailable"]
  /\ UNCHANGED <<vars, main, listener, exit, held>>

(***************************************************************************)
(* run().                                                                  *)
(***************************************************************************)
mainOnly == <<vars, queue, held, probe>>

\* ListenAndServe returns an error other than ErrServerClosed.
ListenerFails ==
  /\ main \in {"serving", "stopping"}
  /\ listener = "up"
  /\ listener' = "failed"
  /\ UNCHANGED <<main, exit, mainOnly>>

\* The select takes SIGINT or SIGTERM.
Signal ==
  /\ main = "serving"
  /\ main' = "stopping"
  /\ UNCHANGED <<listener, exit, mainOnly>>

\* The select takes the listener's error; the deferred Close is next.
SelectError ==
  /\ main = "serving"
  /\ listener = "failed"
  /\ main' = "closing"
  /\ exit' = "http server"
  /\ UNCHANGED <<listener, mainOnly>>

\* srv.Shutdown closes the listener and starts to wait.
Shutdown ==
  /\ main = "stopping"
  /\ main' = "draining"
  /\ listener' = IF listener = "up" THEN "closed" ELSE listener
  /\ UNCHANGED <<exit, mainOnly>>

\* Variant: serverErr is not read again after Shutdown.
DrainedUnread ==
  /\ main = "draining"
  /\ InFlight = {}
  /\ main' = "closing"
  /\ exit' = "clean"
  /\ UNCHANGED <<listener, mainOnly>>

\* Shutdown returns without error; an error of the listener is read after it.
Drained ==
  /\ main = "draining"
  /\ InFlight = {}
  /\ main' = "closing"
  /\ exit' = IF listener = "failed" THEN "http server" ELSE "clean"
  /\ UNCHANGED <<listener, mainOnly>>

\* Variant: the error of Shutdown is ignored.
DrainTimesOutUnreported ==
  /\ main = "draining"
  /\ InFlight # {}
  /\ main' = "closing"
  /\ exit' = IF listener = "failed" THEN "http server" ELSE "clean"
  /\ UNCHANGED <<listener, mainOnly>>

\* Shutdown gives up after shutdownTimeout: run() returns its error, and does not
\* come to read the listener's.
DrainTimesOut ==
  /\ main = "draining"
  /\ InFlight # {}
  /\ main' = "closing"
  /\ exit' = "graceful shutdown"
  /\ UNCHANGED <<listener, mainOnly>>

\* Variant: the results and snapshots of the lock holder are in the database
\* before its league row is.
EndsHalfWritten(outcome) ==
  LET cut == InFlight \cap Requests IN
  /\ main' = "exited"
  /\ listener' = IF listener = "up" THEN "closed" ELSE listener
  /\ exit' = outcome
  /\ queue' = <<>>
  /\ held' = {}
  /\ probe' = [p \in Probes |-> IF p \in InFlight THEN "lost" ELSE probe[p]]
  /\ pc' = [r \in Requests |-> IF r \in cut THEN "done" ELSE pc[r]]
  /\ tx' = [r \in Requests |-> IF r \in cut THEN NoLocals ELSE tx[r]]
  /\ ws' = [r \in Requests |-> IF r \in cut THEN NoWrites ELSE ws[r]]
  /\ reply' = [r \in Requests |-> IF r \in cut THEN "error" ELSE reply[r]]
  /\ lock' = Null
  /\ score' = IF lock = Null THEN score ELSE SeenScore(lock)
  /\ snap' = IF lock = Null THEN snap ELSE SeenSnap(lock)
  /\ UNCHANGED <<league, audit, ratings, clock, op>>

\* The process ends with outcome: who still waits is cut off, and the database
\* rolls back the transactions whose connections are gone.
Ends(outcome) ==
  LET cut == InFlight \cap Requests IN
  /\ main' = "exited"
  /\ listener' = IF listener = "up" THEN "closed" ELSE listener
  /\ exit' = outcome
  /\ queue' = <<>>
  /\ held' = {}
  /\ probe' = [p \in Probes |-> IF p \in InFlight THEN "lost" ELSE probe[p]]
  /\ pc' = [r \in Requests |-> IF r \in cut THEN "done" ELSE pc[r]]
  /\ tx' = [r \in Requests |-> IF r \in cut THEN NoLocals ELSE tx[r]]
  /\ ws' = [r \in Requests |-> IF r \in cut THEN NoWrites ELSE ws[r]]
  /\ reply' = [r \in Requests |-> IF r \in cut THEN "error" ELSE reply[r]]
  /\ lock' = Null
  /\ UNCHANGED <<rows, ratings, clock, op>>

\* The deferred pool.Close has every connection back, and run() returns.
PoolClosed == main = "closing" /\ held = {} /\ Ends(exit)

\* The process is killed.
Killed == main # "exited" /\ Ends("killed")

\* The process is started on the database as it is.
Restart ==
  /\ main = "exited"
  /\ main' = "serving"
  /\ listener' = "up"
  /\ exit' = "none"
  /\ UNCHANGED mainOnly

(***************************************************************************)
(* The specification.                                                      *)
(***************************************************************************)

\* What a handler does when the database and the pool let it.
Serve(r) == Connect(r) \/ Handle(r) \/ TurnAway(r)
Answer(p) == PingStarts(p) \/ PingAnswers(p) \/ PingFails(p)

\* What run() does by itself.
Run == SelectError \/ Shutdown \/ Drained \/ DrainTimesOut \/ PoolClosed

ServerNext ==
  \/ \E x \in Clients : Arrive(x)
  \/ \E r \in Requests : Serve(r) \/ Cancel(r) \/ GiveUp(r)
  \/ \E p \in Probes : Answer(p)
  \/ Run
  \/ Signal \/ ListenerFails \/ Killed \/ Restart

\* The database answers what it can, the pool serves its queue, and main runs.
\* Nobody need come, go away, or send a signal.
ServerSpec ==
  /\ ServerInit /\ [][ServerNext]_allVars
  /\ \A r \in Requests : WF_allVars(Serve(r))
  /\ \A p \in Probes : WF_allVars(Answer(p))
  /\ WF_allVars(Run)

(***************************************************************************)
(* Correctness.                                                            *)
(***************************************************************************)

\* The connections are where the transactions are: every handler that has begun
\* and not ended holds one, nobody else does, and the holder of a league's lock
\* never waits for another (no handler uses the pool inside a transaction).
ConnectionsMatchHandlers ==
  /\ held = {r \in Requests : pc[r] \notin {"new", "done"}}
              \cup {p \in Probes : probe[p] = "pinging"}
  /\ lock # Null => lock \in held
  /\ held \cap Waiting = {}

\* The next statement of r's handler waits for no lock.
Unblocked(r) ==
  \/ pc[r] \in {"lookup", "advance", "commit"}
  \/ pc[r] = "work" /\ op[r].kind \notin {"delete", "rate"}
  \/ pc[r] = "lock" /\ (lock = Null \/ op[r].kind = "rate")

\* Handlers never all wait for each other, also in a pool that lock waiters have
\* used up: while a request or a probe has not ended, the database can answer one
\* that holds a connection, or the next in line can have a free one; and who
\* holds the league's lock is never the one that waits (WithinTx, NewPool).
SomebodyGoesOn ==
  /\ InFlight # {} =>
       \/ \E r \in held \cap Requests : Unblocked(r)
       \/ \E p \in held \cap Probes : probe[p] = "pinging"
       \/ queue # <<>> /\ Free
  /\ lock # Null => Unblocked(lock)

\* run() returns no error only if no handler was cut off: Shutdown saw the last
\* of them end ("http server stopped cleanly", main.go).
CleanExitCutsNobody == exit = "clean" => InFlight = {}

\* The error that run() returns names what went wrong: after a Shutdown that has
\* seen every handler end, a listener that failed is reported although a signal
\* came at the same time, and only one that failed is (main.go).  No more than
\* that: when the drain times out, "graceful shutdown" is returned before
\* serverErr is read, and the listener's error is dropped.
ExitNamesItsCause ==
  /\ exit = "clean" => listener = "closed"
  /\ exit = "http server" => listener = "failed"

\* Every request and every probe that has arrived is answered or cut off in the
\* end: lock waiters do not starve the lock holder of a connection, play-all
\* ends, and no lock or connection is left behind (WithinTx, NewPool).
EveryRequestAnswered ==
  /\ \A r \in Requests : r \in Waiting \/ pc[r] # "new" ~> pc[r] = "done"
  /\ \A p \in Probes : probe[p] = "waiting" ~> probe[p] \in {"ok", "unavailable", "lost"}

\* A shutdown ends: pool.Close gets every connection back from the handlers
\* that outlived the drain timeout (main.go).
ShutdownEnds == main \in {"stopping", "draining", "closing"} ~> main = "exited"

(***************************************************************************)
(* What the repository's comments and documents say, and the code does not *)
(* keep: each refuted by a run.                                            *)
(***************************************************************************)

\* "A 503 on /ready while /health is 200 => the app is up but the database is
\* unreachable" (docs/RUNBOOK.md): here it can be reached.
UnreadyMeansUnreachable ==
  main = "serving" => \A p \in Probes : probe[p] # "unavailable"
=============================================================================
