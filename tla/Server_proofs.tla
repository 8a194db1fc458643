--------------------------- MODULE Server_proofs ---------------------------
(***************************************************************************)
(* For every pool size and every set of requests and probes: connections   *)
(* are held by the running handlers and nobody else, handlers never all    *)
(* wait for each other, a clean exit cuts off nobody and hides no error of *)
(* the listener, and a league is between two weeks although the process is *)
(* killed and started again at any moment.                                 *)
(***************************************************************************)
EXTENDS Server, LeagueTx_proofs, FiniteSetTheorems

(***************************************************************************)
(* The pool's queue.                                                       *)
(***************************************************************************)
Elements(q) == {q[i] : i \in DOMAIN q}
Distinct(q) == \A i, j \in DOMAIN q : q[i] = q[j] => i = j

\* One who joins the queue was not in it.
LEMMA Joining ==
  ASSUME NEW T, NEW q \in Seq(T), Distinct(q), NEW x \in T, x \notin Elements(q)
  PROVE  /\ Append(q, x) \in Seq(T)
         /\ Distinct(Append(q, x))
         /\ Elements(Append(q, x)) = Elements(q) \cup {x}
<1> DEFINE a == Append(q, x)
<1>1. /\ a \in Seq(T) /\ Len(a) = Len(q) + 1 /\ Len(q) \in Nat
      /\ DOMAIN a = 1..Len(q) + 1 /\ DOMAIN q = 1..Len(q)
      /\ \A i \in DOMAIN q : a[i] = q[i]
      /\ a[Len(q) + 1] = x
  OBVIOUS
<1> HIDE DEF a
<1>2. Distinct(a)
  BY <1>1 DEF Distinct, Elements
<1>3. Elements(a) = Elements(q) \cup {x}
  BY <1>1 DEF Elements
<1> QED BY <1>1, <1>2, <1>3 DEF a

\* The queue without its head.
LEMMA Serving ==
  ASSUME NEW T, NEW q \in Seq(T), Distinct(q), q # <<>>
  PROVE  /\ Head(q) \in Elements(q)
         /\ Tail(q) \in Seq(T)
         /\ Distinct(Tail(q))
         /\ Elements(Tail(q)) = Elements(q) \ {Head(q)}
<1> DEFINE t == Tail(q)
<1>1. /\ t \in Seq(T) /\ Len(q) \in Nat \ {0} /\ Len(t) = Len(q) - 1
      /\ DOMAIN q = 1..Len(q) /\ DOMAIN t = 1..Len(q) - 1
      /\ \A i \in DOMAIN t : t[i] = q[i + 1]
      /\ Head(q) = q[1]
  OBVIOUS
<1> HIDE DEF t
<1>2. Distinct(t)
  BY <1>1 DEF Distinct
<1>3. ASSUME NEW y \in Elements(q), y # Head(q) PROVE y \in Elements(t)
  <2>1. PICK i \in 1..Len(q) : y = q[i]
    BY <1>1, <1>3 DEF Elements
  <2>2. i - 1 \in DOMAIN t /\ t[i - 1] = y
    BY <1>1, <1>3, <2>1
  <2> QED BY <2>2 DEF Elements
<1>4. Elements(t) \subseteq Elements(q) \ {Head(q)}
  BY <1>1 DEF Elements, Distinct
<1>5. Head(q) \in Elements(q)
  BY <1>1 DEF Elements
<1> QED BY <1>1, <1>2, <1>3, <1>4, <1>5 DEF t

\* The queue without the one who gives up.
LEMMA Leaving ==
  ASSUME NEW T, queue \in Seq(T), Distinct(queue), NEW x \in Waiting
  PROVE  /\ Leave(x) \in Seq(T)
         /\ Distinct(Leave(x))
         /\ Elements(Leave(x)) = Waiting \ {x}
<1> DEFINE i == CHOOSE k \in DOMAIN queue : queue[k] = x
           l == [j \in 1..Len(queue) - 1 |-> queue[IF j < i THEN j ELSE j + 1]]
<1>1. /\ Len(queue) \in Nat /\ DOMAIN queue = 1..Len(queue)
      /\ \A k \in 1..Len(queue) : queue[k] \in T
  OBVIOUS
<1>2. i \in 1..Len(queue) /\ queue[i] = x
  BY <1>1 DEF Waiting
<1> HIDE DEF i
<1>3. \A j \in 1..Len(queue) - 1 :
        /\ (IF j < i THEN j ELSE j + 1) \in 1..Len(queue)
        /\ (IF j < i THEN j ELSE j + 1) # i
        /\ l[j] = queue[IF j < i THEN j ELSE j + 1]
  BY <1>1, <1>2
<1>4. l \in [1..Len(queue) - 1 -> T] /\ Len(queue) - 1 \in Nat
  BY <1>1, <1>2, <1>3
<1>5. l \in Seq(T) /\ DOMAIN l = 1..Len(queue) - 1
  BY <1>4
<1> HIDE DEF l
<1>6. Distinct(l)
  <2> SUFFICES ASSUME NEW j \in 1..Len(queue) - 1, NEW k \in 1..Len(queue) - 1,
                      l[j] = l[k]
               PROVE  j = k
    BY <1>5 DEF Distinct
  <2>1. (IF j < i THEN j ELSE j + 1) = (IF k < i THEN k ELSE k + 1)
    BY <1>1, <1>3 DEF Distinct
  <2> QED BY <1>2, <2>1
<1>7. Elements(l) \subseteq Waiting \ {x}
  <2> SUFFICES ASSUME NEW j \in 1..Len(queue) - 1 PROVE l[j] \in Waiting \ {x}
    BY <1>5 DEF Elements
  <2>1. PICK k \in 1..Len(queue) : k # i /\ l[j] = queue[k]
    BY <1>3
  <2> QED BY <1>1, <1>2, <2>1 DEF Distinct, Waiting
<1>8. ASSUME NEW y \in Waiting, y # x PROVE y \in Elements(l)
  <2>1. PICK k \in 1..Len(queue) : y = queue[k]
    BY <1>1, <1>8 DEF Waiting
  <2>2. k # i
    BY <1>2, <1>8, <2>1
  <2>3. CASE k < i
    <3>1. k \in 1..Len(queue) - 1 /\ l[k] = y
      BY <1>1, <1>2, <1>3, <2>1, <2>3
    <3> QED BY <1>5, <3>1 DEF Elements
  <2>4. CASE k > i
    <3>1. k - 1 \in 1..Len(queue) - 1 /\ l[k - 1] = y
      BY <1>1, <1>2, <1>3, <2>1, <2>4
    <3> QED BY <1>5, <3>1 DEF Elements
  <2> QED BY <1>2, <2>1, <2>2, <2>3, <2>4
<1> QED BY <1>5, <1>6, <1>7, <1>8 DEF Leave, i, l

(***************************************************************************)
(* The inductive invariant: the league's, the pool's and what run() knows. *)
(***************************************************************************)
ProbeStates == {"new", "waiting", "pinging", "ok", "unavailable", "lost"}

\* Whoever waits has not begun and waits once; who has begun holds a connection.
PoolInv ==
  /\ queue \in Seq(Clients) /\ Distinct(queue)
  /\ probe \in [Probes -> ProbeStates]
  /\ \A r \in Requests : r \in Waiting => pc[r] = "new"
  /\ \A p \in Probes : p \in Waiting => probe[p] = "waiting"
  /\ held = {r \in Requests : pc[r] \notin {"new", "done"}}
              \cup {p \in Probes : probe[p] = "pinging"}

\* After a clean exit run() does nothing, and nobody is left to do anything;
\* Shutdown has closed the listener while it waits.
ExitInv ==
  /\ exit = "clean" => main \in {"closing", "exited"} /\ queue = <<>> /\ held = {}
  /\ listener \in {"up", "failed", "closed"}
  /\ main = "draining" => listener # "up"
  /\ ExitNamesItsCause

SInv == IInv /\ PoolInv /\ ExitInv

\* Nobody waits exactly when the queue is empty.
LEMMA NobodyWaits ==
  ASSUME queue \in Seq(Clients) PROVE Waiting = {} <=> queue = <<>>
<1>1. /\ Len(queue) \in Nat /\ DOMAIN queue = 1..Len(queue)
      /\ Len(queue) = 0 <=> queue = <<>>
  OBVIOUS
<1>2. Len(queue) # 0 => queue[1] \in Waiting
  BY <1>1 DEF Waiting
<1>3. Len(queue) = 0 => Waiting = {}
  BY <1>1 DEF Waiting
<1> QED BY <1>1, <1>2, <1>3

\* A step of a handler starts in the middle of it and ends there or at its end.
LEMMA StepMoves ==
  ASSUME NEW r \in Requests, Step(r) \/ Abort(r)
  PROVE  /\ pc[r] \notin {"new", "done"}
         /\ \E next \in PCs \ {"new"} : pc' = [pc EXCEPT ![r] = next]
<1>1. Abort(r) => pc[r] \notin {"new", "done"} /\ pc' = [pc EXCEPT ![r] = "done"]
  BY DEF Abort, End
<1>2. ReadMatch(r) \/ Acquire(r) \/ Conflict(r) =>
        /\ pc[r] \notin {"new", "done"}
        /\ \E next \in PCs \ {"new"} : pc' = [pc EXCEPT ![r] = next]
  BY DEF ReadMatch, Acquire, Conflict, End, PCs
<1>3. SimulateWeek(r) \/ AdvanceAndSnapshot(r) =>
        /\ pc[r] \notin {"new", "done"}
        /\ \E next \in PCs \ {"new"} : pc' = [pc EXCEPT ![r] = next]
  <2>1. SimulateWeek(r) => pc[r] = "work" /\ pc' = [pc EXCEPT ![r] = "advance"]
    BY DEF SimulateWeek
  <2>2. AdvanceAndSnapshot(r) =>
          /\ pc[r] = "advance"
          /\ \/ pc' = [pc EXCEPT ![r] = "work"]
             \/ pc' = [pc EXCEPT ![r] = "commit"]
    BY DEF AdvanceAndSnapshot
  <2> QED BY <2>1, <2>2 DEF PCs
<1>4. Reset(r) \/ Recalculate(r) \/ UpdateResult(r) =>
        pc[r] = "work" /\ pc' = [pc EXCEPT ![r] = "commit"]
  BY DEF Reset, Recalculate, UpdateResult
<1>5. DeleteLeague(r) \/ UpdateRating(r) \/ Commit(r) =>
        pc[r] \in {"lock", "commit"} /\ pc' = [pc EXCEPT ![r] = "done"]
  BY DEF DeleteLeague, UpdateRating, Commit, End
<1> QED BY <1>1, <1>2, <1>3, <1>4, <1>5 DEF Step, PCs

(***************************************************************************)
(* The pool, one lemma per kind of step.                                   *)
(***************************************************************************)

\* A client comes in and waits.
LEMMA ArrivePool ==
  ASSUME IInv, PoolInv, NEW x \in Clients, Arrive(x) PROVE PoolInv'
<1>1. Elements(queue) = Waiting
  BY DEF Elements, Waiting
<1>2. x \notin Waiting /\ x \in Probes => probe[x] = "new"
  BY DEF Arrive, Fresh, PoolInv
<1>3. x \notin Waiting
  BY DEF Arrive, Fresh, PoolInv
<1>4. x \in Requests => pc[x] = "new"
  BY ServerAssumption DEF Arrive, Fresh
<1>5. queue' \in Seq(Clients) /\ Distinct(queue)' /\ Waiting' = Waiting \cup {x}
  <2>1. queue' = Append(queue, x) /\ Waiting' = Elements(queue')
    BY DEF Arrive, Elements, Waiting
  <2> QED BY <1>1, <1>3, <2>1, Joining DEF PoolInv, Distinct
<1>6. /\ probe' \in [Probes -> ProbeStates]
      /\ \A p \in Probes : probe'[p] = IF p = x THEN "waiting" ELSE probe[p]
  BY DEF Arrive, PoolInv, ProbeStates
<1>7. pc' = pc /\ held' = held
  BY DEF Arrive, vars
<1>8. \A p \in Probes : probe'[p] = "pinging" <=> probe[p] = "pinging"
  BY <1>6 DEF Arrive, Fresh
<1> QED BY <1>4, <1>5, <1>6, <1>7, <1>8 DEF PoolInv

\* The next in line gets a connection, and its handler or its ping begins.
LEMMA ConnectPool ==
  ASSUME IInv, PoolInv, NEW r \in Requests, Connect(r) PROVE PoolInv'
<1>1. queue # <<>> /\ Head(queue) = r /\ queue' = Tail(queue)
      /\ held' = held \cup {r} /\ probe' = probe
  BY DEF Connect, IsNext
<1>2. queue' \in Seq(Clients) /\ Distinct(queue)' /\ Waiting' = Waiting \ {r}
  <2>1. Elements(queue) = Waiting /\ Waiting' = Elements(queue')
    BY DEF Elements, Waiting
  <2> QED BY <1>1, <2>1, Serving DEF PoolInv, Distinct
<1>3. \E next \in {"lookup", "lock"} : pc' = [pc EXCEPT ![r] = next]
  BY DEF Connect, Begin
<1>4. pc \in [Requests -> PCs]
  BY DEF IInv, TypeOK, RequestTypes
<1> QED BY <1>1, <1>2, <1>3, <1>4, ServerAssumption DEF PoolInv

\* A handler goes on, or ends and gives its connection back.
LEMMA HandlePool ==
  ASSUME IInv, PoolInv, NEW r \in Requests, Handle(r) \/ Cancel(r) PROVE PoolInv'
<1>1. UNCHANGED <<queue, probe>> /\ Waiting' = Waiting
  BY DEF Handle, Cancel, Waiting
<1>2. pc \in [Requests -> PCs]
  BY DEF IInv, TypeOK, RequestTypes
<1>3. PICK next \in PCs \ {"new"} : pc' = [pc EXCEPT ![r] = next]
  BY StepMoves DEF Handle, Cancel
<1>4. pc[r] \notin {"new", "done"}
  BY StepMoves DEF Handle, Cancel
<1>5. held' = IF next = "done" THEN held \ {r} ELSE held
  <2>1. pc'[r] = next
    BY <1>2, <1>3
  <2>2. Cancel(r) => next = "done"
    BY <1>2, <2>1 DEF Cancel, Abort, End
  <2> QED BY <2>1, <2>2 DEF Handle, Cancel
<1>6. held' = {q \in Requests : pc'[q] \notin {"new", "done"}}
                \cup {p \in Probes : probe[p] = "pinging"}
  BY <1>2, <1>3, <1>4, <1>5, ServerAssumption DEF PoolInv
<1>7. \A q \in Requests : q \in Waiting => pc'[q] = "new"
  BY <1>2, <1>3, <1>4 DEF PoolInv
<1> QED BY <1>1, <1>6, <1>7 DEF PoolInv, Distinct

\* A handler that waits gives up, or finds the pool closed.
LEMMA GiveUpPool ==
  ASSUME IInv, PoolInv, NEW r \in Requests, GiveUp(r) \/ TurnAway(r) PROVE PoolInv'
<1>1. r \in Waiting /\ probe' = probe /\ held' = held
      /\ pc' = [pc EXCEPT ![r] = "done"]
  <2>1. Elements(queue) = Waiting
    BY DEF Elements, Waiting
  <2>2. TurnAway(r) => r \in Waiting
    BY <2>1, Serving DEF TurnAway, IsNext, PoolInv
  <2> QED BY <2>2 DEF GiveUp, TurnAway, End
<1>2. queue' \in Seq(Clients) /\ Distinct(queue)' /\ Waiting' = Waiting \ {r}
  <2>1. Elements(queue) = Waiting /\ Waiting' = Elements(queue')
    BY DEF Elements, Waiting
  <2>2. CASE GiveUp(r)
    <3>1. queue' = Leave(r)
      BY <2>2 DEF GiveUp
    <3> QED BY <1>1, <2>1, <3>1, Leaving DEF PoolInv, Distinct
  <2>3. CASE TurnAway(r)
    BY <2>1, <2>3, Serving DEF PoolInv, TurnAway, IsNext, Distinct
  <2> QED BY <2>2, <2>3
<1>3. pc \in [Requests -> PCs] /\ pc[r] = "new"
  BY <1>1 DEF IInv, TypeOK, RequestTypes, PoolInv
<1> QED BY <1>1, <1>2, <1>3 DEF PoolInv

\* A probe takes a connection, gives it back, or gives up.
LEMMA ProbePool ==
  ASSUME PoolInv, NEW p \in Probes, Answer(p) PROVE PoolInv'
<1>1. pc' = pc
  BY DEF Answer, PingStarts, PingAnswers, PingFails, vars
<1>2. Elements(queue) = Waiting /\ Waiting' = Elements(queue')
  BY DEF Elements, Waiting
<1>3. CASE PingStarts(p)
  <2>1. queue' \in Seq(Clients) /\ Distinct(queue)' /\ Waiting' = Waiting \ {p}
    BY <1>2, <1>3, Serving DEF PoolInv, PingStarts, IsNext, Distinct
  <2>2. probe' = [probe EXCEPT ![p] = "pinging"] /\ held' = held \cup {p}
    BY <1>3 DEF PingStarts
  <2> QED BY <1>1, <2>1, <2>2, ServerAssumption DEF PoolInv, ProbeStates
<1>4. CASE PingAnswers(p)
  <2>1. /\ queue' = queue /\ Waiting' = Waiting
        /\ probe[p] = "pinging"
        /\ probe' = [probe EXCEPT ![p] = "ok"] /\ held' = held \ {p}
    BY <1>4 DEF PingAnswers, Waiting
  <2>2. p \notin Waiting
    BY <2>1 DEF PoolInv
  <2> QED BY <1>1, <2>1, <2>2, ServerAssumption DEF PoolInv, ProbeStates, Distinct
<1>5. CASE PingFails(p)
  <2>1. /\ p \in Waiting /\ queue' = Leave(p) /\ held' = held
        /\ probe' = [probe EXCEPT ![p] = "unavailable"]
    BY <1>5 DEF PingFails
  <2>2. queue' \in Seq(Clients) /\ Distinct(queue)' /\ Waiting' = Waiting \ {p}
    BY <1>2, <2>1, Leaving DEF PoolInv, Distinct
  <2>3. probe[p] = "waiting"
    BY <2>1 DEF PoolInv
  <2> QED BY <1>1, <2>1, <2>2, <2>3 DEF PoolInv, ProbeStates
<1> QED BY <1>3, <1>4, <1>5 DEF Answer

\* The process ends: everyone who waited or held a connection is cut off.
LEMMA EndsPool ==
  ASSUME PoolInv, NEW outcome, Ends(outcome) PROVE PoolInv'
<1>1. queue' = <<>> /\ held' = {} /\ Waiting' = {}
  BY DEF Ends, Waiting
<1>2. queue' \in Seq(Clients) /\ Distinct(queue)'
  BY <1>1 DEF Distinct
<1>3. probe' = [p \in Probes |-> IF p \in InFlight THEN "lost" ELSE probe[p]]
  BY DEF Ends
<1>4. pc' = [r \in Requests |-> IF r \in InFlight \cap Requests THEN "done" ELSE pc[r]]
  BY DEF Ends
<1>5. /\ \A r \in Requests : pc'[r] \in {"new", "done"}
      /\ \A p \in Probes : probe'[p] # "pinging"
  BY <1>3, <1>4 DEF PoolInv, InFlight
<1>6. probe' \in [Probes -> ProbeStates]
  BY <1>3 DEF PoolInv, ProbeStates
<1> QED BY <1>1, <1>2, <1>5, <1>6 DEF PoolInv

\* What run() does, a signal and a start do not touch the handlers.
LEMMA MainPool ==
  ASSUME PoolInv, UNCHANGED <<pc, queue, held, probe>> PROVE PoolInv'
BY DEF PoolInv, Distinct, Waiting

(***************************************************************************)
(* The league and the process.                                             *)
(***************************************************************************)

\* The process ends: the database rolls back what was not committed, so the
\* rows are the season they were, and nobody is left with a lock or a write.
LEMMA EndsIInv ==
  ASSUME IInv, PoolInv, NEW outcome, Ends(outcome) PROVE IInv'
<1>1. UNCHANGED <<league, score, snap, audit, ratings, clock, op>>
  BY DEF Ends, rows
<1>2. /\ lock' = Null
      /\ pc' = [r \in Requests |-> IF r \in InFlight \cap Requests THEN "done" ELSE pc[r]]
      /\ tx' = [r \in Requests |-> IF r \in InFlight \cap Requests THEN NoLocals ELSE tx[r]]
      /\ ws' = [r \in Requests |-> IF r \in InFlight \cap Requests THEN NoWrites ELSE ws[r]]
      /\ reply' = [r \in Requests |-> IF r \in InFlight \cap Requests THEN "error" ELSE reply[r]]
  BY DEF Ends
<1>3. RowTypes'
  BY <1>1 DEF IInv, TypeOK, RowTypes
<1>4. RequestTypes'
  <2>1. NoLocals \in Locals
    BY ConstantsAssumption DEF NoLocals, Locals
  <2>2. tx' \in [Requests -> Locals]
    BY <1>2, <2>1 DEF IInv, TypeOK, RequestTypes
  <2>3. DOMAIN ws' = Requests /\ \A r \in Requests : IsWriteSet(ws'[r])
    BY <1>2, NoWritesType DEF IInv, TypeOK, RequestTypes
  <2>4. pc' \in [Requests -> PCs] /\ reply' \in [Requests -> Replies]
    BY <1>2 DEF IInv, TypeOK, RequestTypes, PCs, Replies
  <2> QED BY <1>1, <1>2, <2>2, <2>3, <2>4 DEF IInv, TypeOK, RequestTypes
<1>5. \A r \in Requests : pc'[r] \in {"new", "done"} /\ ws'[r] = NoWrites
  <2>1. ASSUME NEW r \in Requests PROVE pc'[r] \in {"new", "done"} /\ ws'[r] = NoWrites
    <3>1. CASE r \in InFlight
      BY <1>2, <3>1
    <3>2. CASE r \notin InFlight
      <4>1. pc[r] \in {"new", "done"}
        BY <3>2 DEF PoolInv, InFlight
      <4>2. ws[r] = NoWrites
        BY <4>1 DEF IInv, Locking, InTx
      <4> QED BY <1>2, <3>2, <4>1, <4>2
    <3> QED BY <3>1, <3>2
  <2> QED BY <2>1
<1>6. Locking'
  <2>1. ASSUME NEW r \in Requests PROVE pc'[r] # "lookup" /\ lock' # r
    BY <1>2, <1>5, NullAssumption
  <2> QED BY <1>5, <2>1 DEF Locking, InTx
<1>7. \A h \in Requests : lock' # h
  BY <1>2, NullAssumption
<1>8. PlayedThroughWeek' /\ SnapshotsAgree'
  BY <1>1, RowsKept DEF IInv
<1> QED BY <1>3, <1>4, <1>6, <1>7, <1>8 DEF IInv, TypeOK

\* A handler turned away, or given up on, ends without having begun.
LEMMA GiveUpIInv ==
  ASSUME IInv, NEW r \in Requests, GiveUp(r) \/ TurnAway(r) PROVE IInv'
BY EndingKeeps DEF GiveUp, TurnAway, Replies

\* Nobody is left after a clean exit to come, go on or wait.
LEMMA ClientsExit ==
  ASSUME PoolInv, ExitInv,
         \/ \E x \in Clients : Arrive(x)
         \/ \E r \in Requests : Serve(r) \/ Cancel(r) \/ GiveUp(r)
         \/ \E p \in Probes : Answer(p),
         IInv
  PROVE  ExitInv'
<1>1. UNCHANGED <<main, listener, exit>>
  BY DEF Arrive, Serve, Connect, Handle, TurnAway, Cancel, GiveUp,
         Answer, PingStarts, PingAnswers, PingFails
<1>2. ASSUME exit = "clean" PROVE FALSE
  <2>1. /\ main \in {"closing", "exited"} /\ queue = <<>> /\ held = {}
        /\ Waiting = {}
    BY <1>2, NobodyWaits DEF ExitInv, PoolInv
  <2>2. \A x \in Clients : ~Arrive(x)
    BY <2>1 DEF Arrive
  <2>3. \A r \in Requests : ~Connect(r) /\ ~TurnAway(r) /\ ~GiveUp(r)
    BY <2>1 DEF Connect, TurnAway, GiveUp, IsNext
  <2>4. \A p \in Probes : ~Answer(p)
    BY <2>1 DEF PoolInv, Answer, PingStarts, PingAnswers, PingFails, IsNext
  <2>5. \A r \in Requests : ~Handle(r) /\ ~Cancel(r)
    BY <2>1, StepMoves DEF Handle, Cancel, PoolInv
  <2> QED BY <2>2, <2>3, <2>4, <2>5 DEF Serve
<1> QED BY <1>1, <1>2 DEF ExitInv, ExitNamesItsCause

\* run() reports what it has seen.
LEMMA MainExit ==
  ASSUME PoolInv, ExitInv, Run \/ Signal \/ ListenerFails \/ Killed \/ Restart
  PROVE  ExitInv'
<1>1. CASE SelectError \/ Shutdown \/ Signal \/ ListenerFails \/ Restart
  BY <1>1 DEF SelectError, Shutdown, Signal, ListenerFails, Restart,
              ExitInv, ExitNamesItsCause, mainOnly
<1>2. CASE Drained \/ DrainTimesOut
  <2>1. Drained => queue = <<>> /\ held = {}
    BY NobodyWaits DEF Drained, InFlight, PoolInv
  <2> QED BY <1>2, <2>1 DEF Drained, DrainTimesOut, ExitInv, ExitNamesItsCause, mainOnly
<1>3. CASE PoolClosed \/ Killed
  BY <1>3 DEF PoolClosed, Killed, Ends, ExitInv, ExitNamesItsCause
<1> QED BY <1>1, <1>2, <1>3 DEF Run

(***************************************************************************)
(* The theorems.                                                           *)
(***************************************************************************)

\* In every state of a server that is killed, stopped and started again as
\* often as it may be, the invariant holds (cmd/server/main.go, db.go).
THEOREM ServerInvariance == ServerSpec => []SInv
<1>1. ServerInit => SInv
  <2> SUFFICES ASSUME ServerInit PROVE SInv
    OBVIOUS
  <2>1. IInv
    BY InitIInv DEF ServerInit
  <2>2. PoolInv
    BY DEF ServerInit, Init, PoolInv, ProbeStates, Distinct, Waiting
  <2>3. ExitInv
    BY DEF ServerInit, ExitInv, ExitNamesItsCause
  <2> QED BY <2>1, <2>2, <2>3 DEF SInv
<1>2. SInv /\ [ServerNext]_allVars => SInv'
  <2> SUFFICES ASSUME SInv, [ServerNext]_allVars PROVE SInv'
    OBVIOUS
  <2> USE DEF SInv
  <2>1. ASSUME NEW x \in Clients, Arrive(x) PROVE SInv'
    <3>1. UNCHANGED vars
      BY <2>1 DEF Arrive
    <3> QED BY <2>1, <3>1, StutterIInv, ArrivePool, ClientsExit
  <2>2. ASSUME NEW r \in Requests, Serve(r) \/ Cancel(r) \/ GiveUp(r) PROVE SInv'
    <3>1. CASE Connect(r)
      <4>1. IInv'
        BY <3>1, BeginIInv DEF Connect
      <4> QED BY <2>2, <3>1, <4>1, ConnectPool, ClientsExit
    <3>2. CASE Handle(r) \/ Cancel(r)
      <4>1. Step(r) \/ Abort(r)
        BY <3>2 DEF Handle, Cancel
      <4>2. IInv'
        BY <4>1, NextIInv DEF Next
      <4> QED BY <2>2, <3>2, <4>2, HandlePool, ClientsExit
    <3>3. CASE GiveUp(r) \/ TurnAway(r)
      BY <2>2, <3>3, GiveUpIInv, GiveUpPool, ClientsExit
    <3> QED BY <2>2, <3>1, <3>2, <3>3 DEF Serve
  <2>3. ASSUME NEW p \in Probes, Answer(p) PROVE SInv'
    <3>1. UNCHANGED vars
      BY <2>3 DEF Answer, PingStarts, PingAnswers, PingFails
    <3> QED BY <2>3, <3>1, StutterIInv, ProbePool, ClientsExit
  <2>4. CASE PoolClosed \/ Killed
    <3>1. PICK outcome : Ends(outcome)
      BY <2>4 DEF PoolClosed, Killed
    <3>2. ExitInv'
      BY <2>4, MainExit DEF Run
    <3> QED BY <3>1, <3>2, EndsIInv, EndsPool
  <2>5. CASE SelectError \/ Shutdown \/ Drained \/ DrainTimesOut
               \/ Signal \/ ListenerFails \/ Restart
    <3>1. UNCHANGED vars /\ UNCHANGED <<queue, held, probe>>
      BY <2>5 DEF SelectError, Shutdown, Drained, DrainTimesOut,
                  Signal, ListenerFails, Restart, mainOnly
    <3>2. pc' = pc
      BY <3>1 DEF vars
    <3>3. ExitInv'
      BY <2>5, MainExit DEF Run
    <3> QED BY <3>1, <3>2, <3>3, StutterIInv, MainPool
  <2>6. CASE UNCHANGED allVars
    <3>1. UNCHANGED vars /\ UNCHANGED <<main, listener, exit, queue, held, probe>>
      BY <2>6 DEF allVars, serverVars
    <3>2. pc' = pc
      BY <3>1 DEF vars
    <3>3. ExitInv'
      BY <3>1 DEF ExitInv, ExitNamesItsCause
    <3> QED BY <3>1, <3>2, <3>3, StutterIInv, MainPool
  <2> QED BY <2>1, <2>2, <2>3, <2>4, <2>5, <2>6 DEF ServerNext, Run
<1> QED BY <1>1, <1>2, PTL DEF ServerSpec

\* Whatever the pool's size: a connection is held by every running handler and
\* by nobody else, and the holder of the league's lock waits for none
\* (repository/postgres/db.go, transactor.go).
THEOREM ConnectionsAlwaysMatch == ServerSpec => []ConnectionsMatchHandlers
<1>1. SInv => ConnectionsMatchHandlers
  <2> SUFFICES ASSUME SInv PROVE ConnectionsMatchHandlers
    OBVIOUS
  <2>1. lock # Null => lock \in held
    BY DEF SInv, IInv, TypeOK, RequestTypes, Locking, InTx, PoolInv
  <2>2. held \cap Waiting = {}
    BY ServerAssumption DEF SInv, PoolInv
  <2> QED BY <2>1, <2>2 DEF SInv, PoolInv, ConnectionsMatchHandlers
<1> QED BY <1>1, ServerInvariance, PTL

\* Handlers never all wait for each other, whatever the size of the pool: one
\* that holds a connection can go on, or the next in line can have one
\* (repository/postgres/db.go, transactor.go).
THEOREM SomebodyAlwaysGoesOn == ServerSpec => []SomebodyGoesOn
<1>1. SInv => SomebodyGoesOn
  <2> SUFFICES ASSUME SInv PROVE SomebodyGoesOn
    OBVIOUS
  <2>1. /\ \A r \in Requests : pc[r] \in PCs /\ (r \in held <=> pc[r] \notin {"new", "done"})
        /\ lock \in Requests \cup {Null}
    BY ServerAssumption DEF SInv, IInv, TypeOK, RequestTypes, PoolInv
  <2>2. \A r \in Requests : lock = r => r \in held /\ Unblocked(r)
    <3> SUFFICES ASSUME NEW r \in Requests, lock = r PROVE r \in held /\ Unblocked(r)
      OBVIOUS
    <3>1. pc[r] \in InTx /\ op[r].kind \notin {"delete", "rate"}
      BY DEF SInv, IInv, Locking, Holding
    <3> QED BY <2>1, <3>1 DEF InTx, Unblocked
  <2>3. ASSUME NEW r \in Requests, r \in held, ~Unblocked(r)
        PROVE  lock \in Requests
    <3>1. pc[r] = "lock" \/ pc[r] = "work"
      BY <2>1, <2>3 DEF PCs, Unblocked
    <3>2. pc[r] = "work" => lock = r
      BY DEF SInv, IInv, Locking, InTx
    <3> QED BY <2>1, <2>2, <2>3, <3>1, <3>2 DEF Unblocked
  <2>4. held \subseteq Requests \cup Probes
        /\ \A p \in Probes : p \in held => probe[p] = "pinging"
    BY ServerAssumption DEF SInv, PoolInv
  <2>5. CASE held = {}
    <3>1. Free
      BY <2>5, FS_EmptySet, ServerAssumption DEF Free
    <3>2. InFlight # {} => queue # <<>>
      BY <2>5, NobodyWaits DEF SInv, PoolInv, InFlight
    <3> QED BY <2>1, <2>2, <3>1, <3>2 DEF SomebodyGoesOn
  <2>6. CASE held # {}
    BY <2>1, <2>2, <2>3, <2>4, <2>6 DEF SomebodyGoesOn
  <2> QED BY <2>5, <2>6
<1> QED BY <1>1, ServerInvariance, PTL

\* run() returns without error only if it cut off no handler (main.go).
THEOREM CleanExitsCutNobody == ServerSpec => []CleanExitCutsNobody
<1>1. SInv => CleanExitCutsNobody
  BY NobodyWaits DEF SInv, PoolInv, ExitInv, CleanExitCutsNobody, InFlight
<1> QED BY <1>1, ServerInvariance, PTL

\* A listener that failed is reported after every Shutdown that has seen the
\* handlers end, and no listener that did not fail is (main.go).
THEOREM ExitsNameTheirCause == ServerSpec => []ExitNamesItsCause
<1>1. SInv => ExitNamesItsCause
  BY DEF SInv, ExitInv
<1> QED BY <1>1, ServerInvariance, PTL

\* The standings history agrees with the results although the process is
\* killed in the middle of transactions and started again (transactor.go).
THEOREM SnapshotsSurviveKills == ServerSpec => []SnapshotsAgree
<1>1. SInv => SnapshotsAgree
  BY DEF SInv, IInv
<1> QED BY <1>1, ServerInvariance, PTL

=============================================================================
