-------------------------- MODULE WebClient_proofs --------------------------
(***************************************************************************)
(* The page, for every number of leagues and weeks, every number of clicks *)
(* and lost requests and every order in which the answers come: what its   *)
(* tasks may be waiting for, that one handler holds the lock of the        *)
(* buttons, that a prediction stays with its league, and that a user who   *)
(* waits for each handler sees the server's state.                         *)
(***************************************************************************)
EXTENDS WebClient, Sequences, FiniteSetTheorems, WellFoundedInduction, TLAPS

(***************************************************************************)
(* The tasks.                                                              *)
(***************************************************************************)
TaskOps == Exclusive \cup {"select", "tab", "audit", "predict"}
Places  == {"write", "list", "league", "tables", "fixtures", "history", "prediction", "audit"}

\* The requests of a place: all it may send, and those it always sends.
Expected(at) == IF at = "tables" THEN {"standings", "week"} ELSE {at}
Needed(at)   == IF at = "tables" THEN {"standings"} ELSE {at}

\* Which handler waits where, and for which league and match.
Fits(op, at, lg, match) ==
  /\ op \in TaskOps /\ at \in Places
  /\ op = "predict" <=> at = "prediction"
  /\ op = "tab" => at \in {"fixtures", "history"}
  /\ op = "audit" => at = "audit"
  /\ at = "audit" => op \in {"audit", "edit"}
  /\ at = "write" => op \in Exclusive \ {"bootstrap"}
  /\ at = "list" => op \in {"bootstrap", "create", "delete"}
  /\ \/ lg \in League
     \/ lg = Nothing /\ op = "bootstrap" /\ at = "list"
     \/ lg = Nothing /\ op = "create" /\ at = "write"
  /\ op = "edit" => match \in League

\* What the server may have answered to the request q of a task.
Answers(op, lg, q) ==
  CASE q = "list"       -> SUBSET League
    [] q = "write"      -> League \cup {Nothing}
    [] q = "prediction" -> {s \in Showing : s.of = lg} \cup {TooEarly}
    [] OTHER            -> Showing

TaskOK(t) ==
  /\ t = [no |-> t.no, op |-> t.op, at |-> t.at, lg |-> t.lg, week |-> t.week,
          match |-> t.match, due |-> t.due, got |-> t.got]
  /\ Fits(t.op, t.at, t.lg, t.match)
  /\ t.week \in 0..TotalWeeks
  /\ t.due \cup DOMAIN t.got \subseteq Expected(t.at)
  /\ Needed(t.at) \subseteq t.due \cup DOMAIN t.got
  /\ t.got = [q \in DOMAIN t.got |-> t.got[q]]
  /\ \A q \in DOMAIN t.got :
       t.got[q] = Failed \/ t.got[q] \in Answers(t.op, t.lg, q)
  /\ t.op = "create" /\ "write" \in DOMAIN t.got =>
       t.got["write"] = Failed \/ t.got["write"] \in League

TInv == TypeOK /\ clicks \in Nat /\ failures \in Nat /\ \A t \in tasks : TaskOK(t)

\* The handler that holds the lock.
Locked == IF busy THEN \E t \in tasks : ExclusiveTasks = {t} ELSE ExclusiveTasks = {}

HasFailed(t) == \E q \in DOMAIN t.got : t.got[q] = Failed

\* A refresh that has not come to the prediction yet.
Refreshing(t) == t.op # "tab" /\ t.at \in {"tables", "fixtures", "history"}

\* A prediction of another league than the one shown is about to be cleared,
\* unless a request failed, and then it is known that one did.
Covered ==
  /\ \A t \in tasks : t.op # "predict" /\ HasFailed(t) => failed
  /\ league # Nothing /\ page.prediction # Nothing /\ page.prediction.of # league.of
       => failed \/ \E t \in tasks : Refreshing(t)

WInv == TInv /\ Locked /\ Covered

(***************************************************************************)
(* What happens to a task.                                                 *)
(***************************************************************************)

\* A task as it starts, and as it comes to its next await.
LEMMA NewTask ==
  ASSUME NEW no, NEW op, NEW at, NEW lg, NEW week \in 0..TotalWeeks, NEW match,
         NEW queries, Fits(op, at, lg, match),
         Needed(at) \subseteq queries, queries \subseteq Expected(at),
         NEW t, t = Task(no, op, at, lg, week, match, queries)
  PROVE  /\ TaskOK(t) /\ ~HasFailed(t)
         /\ t.op = op /\ t.at = at /\ t.lg = lg
<1>1. t = [no |-> no, op |-> op, at |-> at, lg |-> lg, week |-> week,
           match |-> match, due |-> queries, got |-> <<>>]
  BY DEF Task
<1>2. DOMAIN t.got = {} /\ <<>> = [q \in {} |-> <<>>[q]]
  BY <1>1
<1> QED BY <1>1, <1>2 DEF TaskOK, HasFailed

\* A task that differs from another by its requests and answers only.
SameTask(u, t) ==
  /\ u = [no |-> u.no, op |-> u.op, at |-> u.at, lg |-> u.lg, week |-> u.week,
          match |-> u.match, due |-> u.due, got |-> u.got]
  /\ u.op = t.op /\ u.at = t.at /\ u.lg = t.lg /\ u.week = t.week /\ u.match = t.match

\* A task gets an answer.
LEMMA AnsweredTask ==
  ASSUME NEW t, TaskOK(t), NEW q \in t.due, NEW r,
         r = Failed \/ r \in Answers(t.op, t.lg, q),
         t.op = "create" /\ q = "write" => r = Failed \/ r \in League,
         NEW got, got = [p \in DOMAIN t.got \cup {q} |-> IF p = q THEN r ELSE t.got[p]],
         NEW u, SameTask(u, t), u.due = t.due \ {q}, u.got = got
  PROVE  /\ TaskOK(u)
         /\ u.op = t.op /\ u.at = t.at /\ u.lg = t.lg
         /\ HasFailed(u) => HasFailed(t) \/ r = Failed
<1>2. /\ DOMAIN got = DOMAIN t.got \cup {q}
      /\ got = [x \in DOMAIN got |-> got[x]]
  OBVIOUS
<1>3. \A x \in DOMAIN got : (x \in DOMAIN t.got /\ got[x] = t.got[x]) \/ (x = q /\ got[x] = r)
  OBVIOUS
<1>4. /\ u.op = t.op /\ u.at = t.at /\ u.lg = t.lg /\ u.week = t.week
      /\ u.match = t.match /\ u.due = t.due \ {q} /\ u.got = got
  BY DEF SameTask
<1>5. \A x \in DOMAIN got : got[x] = Failed \/ got[x] \in Answers(t.op, t.lg, x)
  BY <1>3 DEF TaskOK
<1>6. t.op = "create" /\ "write" \in DOMAIN got => got["write"] = Failed \/ got["write"] \in League
  BY <1>3 DEF TaskOK
<1>7. /\ u.due \cup DOMAIN got \subseteq Expected(t.at)
      /\ Needed(t.at) \subseteq u.due \cup DOMAIN got
  BY <1>2, <1>4 DEF TaskOK
<1>8. TaskOK(u)
  <2>1. u = [no |-> u.no, op |-> u.op, at |-> u.at, lg |-> u.lg, week |-> u.week,
             match |-> u.match, due |-> u.due, got |-> u.got]
    BY DEF SameTask
  <2>2. Fits(u.op, u.at, u.lg, u.match) /\ u.week \in 0..TotalWeeks
    BY <1>4 DEF TaskOK
  <2>3. u.got = [x \in DOMAIN u.got |-> u.got[x]]
    BY <1>2, <1>4
  <2>4. /\ u.due \cup DOMAIN u.got \subseteq Expected(u.at)
        /\ Needed(u.at) \subseteq u.due \cup DOMAIN u.got
    BY <1>4, <1>7
  <2>5. /\ \A x \in DOMAIN u.got :
             u.got[x] = Failed \/ u.got[x] \in Answers(u.op, u.lg, x)
        /\ u.op = "create" /\ "write" \in DOMAIN u.got =>
             u.got["write"] = Failed \/ u.got["write"] \in League
    BY <1>4, <1>5, <1>6
  <2> QED BY <2>1, <2>2, <2>3, <2>4, <2>5 DEF TaskOK
<1>9. HasFailed(u) => HasFailed(t) \/ r = Failed
  BY <1>3, <1>4 DEF HasFailed
<1> QED BY <1>4, <1>8, <1>9

\* A task whose answers are all there has one for each of its requests.
LEMMA AnsweredHas ==
  ASSUME NEW t, TaskOK(t), NEW at, Answered(t, at)
  PROVE  /\ t.at = at
         /\ DOMAIN t.got \subseteq Expected(at) /\ Needed(at) \subseteq DOMAIN t.got
         /\ \A q \in DOMAIN t.got : t.got[q] \in Answers(t.op, t.lg, q)
         /\ t.op = "create" /\ "write" \in DOMAIN t.got => t.got["write"] \in League
BY DEF TaskOK, Answered

\* The lock, when a task is replaced by others.
LEMMA LockedStep ==
  ASSUME Locked, NEW t \in tasks, NEW new, tasks' = (tasks \ {t}) \cup new,
         \/ /\ t.op \notin Exclusive /\ busy' = busy
            /\ \A u \in new : u.op \notin Exclusive
         \/ /\ t.op \in Exclusive /\ busy' = busy
            /\ \E u \in new : {v \in new : v.op \in Exclusive} = {u}
         \/ /\ t.op \in Exclusive /\ busy' = FALSE
            /\ \A u \in new : u.op \notin Exclusive
  PROVE  Locked'
<1>1. t.op \in Exclusive => busy /\ ExclusiveTasks = {t}
  BY DEF Locked, ExclusiveTasks
<1>2. CASE t.op \notin Exclusive /\ busy' = busy /\ \A u \in new : u.op \notin Exclusive
  <2>1. ExclusiveTasks' = ExclusiveTasks
    BY <1>2 DEF ExclusiveTasks
  <2> QED BY <1>2, <2>1 DEF Locked, ExclusiveTasks
<1>3. CASE t.op \in Exclusive /\ busy' = busy
           /\ \E u \in new : {v \in new : v.op \in Exclusive} = {u}
  <2>1. PICK u \in new : {v \in new : v.op \in Exclusive} = {u}
    BY <1>3
  <2>2. ExclusiveTasks' = {u}
    BY <1>1, <1>3, <2>1 DEF ExclusiveTasks
  <2> QED BY <1>1, <1>3, <2>1, <2>2 DEF Locked
<1>4. CASE t.op \in Exclusive /\ busy' = FALSE /\ \A u \in new : u.op \notin Exclusive
  <2>1. ExclusiveTasks' = {}
    BY <1>1, <1>4 DEF ExclusiveTasks
  <2> QED BY <1>4, <2>1 DEF Locked
<1> QED BY <1>2, <1>3, <1>4

\* The lock, when a handler ends.
LEMMA LockedEnd ==
  ASSUME Locked, busy \in BOOLEAN, NEW t \in tasks, End(t) PROVE Locked'
<1>1. tasks' = (tasks \ {t}) \cup {} /\ \A u \in {} : u.op \notin Exclusive
  BY DEF End
<1>2. CASE t.op \in Exclusive
  BY <1>1, <1>2, LockedStep DEF End
<1>3. CASE t.op \notin Exclusive
  <2>1. busy' = busy
    BY <1>3 DEF End
  <2> QED BY <1>1, <1>3, <2>1, LockedStep
<1> QED BY <1>2, <1>3

\* The lock, when a handler goes on.
LEMMA LockedOn ==
  ASSUME Locked, NEW t \in tasks, NEW u, u.op = t.op,
         tasks' = (tasks \ {t}) \cup {u}, busy' = busy
  PROVE  Locked'
<1>1. CASE t.op \in Exclusive
  <2>1. u \in {u} /\ {v \in {u} : v.op \in Exclusive} = {u}
    BY <1>1
  <2> QED BY <1>1, <2>1, LockedStep
<1>2. CASE t.op \notin Exclusive
  BY <1>2, LockedStep
<1> QED BY <1>1, <1>2

\* The prediction, when a task is replaced by others.
LEMMA CoveredStep ==
  ASSUME Covered, NEW t \in tasks, NEW new, tasks' = (tasks \ {t}) \cup new,
         failed => failed',
         \A u \in new : u.op # "predict" /\ HasFailed(u) => failed',
         \/ league' = Nothing
         \/ page'.prediction = Nothing
         \/ page'.prediction.of = league'.of
         \/ \E u \in new : Refreshing(u)
         \/ /\ league' = league /\ page'.prediction = page.prediction
            /\ Refreshing(t) => failed'
  PROVE  Covered'
<1>1. \A u \in tasks' : u.op # "predict" /\ HasFailed(u) => failed'
  BY DEF Covered
<1>2. ASSUME league' # Nothing, page'.prediction # Nothing, page'.prediction.of # league'.of,
             ~failed'
      PROVE  \E u \in tasks' : Refreshing(u)
  <2>1. CASE \E u \in new : Refreshing(u)
    BY <2>1
  <2>2. CASE league' = league /\ page'.prediction = page.prediction /\ ~Refreshing(t)
    <3>1. PICK u \in tasks : Refreshing(u)
      BY <1>2, <2>2 DEF Covered
    <3> QED BY <2>2, <3>1
  <2> QED BY <1>2, <2>1, <2>2
<1> QED BY <1>1, <1>2 DEF Covered

(***************************************************************************)
(* The server answers.                                                     *)
(***************************************************************************)

\* An answer changes the task that waits for it, and the server's leagues.
LEMMA RepliedKeeps ==
  ASSUME WInv, NEW t \in tasks, NEW q \in t.due, NEW r, Replied(t, q, r),
         r = Failed \/ r \in Answers(t.op, t.lg, q),
         t.op = "create" /\ q = "write" => r = Failed \/ r \in League,
         server' \in [League -> {Unborn, Deleted} \cup State],
         UNCHANGED <<pageVars, busy, clicks>>, failures' \in Nat
  PROVE  WInv'
<1> DEFINE got == [p \in DOMAIN t.got \cup {q} |-> IF p = q THEN r ELSE t.got[p]]
           u   == [t EXCEPT !.due = @ \ {q}, !.got = got]
<1>1. /\ tasks' = (tasks \ {t}) \cup {u}
      /\ failed' = (failed \/ r = Failed) /\ overlapped' = overlapped
  BY DEF Replied
<1>2. TaskOK(t)
  BY DEF WInv, TInv
<1>3. /\ TaskOK(u) /\ u.op = t.op /\ u.at = t.at /\ u.lg = t.lg
      /\ HasFailed(u) => HasFailed(t) \/ r = Failed
  <2>1. t.op = "create" /\ q = "write" => r = Failed \/ r \in League
    OBVIOUS
  <2> HIDE DEF got
  <2>2. got = [p \in DOMAIN t.got \cup {q} |-> IF p = q THEN r ELSE t.got[p]]
    BY DEF got
  <2>3. SameTask(u, t) /\ u.due = t.due \ {q} /\ u.got = got
    <3>1. u = [no |-> t.no, op |-> t.op, at |-> t.at, lg |-> t.lg, week |-> t.week,
               match |-> t.match, due |-> t.due \ {q}, got |-> got]
      <4>1. t = [no |-> t.no, op |-> t.op, at |-> t.at, lg |-> t.lg, week |-> t.week,
                 match |-> t.match, due |-> t.due, got |-> t.got]
        BY <1>2 DEF TaskOK
      <4>2. u = [t EXCEPT !.due = t.due \ {q}, !.got = got]
        OBVIOUS
      <4> HIDE DEF u
      <4> QED BY <4>1, <4>2
    <3> HIDE DEF u
    <3> QED BY <3>1 DEF SameTask
  <2> HIDE DEF u
  <2> QED BY <1>2, <2>1, <2>2, <2>3, AnsweredTask
<1> HIDE DEF u, got
<1>4. TInv'
  <2>1. \A s \in tasks' : TaskOK(s)
    BY <1>1, <1>3 DEF WInv, TInv
  <2>2. TypeOK'
    BY <1>1 DEF WInv, TInv, TypeOK, pageVars
  <2>3. \A s \in tasks' : TaskOK(s)'
    BY <2>1 DEF TaskOK, Fits, Answers
  <2> QED BY <2>2, <2>3 DEF WInv, TInv, pageVars
<1>5. Locked'
  BY <1>1, <1>3, LockedOn DEF WInv, pageVars
<1>6. Covered'
  <2>1. \A s \in {u} : s.op # "predict" /\ HasFailed(s) => failed'
    BY <1>1, <1>3 DEF WInv, Covered
  <2>2. (failed => failed') /\ league' = league /\ page' = page
    BY <1>1 DEF pageVars
  <2>3. Refreshing(t) => Refreshing(u)
    BY <1>3 DEF Refreshing
  <2> QED BY <1>1, <2>1, <2>2, <2>3, CoveredStep DEF WInv
<1> QED BY <1>4, <1>5, <1>6 DEF WInv

\* A read is answered with what it asks for.
LEMMA ReadAnswers ==
  ASSUME TypeOK, NEW t, TaskOK(t), NEW q \in t.due, q # "write"
  PROVE  Read(t, q) = Failed \/ Read(t, q) \in Answers(t.op, t.lg, q)
<1>1. q \in Expected(t.at) /\ Fits(t.op, t.at, t.lg, t.match) /\ t.week \in 0..TotalWeeks
  BY DEF TaskOK
<1>2. CASE q = "list"
  BY <1>2 DEF Read, Answers
<1>3. CASE q # "list"
  <2>1. t.lg \in League
    BY <1>1, <1>3 DEF Fits, Expected
  <2>2. CASE Exists(t.lg)
    <3>1. server[t.lg] \in State
      BY <2>1, <2>2 DEF TypeOK, Exists
    <3>2. \A w \in 0..TotalWeeks :
            /\ Shown(t.lg, server[t.lg], w) \in Showing
            /\ Shown(t.lg, server[t.lg], w).of = t.lg
      BY <2>1, <3>1 DEF Shown, Showing, State
    <3>3. server[t.lg].week \in 0..TotalWeeks
      BY <3>1 DEF State
    <3> QED BY <1>1, <1>3, <2>2, <3>2, <3>3 DEF Read, Answers
  <2> QED BY <1>3, <2>2 DEF Read
<1> QED BY <1>2, <1>3

\* What a write leaves of a league.
LEMMA WrittenType ==
  ASSUME NEW s \in State, NEW kind \in Mutations \cup {"edit", "delete"}
  PROVE  Written(kind, s) \in State \cup {Failed, Deleted}
<1>1. s.week \in 0..TotalWeeks /\ s.at \in Nat /\ s.edits \in Nat /\ TotalWeeks \in Nat
  BY WebAssumption DEF State
<1>2. ~Finished(s) => s.week + 1 \in 0..TotalWeeks
  BY <1>1 DEF Finished
<1>8. 0 \in 0..TotalWeeks /\ TotalWeeks \in 0..TotalWeeks /\ s.at + 1 \in Nat /\ s.edits + 1 \in Nat
  BY <1>1
<1>3. CASE kind = "playWeek"
  <2>1. Written(kind, s) = IF Finished(s) THEN Failed ELSE [s EXCEPT !.week = @ + 1, !.at = @ + 1]
    BY <1>3 DEF Written
  <2>2. ~Finished(s) => [s EXCEPT !.week = @ + 1, !.at = @ + 1] \in State
    BY <1>2, <1>8 DEF State
  <2> QED BY <2>1, <2>2
<1>4. CASE kind = "playAll"
  <2>1. Written(kind, s) =
          IF Finished(s) THEN Failed ELSE [s EXCEPT !.week = TotalWeeks, !.at = @ + 1]
    BY <1>4 DEF Written
  <2>2. [s EXCEPT !.week = TotalWeeks, !.at = @ + 1] \in State
    BY <1>8 DEF State
  <2> QED BY <2>1, <2>2
<1>5. CASE kind = "reset"
  <2>1. Written(kind, s) = [s EXCEPT !.week = 0, !.at = @ + 1]
    BY <1>5 DEF Written
  <2>2. [s EXCEPT !.week = 0, !.at = @ + 1] \in State
    BY <1>8 DEF State
  <2> QED BY <2>1, <2>2
<1>6. CASE kind = "edit"
  <2>1. Written(kind, s) =
          IF s.week = 0 THEN Failed ELSE [s EXCEPT !.at = @ + 1, !.edits = @ + 1]
    BY <1>6 DEF Written
  <2>2. [s EXCEPT !.at = @ + 1, !.edits = @ + 1] \in State
    BY <1>8 DEF State
  <2> QED BY <2>1, <2>2
<1>7. CASE kind = "delete"
  BY <1>7 DEF Written
<1> QED BY <1>3, <1>4, <1>5, <1>6, <1>7 DEF Mutations

\* The leagues after a write of the task t that took effect, or not.
LEMMA ServerWritten ==
  ASSUME TypeOK, NEW t, TaskOK(t), "write" \in t.due,
         \/ UNCHANGED server
         \/ /\ t.op # "create"
            /\ Exists(t.lg) /\ Written(t.op, server[t.lg]) # Failed
            /\ server' = [server EXCEPT ![t.lg] = Written(t.op, @)]
         \/ \E l \in Newborn :
              server' = [server EXCEPT ![l] = [week |-> 0, at |-> 0, edits |-> 0]]
  PROVE  server' \in [League -> {Unborn, Deleted} \cup State]
<1>1. CASE UNCHANGED server
  BY <1>1 DEF TypeOK
<1>2. CASE /\ t.op # "create"
           /\ Exists(t.lg) /\ Written(t.op, server[t.lg]) # Failed
           /\ server' = [server EXCEPT ![t.lg] = Written(t.op, @)]
  <2>1. t.at = "write" /\ t.op \in Mutations \cup {"edit", "delete"} /\ t.lg \in League
    BY <1>2 DEF TaskOK, Fits, Expected, Exclusive, Mutations
  <2>2. server[t.lg] \in State
    BY <1>2, <2>1 DEF TypeOK, Exists
  <2>3. Written(t.op, server[t.lg]) \in State \cup {Deleted}
    BY <1>2, <2>1, <2>2, WrittenType
  <2> QED BY <1>2, <2>1, <2>3 DEF TypeOK
<1>3. CASE \E l \in Newborn :
             server' = [server EXCEPT ![l] = [week |-> 0, at |-> 0, edits |-> 0]]
  <2>1. [week |-> 0, at |-> 0, edits |-> 0] \in State
    BY WebAssumption DEF State
  <2> QED BY <1>3, <2>1 DEF TypeOK, Newborn
<1> QED BY <1>1, <1>2, <1>3

LEMMA ServeKeeps ==
  ASSUME WInv, NEW t \in tasks, Serve(t) PROVE WInv'
<1>1. TaskOK(t) /\ TypeOK /\ failures \in Nat
  BY DEF WInv, TInv
<1>2. PICK q \in t.due : ServeRead(t, q) \/ (q = "write" /\ ServeWrite(t)) \/ Lose(t, q)
  BY DEF Serve
<1>3. CASE ServeRead(t, q)
  <2>1. q # "write" /\ Replied(t, q, Read(t, q))
        /\ UNCHANGED <<server, pageVars, busy, clicks, failures>>
    BY <1>3 DEF ServeRead
  <2>2. Read(t, q) = Failed \/ Read(t, q) \in Answers(t.op, t.lg, q)
    BY <1>1, <2>1, ReadAnswers
  <2>3. server' \in [League -> {Unborn, Deleted} \cup State] /\ failures' \in Nat
    BY <1>1, <2>1 DEF TypeOK
  <2> QED BY <2>1, <2>2, <2>3, RepliedKeeps
<1>4. CASE q = "write" /\ ServeWrite(t)
  <2>1. UNCHANGED <<pageVars, busy, clicks>> /\ failures' \in Nat
    BY <1>1, <1>4 DEF ServeWrite
  <2>2. CASE t.op = "create"
    <3>1. PICK l \in Newborn :
            /\ server' = [server EXCEPT ![l] = [week |-> 0, at |-> 0, edits |-> 0]]
            /\ Replied(t, "write", l)
      BY <1>4, <2>2 DEF ServeWrite, Create
    <3>2. l \in League /\ l \in Answers(t.op, t.lg, "write")
      BY DEF Newborn, Answers
    <3>3. server' \in [League -> {Unborn, Deleted} \cup State]
      BY <1>1, <1>4, <3>1, ServerWritten
    <3> QED BY <1>4, <2>1, <3>1, <3>2, <3>3, RepliedKeeps
  <2>3. CASE t.op # "create"
    <3>1. \/ Replied(t, "write", Failed) /\ UNCHANGED server
          \/ /\ Exists(t.lg) /\ Written(t.op, server[t.lg]) # Failed
             /\ server' = [server EXCEPT ![t.lg] = Written(t.op, @)]
             /\ Replied(t, "write", t.lg)
      BY <1>4, <2>3 DEF ServeWrite
    <3>2. server' \in [League -> {Unborn, Deleted} \cup State]
      BY <1>1, <1>4, <2>3, <3>1, ServerWritten
    <3>3. t.lg \in Answers(t.op, t.lg, "write")
      BY <1>1 DEF TaskOK, Fits, Answers
    <3> QED BY <1>4, <2>1, <2>3, <3>1, <3>2, <3>3, RepliedKeeps
  <2> QED BY <2>2, <2>3
<1>5. CASE Lose(t, q)
  <2>1. Replied(t, q, Failed) /\ UNCHANGED <<pageVars, busy, clicks>> /\ failures' \in Nat
    BY <1>1, <1>5 DEF Lose
  <2>2. server' \in [League -> {Unborn, Deleted} \cup State]
    <3>1. CASE UNCHANGED server
      BY <1>1, <3>1 DEF TypeOK
    <3>2. CASE q = "write"
      BY <1>1, <1>5, <3>2, ServerWritten DEF Lose
    <3> QED BY <1>5, <3>1, <3>2 DEF Lose
  <2> QED BY <2>1, <2>2, RepliedKeeps
<1> QED BY <1>2, <1>3, <1>4, <1>5

(***************************************************************************)
(* The handlers go on.                                                     *)
(***************************************************************************)

\* TaskOK is about constants: a task stays as good as it was.
LEMMA TasksAfter ==
  ASSUME TInv, NEW t \in tasks, NEW new, tasks' = (tasks \ {t}) \cup new,
         \A u \in new : TaskOK(u)
  PROVE  \A u \in tasks' : TaskOK(u)'
<1>1. \A u \in tasks' : TaskOK(u)
  BY DEF TInv
<1> QED BY <1>1 DEF TaskOK, Fits, Answers

\* A handler ends, or an await of it has failed.
LEMMA EndKeeps ==
  ASSUME WInv, NEW t \in tasks, End(t), UNCHANGED Others, TypeOK',
         \/ league' = Nothing
         \/ page'.prediction = Nothing
         \/ page'.prediction.of = league'.of
         \/ /\ league' = league /\ page'.prediction = page.prediction
            /\ Refreshing(t) => failed
  PROVE  WInv'
<1> DEFINE none == {}
<1>1. /\ tasks' = (tasks \ {t}) \cup none
      /\ \A u \in none : TaskOK(u) /\ ~HasFailed(u)
  BY DEF End
<1> HIDE DEF none
<1>2. Locked'
  BY LockedEnd DEF WInv, TInv, TypeOK
<1>3. Covered'
  BY <1>1, CoveredStep DEF WInv, Others, history
<1>4. \A u \in tasks' : TaskOK(u)'
  BY <1>1, TasksAfter DEF WInv
<1> QED BY <1>2, <1>3, <1>4 DEF WInv, TInv, Others

\* A handler goes on to its next await.
LEMMA OnKeeps ==
  ASSUME WInv, NEW t \in tasks, NEW u, TaskOK(u), ~HasFailed(u), u.op = t.op,
         tasks' = (tasks \ {t}) \cup {u}, busy' = busy, UNCHANGED Others, TypeOK',
         \/ league' = Nothing
         \/ page'.prediction = Nothing
         \/ Refreshing(u)
         \/ /\ league' = league /\ page'.prediction = page.prediction
            /\ ~Refreshing(t)
  PROVE  WInv'
<1>1. Locked'
  BY LockedOn DEF WInv
<1>2. Covered'
  BY CoveredStep DEF WInv, Others, history
<1>3. \A v \in tasks' : TaskOK(v)'
  BY TasksAfter DEF WInv
<1> QED BY <1>1, <1>2, <1>3 DEF WInv, TInv, Others

\* refresh() begins.
LEMMA RefreshKeeps ==
  ASSUME WInv, NEW t \in tasks, t.op \notin {"tab", "audit", "predict"},
         ~Refreshing(t), NEW lg \in Showing \cup {Nothing}, Refresh(t, lg), league' = lg,
         edit' \in League \cup {Nothing},
         UNCHANGED <<Others, leagues, selectedId, page, audits, tab, expandedAudit>>
  PROVE  WInv'
<1>1. TaskOK(t) /\ TypeOK
  BY DEF WInv, TInv
<1>2. CASE lg = Nothing
  <2>1. End(t)
    BY <1>2 DEF Refresh
  <2>2. TypeOK'
    BY <1>1, <2>1 DEF TypeOK, End, Others, history
  <2> QED BY <1>2, <2>1, <2>2, EndKeeps
<1>3. CASE lg # Nothing
  <2> DEFINE queries == {"standings"} \cup (IF lg.week >= 1 THEN {"week"} ELSE {})
             u == AtNext(t, "tables", lg.of, lg.week, queries)
  <2>1. tasks' = (tasks \ {t}) \cup {u} /\ busy' = busy
    BY <1>3 DEF Refresh, Awaits
  <2>2. lg.of \in League /\ lg.week \in 0..TotalWeeks
    BY <1>3 DEF Showing
  <2>3. Fits(t.op, "tables", lg.of, t.match)
    BY <1>1, <2>2 DEF TaskOK, Fits, Places
  <2>4. Needed("tables") \subseteq queries /\ queries \subseteq Expected("tables")
    BY DEF Needed, Expected
  <2>5. u = Task(t.no, t.op, "tables", lg.of, lg.week, t.match, queries)
    BY DEF AtNext
  <2> HIDE DEF u, queries
  <2>6. TaskOK(u) /\ ~HasFailed(u) /\ u.op = t.op /\ u.at = "tables"
    BY <2>2, <2>3, <2>4, <2>5, NewTask
  <2>7. Refreshing(u)
    BY <2>6 DEF Refreshing
  <2>8. TypeOK'
    BY <1>1, <2>1 DEF TypeOK, Others, history
  <2> QED BY <2>1, <2>6, <2>7, <2>8, OnKeeps
<1> QED BY <1>2, <1>3

\* refresh() ends: the prediction shown is gone before its answer comes.
LEMMA LoadPredictionKeeps ==
  ASSUME WInv, NEW t \in tasks, Refreshing(t),
         NEW shown \in [Views -> Showing \cup {Nothing}], LoadPrediction(t, shown),
         UNCHANGED <<Others, leagues, selectedId, league, audits, tab, edit, expandedAudit>>
  PROVE  WInv'
<1> DEFINE early == league # Nothing /\ ~Finished(league) /\ league.week < PredictFrom
           more  == t.op = "edit" /\ expandedAudit = t.match
           p     == Task(t.no, "predict", "prediction", t.lg, 0, Nothing, {"prediction"})
           a     == AtNext(t, "audit", t.match, 0, {"audit"})
           new   == (IF early THEN {} ELSE {p}) \cup (IF more THEN {a} ELSE {})
<1>1. TaskOK(t) /\ TypeOK /\ busy \in BOOLEAN /\ 0 \in 0..TotalWeeks
  BY WebAssumption DEF WInv, TInv, TypeOK
<1>2. /\ page' = [shown EXCEPT !.prediction = Nothing]
      /\ tasks' = (tasks \ {t}) \cup new
      /\ busy' = (busy /\ (more \/ t.op \notin Exclusive))
  BY DEF LoadPrediction
<1>3. t.at \in {"tables", "fixtures", "history"} /\ t.op # "tab" /\ t.op # "predict"
      /\ t.op # "audit" /\ t.lg \in League
  BY <1>1 DEF Refreshing, TaskOK, Fits
<1>4. TaskOK(p) /\ ~HasFailed(p) /\ p.op = "predict"
  <2>1. Fits("predict", "prediction", t.lg, Nothing)
    BY <1>3 DEF Fits, TaskOps, Places
  <2>2. Needed("prediction") \subseteq {"prediction"} /\ {"prediction"} \subseteq Expected("prediction")
    BY DEF Needed, Expected
  <2> QED BY <1>1, <2>1, <2>2, NewTask
<1>5. more => TaskOK(a) /\ ~HasFailed(a) /\ a.op = t.op
  <2> SUFFICES ASSUME more PROVE TaskOK(a) /\ ~HasFailed(a) /\ a.op = t.op
    OBVIOUS
  <2>1. Fits(t.op, "audit", t.match, t.match)
    BY <1>1 DEF TaskOK, Fits, Places
  <2>2. Needed("audit") \subseteq {"audit"} /\ {"audit"} \subseteq Expected("audit")
    BY DEF Needed, Expected
  <2>3. a = Task(t.no, t.op, "audit", t.match, 0, t.match, {"audit"})
    BY DEF AtNext
  <2> HIDE DEF a, more
  <2> QED BY <1>1, <2>1, <2>2, <2>3, NewTask
<1> HIDE DEF p, a, early
<1>6. \A u \in new : TaskOK(u) /\ ~HasFailed(u)
  BY <1>4, <1>5
<1>7. Locked'
  <2>1. p.op \notin Exclusive
    BY <1>4 DEF Exclusive
  <2>2. CASE t.op \notin Exclusive
    <3>1. busy' = busy /\ \A u \in new : u.op \notin Exclusive
      BY <1>1, <1>2, <1>5, <2>1, <2>2
    <3> HIDE DEF new
    <3> QED BY <1>2, <2>2, <3>1, LockedStep DEF WInv
  <2>3. CASE t.op \in Exclusive /\ more
    <3>1. busy' = busy
      BY <1>1, <1>2, <2>3
    <3>2. a \in new /\ {v \in new : v.op \in Exclusive} = {a}
      BY <1>5, <2>1, <2>3
    <3> HIDE DEF new
    <3> QED BY <1>2, <2>3, <3>1, <3>2, LockedStep DEF WInv
  <2>4. CASE t.op \in Exclusive /\ ~more
    <3>1. busy' = FALSE /\ \A u \in new : u.op \notin Exclusive
      BY <1>2, <2>1, <2>4
    <3> HIDE DEF new
    <3> QED BY <1>2, <2>4, <3>1, LockedStep DEF WInv
  <2> QED BY <2>2, <2>3, <2>4
<1>8. /\ page' \in [Views -> Showing \cup {Nothing}] /\ page'.prediction = Nothing
      /\ busy' \in BOOLEAN
  BY <1>1, <1>2 DEF Views
<1> HIDE DEF new
<1>9. Covered'
  BY <1>2, <1>6, <1>8, CoveredStep DEF WInv, Others, history
<1>10. TypeOK'
  BY <1>1, <1>8 DEF TypeOK, Others, history
<1>11. \A u \in tasks' : TaskOK(u)'
  BY <1>2, <1>6, TasksAfter DEF WInv
<1> QED BY <1>7, <1>9, <1>10, <1>11 DEF WInv, TInv, Others

\* The part of refresh() that looks at the open tab.
LEMMA LoadTabKeeps ==
  ASSUME WInv, NEW t \in tasks, Refreshing(t),
         NEW shown \in [Views -> Showing \cup {Nothing}],
         NEW tabs, tabs \subseteq {"fixtures", "history"}, LoadTab(t, shown, tabs),
         UNCHANGED <<Others, leagues, selectedId, league, audits, tab, edit, expandedAudit>>
  PROVE  WInv'
<1>1. TaskOK(t) /\ TypeOK /\ 0 \in 0..TotalWeeks
  BY WebAssumption DEF WInv, TInv
<1>2. CASE tab \in tabs
  <2> DEFINE u == AtNext(t, tab, t.lg, 0, {tab})
  <2>1. page' = shown /\ tasks' = (tasks \ {t}) \cup {u} /\ busy' = busy
    BY <1>2 DEF LoadTab, Awaits
  <2>2. Fits(t.op, tab, t.lg, t.match)
    BY <1>1, <1>2 DEF TaskOK, Fits, Refreshing, Places
  <2>3. Needed(tab) \subseteq {tab} /\ {tab} \subseteq Expected(tab)
    BY <1>2 DEF Needed, Expected
  <2>4. u = Task(t.no, t.op, tab, t.lg, 0, t.match, {tab})
    BY DEF AtNext
  <2> HIDE DEF u
  <2>5. TaskOK(u) /\ ~HasFailed(u) /\ u.op = t.op /\ u.at = tab
    BY <1>1, <2>2, <2>3, <2>4, NewTask
  <2>6. Refreshing(u)
    BY <1>2, <2>5 DEF Refreshing
  <2>7. TypeOK'
    BY <1>1, <2>1 DEF TypeOK, Others, history
  <2> QED BY <2>1, <2>5, <2>6, <2>7, OnKeeps
<1>3. CASE tab \notin tabs
  BY <1>3, LoadPredictionKeeps DEF LoadTab
<1> QED BY <1>2, <1>3

\* A set of leagues that is not empty has a newest one.
LEMMA NewestLeague ==
  ASSUME NEW known \in SUBSET League, known # {} PROVE Max(known) \in known
<1>1. known \subseteq Nat /\ IsFiniteSet(known)
  BY WebAssumption, FS_Subset
<1>2. PICK list \in Seq(known) : \A l \in known : \E n \in 1..Len(list) : list[n] = l
  BY <1>1 DEF IsFiniteSet
<1>3. Len(list) \in Nat /\ \A n \in 1..Len(list) : list[n] \in Nat
  <2>1. Len(list) \in Nat /\ list \in [1..Len(list) -> known]
    OBVIOUS
  <2> QED BY <1>1, <2>1
<1> DEFINE Bounded(n)  == \E b \in Nat : \A m \in 1..n : list[m] <= b
           unbounded   == {n \in 0..Len(list) : ~Bounded(n)}
<1>4. unbounded = {}
  <2> SUFFICES ASSUME unbounded # {} PROVE FALSE
    OBVIOUS
  <2>1. unbounded \subseteq Nat
    BY <1>3
  <2>2. PICK n \in unbounded : \A m \in unbounded : ~(<<m, n>> \in OpToRel(<, Nat))
    BY <2>1, NatLessThanWellFounded, WFMin
  <2>3. \A m \in unbounded : ~(m < n)
    BY <2>1, <2>2 DEF OpToRel
  <2>4. Bounded(0)
    <3>1. \A m \in 1..0 : list[m] <= 0
      OBVIOUS
    <3> QED BY <3>1
  <2>5. n - 1 \in 0..Len(list) /\ n - 1 < n /\ n \in 1..Len(list)
    BY <1>3, <2>4
  <2>6. Bounded(n - 1)
    BY <2>3, <2>5
  <2>7. PICK b \in Nat : \A m \in 1..n - 1 : list[m] <= b
    BY <2>6
  <2>11. PICK x \in Nat : x = list[n]
    BY <1>3, <2>5
  <2> DEFINE c == IF x <= b THEN b ELSE x
  <2>8. c \in Nat /\ b <= c /\ x <= c
    OBVIOUS
  <2> HIDE DEF c
  <2>9. \A m \in 1..n : list[m] <= c
    <3> TAKE m \in 1..n
    <3>1. m \in 1..n - 1 \/ m = n
      BY <2>5
    <3>2. m \in 1..Len(list)
      BY <1>3, <2>5
    <3>3. list[m] \in Nat
      BY <1>3, <3>2
    <3>4. CASE m = n
      BY <2>8, <2>11, <3>4
    <3>5. CASE m \in 1..n - 1
      <4>1. PICK y \in Nat : y = list[m]
        BY <3>3
      <4>2. y <= b
        BY <2>7, <3>5, <4>1
      <4>3. y <= c
        BY <2>8, <4>2
      <4> QED BY <4>1, <4>3
    <3> QED BY <3>1, <3>4, <3>5
  <2>10. Bounded(n)
    BY <2>8, <2>9
  <2> QED BY <2>10
<1>5. PICK b \in Nat : \A m \in 1..Len(list) : list[m] <= b
  <2>1. Len(list) \in 0..Len(list)
    BY <1>3
  <2>2. Bounded(Len(list))
    BY <1>4, <2>1
  <2> QED BY <2>2
<1>6. \A l \in known : l <= b
  BY <1>2, <1>5
<1> HIDE DEF unbounded, Bounded
<1> DEFINE below == {b - l : l \in known}
<1>7. below \subseteq Nat /\ below # {}
  <2>1. \A l \in known : b - l \in Nat
    <3> TAKE l \in known
    <3>1. l \in Nat /\ l <= b
      BY <1>1, <1>6
    <3> QED BY <3>1
  <2> QED BY <2>1
<1>8. PICK d \in below : \A e \in below : ~(<<e, d>> \in OpToRel(<, Nat))
  BY <1>7, NatLessThanWellFounded, WFMin
<1>9. \A e \in below : ~(e < d)
  BY <1>7, <1>8 DEF OpToRel
<1>10. PICK newest \in known : d = b - newest
  OBVIOUS
<1>11. \A l \in known : newest >= l
  <2> TAKE l \in known
  <2>1. b - l \in below /\ l \in Nat /\ newest \in Nat
    BY <1>1
  <2>2. ~(b - l < b - newest)
    BY <1>9, <1>10, <2>1
  <2> QED BY <2>1, <2>2
<1> QED BY <1>11 DEF Max

\* What an answer that has come is.
LEMMA GotView ==
  ASSUME NEW t, TaskOK(t), NEW at \in {"league", "fixtures", "history", "audit"},
         Answered(t, at)
  PROVE  t.got[at] \in Showing
<1>1. at \in DOMAIN t.got
  BY AnsweredHas DEF Needed
<1>2. t.got[at] \in Answers(t.op, t.lg, at)
  BY <1>1, AnsweredHas
<1> QED BY <1>2 DEF Answers

\* selectLeague(id) clears the page.
LEMMA SelectKeeps ==
  ASSUME WInv, NEW t \in tasks, t.op \in {"bootstrap", "create", "delete"},
         NEW id \in League, SelectLeague(t, id), busy' = busy,
         leagues' \subseteq League, UNCHANGED <<Others, league, audits>>
  PROVE  WInv'
<1> DEFINE u == AtNext(t, "league", id, 0, {"league"})
<1>1. TypeOK /\ 0 \in 0..TotalWeeks
  BY WebAssumption DEF WInv, TInv
<1>2. tasks' = (tasks \ {t}) \cup {u} /\ page' = [v \in Views |-> Nothing]
  BY DEF SelectLeague
<1>3. Fits(t.op, "league", id, t.match)
  BY DEF WInv, TInv, TaskOK, Fits, Places
<1>4. Needed("league") \subseteq {"league"} /\ {"league"} \subseteq Expected("league")
  BY DEF Needed, Expected
<1>5. u = Task(t.no, t.op, "league", id, 0, t.match, {"league"})
  BY DEF AtNext
<1> HIDE DEF u
<1>6. TaskOK(u) /\ ~HasFailed(u) /\ u.op = t.op
  BY <1>1, <1>3, <1>4, <1>5, NewTask
<1>7. page'.prediction = Nothing /\ page' \in [Views -> Showing \cup {Nothing}]
  BY <1>2 DEF Views
<1>8. TypeOK'
  BY <1>1, <1>7 DEF TypeOK, SelectLeague, Others, history
<1> QED BY <1>2, <1>6, <1>7, <1>8, OnKeeps

LEMMA WroteKeeps ==
  ASSUME WInv, NEW t \in tasks, Wrote(t) PROVE WInv'
<1>1. /\ TaskOK(t) /\ TypeOK /\ 0 \in 0..TotalWeeks
      /\ Answered(t, "write") /\ t.at = "write" /\ UNCHANGED Others
  BY WebAssumption DEF WInv, TInv, Wrote, Answered
<1>2. t.op \in Exclusive /\ ~Refreshing(t) /\ (t.op # "create" => t.lg \in League)
  BY <1>1 DEF TaskOK, Fits, Refreshing
<1>3. \A id \in League, place \in {"league", "list"} :
        place = "league" \/ t.op \in {"create", "delete"}
        => /\ TaskOK(AtNext(t, place, id, 0, {place}))
           /\ ~HasFailed(AtNext(t, place, id, 0, {place}))
           /\ AtNext(t, place, id, 0, {place}).op = t.op
  <2> TAKE id \in League, place \in {"league", "list"}
  <2> HAVE place = "league" \/ t.op \in {"create", "delete"}
  <2> DEFINE u == AtNext(t, place, id, 0, {place})
  <2>1. Fits(t.op, place, id, t.match)
    BY <1>1, <1>2 DEF TaskOK, Fits, Places, Exclusive
  <2>2. Needed(place) \subseteq {place} /\ {place} \subseteq Expected(place)
    BY DEF Needed, Expected
  <2>3. u = Task(t.no, t.op, place, id, 0, t.match, {place})
    BY DEF AtNext
  <2> HIDE DEF u
  <2>4. TaskOK(u) /\ ~HasFailed(u) /\ u.op = t.op
    BY <1>1, <2>1, <2>2, <2>3, NewTask
  <2> QED BY <2>4 DEF u
<1>4. CASE t.op \in Mutations /\ UNCHANGED pageVars
           /\ IF league = Nothing THEN End(t)
              ELSE Awaits(t, "league", league.of, 0, {"league"})
  <2>1. TypeOK'
    BY <1>1, <1>4 DEF TypeOK, End, Awaits, pageVars, Others, history
  <2>2. CASE league = Nothing
    BY <1>1, <1>2, <1>4, <2>1, <2>2, EndKeeps DEF pageVars
  <2>3. CASE league # Nothing
    <3>1. league.of \in League
      BY <1>1, <2>3 DEF TypeOK, Showing
    <3> DEFINE u == AtNext(t, "league", league.of, 0, {"league"})
    <3>2. tasks' = (tasks \ {t}) \cup {u} /\ busy' = busy
      BY <1>4, <2>3 DEF Awaits
    <3>3. TaskOK(u) /\ ~HasFailed(u) /\ u.op = t.op
      <4>1. \A place \in {"league", "list"} :
              place = "league"
              => /\ TaskOK(AtNext(t, place, league.of, 0, {place}))
                 /\ ~HasFailed(AtNext(t, place, league.of, 0, {place}))
                 /\ AtNext(t, place, league.of, 0, {place}).op = t.op
        BY <1>3, <3>1
      <4> QED BY <4>1
    <3>4. league' = league /\ page' = page
      BY <1>4 DEF pageVars
    <3> HIDE DEF u
    <3> QED BY <1>1, <1>2, <2>1, <3>2, <3>3, <3>4, OnKeeps
  <2> QED BY <2>2, <2>3
<1>5. CASE t.op = "edit" /\ edit' = Nothing /\ Refresh(t, league)
           /\ UNCHANGED <<leagues, selectedId, league, page, audits, tab, expandedAudit>>
  <2>1. league \in Showing \cup {Nothing} /\ edit' \in League \cup {Nothing}
    BY <1>1, <1>5 DEF TypeOK
  <2> QED BY <1>1, <1>2, <1>5, <2>1, RefreshKeeps
<1>6. CASE t.op = "delete" /\ league' = Nothing /\ selectedId' = Nothing
           /\ Awaits(t, "list", t.lg, 0, {"list"})
           /\ UNCHANGED <<leagues, page, audits, tab, edit, expandedAudit>>
  <2> DEFINE u == AtNext(t, "list", t.lg, 0, {"list"})
  <2>1. tasks' = (tasks \ {t}) \cup {u} /\ busy' = busy
    BY <1>6 DEF Awaits
  <2>2. TaskOK(u) /\ ~HasFailed(u) /\ u.op = t.op
    BY <1>2, <1>3, <1>6
  <2>3. TypeOK'
    BY <1>1, <1>6, <2>1 DEF TypeOK, Others, history
  <2> HIDE DEF u
  <2> QED BY <1>1, <1>6, <2>1, <2>2, <2>3, OnKeeps
<1>7. CASE t.op = "create" /\ Awaits(t, "list", t.got["write"], 0, {"list"})
           /\ UNCHANGED pageVars
  <2>1. t.got["write"] \in League
    <3>1. "write" \in DOMAIN t.got
      BY <1>1, AnsweredHas DEF Needed
    <3> QED BY <1>1, <1>7, <3>1, AnsweredHas
  <2> DEFINE u == AtNext(t, "list", t.got["write"], 0, {"list"})
  <2>2. tasks' = (tasks \ {t}) \cup {u} /\ busy' = busy
    BY <1>7 DEF Awaits
  <2>3. TaskOK(u) /\ ~HasFailed(u) /\ u.op = t.op
    BY <1>3, <1>7, <2>1
  <2>4. TypeOK'
    BY <1>1, <1>7, <2>2 DEF TypeOK, pageVars, Others, history
  <2>5. league' = league /\ page' = page
    BY <1>7 DEF pageVars
  <2> HIDE DEF u
  <2> QED BY <1>1, <1>2, <2>2, <2>3, <2>4, <2>5, OnKeeps
<1> QED BY <1>4, <1>5, <1>6, <1>7 DEF Wrote

LEMMA ListedKeeps ==
  ASSUME WInv, NEW t \in tasks, Listed(t) PROVE WInv'
<1> DEFINE lost  == t.got["list"] = Failed
           known == IF lost THEN leagues ELSE t.got["list"]
<1>1. /\ TaskOK(t) /\ TypeOK /\ t.at = "list" /\ t.due = {}
      /\ leagues' = known /\ UNCHANGED <<Others, league, audits>>
  BY DEF WInv, TInv, Listed
<1>2. known \subseteq League
  <2>1. "list" \in DOMAIN t.got
    BY <1>1 DEF TaskOK, Needed
  <2>2. lost \/ t.got["list"] \in SUBSET League
    BY <1>1, <2>1 DEF TaskOK, Answers
  <2> QED BY <1>1, <2>2 DEF TypeOK
<1>3. /\ t.op \in {"bootstrap", "create", "delete"} /\ ~Refreshing(t)
      /\ t.op # "bootstrap" => t.lg \in League
  BY <1>1 DEF TaskOK, Fits, Refreshing
<1>4. CASE t.op = "create" /\ SelectLeague(t, t.lg) /\ busy' = busy
  BY <1>1, <1>2, <1>3, <1>4, SelectKeeps
<1>5. CASE known # {} /\ SelectLeague(t, Max(known)) /\ busy' = busy
  <2>1. Max(known) \in League
    BY <1>2, <1>5, NewestLeague
  <2> HIDE DEF known
  <2> QED BY <1>1, <1>2, <1>3, <1>5, <2>1, SelectKeeps
<1>6. CASE End(t) /\ UNCHANGED <<selectedId, page, tab, edit, expandedAudit>>
  <2>1. TypeOK'
    BY <1>1, <1>2, <1>6 DEF TypeOK, End, Others, history
  <2>2. league' = league /\ page' = page
    BY <1>1, <1>6
  <2> QED BY <1>1, <1>3, <1>6, <2>1, <2>2, EndKeeps
<1> QED BY <1>4, <1>5, <1>6 DEF Listed

LEMMA LeagueReadKeeps ==
  ASSUME WInv, NEW t \in tasks, LeagueRead(t) PROVE WInv'
<1>1. /\ TaskOK(t) /\ TypeOK /\ Answered(t, "league") /\ t.at = "league"
      /\ league' = t.got["league"] /\ Refresh(t, t.got["league"])
      /\ UNCHANGED <<Others, leagues, selectedId, page, audits, tab, edit, expandedAudit>>
  BY DEF WInv, TInv, LeagueRead, Answered
<1>2. t.got["league"] \in Showing \cup {Nothing}
  BY <1>1, GotView
<1>3. t.op \notin {"tab", "audit", "predict"} /\ ~Refreshing(t)
  BY <1>1 DEF TaskOK, Fits, Refreshing
<1>4. edit' \in League \cup {Nothing}
  BY <1>1 DEF TypeOK
<1> QED BY <1>1, <1>2, <1>3, <1>4, RefreshKeeps

LEMMA TablesReadKeeps ==
  ASSUME WInv, NEW t \in tasks, TablesRead(t) PROVE WInv'
<1> DEFINE shown == [page EXCEPT !.standings = t.got["standings"],
                                 !.week = IF "week" \in DOMAIN t.got THEN t.got["week"]
                                          ELSE Nothing]
<1>1. /\ TaskOK(t) /\ TypeOK /\ Answered(t, "tables") /\ t.at = "tables"
      /\ LoadTab(t, shown, {"fixtures", "history"})
      /\ UNCHANGED <<Others, leagues, selectedId, league, audits, tab, edit, expandedAudit>>
  BY DEF WInv, TInv, TablesRead, Answered
<1>2. t.got["standings"] \in Showing
  <2>1. "standings" \in DOMAIN t.got
    BY <1>1, AnsweredHas DEF Needed
  <2> QED BY <1>1, <2>1, AnsweredHas DEF Answers
<1>3. "week" \in DOMAIN t.got => t.got["week"] \in Showing
  BY <1>1, AnsweredHas DEF Answers
<1>4. shown \in [Views -> Showing \cup {Nothing}]
  <2>1. page \in [Views -> Showing \cup {Nothing}]
    BY <1>1 DEF TypeOK
  <2>2. (IF "week" \in DOMAIN t.got THEN t.got["week"] ELSE Nothing) \in Showing \cup {Nothing}
    BY <1>3
  <2> QED BY <1>2, <2>1, <2>2 DEF Views
<1>5. Refreshing(t)
  BY <1>1 DEF TaskOK, Fits, Refreshing
<1> HIDE DEF shown
<1> QED BY <1>1, <1>4, <1>5, LoadTabKeeps

LEMMA TabReadKeeps ==
  ASSUME WInv, NEW t \in tasks, TabRead(t) PROVE WInv'
<1>1. PICK view \in {"fixtures", "history"} :
        /\ Answered(t, view)
        /\ LET shown == [page EXCEPT ![view] = t.got[view]]
           IN IF t.op = "tab"
              THEN /\ page' = shown
                   /\ End(t)
              ELSE LoadTab(t, shown, IF view = "fixtures" THEN {"history"} ELSE {})
  BY DEF TabRead
<1> DEFINE shown == [page EXCEPT ![view] = t.got[view]]
           tabs  == IF view = "fixtures" THEN {"history"} ELSE {}
<1>2. /\ TaskOK(t) /\ TypeOK /\ t.at = view
      /\ UNCHANGED <<Others, leagues, selectedId, league, audits, tab, edit, expandedAudit>>
  BY <1>1 DEF WInv, TInv, TabRead, Answered
<1>3. shown \in [Views -> Showing \cup {Nothing}] /\ shown.prediction = page.prediction
  <2>1. page \in [Views -> Showing \cup {Nothing}]
    BY <1>2 DEF TypeOK
  <2>2. t.got[view] \in Showing
    BY <1>1, <1>2, GotView
  <2> QED BY <2>1, <2>2 DEF Views
<1>4. CASE t.op = "tab"
  <2>1. page' = shown /\ End(t)
    BY <1>1, <1>4
  <2> HIDE DEF shown
  <2>2. TypeOK'
    BY <1>2, <1>3, <2>1 DEF TypeOK, End, Others, history
  <2>3. ~Refreshing(t)
    BY <1>4 DEF Refreshing
  <2> QED BY <1>2, <1>3, <2>1, <2>2, <2>3, EndKeeps
<1>5. CASE t.op # "tab"
  <2>1. Refreshing(t)
    BY <1>2, <1>5 DEF Refreshing
  <2>2. LoadTab(t, shown, tabs) /\ tabs \subseteq {"fixtures", "history"}
    BY <1>1, <1>5
  <2> HIDE DEF shown, tabs
  <2> QED BY <1>2, <1>3, <2>1, <2>2, LoadTabKeeps
<1> QED BY <1>4, <1>5

\* The prediction that is shown is of the league its task asked for.
LEMMA PredictionReadKeeps ==
  ASSUME WInv, NEW t \in tasks, PredictionRead(t) PROVE WInv'
<1> DEFINE answer == t.got["prediction"]
<1>1. /\ TaskOK(t) /\ TypeOK /\ Answered(t, "prediction") /\ t.at = "prediction"
      /\ page' = IF answer # TooEarly /\ league # Nothing /\ league.of = t.lg
                 THEN [page EXCEPT !.prediction = answer] ELSE page
      /\ End(t)
      /\ UNCHANGED <<Others, leagues, selectedId, league, audits, tab, edit, expandedAudit>>
  BY DEF WInv, TInv, PredictionRead, Answered
<1>2. answer = TooEarly \/ (answer \in Showing /\ answer.of = t.lg)
  <2>1. "prediction" \in DOMAIN t.got
    BY <1>1, AnsweredHas DEF Needed
  <2>2. answer \in Answers(t.op, t.lg, "prediction")
    BY <1>1, <2>1, AnsweredHas
  <2> HIDE DEF answer
  <2> QED BY <2>2 DEF Answers
<1> HIDE DEF answer
<1>3. page' \in [Views -> Showing \cup {Nothing}]
      /\ (page'.prediction = page.prediction \/ page'.prediction.of = league.of)
  <2>1. page \in [Views -> Showing \cup {Nothing}]
    BY <1>1 DEF TypeOK
  <2>2. CASE answer # TooEarly /\ league # Nothing /\ league.of = t.lg
    <3>1. page' = [page EXCEPT !.prediction = answer]
      BY <1>1, <2>2
    <3> QED BY <1>2, <2>1, <2>2, <3>1 DEF Views
  <2>3. CASE page' = page
    BY <2>1, <2>3
  <2> QED BY <1>1, <2>2, <2>3
<1>4. TypeOK'
  BY <1>1, <1>3 DEF TypeOK, End, Others, history
<1>5. ~Refreshing(t)
  BY <1>1 DEF Refreshing
<1>6. league' = league
  BY <1>1
<1> QED BY <1>1, <1>3, <1>4, <1>5, <1>6, EndKeeps

LEMMA AuditReadKeeps ==
  ASSUME WInv, NEW t \in tasks, AuditRead(t) PROVE WInv'
<1>1. /\ TaskOK(t) /\ TypeOK /\ Answered(t, "audit") /\ t.at = "audit" /\ End(t)
      /\ audits' = [audits EXCEPT ![t.lg] = t.got["audit"]]
      /\ UNCHANGED <<Others, leagues, selectedId, league, page, tab, edit, expandedAudit>>
  BY DEF WInv, TInv, AuditRead, Answered
<1>2. t.got["audit"] \in Showing
  BY <1>1, GotView
<1>3. TypeOK'
  BY <1>1, <1>2 DEF TypeOK, End, Others, history
<1>4. ~Refreshing(t) /\ league' = league /\ page' = page
  BY <1>1 DEF Refreshing
<1> QED BY <1>1, <1>3, <1>4, EndKeeps

\* A refresh that fails has left the mark that a request failed.
LEMMA FailsKeeps ==
  ASSUME WInv, NEW t \in tasks, Fails(t) PROVE WInv'
<1>1. TaskOK(t) /\ TypeOK /\ HasFailed(t) /\ End(t) /\ UNCHANGED <<Others, pageVars>>
  BY DEF WInv, TInv, Fails, HasFailed
<1>2. Refreshing(t) => failed
  <2>1. Refreshing(t) => t.op # "predict"
    BY <1>1 DEF TaskOK, Fits, Refreshing
  <2> QED BY <1>1, <2>1 DEF WInv, Covered
<1>3. TypeOK'
  BY <1>1 DEF TypeOK, End, Others, history, pageVars
<1>4. league' = league /\ page' = page
  BY <1>1 DEF pageVars
<1> QED BY <1>1, <1>2, <1>3, <1>4, EndKeeps

LEMMA RespondKeeps == ASSUME WInv, Respond PROVE WInv'
<1>1. PICK t \in tasks : Serve(t) \/ Proceed(t)
  BY DEF Respond
<1> QED BY <1>1, ServeKeeps, WroteKeeps, ListedKeeps, LeagueReadKeeps, TablesReadKeeps,
           TabReadKeeps, PredictionReadKeeps, AuditReadKeeps, FailsKeeps DEF Proceed

(***************************************************************************)
(* The user clicks.                                                        *)
(***************************************************************************)

\* A click adds a task, and locks the buttons or leaves them as they are.
LEMMA StartsKeeps ==
  ASSUME WInv, NEW op, NEW at, NEW lg, NEW match, NEW q, Starts(op, at, lg, match, q),
         Fits(op, at, lg, match), at # "tables", q = at,
         \/ op \notin Exclusive /\ busy' = busy
         \/ op \in Exclusive /\ ~busy /\ busy' = TRUE,
         UNCHANGED <<league, page, failures>>, TypeOK'
  PROVE  WInv'
<1> DEFINE u == Task(clicks + 1, op, at, lg, 0, match, {q})
<1>1. /\ tasks' = tasks \cup {u} /\ failed' = failed
      /\ clicks' \in Nat /\ failures' \in Nat /\ 0 \in 0..TotalWeeks
  BY WebAssumption DEF Starts, WInv, TInv
<1>2. TaskOK(u) /\ ~HasFailed(u) /\ u.op = op
  <2>1. Needed(at) \subseteq {q} /\ {q} \subseteq Expected(at)
    BY DEF Needed, Expected
  <2> QED BY <1>1, <2>1, NewTask
<1> HIDE DEF u
<1>3. \A t \in tasks' : TaskOK(t)'
  <2>1. \A t \in tasks' : TaskOK(t)
    BY <1>1, <1>2 DEF WInv, TInv
  <2> QED BY <2>1 DEF TaskOK, Fits, Answers
<1>4. Locked'
  <2>1. CASE op \notin Exclusive /\ busy' = busy
    <3>1. ExclusiveTasks' = ExclusiveTasks
      BY <1>1, <1>2, <2>1 DEF ExclusiveTasks
    <3> QED BY <1>1, <2>1, <3>1 DEF WInv, Locked
  <2>2. CASE op \in Exclusive /\ ~busy /\ busy' = TRUE
    <3>1. ExclusiveTasks' = {u}
      BY <1>1, <1>2, <2>2 DEF WInv, Locked, ExclusiveTasks
    <3> QED BY <1>1, <2>2, <3>1 DEF Locked
  <2> QED BY <2>1, <2>2
<1>5. Covered'
  BY <1>1, <1>2 DEF WInv, Covered
<1> QED BY <1>1, <1>3, <1>4, <1>5 DEF WInv, TInv

\* A click that sends nothing.
LEMMA LocalKeeps ==
  ASSUME WInv, TypeOK', UNCHANGED <<league, page, busy, tasks, clicks, failures, history>>
  PROVE  WInv'
BY DEF WInv, TInv, TaskOK, Fits, Answers, Locked, ExclusiveTasks, Covered, history

LEMMA LocksKeeps ==
  ASSUME WInv, NEW op \in Exclusive \ {"bootstrap"}, NEW lg, NEW match, Locks(op, lg, match),
         lg \in League \/ (lg = Nothing /\ op = "create"), op = "edit" => match \in League
  PROVE  WInv'
<1>1. /\ Starts(op, "write", lg, match, "write") /\ ~busy /\ busy' = TRUE
      /\ UNCHANGED <<server, pageVars, failures>>
  BY DEF Locks
<1>2. Fits(op, "write", lg, match)
  BY DEF Fits, TaskOps, Places, Exclusive
<1>3. TypeOK'
  BY <1>1 DEF WInv, TInv, TypeOK, Starts, pageVars
<1>4. UNCHANGED <<league, page, failures>>
  BY <1>1 DEF pageVars
<1> QED BY <1>1, <1>2, <1>3, <1>4, StartsKeeps

\* The matches the page shows are those of a league.
LEMMA MatchesShown ==
  ASSUME TypeOK PROVE MatchShown \subseteq League /\ PlayedMatches \subseteq League
BY DEF TypeOK, MatchShown, PlayedMatches, Showing, Views

\* A selection, also one that starts afresh in quiet.
LEMMA SelectClickKeeps == ASSUME WInv, Select PROVE WInv'
<1>1. PICK id \in leagues \ {selectedId} :
        SelectLeague(Task(clicks + 1, "select", "league", id, 0, Nothing, {}), id)
  BY DEF Select
<1> DEFINE t == Task(clicks + 1, "select", "league", id, 0, Nothing, {})
           u == AtNext(t, "league", id, 0, {"league"})
<1>2. /\ TypeOK /\ 0 \in 0..TotalWeeks /\ id \in League
      /\ clicks' \in Nat /\ failures' \in Nat
      /\ UNCHANGED <<server, leagues, league, audits, busy, failures>>
      /\ IF InFlight = {} THEN failed' = FALSE /\ overlapped' = FALSE
         ELSE overlapped' = TRUE /\ UNCHANGED failed
  BY WebAssumption DEF WInv, TInv, TypeOK, Select
<1>3. t.op = "select" /\ t.no = clicks + 1 /\ t.match = Nothing
  BY DEF Task
<1>4. /\ selectedId' = id /\ tab' = "table" /\ edit' = Nothing /\ expandedAudit' = Nothing
      /\ page' = [v \in Views |-> Nothing]
      /\ tasks' = (tasks \ {t}) \cup {u}
  BY <1>1 DEF SelectLeague
<1>5. TaskOK(u) /\ ~HasFailed(u) /\ u.op = "select"
  <2>1. Fits("select", "league", id, Nothing)
    BY <1>2 DEF Fits, TaskOps, Places, Exclusive
  <2>2. Needed("league") \subseteq {"league"} /\ {"league"} \subseteq Expected("league")
    BY DEF Needed, Expected
  <2>3. u = Task(clicks + 1, "select", "league", id, 0, Nothing, {"league"})
    BY <1>3 DEF AtNext
  <2> HIDE DEF u
  <2> QED BY <1>2, <2>1, <2>2, <2>3, NewTask
<1> HIDE DEF t, u
<1>6. TypeOK'
  BY <1>2, <1>4 DEF TypeOK, Views
<1>7. \A v \in tasks' : TaskOK(v)'
  <2>1. \A v \in tasks' : TaskOK(v)
    BY <1>4, <1>5 DEF WInv, TInv
  <2> QED BY <2>1 DEF TaskOK, Fits, Answers
<1>8. Locked'
  <2>1. t.op \notin Exclusive /\ u.op \notin Exclusive
    BY <1>3, <1>5 DEF Exclusive
  <2>2. ExclusiveTasks' = ExclusiveTasks
    BY <1>4, <2>1 DEF ExclusiveTasks
  <2> QED BY <1>2, <1>4, <2>1, <2>2 DEF WInv, Locked, ExclusiveTasks
<1>9. Covered'
  <2>1. \A v \in tasks' : v.op # "predict" /\ HasFailed(v) => failed'
    <3>1. CASE InFlight = {}
      BY <1>4, <1>5, <3>1 DEF InFlight
    <3>2. CASE failed' = failed
      BY <1>4, <1>5, <3>2 DEF WInv, Covered
    <3> QED BY <1>2, <3>1, <3>2
  <2>2. page'.prediction = Nothing
    BY <1>4 DEF Views
  <2> QED BY <2>1, <2>2 DEF Covered
<1> QED BY <1>2, <1>6, <1>7, <1>8, <1>9 DEF WInv, TInv

LEMMA ClickKeeps == ASSUME WInv, Click PROVE WInv'
<1>1. TypeOK
  BY DEF WInv, TInv
<1>2. league # Nothing => league.of \in League
  BY <1>1 DEF TypeOK, Showing
<1>3. ASSUME NEW op \in Mutations, ClickMutate(op) PROVE WInv'
  <2>1. op \in Exclusive \ {"bootstrap"} /\ op # "edit"
    BY DEF Mutations, Exclusive
  <2>2. Locks(op, league.of, Nothing) /\ league.of \in League
    BY <1>2, <1>3 DEF ClickMutate
  <2> QED BY <2>1, <2>2, LocksKeeps
<1>4. CASE ClickDelete
  <2>1. "delete" \in Exclusive \ {"bootstrap"} /\ "delete" # "edit"
    BY DEF Exclusive
  <2>2. Locks("delete", league.of, Nothing) /\ league.of \in League
    BY <1>2, <1>4 DEF ClickDelete
  <2> QED BY <2>1, <2>2, LocksKeeps
<1>5. CASE ClickCreate
  <2>1. "create" \in Exclusive \ {"bootstrap"} /\ "create" # "edit"
    BY DEF Exclusive
  <2>2. Locks("create", Nothing, Nothing)
    BY <1>5 DEF ClickCreate
  <2> QED BY <2>1, <2>2, LocksKeeps
<1>6. CASE ClickSave
  <2>1. "edit" \in Exclusive \ {"bootstrap"}
    BY DEF Exclusive
  <2>2. Locks("edit", edit, edit) /\ edit \in League
    BY <1>1, <1>6, MatchesShown DEF ClickSave
  <2> QED BY <2>1, <2>2, LocksKeeps
<1>7. CASE StartEdit
  <2>1. TypeOK'
    BY <1>1, <1>7, MatchesShown DEF StartEdit, TypeOK, history
  <2> QED BY <1>7, <2>1, LocalKeeps DEF StartEdit
<1>8. CASE CancelEdit
  <2>1. TypeOK'
    BY <1>1, <1>8 DEF CancelEdit, TypeOK, history
  <2> QED BY <1>8, <2>1, LocalKeeps DEF CancelEdit
<1>9. CASE Select
  BY <1>9, SelectClickKeeps
<1>10. CASE SwitchTab
  <2>1. PICK name \in {"table", "fixtures", "history"} :
          /\ tab' = name
          /\ IF name = "table" THEN UNCHANGED <<clicks, tasks, history>>
             ELSE Starts("tab", name, league.of, Nothing, name)
    BY <1>10 DEF SwitchTab
  <2>2. /\ league.of \in League
        /\ UNCHANGED <<server, leagues, selectedId, league, page, audits, edit, expandedAudit,
                       busy, failures>>
    BY <1>2, <1>10 DEF SwitchTab
  <2>3. TypeOK'
    BY <1>1, <2>1, <2>2 DEF TypeOK, Starts, history
  <2>4. CASE name = "table"
    BY <2>1, <2>2, <2>3, <2>4, LocalKeeps
  <2>5. CASE name # "table"
    <3>1. Fits("tab", name, league.of, Nothing)
      BY <2>1, <2>2, <2>5 DEF Fits, TaskOps, Places, Exclusive
    <3>2. "tab" \notin Exclusive /\ name # "tables"
      BY <2>1 DEF Exclusive
    <3> QED BY <2>1, <2>2, <2>3, <2>5, <3>1, <3>2, StartsKeeps
  <2> QED BY <2>4, <2>5
<1>11. CASE ToggleAudit
  <2>1. PICK m \in PlayedMatches \ {edit} :
          IF expandedAudit = m
          THEN /\ expandedAudit' = Nothing
               /\ UNCHANGED <<clicks, tasks, history>>
          ELSE /\ expandedAudit' = m
               /\ Starts("audit", "audit", m, Nothing, "audit")
    BY <1>11 DEF ToggleAudit
  <2>2. /\ m \in League
        /\ UNCHANGED <<server, leagues, selectedId, league, page, audits, tab, edit, busy, failures>>
    BY <1>1, <1>11, MatchesShown DEF ToggleAudit
  <2>3. TypeOK'
    BY <1>1, <2>1, <2>2 DEF TypeOK, Starts, history
  <2>4. CASE expandedAudit = m
    BY <2>1, <2>2, <2>3, <2>4, LocalKeeps
  <2>5. CASE expandedAudit # m
    <3>1. Fits("audit", "audit", m, Nothing)
      BY <2>2 DEF Fits, TaskOps, Places, Exclusive
    <3>2. "audit" \notin Exclusive
      BY DEF Exclusive
    <3> QED BY <2>1, <2>2, <2>3, <2>5, <3>1, <3>2, StartsKeeps
  <2> QED BY <2>4, <2>5
<1> QED BY <1>3, <1>4, <1>5, <1>6, <1>7, <1>8, <1>9, <1>10, <1>11 DEF Click

\* The page as it is opened: bootstrap() holds the lock.
LEMMA InitKeeps == Init => WInv
<1> SUFFICES ASSUME Init PROVE WInv
  OBVIOUS
<1> DEFINE t == Task(0, "bootstrap", "list", Nothing, 0, Nothing, {"list"})
<1>1. tasks = {t} /\ 0 \in 0..TotalWeeks
  BY WebAssumption DEF Init
<1>2. TaskOK(t) /\ ~HasFailed(t) /\ t.op = "bootstrap"
  <2>1. Fits("bootstrap", "list", Nothing, Nothing)
    BY DEF Fits, TaskOps, Places, Exclusive
  <2>2. Needed("list") \subseteq {"list"} /\ {"list"} \subseteq Expected("list")
    BY DEF Needed, Expected
  <2> QED BY <1>1, <2>1, <2>2, NewTask
<1> HIDE DEF t
<1>3. TypeOK
  <2>1. server \in [League -> {Unborn, Deleted} \cup State]
    <3>1. \A w \in 0..TotalWeeks : [week |-> w, at |-> 0, edits |-> 0] \in State
      BY DEF State
    <3> QED BY <3>1 DEF Init
  <2> QED BY <2>1 DEF Init, TypeOK
<1>4. Locked
  <2>1. ExclusiveTasks = {t}
    BY <1>1, <1>2 DEF ExclusiveTasks, Exclusive
  <2> QED BY <1>1, <2>1 DEF Init, Locked
<1>5. Covered
  BY <1>1, <1>2 DEF Init, Covered
<1> QED BY <1>1, <1>2, <1>3, <1>4, <1>5 DEF Init, WInv, TInv

\* The page keeps its invariant whatever the user clicks and whatever order the
\* answers come in.
THEOREM WebInvariance == Spec => []WInv
<1>1. WInv /\ [Next]_vars => WInv'
  <2> SUFFICES ASSUME WInv, [Next]_vars PROVE WInv'
    OBVIOUS
  <2>1. CASE UNCHANGED vars
    <3>1. TypeOK'
      BY <2>1 DEF WInv, TInv, TypeOK, vars, pageVars, history
    <3> QED BY <2>1, <3>1, LocalKeeps DEF vars, pageVars
  <2> QED BY <2>1, RespondKeeps, ClickKeeps DEF Next
<1> QED BY <1>1, InitKeeps, PTL DEF Spec

\* The page's variables keep their types: no answer is taken for another.
THEOREM WebTypeCorrect == Spec => []TypeOK
<1>1. WInv => TypeOK
  BY DEF WInv, TInv
<1> QED BY <1>1, WebInvariance, PTL

\* The buttons are locked exactly while one of the handlers that lock them runs,
\* and never two of those at once (busy, web/index.html).
THEOREM ButtonsLockedByOne == Spec => []LockedByOne
<1>1. WInv => LockedByOne
  <2> SUFFICES ASSUME WInv PROVE LockedByOne
    OBVIOUS
  <2>1. CASE busy
    <3>1. PICK t \in tasks : ExclusiveTasks = {t}
      BY <2>1 DEF WInv, Locked
    <3> QED BY <2>1, <3>1, FS_Singleton DEF LockedByOne
  <2>2. CASE ~busy
    <3>1. ExclusiveTasks = {}
      BY <2>2 DEF WInv, Locked
    <3> QED BY <2>2, <3>1, FS_EmptySet DEF LockedByOne
  <2> QED BY <2>1, <2>2
<1> QED BY <1>1, WebInvariance, PTL

\* When all is quiet and nothing failed, the prediction shown is of the league
\* shown, however selections and writes overlapped and their answers arrived.
THEOREM PredictionsStayWithTheirLeague == Spec => []PredictionOfShownLeague
<1>1. WInv => PredictionOfShownLeague
  BY DEF WInv, Covered, PredictionOfShownLeague, Quiet
<1> QED BY <1>1, WebInvariance, PTL

(***************************************************************************)
(* The page of a user who waits for each handler.                          *)
(***************************************************************************)

\* Nothing failed and no two handlers overlapped since the last selection in quiet.
Undisturbed == ~failed /\ ~overlapped

\* What is on the page, or comes to it, is of the league lg.
PageOf(lg) ==
  /\ selectedId = lg /\ lg \in leagues
  /\ page.fixtures = Nothing \/ page.fixtures.of = lg
  /\ expandedAudit = Nothing \/ expandedAudit = lg

\* The league shown is lg, in the week the server has.
Shows(lg) ==
  /\ league # Nothing /\ league.of = lg /\ Exists(lg)
  /\ league.week = server[lg].week

\* The parts of the page p that are of the present.
OfNow(view)  == view # Nothing /\ view.of = league.of /\ view.at = server[league.of].at
TablesNow(p) == /\ OfNow(p.standings)
                /\ league.week > 0 => OfNow(p.week) /\ p.week.week = league.week
TabNow(p)    == tab # "table" => OfNow(p[tab])
AuditNow     == expandedAudit # Nothing =>
                  /\ audits[expandedAudit] # Nothing
                  /\ audits[expandedAudit].edits = server[expandedAudit].edits

\* A handler that runs alone, at each of its awaits: its answers are what the
\* server would answer still, and what it will not load any more is of the present.
AtWrite(t) ==
  /\ t.op = "create" /\ "write" \in DOMAIN t.got => Exists(t.got["write"])
  /\ t.op \in Mutations \cup {"edit"} =>
       league # Nothing /\ league.of = t.lg /\ Exists(t.lg) /\ PageOf(t.lg)
  /\ t.op = "edit" => league.week = server[t.lg].week
  /\ t.op \in Mutations => AuditNow

AtList(t)   == IF t.op = "create" THEN Exists(t.lg) ELSE league = Nothing
AtLeague(t) == t.op # "edit" /\ PageOf(t.lg) /\ AuditNow

AtTables(t) ==
  /\ Shows(t.lg) /\ PageOf(t.lg) /\ (t.op = "edit" \/ AuditNow)
  /\ t.week = league.week
  /\ t.week >= 1 => "week" \in t.due \cup DOMAIN t.got

AtTab(t) ==
  /\ Shows(t.lg) /\ PageOf(t.lg) /\ (t.op = "edit" \/ AuditNow)
  /\ TablesNow(page) /\ (tab = "table" \/ tab = t.at)

AtAudit(t) == Shows(t.lg) /\ PageOf(t.lg) /\ TablesNow(page) /\ TabNow(page)

Underway(t) ==
  /\ t.op = "edit" => t.match = t.lg
  /\ \A q \in DOMAIN t.got \ {"write"} : t.got[q] = Read(t, q)
  /\ t.at = "write"  => AtWrite(t)
  /\ t.at = "list"   => AtList(t)
  /\ t.at = "league" => AtLeague(t)
  /\ t.at = "tables" => AtTables(t)
  /\ t.at \in {"fixtures", "history"} => AtTab(t)
  /\ t.at = "audit"  => AtAudit(t)

\* Nothing is in flight but predictions: all that is shown is of the present.
Settled ==
  league # Nothing =>
    Shows(league.of) /\ PageOf(league.of) /\ TablesNow(page) /\ TabNow(page) /\ AuditNow

Agreed == Undisturbed =>
  /\ \A t, u \in InFlight : t = u
  /\ \A t \in InFlight : Underway(t)
  /\ InFlight = {} => Settled

LEMMA TaskFields ==
  ASSUME NEW no, NEW op, NEW at, NEW lg, NEW week, NEW match, NEW queries,
         NEW t, t = Task(no, op, at, lg, week, match, queries)
  PROVE  /\ t.no = no /\ t.op = op /\ t.at = at /\ t.lg = lg /\ t.week = week
         /\ t.match = match /\ t.due = queries /\ DOMAIN t.got = {}
BY DEF Task

\* A handler in a page that is undisturbed is the only one.
LEMMA TheOne ==
  ASSUME WInv, Agreed, Undisturbed, NEW t \in tasks, t.op # "predict"
  PROVE  /\ InFlight = {t} /\ Underway(t) /\ TaskOK(t) /\ TypeOK
         /\ \A q \in DOMAIN t.got : t.got[q] # Failed
BY DEF Agreed, InFlight, WInv, TInv, Covered, HasFailed, Undisturbed

\* It goes on to its next await, or it ends.
LEMMA OnAgrees ==
  ASSUME NEW u, InFlight' = {u}, Undisturbed' => Underway(u)' PROVE Agreed'
BY DEF Agreed

LEMMA OffAgrees ==
  ASSUME InFlight' = {}, Undisturbed' => Settled' PROVE Agreed'
BY DEF Agreed

\* An answer that it has is of the present.
LEMMA GotNow ==
  ASSUME NEW t, TaskOK(t), Underway(t), NEW q \in DOMAIN t.got, t.got[q] # Failed,
         q \in {"league", "standings", "week", "fixtures", "history", "audit"}
  PROVE  /\ Exists(t.lg) /\ t.got[q] \in Showing /\ t.got[q] # Nothing
         /\ t.got[q].of = t.lg /\ t.got[q].at = server[t.lg].at
         /\ t.got[q].edits = server[t.lg].edits
         /\ t.got[q].week = IF q = "week" THEN t.week ELSE server[t.lg].week
<1>1. t.got[q] = Read(t, q)
  BY DEF Underway
<1>2. Exists(t.lg)
  BY <1>1 DEF Read
<1>3. t.got[q] = Shown(t.lg, server[t.lg], IF q = "week" THEN t.week ELSE server[t.lg].week)
  BY <1>1, <1>2 DEF Read
<1>4. t.got[q] \in Showing
  BY DEF TaskOK, Answers
<1> QED BY <1>2, <1>3, <1>4, AbsentAssumption DEF Shown

\* A handler's facts outlive a step that changes none of what they speak of; a
\* tab or an audit log that is closed only makes them easier.
Untouched ==
  /\ server' = server /\ leagues' = leagues /\ selectedId' = selectedId
  /\ league' = league /\ audits' = audits
  /\ \A v \in {"standings", "week", "fixtures", "history"} : page'[v] = page[v]
  /\ tab' = tab \/ tab' = "table"
  /\ expandedAudit' = expandedAudit \/ expandedAudit' = Nothing

LEMMA PartsKept ==
  ASSUME TypeOK, Untouched
  PROVE  /\ \A lg : PageOf(lg) => PageOf(lg)'
         /\ \A lg : Shows(lg) => Shows(lg)'
         /\ TablesNow(page) => TablesNow(page)'
         /\ TabNow(page) => TabNow(page)'
         /\ AuditNow => AuditNow'
         /\ \A lg : Exists(lg) <=> Exists(lg)'
         /\ \A t, q : Read(t, q)' = Read(t, q)
<1>1. /\ page'.standings = page.standings /\ page'.week = page.week
      /\ page'.fixtures = page.fixtures
  BY DEF Untouched
<1>2. tab \in {"table", "fixtures", "history"} /\ (tab' # "table" => page'[tab'] = page[tab])
  BY DEF Untouched, TypeOK
<1>3. \A lg : PageOf(lg) => PageOf(lg)'
  BY <1>1 DEF PageOf, Untouched
<1>4. \A lg : Exists(lg) <=> Exists(lg)'
  BY DEF Exists, Untouched
<1>5. \A lg : Shows(lg) => Shows(lg)'
  BY <1>4 DEF Shows, Untouched
<1>6. TablesNow(page) => TablesNow(page)'
  BY <1>1 DEF TablesNow, OfNow, Untouched
<1>7. TabNow(page) => TabNow(page)'
  BY <1>2 DEF TabNow, OfNow, Untouched
<1>8. AuditNow => AuditNow'
  BY DEF AuditNow, Untouched
<1>9. \A t, q : Read(t, q)' = Read(t, q)
  BY DEF Read, Exists, Untouched
<1> QED BY <1>3, <1>4, <1>5, <1>6, <1>7, <1>8, <1>9

LEMMA SameFlight ==
  ASSUME TypeOK, Agreed, Undisturbed' => Undisturbed, InFlight' = InFlight, Untouched
  PROVE  Agreed'
<1> SUFFICES ASSUME Undisturbed'
             PROVE  /\ \A t \in InFlight : Underway(t) => Underway(t)'
                    /\ Settled => Settled'
  BY DEF Agreed
<1>1. ASSUME NEW t \in InFlight, Underway(t) PROVE Underway(t)'
  <2>1. AtWrite(t) => AtWrite(t)'
    BY PartsKept DEF AtWrite, Untouched
  <2>2. AtList(t) => AtList(t)'
    BY PartsKept DEF AtList, Untouched
  <2>3. AtLeague(t) => AtLeague(t)'
    BY PartsKept DEF AtLeague
  <2>4. AtTables(t) => AtTables(t)'
    BY PartsKept DEF AtTables, Untouched
  <2>5. AtTab(t) => AtTab(t)'
    BY PartsKept DEF AtTab, Untouched
  <2>6. AtAudit(t) => AtAudit(t)'
    BY PartsKept DEF AtAudit
  <2>7. \A q : Read(t, q)' = Read(t, q)
    BY PartsKept
  <2> QED BY <1>1, <2>1, <2>2, <2>3, <2>4, <2>5, <2>6, <2>7 DEF Underway
<1>2. Settled => Settled'
  BY PartsKept DEF Settled, Untouched
<1> QED BY <1>1, <1>2

\* What a write leaves of a league that it does not delete.
LEMMA WrittenFields ==
  ASSUME NEW s \in State, NEW kind \in Mutations \cup {"edit"}, Written(kind, s) # Failed
  PROVE  /\ Written(kind, s) \notin {Unborn, Deleted}
         /\ kind \in Mutations => Written(kind, s).edits = s.edits
         /\ kind = "edit" => Written(kind, s).week = s.week
<1> DEFINE new == Written(kind, s)
<1>1. s = [week |-> s.week, at |-> s.at, edits |-> s.edits]
  BY DEF State
<1>2. CASE kind = "playWeek"
  <2>1. ~Finished(s) /\ new = [s EXCEPT !.week = s.week + 1, !.at = s.at + 1]
    BY <1>2 DEF Written
  <2>2. new = [week |-> s.week + 1, at |-> s.at + 1, edits |-> s.edits]
    BY <1>1, <2>1
  <2> HIDE DEF new
  <2>3. new \in State
    BY <2>1, <2>2, WebAssumption DEF State, Finished
  <2> QED BY <1>2, <2>2, <2>3, AbsentAssumption DEF new
<1>3. CASE kind = "playAll"
  <2>1. new = [s EXCEPT !.week = TotalWeeks, !.at = s.at + 1]
    BY <1>3 DEF Written
  <2>2. new = [week |-> TotalWeeks, at |-> s.at + 1, edits |-> s.edits]
    BY <1>1, <2>1
  <2> HIDE DEF new
  <2>3. new \in State
    BY <2>2, WebAssumption DEF State
  <2> QED BY <1>3, <2>2, <2>3, AbsentAssumption DEF new
<1>4. CASE kind = "reset"
  <2>1. new = [s EXCEPT !.week = 0, !.at = s.at + 1]
    BY <1>4 DEF Written
  <2>2. new = [week |-> 0, at |-> s.at + 1, edits |-> s.edits]
    BY <1>1, <2>1
  <2> HIDE DEF new
  <2>3. new \in State
    BY <2>2, WebAssumption DEF State
  <2> QED BY <1>4, <2>2, <2>3, AbsentAssumption DEF new
<1>5. CASE kind = "edit"
  <2>1. new = [s EXCEPT !.at = s.at + 1, !.edits = s.edits + 1]
    BY <1>5 DEF Written
  <2>2. new = [week |-> s.week, at |-> s.at + 1, edits |-> s.edits + 1]
    BY <1>1, <2>1
  <2> HIDE DEF new
  <2>3. new \in State
    BY <2>2, WebAssumption DEF State
  <2> QED BY <1>5, <2>2, <2>3, AbsentAssumption DEF new, Mutations
<1> QED BY <1>2, <1>3, <1>4, <1>5 DEF Mutations

\* The task that has been answered; an answer that fails disturbs the page.
LEMMA RepliedTo ==
  ASSUME TypeOK, NEW t \in tasks, TaskOK(t), NEW q \in t.due, NEW r, Replied(t, q, r),
         Undisturbed'
  PROVE  /\ Undisturbed /\ r # Failed
         /\ \E u : /\ tasks' = (tasks \ {t}) \cup {u}
                   /\ u.op = t.op /\ u.at = t.at /\ u.lg = t.lg /\ u.week = t.week
                   /\ u.match = t.match /\ u.due = t.due \ {q}
                   /\ DOMAIN u.got = DOMAIN t.got \cup {q} /\ u.got[q] = r
                   /\ \A p \in DOMAIN t.got \ {q} : u.got[p] = t.got[p]
<1> DEFINE got == [p \in DOMAIN t.got \cup {q} |-> IF p = q THEN r ELSE t.got[p]]
           v   == [t EXCEPT !.due = @ \ {q}, !.got = got]
<1>1. Undisturbed /\ r # Failed
  BY DEF Replied, Undisturbed, TypeOK
<1>2. tasks' = (tasks \ {t}) \cup {v}
  BY DEF Replied
<1>3. /\ DOMAIN got = DOMAIN t.got \cup {q} /\ got[q] = r
      /\ \A p \in DOMAIN t.got \ {q} : got[p] = t.got[p]
  OBVIOUS
<1> HIDE DEF got
<1>4. t = [no |-> t.no, op |-> t.op, at |-> t.at, lg |-> t.lg, week |-> t.week,
           match |-> t.match, due |-> t.due, got |-> t.got]
  BY DEF TaskOK
<1>5. v = [no |-> t.no, op |-> t.op, at |-> t.at, lg |-> t.lg, week |-> t.week,
           match |-> t.match, due |-> t.due \ {q}, got |-> got]
  <2>1. v = [t EXCEPT !.due = t.due \ {q}, !.got = got]
    OBVIOUS
  <2> HIDE DEF v
  <2> QED BY <1>4, <2>1
<1> HIDE DEF v
<1>6. /\ v.op = t.op /\ v.at = t.at /\ v.lg = t.lg /\ v.week = t.week
      /\ v.match = t.match /\ v.due = t.due \ {q} /\ v.got = got
  BY <1>5
<1> QED BY <1>1, <1>2, <1>3, <1>6

LEMMA ServeAgrees ==
  ASSUME WInv, Agreed, NEW t \in tasks, Serve(t) PROVE Agreed'
<1> SUFFICES ASSUME Undisturbed' PROVE Agreed'
  BY DEF Agreed
<1>1. TypeOK /\ TaskOK(t)
  BY DEF WInv, TInv
<1>2. PICK q \in t.due : ServeRead(t, q) \/ (q = "write" /\ ServeWrite(t)) \/ Lose(t, q)
  BY DEF Serve
<1>3. UNCHANGED pageVars
  BY <1>2 DEF ServeRead, ServeWrite, Lose
<1>4. \E r : Replied(t, q, r)
  BY <1>2 DEF ServeRead, ServeWrite, Create, Lose
<1>5. Undisturbed
  BY <1>1, <1>4, RepliedTo
<1>6. ~Lose(t, q)
  BY <1>1, RepliedTo DEF Lose
<1>7. CASE ServeRead(t, q)
  <2>1. q # "write" /\ Replied(t, q, Read(t, q)) /\ server' = server
    BY <1>7 DEF ServeRead
  <2>2. Untouched
    BY <1>3, <2>1 DEF Untouched, pageVars
  <2>3. PICK u : /\ tasks' = (tasks \ {t}) \cup {u}
                 /\ u.op = t.op /\ u.at = t.at /\ u.lg = t.lg /\ u.week = t.week
                 /\ u.match = t.match /\ u.due = t.due \ {q}
                 /\ DOMAIN u.got = DOMAIN t.got \cup {q} /\ u.got[q] = Read(t, q)
                 /\ \A p \in DOMAIN t.got \ {q} : u.got[p] = t.got[p]
    BY <1>1, <2>1, RepliedTo
  <2>4. CASE t.op = "predict"
    <3>1. InFlight' = InFlight
      BY <2>3, <2>4 DEF InFlight
    <3> QED BY <1>1, <1>5, <2>2, <3>1, SameFlight
  <2>5. CASE t.op # "predict"
    <3>1. InFlight = {t} /\ Underway(t)
      BY <1>5, <2>5, TheOne
    <3>2. InFlight' = {u}
      BY <2>3, <2>5, <3>1 DEF InFlight
    <3>3. t.at # "write"
      BY <1>1, <2>1 DEF TaskOK, Expected
    <3>4. \A p \in DOMAIN u.got \ {"write"} : u.got[p] = Read(u, p)'
      <4>1. \A p : Read(u, p) = Read(t, p)
        BY <2>3 DEF Read
      <4>2. \A p : Read(u, p)' = Read(u, p)
        BY <1>1, <2>2, PartsKept
      <4> QED BY <2>3, <3>1, <4>1, <4>2 DEF Underway
    <3>5. Underway(u)'
      <4>1. AtList(t) => AtList(u)'
        BY <1>1, <2>2, <2>3, PartsKept DEF AtList, Untouched
      <4>2. AtLeague(t) => AtLeague(u)'
        BY <1>1, <2>2, <2>3, PartsKept DEF AtLeague
      <4>3. AtTables(t) => AtTables(u)'
        BY <1>1, <2>2, <2>3, PartsKept DEF AtTables, Untouched
      <4>4. AtTab(t) => AtTab(u)'
        BY <1>1, <2>2, <2>3, PartsKept DEF AtTab, Untouched
      <4>5. AtAudit(t) => AtAudit(u)'
        BY <1>1, <2>2, <2>3, PartsKept DEF AtAudit
      <4> QED BY <2>3, <3>1, <3>3, <3>4, <4>1, <4>2, <4>3, <4>4, <4>5 DEF Underway
    <3> QED BY <3>2, <3>5, OnAgrees
  <2> QED BY <2>4, <2>5
<1>8. CASE q = "write" /\ ServeWrite(t)
  <2>1. t.at = "write" /\ t.op \in Exclusive \ {"bootstrap"}
    BY <1>1, <1>8 DEF TaskOK, Expected, Fits
  <2>2. InFlight = {t} /\ Underway(t) /\ AtWrite(t) /\ DOMAIN t.got \subseteq {"write"}
    <3>1. t.op # "predict"
      BY <2>1 DEF Exclusive
    <3>2. Expected("write") = {"write"}
      BY DEF Expected
    <3> QED BY <1>1, <1>5, <2>1, <3>1, <3>2, TheOne DEF Underway, TaskOK
  <2>3. PICK r : /\ Replied(t, "write", r)
                 /\ \/ /\ t.op = "create" /\ r \in Newborn
                       /\ server' = [server EXCEPT ![r] = [week |-> 0, at |-> 0, edits |-> 0]]
                    \/ /\ t.op # "create" /\ Exists(t.lg)
                       /\ Written(t.op, server[t.lg]) # Failed
                       /\ server' = [server EXCEPT ![t.lg] = Written(t.op, @)]
    <3>1. CASE t.op = "create"
      BY <1>8, <3>1 DEF ServeWrite, Create
    <3>2. CASE t.op # "create"
      <4>1. ~Replied(t, "write", Failed)
        BY <1>1, <1>8, RepliedTo
      <4> QED BY <1>8, <3>2, <4>1 DEF ServeWrite
    <3> QED BY <3>1, <3>2
  <2>4. PICK u : /\ tasks' = (tasks \ {t}) \cup {u}
                 /\ u.op = t.op /\ u.at = t.at /\ u.lg = t.lg /\ u.week = t.week
                 /\ u.match = t.match
                 /\ DOMAIN u.got = DOMAIN t.got \cup {"write"} /\ u.got["write"] = r
    BY <1>1, <1>8, <2>3, RepliedTo
  <2>5. InFlight' = {u}
    BY <2>1, <2>2, <2>4 DEF InFlight, Exclusive
  <2>6. DOMAIN u.got \ {"write"} = {} /\ u.at = "write" /\ (u.op = "edit" => u.match = u.lg)
    BY <2>1, <2>2, <2>4 DEF Underway
  <2>7. CASE t.op = "create"
    <3>1. r \in League /\ server'[r] = [week |-> 0, at |-> 0, edits |-> 0]
      BY <1>1, <2>3, <2>7 DEF Newborn, TypeOK
    <3>2. server'[r] \in State
      BY <3>1, WebAssumption DEF State
    <3>3. Exists(r)'
      BY <3>2, AbsentAssumption DEF Exists
    <3>4. AtWrite(u)'
      BY <2>4, <2>7, <3>3 DEF AtWrite, Mutations
    <3> QED BY <2>5, <2>6, <3>4, OnAgrees DEF Underway
  <2>8. CASE t.op = "delete"
    <3>1. AtWrite(u)'
      BY <2>4, <2>8 DEF AtWrite, Mutations
    <3> QED BY <2>5, <2>6, <3>1, OnAgrees DEF Underway
  <2>9. CASE t.op \in Mutations \cup {"edit"}
    <3>1. /\ league # Nothing /\ league.of = t.lg /\ Exists(t.lg) /\ PageOf(t.lg)
          /\ t.op = "edit" => league.week = server[t.lg].week
          /\ t.op \in Mutations => AuditNow
      BY <2>2, <2>9 DEF AtWrite
    <3>2. t.op # "create" /\ t.lg \in League
      BY <1>1, <2>1, <2>9 DEF TaskOK, Fits, Mutations
    <3>3. server[t.lg] \in State /\ server'[t.lg] = Written(t.op, server[t.lg])
      BY <1>1, <2>3, <3>1, <3>2 DEF TypeOK, Exists
    <3>4. /\ server'[t.lg] \notin {Unborn, Deleted}
          /\ t.op \in Mutations => server'[t.lg].edits = server[t.lg].edits
          /\ t.op = "edit" => server'[t.lg].week = server[t.lg].week
      BY <2>3, <2>9, <3>2, <3>3, WrittenFields
    <3>5. Exists(t.lg)' /\ PageOf(t.lg)'
      BY <1>3, <3>1, <3>4 DEF Exists, PageOf, pageVars
    <3>6. t.op \in Mutations => AuditNow'
      BY <1>3, <3>1, <3>4 DEF AuditNow, PageOf, pageVars
    <3>7. AtWrite(u)'
      BY <1>3, <2>4, <3>1, <3>2, <3>4, <3>5, <3>6 DEF AtWrite, pageVars
    <3> QED BY <2>5, <2>6, <3>7, OnAgrees DEF Underway
  <2> QED BY <2>1, <2>7, <2>8, <2>9 DEF Exclusive, Mutations
<1> QED BY <1>2, <1>6, <1>7, <1>8

\* The one handler, when it is replaced by another of its kind or by predictions.
LEMMA FlightOn ==
  ASSUME NEW t, InFlight = {t}, NEW u, u.op # "predict", tasks' = (tasks \ {t}) \cup {u}
  PROVE  InFlight' = {u}
BY DEF InFlight

LEMMA FlightOff ==
  ASSUME NEW t, InFlight = {t}, NEW new, tasks' = (tasks \ {t}) \cup new,
         \A u \in new : u.op = "predict"
  PROVE  InFlight' = {}
BY DEF InFlight

\* refresh() begins, with the league of lg just read, or after an edit.
LEMMA RefreshAgrees ==
  ASSUME WInv, NEW t, InFlight = {t}, t.op # "predict", t.op = "edit" => t.match = t.lg,
         NEW lg \in Showing, Refresh(t, lg), lg.of = t.lg,
         league' = lg, Shows(lg.of)', PageOf(lg.of)', t.op = "edit" \/ AuditNow'
  PROVE  Agreed'
<1> DEFINE queries == {"standings"} \cup (IF lg.week >= 1 THEN {"week"} ELSE {})
<1>1. tasks' = (tasks \ {t}) \cup {AtNext(t, "tables", lg.of, lg.week, queries)}
  BY AbsentAssumption DEF Refresh, Awaits
<1> HIDE DEF queries
<1>2. PICK u : u = AtNext(t, "tables", lg.of, lg.week, queries)
  OBVIOUS
<1>3. /\ u.op = t.op /\ u.at = "tables" /\ u.lg = lg.of /\ u.week = lg.week
      /\ u.match = t.match /\ u.due = queries /\ DOMAIN u.got = {}
  BY <1>2, TaskFields DEF AtNext
<1>4. InFlight' = {u}
  BY <1>1, <1>2, <1>3, FlightOn
<1>5. AtTables(u)'
  BY <1>3 DEF AtTables, queries
<1>6. Underway(u)'
  BY <1>3, <1>5 DEF Underway
<1> QED BY <1>4, <1>6, OnAgrees

\* selectLeague(id) clears the page.
LEMMA SelectAgrees ==
  ASSUME NEW t, NEW id, SelectLeague(t, id), t.op \notin {"predict", "edit"},
         id \in leagues', InFlight \subseteq {t}
  PROVE  Agreed'
<1>1. PICK u : u = AtNext(t, "league", id, 0, {"league"})
  OBVIOUS
<1>2. /\ u.op = t.op /\ u.at = "league" /\ u.lg = id /\ DOMAIN u.got = {}
  BY <1>1, TaskFields DEF AtNext
<1>3. tasks' = (tasks \ {t}) \cup {u} /\ page' = [v \in Views |-> Nothing]
      /\ selectedId' = id /\ expandedAudit' = Nothing
  BY <1>1 DEF SelectLeague
<1>4. InFlight' = {u}
  BY <1>2, <1>3 DEF InFlight
<1>5. page'.fixtures = Nothing
  BY <1>3 DEF Views
<1>6. AtLeague(u)'
  BY <1>2, <1>3, <1>5 DEF AtLeague, PageOf, AuditNow
<1>7. Underway(u)'
  BY <1>2, <1>6 DEF Underway
<1> QED BY <1>4, <1>7, OnAgrees

LEMMA WroteAgrees ==
  ASSUME WInv, Agreed, NEW t \in tasks, Wrote(t) PROVE Agreed'
<1> SUFFICES ASSUME Undisturbed' PROVE Agreed'
  BY DEF Agreed
<1>1. Answered(t, "write") /\ t.at = "write" /\ UNCHANGED Others /\ Undisturbed
  BY DEF Wrote, Answered, Others, history, Undisturbed
<1>2. TaskOK(t) /\ TypeOK
  BY DEF WInv, TInv
<1>3. t.op \in Exclusive /\ t.op # "predict"
  BY <1>1, <1>2 DEF TaskOK, Fits, Exclusive
<1>4. InFlight = {t} /\ AtWrite(t) /\ (t.op = "edit" => t.match = t.lg)
  BY <1>1, <1>3, TheOne DEF Underway
<1>5. server' = server
  BY <1>1 DEF Others
<1>6. CASE t.op \in Mutations /\ UNCHANGED pageVars
           /\ IF league = Nothing THEN End(t)
              ELSE Awaits(t, "league", league.of, 0, {"league"})
  <2>1. league # Nothing /\ league.of = t.lg /\ PageOf(t.lg) /\ AuditNow
    BY <1>4, <1>6 DEF AtWrite
  <2>2. PICK u : u = AtNext(t, "league", league.of, 0, {"league"})
    OBVIOUS
  <2>3. u.op = t.op /\ u.at = "league" /\ u.lg = t.lg /\ DOMAIN u.got = {}
    BY <2>1, <2>2, TaskFields DEF AtNext
  <2>4. InFlight' = {u}
    <3>1. tasks' = (tasks \ {t}) \cup {u}
      BY <1>6, <2>1, <2>2 DEF Awaits
    <3> QED BY <1>3, <1>4, <2>3, <3>1, FlightOn
  <2>5. PageOf(t.lg)' /\ AuditNow'
    BY <1>5, <1>6, <2>1 DEF PageOf, AuditNow, pageVars
  <2>6. AtLeague(u)'
    BY <1>6, <2>3, <2>5 DEF AtLeague, Mutations
  <2>7. Underway(u)'
    BY <1>6, <2>3, <2>6 DEF Underway, Mutations
  <2> QED BY <2>4, <2>7, OnAgrees
<1>7. CASE t.op = "edit" /\ edit' = Nothing /\ Refresh(t, league)
           /\ UNCHANGED <<leagues, selectedId, league, page, audits, tab, expandedAudit>>
  <2>1. /\ league # Nothing /\ league.of = t.lg /\ Exists(t.lg) /\ PageOf(t.lg)
        /\ league.week = server[t.lg].week
    BY <1>4, <1>7 DEF AtWrite
  <2>2. PICK lg : lg = league
    OBVIOUS
  <2>3. lg \in Showing
    BY <1>2, <2>1, <2>2 DEF TypeOK
  <2>4. Shows(lg.of)' /\ PageOf(lg.of)'
    BY <1>5, <1>7, <2>1, <2>2 DEF Shows, Exists, PageOf
  <2> QED BY <1>3, <1>4, <1>7, <2>1, <2>2, <2>3, <2>4, RefreshAgrees
<1>8. CASE t.op = "delete" /\ league' = Nothing /\ Awaits(t, "list", t.lg, 0, {"list"})
  <2>1. PICK u : u = AtNext(t, "list", t.lg, 0, {"list"})
    OBVIOUS
  <2>2. u.op = t.op /\ u.at = "list" /\ DOMAIN u.got = {}
    BY <2>1, TaskFields DEF AtNext
  <2>3. InFlight' = {u}
    <3>1. tasks' = (tasks \ {t}) \cup {u}
      BY <1>8, <2>1 DEF Awaits
    <3> QED BY <1>3, <1>4, <2>2, <3>1, FlightOn
  <2>4. Underway(u)'
    BY <1>8, <2>2 DEF Underway, AtList
  <2> QED BY <2>3, <2>4, OnAgrees
<1>9. CASE t.op = "create" /\ Awaits(t, "list", t.got["write"], 0, {"list"})
  <2>1. "write" \in DOMAIN t.got
    BY <1>1, <1>2, AnsweredHas DEF Needed
  <2>2. PICK u : u = AtNext(t, "list", t.got["write"], 0, {"list"})
    OBVIOUS
  <2>3. u.op = t.op /\ u.at = "list" /\ u.lg = t.got["write"] /\ DOMAIN u.got = {}
    BY <2>2, TaskFields DEF AtNext
  <2>4. InFlight' = {u}
    <3>1. tasks' = (tasks \ {t}) \cup {u}
      BY <1>9, <2>2 DEF Awaits
    <3> QED BY <1>3, <1>4, <2>3, <3>1, FlightOn
  <2>5. Exists(u.lg)'
    BY <1>4, <1>5, <1>9, <2>1, <2>3 DEF AtWrite, Exists
  <2>6. Underway(u)'
    BY <1>9, <2>3, <2>5 DEF Underway, AtList
  <2> QED BY <2>4, <2>6, OnAgrees
<1> QED BY <1>6, <1>7, <1>8, <1>9 DEF Wrote

LEMMA ListedAgrees ==
  ASSUME WInv, Agreed, NEW t \in tasks, Listed(t) PROVE Agreed'
<1> SUFFICES ASSUME Undisturbed' PROVE Agreed'
  BY DEF Agreed
<1> DEFINE known == t.got["list"]
<1>1. t.at = "list" /\ t.due = {} /\ UNCHANGED Others /\ Undisturbed /\ league' = league
  BY DEF Listed, Others, history, Undisturbed
<1>2. TaskOK(t) /\ TypeOK
  BY DEF WInv, TInv
<1>3. t.op \in {"bootstrap", "create", "delete"}
  BY <1>1, <1>2 DEF TaskOK, Fits
<1>4. InFlight = {t} /\ AtList(t) /\ Underway(t) /\ \A q \in DOMAIN t.got : t.got[q] # Failed
  BY <1>1, <1>3, TheOne DEF Underway
<1>5. known # Failed /\ known = {l \in League : Exists(l)}
  <2>1. "list" \in DOMAIN t.got
    BY <1>1, <1>2 DEF TaskOK, Needed
  <2>2. known = Read(t, "list")
    BY <1>4, <2>1 DEF Underway
  <2> QED BY <1>4, <2>1, <2>2 DEF Read
<1>6. leagues' = known
  BY <1>5 DEF Listed
<1> HIDE DEF known
<1>7. CASE t.op = "create" /\ SelectLeague(t, t.lg)
  <2>1. t.lg \in known
    BY <1>1, <1>2, <1>4, <1>5, <1>7 DEF AtList, TaskOK, Fits
  <2> QED BY <1>4, <1>6, <1>7, <2>1, SelectAgrees
<1>8. CASE known # {} /\ t.op # "create" /\ SelectLeague(t, Max(known))
  <2>1. Max(known) \in known
    BY <1>5, <1>8, NewestLeague
  <2>2. PICK id : id = Max(known)
    OBVIOUS
  <2> QED BY <1>3, <1>4, <1>6, <1>8, <2>1, <2>2, SelectAgrees
<1>9. CASE t.op # "create" /\ End(t)
  <2>1. InFlight' = {}
    BY <1>4, <1>9 DEF End, InFlight
  <2>2. Settled'
    BY <1>1, <1>4, <1>9 DEF AtList, Settled
  <2> QED BY <2>1, <2>2, OffAgrees
<1> QED BY <1>3, <1>5, <1>7, <1>8, <1>9 DEF Listed, known

LEMMA LeagueReadAgrees ==
  ASSUME WInv, Agreed, NEW t \in tasks, LeagueRead(t) PROVE Agreed'
<1> SUFFICES ASSUME Undisturbed' PROVE Agreed'
  BY DEF Agreed
<1>1. /\ Answered(t, "league") /\ t.at = "league" /\ UNCHANGED Others /\ Undisturbed
      /\ league' = t.got["league"] /\ Refresh(t, t.got["league"])
      /\ UNCHANGED <<leagues, selectedId, page, audits, tab, edit, expandedAudit>>
  BY DEF LeagueRead, Answered, Others, history, Undisturbed
<1>2. TaskOK(t) /\ TypeOK
  BY DEF WInv, TInv
<1>3. t.op # "predict" /\ "league" \in DOMAIN t.got
  BY <1>1, <1>2, AnsweredHas DEF TaskOK, Fits, Needed
<1>4. InFlight = {t} /\ AtLeague(t) /\ Underway(t)
  BY <1>1, <1>3, TheOne DEF Underway
<1>5. PICK lg : lg = t.got["league"]
  OBVIOUS
<1>6. /\ Exists(t.lg) /\ lg \in Showing /\ lg # Nothing /\ lg.of = t.lg
      /\ lg.week = server[t.lg].week
  BY <1>1, <1>2, <1>3, <1>4, <1>5, GotNow DEF Answered
<1>7. server' = server
  BY <1>1 DEF Others
<1>8. Shows(lg.of)'
  BY <1>1, <1>5, <1>6, <1>7 DEF Shows, Exists
<1>9. PageOf(lg.of)' /\ AuditNow'
  BY <1>1, <1>4, <1>6, <1>7 DEF AtLeague, PageOf, AuditNow
<1>10. t.op = "edit" => t.match = t.lg
  BY <1>4 DEF Underway
<1> QED BY <1>1, <1>3, <1>4, <1>5, <1>6, <1>8, <1>9, <1>10, RefreshAgrees

\* refresh() ends: what it shows now is of the present, and of an edit the open
\* audit log is asked for.
LEMMA LoadPredictionAgrees ==
  ASSUME WInv, Agreed, Undisturbed, NEW t \in tasks, InFlight = {t}, t.op # "predict",
         t.op = "edit" => t.match = t.lg, t.op = "edit" \/ AuditNow,
         Shows(t.lg), PageOf(t.lg),
         NEW shown \in [Views -> Showing \cup {Nothing}], LoadPrediction(t, shown),
         TablesNow(shown), TabNow(shown), shown.fixtures = Nothing \/ shown.fixtures.of = t.lg,
         UNCHANGED <<Others, leagues, selectedId, league, audits, tab, edit, expandedAudit>>
  PROVE  Agreed'
<1> DEFINE early == league # Nothing /\ ~Finished(league) /\ league.week < PredictFrom
           more  == t.op = "edit" /\ expandedAudit = t.match
           p     == Task(t.no, "predict", "prediction", t.lg, 0, Nothing, {"prediction"})
           a     == AtNext(t, "audit", t.match, 0, {"audit"})
<1>1. /\ page' = [shown EXCEPT !.prediction = Nothing]
      /\ tasks' = (tasks \ {t}) \cup (IF early THEN {} ELSE {p})
                                \cup (IF more THEN {a} ELSE {})
  BY DEF LoadPrediction
<1>2. p.op = "predict"
  BY DEF Task
<1>3. server' = server
  BY DEF Others
<1> HIDE DEF early, p
<1>4. /\ page'.standings = shown.standings /\ page'.week = shown.week
      /\ page'.fixtures = shown.fixtures /\ (tab # "table" => page'[tab] = shown[tab])
  <2>1. \A v \in {"standings", "week", "fixtures", "history"} : page'[v] = shown[v]
    BY <1>1 DEF Views
  <2>2. tab \in {"table", "fixtures", "history"}
    BY DEF WInv, TInv, TypeOK
  <2> QED BY <2>1, <2>2
<1>5. Shows(t.lg)' /\ PageOf(t.lg)'
  BY <1>3, <1>4 DEF Shows, Exists, PageOf
<1>6. TablesNow(page)' /\ TabNow(page)'
  BY <1>3, <1>4 DEF TablesNow, TabNow, OfNow
<1>7. CASE more
  <2>1. PICK u : u = a
    OBVIOUS
  <2>2. u.op = "edit" /\ u.at = "audit" /\ u.lg = t.lg /\ u.match = t.lg /\ DOMAIN u.got = {}
    BY <1>7, <2>1, TaskFields DEF AtNext
  <2> HIDE DEF a, more
  <2>3. InFlight' = {u}
    BY <1>1, <1>2, <1>7, <2>1, <2>2 DEF InFlight
  <2>4. AtAudit(u)'
    BY <1>5, <1>6, <2>2 DEF AtAudit
  <2>5. Underway(u)'
    BY <2>2, <2>4 DEF Underway
  <2> QED BY <2>3, <2>5, OnAgrees
<1>8. CASE ~more
  <2>1. AuditNow \/ expandedAudit = Nothing
    BY <1>8 DEF PageOf
  <2>2. AuditNow'
    BY <1>3, <2>1 DEF AuditNow
  <2> HIDE DEF a, more
  <2>3. InFlight' = {}
    BY <1>1, <1>2, <1>8 DEF InFlight
  <2>4. Settled'
    BY <1>5, <1>6, <2>2 DEF Settled, Shows
  <2> QED BY <2>3, <2>4, OffAgrees
<1> QED BY <1>7, <1>8

LEMMA TablesReadAgrees ==
  ASSUME WInv, Agreed, NEW t \in tasks, TablesRead(t) PROVE Agreed'
<1> SUFFICES ASSUME Undisturbed' PROVE Agreed'
  BY DEF Agreed
<1> DEFINE shown == [page EXCEPT !.standings = t.got["standings"],
                                 !.week = IF "week" \in DOMAIN t.got THEN t.got["week"]
                                          ELSE Nothing]
<1>1. /\ Answered(t, "tables") /\ t.at = "tables" /\ t.due = {} /\ Undisturbed
      /\ LoadTab(t, shown, {"fixtures", "history"})
      /\ UNCHANGED <<Others, leagues, selectedId, league, audits, tab, edit, expandedAudit>>
  BY DEF TablesRead, Answered, Others, history, Undisturbed
<1>2. TaskOK(t) /\ TypeOK /\ page \in [Views -> Showing \cup {Nothing}]
  BY DEF WInv, TInv, TypeOK
<1>3. t.op # "predict" /\ "standings" \in DOMAIN t.got
  BY <1>1, <1>2, AnsweredHas DEF TaskOK, Fits, Needed
<1>4. InFlight = {t} /\ AtTables(t) /\ Underway(t) /\ (t.op = "edit" => t.match = t.lg)
  BY <1>1, <1>3, TheOne DEF Underway
<1>5. /\ Shows(t.lg) /\ PageOf(t.lg) /\ (t.op = "edit" \/ AuditNow) /\ league.of = t.lg
      /\ league.week > 0 => "week" \in DOMAIN t.got /\ t.week = league.week
  <2>1. league.week \in Nat
    BY <1>2, <1>4, WebAssumption DEF AtTables, Shows, TypeOK, Showing
  <2> QED BY <1>1, <1>4, <2>1 DEF AtTables, Shows
<1>6. t.got["standings"] \in Showing /\ OfNow(t.got["standings"])
  BY <1>1, <1>2, <1>3, <1>4, <1>5, GotNow DEF Answered, OfNow
<1>7. "week" \in DOMAIN t.got =>
        /\ t.got["week"] \in Showing /\ OfNow(t.got["week"])
        /\ t.got["week"].week = t.week
  BY <1>1, <1>2, <1>4, <1>5, GotNow DEF Answered, OfNow
<1>8. /\ shown \in [Views -> Showing \cup {Nothing}]
      /\ shown.standings = t.got["standings"]
      /\ "week" \in DOMAIN t.got => shown.week = t.got["week"]
      /\ shown.fixtures = page.fixtures
  BY <1>2, <1>6, <1>7 DEF Views
<1> HIDE DEF shown
<1>9. TablesNow(shown)
  BY <1>5, <1>6, <1>7, <1>8 DEF TablesNow
<1>10. CASE tab \in {"fixtures", "history"}
  <2>1. PICK u : u = AtNext(t, tab, t.lg, 0, {tab})
    OBVIOUS
  <2>2. u.op = t.op /\ u.at = tab /\ u.lg = t.lg /\ u.match = t.match /\ DOMAIN u.got = {}
    BY <2>1, TaskFields DEF AtNext
  <2>3. page' = shown /\ tasks' = (tasks \ {t}) \cup {u}
    BY <1>1, <1>10, <2>1 DEF LoadTab, Awaits
  <2>4. InFlight' = {u}
    BY <1>3, <1>4, <2>2, <2>3, FlightOn
  <2>5. server' = server /\ tab' = tab
    BY <1>1 DEF Others
  <2>6. Shows(t.lg)' /\ PageOf(t.lg)' /\ TablesNow(page)' /\ (t.op = "edit" \/ AuditNow')
    BY <1>1, <1>5, <1>8, <1>9, <2>3, <2>5
       DEF Shows, Exists, PageOf, TablesNow, OfNow, AuditNow
  <2>7. AtTab(u)'
    BY <2>2, <2>5, <2>6 DEF AtTab
  <2>8. Underway(u)'
    BY <1>4, <1>10, <2>2, <2>7 DEF Underway
  <2> QED BY <2>4, <2>8, OnAgrees
<1>11. CASE tab \notin {"fixtures", "history"}
  <2>1. TabNow(shown)
    BY <1>2, <1>11 DEF TypeOK, TabNow
  <2>2. LoadPrediction(t, shown)
    BY <1>1, <1>11 DEF LoadTab
  <2>3. shown.fixtures = Nothing \/ shown.fixtures.of = t.lg
    BY <1>5, <1>8 DEF PageOf
  <2> QED BY <1>1, <1>3, <1>4, <1>5, <1>8, <1>9, <2>1, <2>2, <2>3, LoadPredictionAgrees
<1> QED BY <1>10, <1>11

LEMMA TabReadAgrees ==
  ASSUME WInv, Agreed, NEW t \in tasks, TabRead(t) PROVE Agreed'
<1> SUFFICES ASSUME Undisturbed' PROVE Agreed'
  BY DEF Agreed
<1>1. PICK view \in {"fixtures", "history"} :
        /\ Answered(t, view)
        /\ LET shown == [page EXCEPT ![view] = t.got[view]]
           IN IF t.op = "tab"
              THEN /\ page' = shown
                   /\ End(t)
              ELSE LoadTab(t, shown, IF view = "fixtures" THEN {"history"} ELSE {})
  BY DEF TabRead
<1> DEFINE shown == [page EXCEPT ![view] = t.got[view]]
           tabs  == IF view = "fixtures" THEN {"history"} ELSE {}
<1>2. /\ t.at = view /\ Undisturbed
      /\ UNCHANGED <<Others, leagues, selectedId, league, audits, tab, edit, expandedAudit>>
  BY <1>1 DEF TabRead, Answered, Others, history, Undisturbed
<1>3. TaskOK(t) /\ TypeOK /\ page \in [Views -> Showing \cup {Nothing}]
  BY DEF WInv, TInv, TypeOK
<1>4. t.op # "predict" /\ view \in DOMAIN t.got
  BY <1>1, <1>2, <1>3, AnsweredHas DEF TaskOK, Fits, Needed
<1>5. InFlight = {t} /\ AtTab(t) /\ Underway(t) /\ (t.op = "edit" => t.match = t.lg)
  BY <1>2, <1>4, TheOne DEF Underway
<1>6. /\ Shows(t.lg) /\ PageOf(t.lg) /\ (t.op = "edit" \/ AuditNow) /\ league.of = t.lg
      /\ TablesNow(page) /\ (tab = "table" \/ tab = view)
  BY <1>2, <1>5 DEF AtTab, Shows
<1>7. t.got[view] \in Showing /\ OfNow(t.got[view]) /\ t.got[view].of = t.lg
  BY <1>1, <1>3, <1>4, <1>5, <1>6, GotNow DEF Answered, OfNow
<1>8. /\ shown \in [Views -> Showing \cup {Nothing}]
      /\ shown.standings = page.standings /\ shown.week = page.week
      /\ shown[view] = t.got[view]
      /\ shown.fixtures = page.fixtures \/ shown.fixtures = t.got[view]
  BY <1>3, <1>7 DEF Views
<1> HIDE DEF shown, tabs
<1>9. TablesNow(shown) /\ TabNow(shown)
  BY <1>6, <1>7, <1>8 DEF TablesNow, TabNow
<1>10. shown.fixtures = Nothing \/ shown.fixtures.of = t.lg
  BY <1>6, <1>7, <1>8 DEF PageOf
<1>11. CASE t.op = "tab"
  <2>1. page' = shown /\ End(t)
    BY <1>1, <1>11 DEF shown
  <2>2. InFlight' = {}
    BY <1>5, <2>1 DEF InFlight, End
  <2>3. server' = server
    BY <1>2 DEF Others
  <2>4. Shows(t.lg)' /\ PageOf(t.lg)' /\ TablesNow(page)' /\ TabNow(page)' /\ AuditNow'
    BY <1>2, <1>6, <1>9, <1>10, <1>11, <2>1, <2>3
       DEF Shows, Exists, PageOf, TablesNow, TabNow, OfNow, AuditNow
  <2>5. Settled'
    BY <2>4 DEF Settled, Shows
  <2> QED BY <2>2, <2>5, OffAgrees
<1>12. CASE t.op # "tab"
  <2>1. LoadTab(t, shown, tabs)
    BY <1>1, <1>12 DEF shown, tabs
  <2>2. tab \notin tabs
    BY <1>6 DEF tabs
  <2>3. LoadPrediction(t, shown)
    BY <2>1, <2>2 DEF LoadTab
  <2> QED BY <1>2, <1>4, <1>5, <1>6, <1>8, <1>9, <1>10, <2>3, LoadPredictionAgrees
<1> QED BY <1>11, <1>12

\* The late prediction touches nothing else of the page.
LEMMA PredictionReadAgrees ==
  ASSUME WInv, Agreed, NEW t \in tasks, PredictionRead(t) PROVE Agreed'
<1>1. /\ t.at = "prediction" /\ End(t) /\ TaskOK(t) /\ TypeOK
      /\ page' = page \/ page' = [page EXCEPT !.prediction = t.got["prediction"]]
      /\ UNCHANGED <<Others, leagues, selectedId, league, audits, tab, edit, expandedAudit>>
  BY DEF PredictionRead, Answered, WInv, TInv
<1>2. t.op = "predict"
  BY <1>1 DEF TaskOK, Fits
<1>3. InFlight' = InFlight
  BY <1>1, <1>2 DEF End, InFlight
<1>4. \A v \in {"standings", "week", "fixtures", "history"} : page'[v] = page[v]
  BY <1>1 DEF TypeOK, Views
<1>5. Untouched /\ (Undisturbed' => Undisturbed)
  BY <1>1, <1>4 DEF Untouched, Others, history, Undisturbed
<1> QED BY <1>1, <1>3, <1>5, SameFlight

LEMMA AuditReadAgrees ==
  ASSUME WInv, Agreed, NEW t \in tasks, AuditRead(t) PROVE Agreed'
<1> SUFFICES ASSUME Undisturbed' PROVE Agreed'
  BY DEF Agreed
<1>1. /\ Answered(t, "audit") /\ t.at = "audit" /\ End(t) /\ Undisturbed
      /\ audits' = [audits EXCEPT ![t.lg] = t.got["audit"]]
      /\ UNCHANGED <<Others, leagues, selectedId, league, page, tab, edit, expandedAudit>>
  BY DEF AuditRead, Answered, Others, history, Undisturbed
<1>2. TaskOK(t) /\ TypeOK
  BY DEF WInv, TInv
<1>3. t.op # "predict" /\ "audit" \in DOMAIN t.got /\ t.lg \in League
  BY <1>1, <1>2, AnsweredHas DEF TaskOK, Fits, Needed
<1>4. InFlight = {t} /\ AtAudit(t) /\ Underway(t)
  BY <1>1, <1>3, TheOne DEF Underway
<1>5. t.got["audit"] # Nothing /\ t.got["audit"].edits = server[t.lg].edits
  BY <1>1, <1>2, <1>3, <1>4, GotNow DEF Answered
<1>6. audits'[t.lg] = t.got["audit"] /\ server' = server
  BY <1>1, <1>2, <1>3 DEF TypeOK, Others
<1>7. Shows(t.lg)' /\ PageOf(t.lg)' /\ TablesNow(page)' /\ TabNow(page)'
  BY <1>1, <1>4, <1>6 DEF AtAudit, Shows, Exists, PageOf, TablesNow, TabNow, OfNow
<1>8. AuditNow'
  BY <1>5, <1>6, <1>7 DEF PageOf, AuditNow
<1>9. InFlight' = {}
  BY <1>1, <1>4 DEF InFlight, End
<1>10. Settled'
  BY <1>7, <1>8 DEF Settled, Shows
<1> QED BY <1>9, <1>10, OffAgrees

\* Only a prediction may fail and leave the page undisturbed.
LEMMA FailsAgrees ==
  ASSUME WInv, Agreed, NEW t \in tasks, Fails(t) PROVE Agreed'
<1>1. HasFailed(t) /\ End(t) /\ UNCHANGED <<Others, pageVars>> /\ TypeOK
  BY DEF Fails, HasFailed, WInv, TInv
<1>2. CASE t.op # "predict"
  <2>1. failed /\ failed' = failed
    BY <1>1, <1>2 DEF WInv, Covered, Others, history
  <2> QED BY <2>1 DEF Agreed, Undisturbed
<1>3. CASE t.op = "predict"
  <2>1. InFlight' = InFlight
    BY <1>1, <1>3 DEF End, InFlight
  <2>2. Untouched /\ (Undisturbed' => Undisturbed)
    BY <1>1 DEF Untouched, pageVars, Others, history, Undisturbed
  <2> QED BY <1>1, <2>1, <2>2, SameFlight
<1> QED BY <1>2, <1>3

LEMMA RespondAgrees == ASSUME WInv, Agreed, Respond PROVE Agreed'
<1>1. PICK t \in tasks : Serve(t) \/ Proceed(t)
  BY DEF Respond
<1> QED BY <1>1, ServeAgrees, WroteAgrees, ListedAgrees, LeagueReadAgrees, TablesReadAgrees,
           TabReadAgrees, PredictionReadAgrees, AuditReadAgrees, FailsAgrees DEF Proceed

\* A click that leaves the page undisturbed found nothing in flight.
LEMMA StartsAlone ==
  ASSUME TypeOK, Agreed, NEW op, op # "predict", NEW at, NEW lg, NEW match, NEW q,
         Starts(op, at, lg, match, q), Undisturbed'
  PROVE  /\ Settled
         /\ \E u : /\ InFlight' = {u}
                   /\ u.op = op /\ u.at = at /\ u.lg = lg /\ u.match = match
                   /\ DOMAIN u.got = {}
<1>1. PICK u : u = Task(clicks + 1, op, at, lg, 0, match, {q})
  OBVIOUS
<1>2. u.op = op /\ u.at = at /\ u.lg = lg /\ u.match = match /\ DOMAIN u.got = {}
  BY <1>1, TaskFields
<1>3. Undisturbed /\ InFlight = {} /\ tasks' = tasks \cup {u}
  BY <1>1 DEF Starts, Undisturbed, TypeOK
<1>4. InFlight' = {u}
  BY <1>2, <1>3 DEF InFlight
<1> QED BY <1>2, <1>3, <1>4 DEF Agreed

\* What the page shows is not changed by a click that sends something.
LEMMA PartsShown ==
  ASSUME UNCHANGED <<server, leagues, selectedId, league, page, audits>>
  PROVE  /\ \A lg : Shows(lg) => Shows(lg)'
         /\ \A lg : PageOf(lg) /\ expandedAudit' = expandedAudit => PageOf(lg)'
         /\ TablesNow(page) => TablesNow(page)'
         /\ AuditNow /\ expandedAudit' = expandedAudit => AuditNow'
BY DEF Shows, Exists, PageOf, TablesNow, OfNow, AuditNow

LEMMA LocksAgrees ==
  ASSUME TypeOK, Agreed, NEW op \in Exclusive, NEW lg, NEW match, Locks(op, lg, match),
         op \in Mutations \cup {"edit"} => league # Nothing /\ lg = league.of,
         op = "edit" => match = lg
  PROVE  Agreed'
<1> SUFFICES ASSUME Undisturbed' PROVE Agreed'
  BY DEF Agreed
<1>a. Starts(op, "write", lg, match, "write")
  BY DEF Locks
<1>1. UNCHANGED <<server, pageVars>>
  BY DEF Locks
<1>2. op # "predict"
  BY DEF Exclusive
<1>3. Settled /\ \E u : /\ InFlight' = {u}
                        /\ u.op = op /\ u.at = "write" /\ u.lg = lg /\ u.match = match
                        /\ DOMAIN u.got = {}
  BY <1>a, <1>2, StartsAlone
<1>4. PICK u : /\ InFlight' = {u}
               /\ u.op = op /\ u.at = "write" /\ u.lg = lg /\ u.match = match
               /\ DOMAIN u.got = {}
  BY <1>3
<1>5. op \in Mutations \cup {"edit"} =>
        /\ Shows(lg)' /\ PageOf(lg)' /\ AuditNow'
  BY <1>1, <1>3, PartsShown DEF Settled, pageVars
<1>6. AtWrite(u)'
  BY <1>4, <1>5 DEF AtWrite, Shows
<1>7. Underway(u)'
  BY <1>4, <1>6 DEF Underway
<1> QED BY <1>4, <1>7, OnAgrees

\* A click that sends nothing.
LEMMA LocalAgrees ==
  ASSUME TypeOK, Agreed, UNCHANGED <<tasks, history>>, Untouched PROVE Agreed'
<1>1. InFlight' = InFlight /\ (Undisturbed' => Undisturbed)
  BY DEF InFlight, history, Undisturbed
<1> QED BY <1>1, SameFlight

LEMMA SelectClickAgrees == ASSUME WInv, Agreed, Select PROVE Agreed'
<1> SUFFICES ASSUME Undisturbed' PROVE Agreed'
  BY DEF Agreed
<1>1. PICK id \in leagues \ {selectedId} :
        SelectLeague(Task(clicks + 1, "select", "league", id, 0, Nothing, {}), id)
  BY DEF Select
<1>2. PICK t : t = Task(clicks + 1, "select", "league", id, 0, Nothing, {})
  OBVIOUS
<1>3. t.op = "select"
  BY <1>2, TaskFields
<1>4. InFlight = {} /\ leagues' = leagues
  BY DEF Select, Undisturbed
<1> QED BY <1>1, <1>2, <1>3, <1>4, SelectAgrees

LEMMA SwitchTabAgrees == ASSUME WInv, Agreed, SwitchTab PROVE Agreed'
<1> SUFFICES ASSUME Undisturbed' PROVE Agreed'
  BY DEF Agreed
<1>1. PICK name \in {"table", "fixtures", "history"} :
        /\ tab' = name
        /\ IF name = "table" THEN UNCHANGED <<clicks, tasks, history>>
           ELSE Starts("tab", name, league.of, Nothing, name)
  BY DEF SwitchTab
<1>2. /\ TypeOK /\ league # Nothing
      /\ UNCHANGED <<server, leagues, selectedId, league, page, audits, edit, expandedAudit>>
  BY DEF SwitchTab, WInv, TInv
<1>3. CASE name = "table"
  <2>1. Untouched
    BY <1>1, <1>2, <1>3 DEF Untouched
  <2> QED BY <1>1, <1>2, <1>3, <2>1, LocalAgrees
<1>4. CASE name # "table"
  <2>1. PICK lg : lg = league.of
    OBVIOUS
  <2>2. Starts("tab", name, lg, Nothing, name)
    BY <1>1, <1>4, <2>1
  <2>3. Settled /\ \E u : /\ InFlight' = {u}
                          /\ u.op = "tab" /\ u.at = name /\ u.lg = lg /\ u.match = Nothing
                          /\ DOMAIN u.got = {}
    BY <1>2, <2>2, StartsAlone
  <2>4. PICK u : InFlight' = {u} /\ u.op = "tab" /\ u.at = name /\ u.lg = lg /\ DOMAIN u.got = {}
    BY <2>3
  <2>5. Shows(lg)' /\ PageOf(lg)' /\ TablesNow(page)' /\ AuditNow'
    BY <1>2, <2>1, <2>3, PartsShown DEF Settled
  <2>6. AtTab(u)'
    BY <1>1, <2>4, <2>5 DEF AtTab
  <2>7. Underway(u)'
    BY <1>1, <1>4, <2>4, <2>6 DEF Underway
  <2> QED BY <2>4, <2>7, OnAgrees
<1> QED BY <1>3, <1>4

LEMMA ToggleAuditAgrees == ASSUME WInv, Agreed, ToggleAudit PROVE Agreed'
<1> SUFFICES ASSUME Undisturbed' PROVE Agreed'
  BY DEF Agreed
<1>1. PICK m \in PlayedMatches \ {edit} :
        IF expandedAudit = m
        THEN /\ expandedAudit' = Nothing
             /\ UNCHANGED <<clicks, tasks, history>>
        ELSE /\ expandedAudit' = m
             /\ Starts("audit", "audit", m, Nothing, "audit")
  BY DEF ToggleAudit
<1>2. /\ TypeOK /\ league # Nothing /\ page.fixtures # Nothing /\ m = page.fixtures.of
      /\ UNCHANGED <<server, leagues, selectedId, league, page, audits, tab, edit>>
  BY <1>1 DEF ToggleAudit, PlayedMatches, MatchShown, WInv, TInv
<1>3. CASE expandedAudit = m
  <2>1. Untouched
    BY <1>1, <1>2, <1>3 DEF Untouched
  <2> QED BY <1>1, <1>2, <1>3, <2>1, LocalAgrees
<1>4. CASE expandedAudit # m
  <2>a. Starts("audit", "audit", m, Nothing, "audit")
    BY <1>1, <1>4
  <2>1. Settled /\ \E u : /\ InFlight' = {u}
                          /\ u.op = "audit" /\ u.at = "audit" /\ u.lg = m /\ u.match = Nothing
                          /\ DOMAIN u.got = {}
    BY <1>2, <2>a, StartsAlone
  <2>2. PICK u : InFlight' = {u} /\ u.op = "audit" /\ u.at = "audit" /\ u.lg = m /\ DOMAIN u.got = {}
    BY <2>1
  <2>3. m = league.of /\ Shows(m) /\ PageOf(m) /\ TablesNow(page) /\ TabNow(page)
    BY <1>2, <2>1 DEF Settled, PageOf
  <2>4. Shows(m)' /\ TablesNow(page)'
    BY <1>2, <2>3, PartsShown
  <2>5. PageOf(m)' /\ TabNow(page)'
    BY <1>1, <1>2, <1>4, <2>3 DEF PageOf, TabNow, OfNow
  <2>6. AtAudit(u)'
    BY <2>2, <2>4, <2>5 DEF AtAudit
  <2>7. Underway(u)'
    BY <2>2, <2>6 DEF Underway
  <2> QED BY <2>2, <2>7, OnAgrees
<1> QED BY <1>3, <1>4

LEMMA ClickAgrees == ASSUME WInv, Agreed, Click PROVE Agreed'
<1>1. TypeOK
  BY DEF WInv, TInv
<1>2. ASSUME NEW op \in Mutations, ClickMutate(op) PROVE Agreed'
  <2>1. op \in Exclusive /\ op # "edit"
    BY DEF Mutations, Exclusive
  <2>2. PICK lg : lg = league.of
    OBVIOUS
  <2>3. league # Nothing /\ Locks(op, lg, Nothing)
    BY <1>2, <2>2 DEF ClickMutate
  <2> QED BY <1>1, <2>1, <2>2, <2>3, LocksAgrees
<1>3. CASE ClickDelete
  <2>1. "delete" \in Exclusive /\ "delete" \notin Mutations \cup {"edit"}
    BY DEF Mutations, Exclusive
  <2>2. PICK lg : lg = league.of
    OBVIOUS
  <2>3. Locks("delete", lg, Nothing)
    BY <1>3, <2>2 DEF ClickDelete
  <2> QED BY <1>1, <2>1, <2>3, LocksAgrees
<1>4. CASE ClickCreate
  <2>1. "create" \in Exclusive /\ "create" \notin Mutations \cup {"edit"}
    BY DEF Mutations, Exclusive
  <2>2. Locks("create", Nothing, Nothing)
    BY <1>4 DEF ClickCreate
  <2> QED BY <1>1, <2>1, <2>2, LocksAgrees
<1>5. CASE ClickSave
  <2> SUFFICES ASSUME Undisturbed' PROVE Agreed'
    BY DEF Agreed
  <2>1. "edit" \in Exclusive
    BY DEF Exclusive
  <2>2. PICK m : m = edit
    OBVIOUS
  <2>3. /\ Locks("edit", m, m)
        /\ league # Nothing /\ page.fixtures # Nothing /\ m = page.fixtures.of
    BY <1>5, <2>2 DEF ClickSave, MatchShown
  <2>4. Settled
    BY <1>1, <2>3, StartsAlone DEF Locks
  <2>5. m = league.of
    BY <2>3, <2>4 DEF Settled, PageOf
  <2> QED BY <1>1, <2>1, <2>3, <2>5, LocksAgrees
<1>6. CASE StartEdit
  BY <1>1, <1>6, LocalAgrees DEF StartEdit, Untouched
<1>7. CASE CancelEdit
  BY <1>1, <1>7, LocalAgrees DEF CancelEdit, Untouched
<1> QED BY <1>2, <1>3, <1>4, <1>5, <1>6, <1>7, SelectClickAgrees, SwitchTabAgrees,
           ToggleAuditAgrees DEF Click

LEMMA InitAgrees == Init => Agreed
<1> SUFFICES ASSUME Init PROVE Agreed
  OBVIOUS
<1>1. PICK t : t = Task(0, "bootstrap", "list", Nothing, 0, Nothing, {"list"})
  OBVIOUS
<1>2. t.op = "bootstrap" /\ t.at = "list" /\ DOMAIN t.got = {}
  BY <1>1, TaskFields
<1>3. InFlight = {t}
  BY <1>1, <1>2 DEF Init, InFlight
<1>4. Underway(t)
  BY <1>2 DEF Init, Underway, AtList
<1> QED BY <1>3, <1>4 DEF Agreed

\* The page's invariant and that of a handler that runs alone.
THEOREM PageInvariance == Spec => [](WInv /\ Agreed)
<1>1. WInv /\ Agreed /\ [Next]_vars => Agreed'
  <2> SUFFICES ASSUME WInv, Agreed, [Next]_vars PROVE Agreed'
    OBVIOUS
  <2>1. CASE UNCHANGED vars
    <3>1. TypeOK /\ UNCHANGED <<tasks, history>> /\ Untouched
      BY <2>1 DEF WInv, TInv, vars, pageVars, history, Untouched
    <3> QED BY <3>1, LocalAgrees
  <2> QED BY <2>1, RespondAgrees, ClickAgrees DEF Next
<1> QED BY <1>1, InitAgrees, WebInvariance, PTL DEF Spec

\* A user who waits for each handler sees the server's state: when nothing is in
\* flight, nothing failed and no two handlers overlapped, the league, its table,
\* its week, the open tab and the open audit log are those the server has
\* (the handlers of web/index.html that call refresh()).
THEOREM PagesAgree == Spec => []PageAgrees
<1>1. WInv /\ Agreed => PageAgrees
  <2> SUFFICES ASSUME Agreed, Quiet, ~failed, ~overlapped, league # Nothing
               PROVE  PageAgrees
    BY DEF PageAgrees
  <2>1. /\ Shows(league.of) /\ PageOf(league.of) /\ TablesNow(page) /\ TabNow(page)
        /\ AuditNow
    BY DEF Agreed, Undisturbed, Quiet, InFlight, Settled
  <2> QED BY <2>1 DEF PageAgrees, Shows, PageOf, TablesNow, TabNow, OfNow, AuditNow
<1> QED BY <1>1, PageInvariance, PTL

=============================================================================
