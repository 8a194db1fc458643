--------------------------- MODULE Season_proofs ---------------------------
(***************************************************************************)
(* What a step of the server may do to a league, for every set of          *)
(* requests, number of weeks, fixture list and result set: what each kind  *)
(* of operation publishes, and that together they implement Season while   *)
(* edits and resets stay apart.                                            *)
(***************************************************************************)
EXTENDS LeagueTx_proofs

(***************************************************************************)
(* What the uncommitted writes of the lock holder touch.                   *)
(***************************************************************************)

\* A play adds results after the committed week and moves the league forward.
PlayEffect(r) ==
  /\ ws[r].audit = <<>>
  /\ \A m \in DOMAIN ws[r].score : WeekOf[m] > league.week
  /\ SeenLeague(r).week >= league.week
  /\ pc[r] \in {"advance", "commit"} => league.week < TotalWeeks
  /\ pc[r] = "advance" /\ op[r].kind = "play" => SeenLeague(r).week = league.week
  /\ pc[r] = "commit" =>
       SeenLeague(r).week = IF op[r].kind = "play" THEN league.week + 1 ELSE TotalWeeks

\* A reset writes every row.
ResetEffect(r) ==
  pc[r] = "commit" =>
    /\ ws[r].league = [week |-> 0, status |-> "NOT_STARTED"]
    /\ ws[r].score = NoResults
    /\ ws[r].snap = NoSnapshots
    /\ ws[r].audit = <<>>

\* A recalculation writes snapshots only.
RecalculateEffect(r) ==
  pc[r] = "commit" =>
    /\ ws[r].league = Null
    /\ ws[r].score = NoRows
    /\ ws[r].audit = <<>>

\* An edit writes its match, its audit entry, and no snapshot before its week.
EditEffect(r) ==
  pc[r] = "commit" =>
    /\ tx[r].match # Null
    /\ ws[r].league = Null
    /\ ws[r].score = [x \in {op[r].match} |-> op[r].new]
    /\ ws[r].audit = <<AuditEntry(r)>>
    /\ \A k \in DOMAIN ws[r].snap : k >= WeekOf[op[r].match]

Effect(r) ==
  /\ op[r].kind \in {"play", "playAll"} => PlayEffect(r)
  /\ op[r].kind = "reset" => ResetEffect(r)
  /\ op[r].kind = "recalculate" => RecalculateEffect(r)
  /\ op[r].kind = "edit" => EditEffect(r)
  /\ pc[r] = "advance" => op[r].kind \in {"play", "playAll"}

EInv == IInv /\ \A h \in Requests : lock = h => Effect(h)

\* The holder of the lock is not disturbed by the steps of another request.
LEMMA OthersStep ==
  ASSUME IInv, NEW r \in Requests, Begin(r) \/ Step(r) \/ Abort(r),
         NEW h \in Requests, lock' = h, h # r
  PROVE  /\ lock = h
         /\ UNCHANGED <<league, score, snap, audit>>
         /\ pc'[h] = pc[h] /\ op'[h] = op[h] /\ tx'[h] = tx[h] /\ ws'[h] = ws[h]
<1>1. ASSUME Begin(r) PROVE lock = h /\ UNCHANGED rows
      /\ pc'[h] = pc[h] /\ op'[h] = op[h] /\ tx'[h] = tx[h] /\ ws'[h] = ws[h]
  BY <1>1 DEF Begin, IInv, TypeOK, RequestTypes
<1>2. ASSUME NEW outcome, End(r, outcome)
      PROVE  /\ lock = h
             /\ pc'[h] = pc[h] /\ op'[h] = op[h] /\ tx'[h] = tx[h] /\ ws'[h] = ws[h]
  BY <1>2, NullAssumption DEF End, IInv, TypeOK, RequestTypes
<1>3. pc[r] \in InTx => lock = r
  BY DEF IInv, Locking
<1>4. CASE Abort(r) \/ Conflict(r)
  BY <1>2, <1>4 DEF Abort, Conflict, rows
<1>5. CASE ReadMatch(r)
  <2>1. UNCHANGED <<league, score, snap, audit>>
    BY <1>5 DEF ReadMatch, rows
  <2>2. CASE End(r, "notfound")
    BY <1>2, <2>1, <2>2
  <2>3. CASE ~End(r, "notfound")
    <3>1. /\ lock' = lock /\ op' = op /\ ws' = ws
          /\ pc' = [pc EXCEPT ![r] = "lock"]
          /\ tx' = [tx EXCEPT ![r].match = score[op[r].match]]
      BY <1>5, <2>3 DEF ReadMatch
    <3> QED BY <2>1, <3>1 DEF IInv, TypeOK, RequestTypes
  <2> QED BY <2>2, <2>3
<1>6. CASE Acquire(r)
  BY <1>2, <1>6 DEF Acquire, rows
<1>7. CASE DeleteLeague(r)
  <2>1. lock = Null /\ \E outcome : End(r, outcome)
    BY <1>7 DEF DeleteLeague
  <2> QED BY <1>2, <2>1, NullAssumption
<1>8. CASE UpdateRating(r)
  BY <1>2, <1>8 DEF UpdateRating, rows
<1>9. CASE Commit(r)
  <2>1. lock = r /\ \E outcome : End(r, outcome)
    BY <1>3, <1>9 DEF Commit, InTx
  <2> QED BY <1>2, <2>1
<1>10. CASE SimulateWeek(r) \/ AdvanceAndSnapshot(r) \/ Reset(r) \/ Recalculate(r)
            \/ UpdateResult(r)
  <2>1. pc[r] \in InTx /\ lock' = lock
    BY <1>10 DEF SimulateWeek, AdvanceAndSnapshot, Reset, Recalculate, UpdateResult, InTx
  <2> QED BY <1>3, <2>1
<1> QED BY <1>1, <1>4, <1>5, <1>6, <1>7, <1>8, <1>9, <1>10 DEF Step, rows

\* Steps that leave the rows and the holder's own state keep what it has written.
LEMMA EffectKept ==
  ASSUME NEW h \in Requests, Effect(h), UNCHANGED <<league, score, snap, audit>>,
         pc'[h] = pc[h], op'[h] = op[h], tx'[h] = tx[h], ws'[h] = ws[h]
  PROVE  Effect(h)'
<1>1. SeenLeague(h)' = SeenLeague(h)
  BY DEF SeenLeague
<1> QED
  BY <1>1 DEF Effect, PlayEffect, ResetEffect, RecalculateEffect, EditEffect, AuditEntry

\* The new holder has written nothing.
LEMMA AcquireEffect ==
  ASSUME IInv, NEW r \in Requests, Acquire(r), lock' = r PROVE Effect(r)'
<1>1. /\ league # Null
      /\ tx' = [tx EXCEPT ![r].league = league, ![r].week = league.week + 1]
      /\ pc' = [pc EXCEPT ![r] = "work"]
      /\ UNCHANGED <<op, ws>> /\ UNCHANGED <<league, score, snap, audit>>
  BY NullAssumption DEF Acquire, End, rows
<1>2. ws[r] = NoWrites
  BY DEF Acquire, IInv, Locking, InTx
<1>3. /\ ws'[r].league = Null /\ ws'[r].audit = <<>> /\ DOMAIN ws'[r].score = {}
      /\ pc'[r] = "work"
  BY <1>1, <1>2 DEF NoWrites, NoRows, IInv, TypeOK, RequestTypes
<1>4. SeenLeague(r)' = league /\ league.week \in Nat
  BY <1>1, <1>3 DEF SeenLeague, IInv, TypeOK, RowTypes, Leagues
<1>5. league' = league
  BY <1>1
<1> QED
  BY <1>3, <1>4, <1>5
  DEF Effect, PlayEffect, ResetEffect, RecalculateEffect, EditEffect

\* The week simulated is after the committed one.
LEMMA SimulateWeekEffect ==
  ASSUME EInv, NEW r \in Requests, SimulateWeek(r) PROVE Effect(r)'
<1> DEFINE w == tx[r].week
           new == [m \in InWeek(w) |-> Simulated[ratings][m]]
<1>1. /\ pc[r] = "work" /\ lock = r /\ Holding(r) /\ Effect(r)
      /\ tx[r].league.status # "FINISHED"
      /\ op[r].kind \in {"play", "playAll"}
  BY DEF SimulateWeek, EInv, IInv, Locking, InTx
<1>2. /\ league # Null /\ w = SeenLeague(r).week + 1 /\ w <= TotalWeeks
      /\ op[r].kind # "playAll" => ws[r] = NoWrites
  BY <1>1 DEF Holding
<1>3. league.week \in Nat /\ SeenLeague(r).week \in Nat /\ w \in Nat
  BY <1>2, SeenType, ConstantsAssumption DEF EInv, IInv, TypeOK, RowTypes, Leagues
<1>4. PlayEffect(r) /\ SeenLeague(r).week >= league.week
  BY <1>1 DEF Effect, PlayEffect
<1>5. IsWriteSet(ws[r])
  BY DEF EInv, IInv, TypeOK, RequestTypes
<1>6. /\ UNCHANGED <<league, score, snap, audit, op>>
      /\ pc'[r] = "advance"
      /\ ws'[r].score = Over(new, ws[r].score)
      /\ ws'[r].league = ws[r].league /\ ws'[r].audit = ws[r].audit
  <2> HIDE DEF new
  <2>1. ws' = [ws EXCEPT ![r].score = Over(new, @)]
    BY DEF SimulateWeek, new
  <2> QED BY <1>5, <2>1 DEF SimulateWeek, rows, EInv, IInv, TypeOK, RequestTypes, IsWriteSet
<1>7. DOMAIN ws'[r].score = InWeek(w) \cup DOMAIN ws[r].score
  BY <1>6 DEF Over
<1>8. \A m \in DOMAIN ws'[r].score : WeekOf[m] > league.week
  <2>1. \A m \in InWeek(w) : WeekOf[m] > league.week
    BY <1>2, <1>3, <1>4 DEF InWeek
  <2> QED BY <1>4, <1>7, <2>1 DEF PlayEffect
<1>9. SeenLeague(r)' = SeenLeague(r)
  BY <1>6 DEF SeenLeague
<1>10. op[r].kind = "play" => SeenLeague(r).week = league.week
  BY <1>1, <1>2 DEF SeenLeague, NoWrites
<1>11. PlayEffect(r)'
  <2>1. league.week < TotalWeeks
    BY <1>2, <1>3, <1>4, ConstantsAssumption
  <2>2. /\ ws'[r].audit = <<>> /\ league' = league /\ op' = op /\ pc'[r] = "advance"
        /\ SeenLeague(r)'.week >= league.week
    BY <1>4, <1>6, <1>9 DEF PlayEffect
  <2> QED BY <1>8, <1>9, <1>10, <2>1, <2>2 DEF PlayEffect
<1> QED BY <1>1, <1>6, <1>11 DEF Effect

\* The league moves to the week just simulated: PlayWeek is done, PlayAll is
\* done with the last week.
LEMMA AdvanceEffect ==
  ASSUME EInv, NEW r \in Requests, AdvanceAndSnapshot(r) PROVE Effect(r)'
<1> DEFINE w == tx[r].week
           moved == [week |-> w, status |-> StatusForWeek(w)]
<1>1. pc[r] = "advance" /\ lock = r /\ Holding(r) /\ Effect(r)
  BY DEF AdvanceAndSnapshot, EInv, IInv, Locking, InTx
<1>2. op[r].kind \in {"play", "playAll"} /\ PlayEffect(r)
  BY <1>1 DEF Effect
<1>3. /\ league # Null /\ w = SeenLeague(r).week + 1 /\ w <= TotalWeeks
  BY <1>1 DEF Holding
<1>4. league.week \in Nat /\ SeenLeague(r).week \in Nat /\ w \in Nat
  BY <1>3, SeenType, ConstantsAssumption DEF EInv, IInv, TypeOK, RowTypes, Leagues
<1>5. moved # Null
  <2>1. moved \in Leagues
    BY <1>3, <1>4, ConstantsAssumption DEF Leagues, StatusForWeek, Statuses
  <2> QED BY <2>1, NullAssumption
<1>6. /\ UNCHANGED <<league, score, snap, audit, op>>
      /\ ws'[r].score = ws[r].score /\ ws'[r].audit = ws[r].audit
      /\ ws'[r].league = moved
  <2>1. IsWriteSet(ws[r])
    BY DEF EInv, IInv, TypeOK, RequestTypes
  <2> HIDE DEF moved
  <2>2. PICK snaps : ws' = [ws EXCEPT ![r].snap = snaps, ![r].league = moved]
    BY DEF AdvanceAndSnapshot, moved
  <2> QED BY <2>1, <2>2
    DEF AdvanceAndSnapshot, rows, EInv, IInv, TypeOK, RequestTypes, IsWriteSet
<1>7. SeenLeague(r)' = moved
  <2> HIDE DEF moved
  <2> QED BY <1>5, <1>6 DEF SeenLeague
<1>8. /\ pc'[r] # "advance"
      /\ pc'[r] = "commit" => w = IF op[r].kind = "play" THEN league.week + 1 ELSE TotalWeeks
  <2>1. CASE MoreWeeks(r, w)
    BY <2>1 DEF AdvanceAndSnapshot, EInv, IInv, TypeOK, RequestTypes
  <2>2. CASE ~MoreWeeks(r, w)
    <3>1. pc'[r] = "commit"
      BY <2>2 DEF AdvanceAndSnapshot, EInv, IInv, TypeOK, RequestTypes
    <3>2. op[r].kind = "play" => w = league.week + 1
      BY <1>1, <1>2, <1>3 DEF PlayEffect
    <3>3. op[r].kind = "playAll" => w = TotalWeeks
      BY <1>3, <1>4, <2>2, ConstantsAssumption DEF MoreWeeks
    <3> QED BY <1>2, <3>1, <3>2, <3>3
  <2> QED BY <2>1, <2>2
<1>9. PlayEffect(r)'
  <2>1. /\ league' = league /\ op' = op /\ ws'[r].audit = <<>>
        /\ \A m \in DOMAIN ws'[r].score : WeekOf[m] > league.week
        /\ league.week < TotalWeeks /\ w >= league.week
    BY <1>1, <1>2, <1>3, <1>4, <1>6 DEF PlayEffect
  <2>2. SeenLeague(r)'.week = w
    BY <1>7
  <2> QED BY <1>2, <1>8, <2>1, <2>2 DEF PlayEffect
<1> QED BY <1>2, <1>6, <1>8, <1>9 DEF Effect

\* Reset, Recalculate and UpdateResult write in one go what they write.
LEMMA WriterEffect ==
  ASSUME EInv, NEW r \in Requests, Reset(r) \/ Recalculate(r) \/ UpdateResult(r)
  PROVE  Effect(r)'
<1>1. /\ pc[r] = "work" /\ op[r].kind # "playAll" /\ lock = r
      /\ ws[r] = NoWrites /\ tx[r].league = league /\ league.week \in Nat
  <2>1. pc[r] = "work" /\ op[r].kind # "playAll"
    BY DEF Reset, Recalculate, UpdateResult
  <2> QED BY <2>1, HolderAtWork DEF EInv
<1>2. /\ pc'[r] = "commit" /\ op' = op /\ tx' = tx
      /\ UNCHANGED <<league, score, snap, audit>>
  BY DEF Reset, Recalculate, UpdateResult, rows, EInv, IInv, TypeOK, RequestTypes
<1>3. CASE Reset(r)
  <2> DEFINE start == [week |-> 0, status |-> "NOT_STARTED"]
  <2>1. /\ ws'[r].league = start /\ ws'[r].score = NoResults
        /\ ws'[r].snap = NoSnapshots /\ ws'[r].audit = <<>>
    <3> HIDE DEF start
    <3>1. ws' = [ws EXCEPT ![r].score = NoResults, ![r].snap = NoSnapshots,
                           ![r].league = start]
      BY <1>3 DEF Reset, start
    <3> QED BY <1>1, <3>1 DEF NoWrites, EInv, IInv, TypeOK, RequestTypes
  <2>2. op[r].kind = "reset"
    BY <1>3 DEF Reset
  <2> QED BY <1>2, <2>1, <2>2 DEF Effect, ResetEffect
<1>4. CASE Recalculate(r)
  <2>1. PICK snaps : ws' = [ws EXCEPT ![r].snap = snaps]
    BY <1>4 DEF Recalculate
  <2>2. ws'[r].league = Null /\ ws'[r].score = NoRows /\ ws'[r].audit = <<>>
    BY <1>1, <2>1 DEF NoWrites, EInv, IInv, TypeOK, RequestTypes
  <2>3. op[r].kind = "recalculate"
    BY <1>4 DEF Recalculate
  <2> QED BY <1>2, <2>2, <2>3 DEF Effect, RecalculateEffect
<1>5. CASE UpdateResult(r)
  <2> DEFINE m == op[r].match
             written == [x \in {m} |-> op[r].new]
             new == Rebuilt(Over(written, score), WeekOf[m], tx[r].league.week, tx[r].start)
             entry == AuditEntry(r)
  <2>1. /\ ws'[r].league = Null /\ ws'[r].score = written
        /\ ws'[r].snap = new /\ ws'[r].audit = <<entry>>
    <3> HIDE DEF written, new, entry
    <3>1. ws' = [ws EXCEPT ![r].audit = <<entry>>, ![r].score = written, ![r].snap = new]
      BY <1>5 DEF UpdateResult, written, new, entry
    <3> QED BY <1>1, <3>1 DEF NoWrites, EInv, IInv, TypeOK, RequestTypes
  <2>2. \A k \in DOMAIN new : k >= WeekOf[m]
    BY DEF Rebuilt
  <2>3. op[r].kind = "edit" /\ tx[r].match # Null
    BY <1>5 DEF UpdateResult
  <2>4. entry' = entry
    BY <1>2 DEF AuditEntry
  <2> HIDE DEF new, entry
  <2> QED BY <1>2, <2>1, <2>2, <2>3, <2>4 DEF Effect, EditEffect, entry
<1> QED BY <1>3, <1>4, <1>5

\* Every step keeps what the holder's writes touch.
LEMMA NextEInv == EInv /\ [Next]_vars => EInv'
<1> SUFFICES ASSUME EInv, [Next]_vars PROVE EInv'
  OBVIOUS
<1>1. IInv /\ IInv'
  BY NextIInv DEF EInv
<1>2. ASSUME NEW r \in Requests, Begin(r) \/ Step(r) \/ Abort(r),
             NEW h \in Requests, lock' = h
      PROVE  Effect(h)'
  <2>1. CASE h # r
    <3>1. /\ lock = h
          /\ UNCHANGED <<league, score, snap, audit>>
          /\ pc'[h] = pc[h] /\ op'[h] = op[h] /\ tx'[h] = tx[h] /\ ws'[h] = ws[h]
      BY <1>1, <1>2, <2>1, OthersStep
    <3> QED BY <3>1, EffectKept DEF EInv
  <2>2. CASE h = r
    <3>1. pc'[r] \in InTx
      BY <1>1, <1>2, <2>2 DEF IInv, Locking
    <3>2. pc \in [Requests -> PCs]
      BY <1>1 DEF IInv, TypeOK, RequestTypes
    <3>3. ~Begin(r)
      BY <3>1, <3>2 DEF Begin, InTx
    <3>4. \A outcome : ~End(r, outcome)
      BY <3>1, <3>2 DEF End, InTx
    <3>5. ~ReadMatch(r) /\ ~Conflict(r) /\ ~DeleteLeague(r) /\ ~UpdateRating(r)
          /\ ~Commit(r) /\ ~Abort(r)
      BY <3>1, <3>2, <3>4
      DEF ReadMatch, Conflict, DeleteLeague, UpdateRating, Commit, Abort, InTx
    <3> QED
      BY <1>1, <1>2, <2>2, <3>3, <3>5, AcquireEffect, SimulateWeekEffect, AdvanceEffect,
         WriterEffect
      DEF Step
  <2> QED BY <2>1, <2>2
<1>3. CASE UNCHANGED vars
  <2>1. UNCHANGED <<league, score, snap, audit>> /\ UNCHANGED <<lock, pc, op, tx, ws>>
    BY <1>3 DEF vars
  <2>2. \A h \in Requests : lock = h => Effect(h)'
    BY <2>1, EffectKept DEF EInv
  <2> QED BY <1>1, <2>1, <2>2 DEF EInv
<1>4. CASE AllAnswered
  BY <1>3, <1>4 DEF AllAnswered
<1> QED BY <1>1, <1>2, <1>3, <1>4 DEF EInv, Next

\* In the beginning nobody holds the lock.
LEMMA InitEInv == Init => EInv
BY InitIInv, NullAssumption DEF Init, EInv

(***************************************************************************)
(* What a commit publishes.                                                *)
(***************************************************************************)

\* The operation of a request that has begun is one of those in Kinds.
LEMMA OpShape ==
  ASSUME NEW o \in Ops
  PROVE  /\ o.kind \in AllKinds
         /\ o.kind = "edit" => o.match \in Matches /\ o.new \in Scores
BY ConstantsAssumption DEF Ops, AllKinds

LEMMA CommitPublishes ==
  ASSUME EInv, NEW r \in Requests, Commit(r)
  PROVE  /\ league # Null /\ league \in Leagues /\ league' \in Leagues
         /\ score \in Results /\ score' \in Results
         /\ snap \in [Weeks -> Snapshots \cup {Null}]
         /\ snap' \in [Weeks -> Snapshots \cup {Null}]
         /\ audit \in Seq(Audits)
         /\ op[r].kind \in {"play", "playAll", "reset", "recalculate", "edit"}
         /\ op[r].kind \in {"play", "playAll"} =>
              /\ league.week < TotalWeeks
              /\ league'.week = IF op[r].kind = "play" THEN league.week + 1 ELSE TotalWeeks
              /\ \A m \in Matches : WeekOf[m] <= league.week => score'[m] = score[m]
              /\ audit' = audit
         /\ op[r].kind = "reset" =>
              /\ league' = [week |-> 0, status |-> "NOT_STARTED"]
              /\ score' = NoResults
              /\ snap' = NoSnapshots
              /\ audit' = audit
         /\ op[r].kind = "recalculate" =>
              league' = league /\ score' = score /\ audit' = audit
         /\ op[r].kind = "edit" =>
              /\ tx[r].match # Null
              /\ op[r].match \in Matches /\ op[r].new \in Scores
              /\ league' = league
              /\ \A m \in Matches : score'[m] = IF m = op[r].match THEN op[r].new ELSE score[m]
              /\ audit' = Append(audit, AuditEntry(r))
              /\ \A k \in Weeks : k < WeekOf[op[r].match] => snap'[k] = snap[k]
<1>1. pc[r] = "commit" /\ lock = r /\ Holding(r) /\ op[r] \in Ops /\ Effect(r)
  BY DEF Commit, EInv, IInv, Locking, InTx
<1>2. /\ league # Null /\ op[r].kind \notin {"delete", "rate"}
  BY <1>1 DEF Holding
<1>3. /\ league' = SeenLeague(r) /\ score' = SeenScore(r) /\ snap' = SeenSnap(r)
      /\ audit' = audit \o ws[r].audit
  BY DEF Commit
<1>4. /\ league \in Leagues /\ league' \in Leagues
      /\ score \in Results /\ score' \in Results
      /\ snap \in [Weeks -> Snapshots \cup {Null}]
      /\ snap' \in [Weeks -> Snapshots \cup {Null}]
      /\ audit \in Seq(Audits)
  BY <1>2, <1>3, SeenType DEF EInv, IInv, TypeOK, RowTypes
<1>5. op[r].kind \in {"play", "playAll", "reset", "recalculate", "edit"}
  BY <1>1, <1>2, OpShape DEF AllKinds
<1>6. ws[r].audit = <<>> => audit' = audit
  BY <1>3, <1>4
<1>7. score \in [Matches -> Scores \cup {Null}]
  BY <1>4 DEF Results
<1>8. CASE op[r].kind \in {"play", "playAll"}
  <2>1. PlayEffect(r)
    BY <1>1, <1>8 DEF Effect
  <2>2. \A m \in Matches : WeekOf[m] <= league.week => score'[m] = score[m]
    <3>1. ASSUME NEW m \in Matches, WeekOf[m] <= league.week PROVE score'[m] = score[m]
      <4>1. m \notin DOMAIN ws[r].score
        BY <1>4, <2>1, <3>1, ConstantsAssumption DEF PlayEffect, Weeks, Leagues
      <4> QED BY <1>3, <1>7, <4>1 DEF SeenScore, Over
    <3> QED BY <3>1
  <2> QED BY <1>1, <1>2, <1>3, <1>4, <1>5, <1>6, <1>8, <2>1, <2>2 DEF PlayEffect
<1>9. CASE op[r].kind = "reset"
  <2>1. ResetEffect(r)
    BY <1>1, <1>9 DEF Effect
  <2>2. league' = [week |-> 0, status |-> "NOT_STARTED"]
    <3>1. [week |-> 0, status |-> "NOT_STARTED"] \in Leagues
      BY ConstantsAssumption DEF Leagues, Statuses
    <3> QED BY <1>1, <1>3, <2>1, <3>1, NullAssumption DEF ResetEffect, SeenLeague
  <2>3. score' = NoResults
    BY <1>1, <1>3, <1>7, <2>1 DEF ResetEffect, SeenScore, Over, NoResults
  <2>4. snap' = NoSnapshots
    BY <1>1, <1>3, <1>4, <2>1 DEF ResetEffect, SeenSnap, Over, NoSnapshots
  <2> QED BY <1>1, <1>2, <1>4, <1>5, <1>6, <1>9, <2>1, <2>2, <2>3, <2>4 DEF ResetEffect
<1>10. CASE op[r].kind = "recalculate"
  <2>1. RecalculateEffect(r)
    BY <1>1, <1>10 DEF Effect
  <2>2. league' = league
    BY <1>1, <1>3, <2>1 DEF RecalculateEffect, SeenLeague
  <2>3. score' = score
    BY <1>1, <1>3, <1>7, <2>1, OverNothing DEF RecalculateEffect, SeenScore
  <2> QED BY <1>1, <1>2, <1>4, <1>5, <1>6, <1>10, <2>1, <2>2, <2>3 DEF RecalculateEffect
<1>11. CASE op[r].kind = "edit"
  <2>1. EditEffect(r) /\ op[r].match \in Matches /\ op[r].new \in Scores
    BY <1>1, <1>11, OpShape DEF Effect
  <2>2. league' = league
    BY <1>1, <1>3, <2>1 DEF EditEffect, SeenLeague
  <2>3. \A m \in Matches : score'[m] = IF m = op[r].match THEN op[r].new ELSE score[m]
    BY <1>1, <1>3, <1>7, <2>1 DEF EditEffect, SeenScore, Over
  <2>4. audit' = Append(audit, AuditEntry(r))
    <3>1. ws[r].audit = <<AuditEntry(r)>> /\ ws[r].audit \in Seq(Audits)
      BY <1>1, <2>1 DEF EditEffect, EInv, IInv, TypeOK, RequestTypes, IsWriteSet
    <3> HIDE DEF AuditEntry
    <3> QED BY <1>3, <1>4, <3>1
  <2>5. \A k \in Weeks : k < WeekOf[op[r].match] => snap'[k] = snap[k]
    <3>1. ASSUME NEW k \in Weeks, k < WeekOf[op[r].match] PROVE snap'[k] = snap[k]
      <4>1. k \notin DOMAIN ws[r].snap
        BY <1>1, <2>1, <3>1, ConstantsAssumption DEF EditEffect, Weeks
      <4> QED BY <1>3, <1>4, <4>1 DEF SeenSnap, Over
    <3> QED BY <3>1
  <2>6. tx[r].match # Null
    BY <1>1, <2>1 DEF EditEffect
  <2> QED BY <1>2, <1>4, <1>5, <1>11, <2>1, <2>2, <2>3, <2>4, <2>5, <2>6
<1> QED BY <1>5, <1>8, <1>9, <1>10, <1>11

\* The committed rows change when a transaction commits or the league goes.
LEMMA RowsChange ==
  ASSUME IInv, [Next]_vars
  PROVE  \/ UNCHANGED <<league, score, snap, audit>>
         \/ \E r \in Requests : Commit(r)
         \/ /\ league # Null /\ league' = Null
            /\ score' = NoResults /\ snap' = NoSnapshots /\ audit' = <<>>
<1>1. CASE UNCHANGED vars \/ AllAnswered
  BY <1>1 DEF AllAnswered, vars
<1>2. ASSUME NEW r \in Requests, Begin(r) \/ Step(r) \/ Abort(r), ~Commit(r)
      PROVE  \/ UNCHANGED <<league, score, snap, audit>>
             \/ /\ league # Null /\ league' = Null
                /\ score' = NoResults /\ snap' = NoSnapshots /\ audit' = <<>>
  <2>1. Begin(r) \/ Abort(r) \/ ReadMatch(r) \/ Acquire(r) \/ Conflict(r) \/ UpdateRating(r)
          => UNCHANGED rows
    BY DEF Begin, Abort, ReadMatch, Acquire, Conflict, UpdateRating
  <2>2. SimulateWeek(r) \/ AdvanceAndSnapshot(r) \/ Reset(r) \/ Recalculate(r)
          \/ UpdateResult(r) => UNCHANGED rows
    BY DEF SimulateWeek, AdvanceAndSnapshot, Reset, Recalculate, UpdateResult
  <2>3. DeleteLeague(r) =>
          \/ UNCHANGED rows
          \/ /\ league # Null /\ league' = Null
             /\ score' = NoResults /\ snap' = NoSnapshots /\ audit' = <<>>
    BY DEF DeleteLeague
  <2> QED BY <1>2, <2>1, <2>2, <2>3 DEF Step, rows
<1> QED BY <1>1, <1>2 DEF Next

\* A transaction that commits ends its own request and no other.
LEMMA CommitEnds ==
  ASSUME IInv, NEW r \in Requests, Commit(r)
  PROVE  /\ pc[r] = "commit" /\ pc'[r] = "done"
         /\ op' = op
         /\ \A q \in Requests : pc[q] # "done" /\ pc'[q] = "done" => q = r
<1>1. pc[r] = "commit" /\ \E outcome : End(r, outcome)
  BY DEF Commit
<1> QED BY <1>1 DEF End, IInv, TypeOK, RequestTypes

(***************************************************************************)
(* What a step of the server never does.                                   *)
(***************************************************************************)

\* The writes of the lock holder always amount to its operation.
THEOREM EffectsInvariant == Spec => []EInv
BY InitEInv, NextEInv, PTL DEF Spec

\* What the action properties are about, without their box.
PlayStep ==
  \A r \in Requests : Succeeds(r) /\ op[r].kind \in {"play", "playAll"} =>
    /\ league # Null /\ league.week < TotalWeeks
    /\ league'.week = IF op[r].kind = "play" THEN league.week + 1 ELSE TotalWeeks

WholeStep ==
  \A r \in Requests :
    lock = r /\ op[r].kind \in {"play", "playAll"} /\ league' \notin {league, Null} =>
      league'.week = IF op[r].kind = "play" THEN league.week + 1 ELSE TotalWeeks

BackStep ==
  /\ league # Null
  /\ league' # Null
  /\ \/ league'.week < league.week
     \/ league'.status # "FINISHED" /\ league.status = "FINISHED"
  => \E r \in Requests : /\ pc[r] = "commit" /\ pc'[r] = "done"
                         /\ op[r].kind = "reset"

ResultStep ==
  \A m \in Matches :
    /\ league # Null
    /\ WeekOf[m] <= league.week
    /\ score'[m] \notin {score[m], Null}
    => /\ Len(audit') = Len(audit) + 1
       /\ audit'[Len(audit')].match = m
       /\ audit'[Len(audit')].new = score'[m]

EarlierStep ==
  Len(audit') > Len(audit) =>
    \A k \in Weeks :
      k < WeekOf[audit'[Len(audit')].match] => snap'[k] = snap[k]

\* A play or play-all that succeeds is one that commits: every other way to
\* end a request tells its client something else or ends another kind.
LEMMA SuccessCommits ==
  ASSUME IInv, [Next]_vars, NEW r \in Requests, Succeeds(r),
         op[r].kind \in {"play", "playAll"}
  PROVE  Commit(r)
<1>1. pc \in [Requests -> PCs] /\ reply \in [Requests -> Replies]
  BY DEF IInv, TypeOK, RequestTypes
<1>2. ASSUME NEW q \in Requests, NEW outcome, End(q, outcome)
      PROVE  q = r /\ outcome = "ok"
  BY <1>1, <1>2 DEF End, Succeeds
<1>3. ASSUME NEW q \in Requests, Begin(q) PROVE FALSE
  BY <1>1, <1>3 DEF Begin, Succeeds
<1>4. ASSUME NEW q \in Requests, Step(q) \/ Abort(q) PROVE Commit(r)
  <2>1. ~Abort(q) /\ ~Conflict(q)
    <3>1. ~End(q, "error") /\ ~End(q, "conflict")
      BY <1>2
    <3> QED BY <3>1 DEF Abort, Conflict
  <2>2. ~ReadMatch(q)
    <3>1. ~End(q, "notfound")
      BY <1>2
    <3> QED BY <1>1, <3>1 DEF ReadMatch, Succeeds
  <2>3. ~Acquire(q)
    <3>1. ~End(q, "notfound")
      BY <1>2
    <3> QED BY <1>1, <3>1 DEF Acquire, Succeeds
  <2>4. ~(SimulateWeek(q) \/ AdvanceAndSnapshot(q) \/ Reset(q) \/ Recalculate(q)
            \/ UpdateResult(q))
    BY <1>1 DEF SimulateWeek, AdvanceAndSnapshot, Reset, Recalculate, UpdateResult, Succeeds
  <2>5. ~DeleteLeague(q)
    BY <1>2 DEF DeleteLeague
  <2>6. ~UpdateRating(q)
    BY <1>2 DEF UpdateRating
  <2>7. Commit(q) => q = r
    BY <1>2 DEF Commit
  <2> QED BY <1>4, <2>1, <2>2, <2>3, <2>4, <2>5, <2>6, <2>7 DEF Step
<1>5. ~UNCHANGED vars
  BY DEF vars, Succeeds
<1> QED BY <1>3, <1>4, <1>5 DEF Next, AllAnswered

\* Every step of the server is allowed.
LEMMA StepsAllowed ==
  EInv /\ [Next]_vars => PlayStep /\ BackStep /\ ResultStep /\ EarlierStep
<1> SUFFICES ASSUME EInv, [Next]_vars
             PROVE  PlayStep /\ BackStep /\ ResultStep /\ EarlierStep
  OBVIOUS
<1>1. IInv /\ IInv'
  BY NextIInv DEF EInv
<1>2. PlayStep
  <2>1. ASSUME NEW r \in Requests, Succeeds(r), op[r].kind \in {"play", "playAll"}
        PROVE  Commit(r)
    BY <1>1, <2>1, SuccessCommits
  <2> QED BY <2>1, CommitPublishes DEF PlayStep
<1>3. CASE UNCHANGED <<league, score, snap, audit>>
  <2>1. league # Null => league.week \in Nat
    BY <1>1, ConstantsAssumption DEF IInv, TypeOK, RowTypes, Leagues
  <2>2. Len(audit) \in Nat
    BY <1>1 DEF IInv, TypeOK, RowTypes
  <2> QED BY <1>2, <1>3, <2>1, <2>2 DEF BackStep, ResultStep, EarlierStep
<1>4. CASE \E r \in Requests : Commit(r)
  <2>1. PICK r \in Requests : Commit(r)
    BY <1>4
  <2>2. pc[r] = "commit" /\ pc'[r] = "done"
    BY <1>1, <2>1, CommitEnds
  <2>3. Len(audit) \in Nat
    BY <1>1 DEF IInv, TypeOK, RowTypes
  <2>4. league.week \in Nat /\ league'.week \in Nat
    BY <2>1, CommitPublishes, ConstantsAssumption DEF Leagues
  <2>5. /\ league.status = "FINISHED" <=> league.week = TotalWeeks
        /\ league'.status = "FINISHED" <=> league'.week = TotalWeeks
    <3>1. league # Null /\ league' # Null
      BY <2>1, CommitPublishes, NullAssumption
    <3> QED BY <1>1, <3>1 DEF IInv, PlayedThroughWeek, PlayedThrough
  <2>6. CASE op[r].kind \in {"play", "playAll"}
    <3>1. /\ league.week < TotalWeeks
          /\ league'.week = IF op[r].kind = "play" THEN league.week + 1 ELSE TotalWeeks
          /\ \A m \in Matches : WeekOf[m] <= league.week => score'[m] = score[m]
          /\ audit' = audit
      BY <2>1, <2>6, CommitPublishes
    <3>2. BackStep
      BY <2>4, <2>5, <3>1, ConstantsAssumption DEF BackStep
    <3> QED BY <1>2, <2>3, <3>1, <3>2 DEF ResultStep, EarlierStep
  <2>7. CASE op[r].kind = "reset"
    <3>1. score' = NoResults /\ audit' = audit
      BY <2>1, <2>7, CommitPublishes
    <3>2. BackStep
      BY <2>2, <2>7 DEF BackStep
    <3>3. ResultStep
      BY <3>1 DEF ResultStep, NoResults
    <3>4. EarlierStep
      BY <2>3, <3>1 DEF EarlierStep
    <3> QED BY <1>2, <3>2, <3>3, <3>4
  <2>8. CASE op[r].kind = "recalculate"
    <3>1. league' = league /\ score' = score /\ audit' = audit
      BY <2>1, <2>8, CommitPublishes
    <3> QED BY <1>2, <2>3, <2>4, <3>1 DEF BackStep, ResultStep, EarlierStep
  <2>9. CASE op[r].kind = "edit"
    <3>1. /\ league' = league
          /\ \A m \in Matches : score'[m] = IF m = op[r].match THEN op[r].new ELSE score[m]
          /\ audit' = Append(audit, AuditEntry(r))
          /\ \A k \in Weeks : k < WeekOf[op[r].match] => snap'[k] = snap[k]
      BY <2>1, <2>9, CommitPublishes
    <3>2. /\ Len(audit') = Len(audit) + 1
          /\ audit'[Len(audit')] = AuditEntry(r)
      <4> HIDE DEF AuditEntry
      <4> QED BY <1>1, <3>1 DEF IInv, TypeOK, RowTypes
    <3>3. audit'[Len(audit')].match = op[r].match /\ audit'[Len(audit')].new = op[r].new
      BY <3>2 DEF AuditEntry
    <3>4. BackStep
      BY <2>4, <3>1 DEF BackStep
    <3>5. ResultStep
      <4> SUFFICES ASSUME NEW m \in Matches, score'[m] # score[m]
                   PROVE  m = op[r].match /\ score'[m] = op[r].new
        BY <3>2, <3>3 DEF ResultStep
      <4> QED BY <3>1
    <3>6. EarlierStep
      BY <3>1, <3>3 DEF EarlierStep
    <3> QED BY <1>2, <3>4, <3>5, <3>6
  <2> QED BY <2>1, <2>6, <2>7, <2>8, <2>9, CommitPublishes
<1>5. CASE /\ league # Null /\ league' = Null
           /\ score' = NoResults /\ snap' = NoSnapshots /\ audit' = <<>>
  <2>1. Len(audit) \in Nat /\ Len(audit') = 0
    BY <1>1, <1>5 DEF IInv, TypeOK, RowTypes
  <2> QED BY <1>2, <1>5, <2>1 DEF BackStep, ResultStep, EarlierStep, NoResults
<1> QED BY <1>1, <1>3, <1>4, <1>5, RowsChange

\* A play-week that succeeds advances its league by exactly one week, a
\* play-all to its end, and neither plays a finished or deleted league.
THEOREM PlaysAdvance == Spec => PlayAdvances
<1>1. EInv /\ [Next]_vars => [PlayStep]_vars
  BY StepsAllowed
<1>2. Spec => [][PlayStep]_vars
  BY <1>1, EffectsInvariant, PTL DEF Spec
<1> QED BY <1>2 DEF PlayAdvances, PlayStep

\* Only the lock holder's commit leaves another league behind.
LEMMA WholeStepsAllowed == EInv /\ [Next]_vars => WholeStep
<1> SUFFICES ASSUME EInv, [Next]_vars, NEW r \in Requests, lock = r,
                    op[r].kind \in {"play", "playAll"}, league' \notin {league, Null}
             PROVE  league'.week = IF op[r].kind = "play" THEN league.week + 1 ELSE TotalWeeks
  BY DEF WholeStep
<1>1. IInv
  BY DEF EInv
<1>2. PICK q \in Requests : Commit(q)
  BY <1>1, RowsChange
<1>3. q = r
  BY <1>1, <1>2 DEF Commit, IInv, Locking, InTx
<1> QED BY <1>2, <1>3, CommitPublishes

\* Whatever its client is told, a play-week commits one week and a play-all all
\* that remain.
THEOREM PlaysAlwaysCommitWhole == Spec => PlaysCommitWhole
<1>1. EInv /\ [Next]_vars => [WholeStep]_vars
  BY WholeStepsAllowed
<1>2. Spec => [][WholeStep]_vars
  BY <1>1, EffectsInvariant, PTL DEF Spec
<1> QED BY <1>2 DEF PlaysCommitWhole, WholeStep

\* Only a commit of a reset takes a league back.
THEOREM OnlyAResetGoesBack == Spec => OnlyResetGoesBack
<1>1. EInv /\ [Next]_vars => [BackStep]_vars
  BY StepsAllowed
<1>2. Spec => [][BackStep]_vars
  BY <1>1, EffectsInvariant, PTL DEF Spec
<1> QED BY <1>2 DEF OnlyResetGoesBack, BackStep

\* No result that counts is replaced without an audit entry that names it.
THEOREM ResultsChangeByAudit == Spec => ResultsChangeOnlyByAudit
<1>1. EInv /\ [Next]_vars => [ResultStep]_vars
  BY StepsAllowed
<1>2. Spec => [][ResultStep]_vars
  BY <1>1, EffectsInvariant, PTL DEF Spec
<1> QED BY <1>2 DEF ResultsChangeOnlyByAudit, ResultStep

\* An edit leaves the snapshots of the weeks before its match as they are.
THEOREM EditsKeepEarlierSnapshots == Spec => EarlierSnapshotsKept
<1>1. EInv /\ [Next]_vars => [EarlierStep]_vars
  BY StepsAllowed
<1>2. Spec => [][EarlierStep]_vars
  BY <1>1, EffectsInvariant, PTL DEF Spec
<1> QED BY <1>2 DEF EarlierSnapshotsKept, EarlierStep

(***************************************************************************)
(* The season promised: while no league is both edited and reset, nothing  *)
(* of a week that has not been played is to be seen.                       *)
(***************************************************************************)

\* No result after the week of the league, and in each week's table none of a
\* later week.
Closed(l, results, snaps) ==
  /\ \A m \in Matches : WeekOf[m] > l.week => results[m] = Null
  /\ \A k \in Weeks : k <= l.week =>
       \A m \in Matches : WeekOf[m] > k => snaps[k].table[m] = Null

\* What the lock holder sees is closed, too; between simulateWeek and
\* advanceAndSnapshot its results are one week ahead.
HolderClosed(r) ==
  /\ pc[r] \in {"work", "commit"} => Closed(SeenLeague(r), SeenScore(r), SeenSnap(r))
  /\ pc[r] = "advance" =>
       /\ \A m \in Matches : WeekOf[m] > tx[r].week => SeenScore(r)[m] = Null
       /\ \A k \in Weeks : k <= SeenLeague(r).week =>
            \A m \in Matches : WeekOf[m] > k => SeenSnap(r)[k].table[m] = Null

\* An edit that found its match played still finds it so: no reset came between.
EditFounded(r) ==
  /\ pc[r] \in {"lock", "work", "commit"}
  /\ op[r].kind = "edit"
  /\ tx[r].match # Null
  /\ league # Null
  => score[op[r].match] # Null

\* Whatever is audited is a result that stands, and somebody asked for an edit.
Audited ==
  /\ league = Null => audit = <<>>
  /\ audit # <<>> => Asked("edit")
  /\ \A i \in DOMAIN audit : score[audit[i].match] # Null

\* A request that has not begun was not asked to do anything.
Fresh == \A r \in Requests : pc[r] = "new" => op[r] = Null

AInv ==
  /\ EInv
  /\ Fresh
  /\ Apart
  /\ league # Null => Closed(league, score, snap)
  /\ \A h \in Requests : lock = h => HolderClosed(h)
  /\ \A r \in Requests : EditFounded(r)
  /\ Audited
  /\ LastAuditIsCurrent

\* What the lock holder sees after it simulated a week.
LEMMA SimulateWeekSees ==
  ASSUME IInv, NEW r \in Requests, SimulateWeek(r)
  PROVE  /\ SeenLeague(r)' = SeenLeague(r) /\ SeenSnap(r)' = SeenSnap(r)
         /\ \A m \in Matches : WeekOf[m] # tx[r].week => SeenScore(r)'[m] = SeenScore(r)[m]
         /\ tx' = tx /\ pc'[r] = "advance"
<1> DEFINE new == [m \in InWeek(tx[r].week) |-> Simulated[ratings][m]]
<1>1. IsWriteSet(ws[r]) /\ score \in [Matches -> Scores \cup {Null}]
  BY DEF IInv, TypeOK, RowTypes, RequestTypes, Results
<1>2. /\ UNCHANGED <<league, score, snap, tx>>
      /\ pc'[r] = "advance"
      /\ ws'[r].score = Over(new, ws[r].score)
      /\ ws'[r].league = ws[r].league /\ ws'[r].snap = ws[r].snap
  <2> HIDE DEF new
  <2>1. ws' = [ws EXCEPT ![r].score = Over(new, @)]
    BY DEF SimulateWeek, new
  <2> QED BY <1>1, <2>1 DEF SimulateWeek, rows, IInv, TypeOK, RequestTypes, IsWriteSet
<1>3. \A m \in Matches : WeekOf[m] # tx[r].week => m \notin DOMAIN new
  BY DEF InWeek
<1> HIDE DEF new
<1>4. SeenScore(r)' = Over(Over(new, ws[r].score), score)
  BY <1>2 DEF SeenScore
<1>5. SeenLeague(r)' = SeenLeague(r) /\ SeenSnap(r)' = SeenSnap(r)
  BY <1>2 DEF SeenLeague, SeenSnap
<1>6. \A m \in Matches : WeekOf[m] # tx[r].week => SeenScore(r)'[m] = SeenScore(r)[m]
  BY <1>1, <1>3, <1>4 DEF SeenScore, Over
<1> QED BY <1>2, <1>5, <1>6

\* What the lock holder sees after it moved its league to the week it simulated.
LEMMA AdvanceSees ==
  ASSUME IInv, NEW r \in Requests, AdvanceAndSnapshot(r)
  PROVE  /\ tx[r].week \in Weeks /\ tx[r].week = SeenLeague(r).week + 1
         /\ SeenLeague(r).week \in 0..TotalWeeks
         /\ SeenLeague(r)'.week = tx[r].week /\ SeenScore(r)' = SeenScore(r)
         /\ SeenSnap(r)'[tx[r].week].table = SeenScore(r)
         /\ \A k \in Weeks : k # tx[r].week => SeenSnap(r)'[k] = SeenSnap(r)[k]
         /\ pc'[r] # "advance"
<1> DEFINE w == tx[r].week
           row == SnapshotOf(SeenScore(r), tx[r].start)
           new == [k \in {w} |-> row]
           moved == [week |-> w, status |-> StatusForWeek(w)]
<1>1. pc[r] = "advance" /\ lock = r /\ Holding(r)
  BY DEF AdvanceAndSnapshot, IInv, Locking, InTx
<1>2. league # Null /\ w = SeenLeague(r).week + 1 /\ w <= TotalWeeks
  BY <1>1 DEF Holding
<1>3. SeenLeague(r).week \in 0..TotalWeeks /\ w \in Weeks
  BY <1>2, SeenType, ConstantsAssumption DEF IInv, Leagues, Weeks
<1>4. moved # Null /\ moved.week = w
  <2>1. moved \in Leagues
    BY <1>3, ConstantsAssumption DEF Leagues, StatusForWeek, Statuses, Weeks
  <2> QED BY <2>1, NullAssumption
<1>5. row.table = SeenScore(r)
  BY DEF SnapshotOf
<1>6. IsWriteSet(ws[r]) /\ snap \in [Weeks -> Snapshots \cup {Null}]
  BY DEF IInv, TypeOK, RowTypes, RequestTypes
<1>7. /\ UNCHANGED <<league, score, snap>> /\ pc'[r] # "advance"
      /\ ws'[r].snap = Over(new, ws[r].snap)
      /\ ws'[r].score = ws[r].score /\ ws'[r].league = moved
  <2> HIDE DEF new, moved
  <2>1. ws' = [ws EXCEPT ![r].snap = Over(new, @), ![r].league = moved]
    BY DEF AdvanceAndSnapshot, new, row, moved
  <2> QED BY <1>6, <2>1 DEF AdvanceAndSnapshot, rows, IInv, TypeOK, RequestTypes, IsWriteSet
<1> HIDE DEF moved, row
<1>8. /\ SeenLeague(r)' = moved /\ SeenScore(r)' = SeenScore(r)
      /\ SeenSnap(r)' = Over(Over(new, ws[r].snap), snap)
  BY <1>4, <1>7 DEF SeenLeague, SeenScore, SeenSnap
<1>9. \A k \in Weeks : SeenSnap(r)'[k] = IF k = w THEN row ELSE SeenSnap(r)[k]
  BY <1>6, <1>8 DEF SeenSnap, Over
<1> QED BY <1>2, <1>3, <1>4, <1>5, <1>7, <1>8, <1>9

\* A play leaves nothing of a later week to be seen.
LEMMA PlayClosed ==
  ASSUME AInv, NEW r \in Requests, SimulateWeek(r) \/ AdvanceAndSnapshot(r)
  PROVE  HolderClosed(r)'
<1>1. lock = r /\ Holding(r) /\ HolderClosed(r) /\ pc[r] \in {"work", "advance"}
  BY DEF SimulateWeek, AdvanceAndSnapshot, AInv, EInv, IInv, Locking, InTx
<1>2. CASE SimulateWeek(r)
  <2>1. /\ pc[r] = "work" /\ tx[r].week = SeenLeague(r).week + 1
        /\ Closed(SeenLeague(r), SeenScore(r), SeenSnap(r))
    BY <1>1, <1>2 DEF SimulateWeek, Holding, HolderClosed
  <2>2. SeenLeague(r).week \in Nat /\ tx[r].week \in Nat
    BY <1>1, <2>1, SeenType, ConstantsAssumption DEF Holding, Leagues, AInv, EInv, IInv
  <2>3. \A m \in Matches : WeekOf[m] \in Nat
    BY ConstantsAssumption DEF Weeks
  <2>4. /\ SeenLeague(r)' = SeenLeague(r) /\ SeenSnap(r)' = SeenSnap(r)
        /\ \A m \in Matches : WeekOf[m] # tx[r].week => SeenScore(r)'[m] = SeenScore(r)[m]
        /\ tx' = tx /\ pc'[r] = "advance"
    BY <1>2, SimulateWeekSees DEF AInv, EInv
  <2> QED BY <2>1, <2>2, <2>3, <2>4 DEF Closed, HolderClosed
<1>3. CASE AdvanceAndSnapshot(r)
  <2>1. /\ tx[r].week \in Weeks /\ tx[r].week = SeenLeague(r).week + 1
        /\ SeenLeague(r).week \in 0..TotalWeeks
        /\ SeenLeague(r)'.week = tx[r].week /\ SeenScore(r)' = SeenScore(r)
        /\ SeenSnap(r)'[tx[r].week].table = SeenScore(r)
        /\ \A k \in Weeks : k # tx[r].week => SeenSnap(r)'[k] = SeenSnap(r)[k]
        /\ pc'[r] # "advance"
    BY <1>3, AdvanceSees DEF AInv, EInv
  <2>2. /\ \A m \in Matches : WeekOf[m] > tx[r].week => SeenScore(r)[m] = Null
        /\ \A k \in Weeks : k <= SeenLeague(r).week =>
             \A m \in Matches : WeekOf[m] > k => SeenSnap(r)[k].table[m] = Null
    BY <1>1, <1>3 DEF AdvanceAndSnapshot, HolderClosed
  <2>3. \A k \in Weeks : k <= tx[r].week =>
          \A m \in Matches : WeekOf[m] > k => SeenSnap(r)'[k].table[m] = Null
    BY <2>1, <2>2, ConstantsAssumption DEF Weeks
  <2> QED BY <2>1, <2>2, <2>3 DEF Closed, HolderClosed
<1> QED BY <1>2, <1>3

\* A rebuilt snapshot shows nothing of a later week.
LEMMA RebuiltClosed ==
  ASSUME NEW results, NEW from \in Int, NEW current \in Int, NEW now,
         NEW old \in [Weeks -> Snapshots \cup {Null}], NEW k \in Weeks,
         NEW m \in Matches, WeekOf[m] > k,
         k < from \/ k > current => old[k].table[m] = Null
  PROVE  Over(Rebuilt(results, from, current, now), old)[k].table[m] = Null
<1> DEFINE D == {i \in 1..current : i >= from}
           new == Rebuilt(results, from, current, now)
<1>1. DOMAIN new = D /\ \A i \in D : new[i].table = UpTo(results, i)
  BY DEF Rebuilt, SnapshotOf
<1>2. k \in Nat /\ k >= 1 /\ WeekOf[m] \in Nat
  BY ConstantsAssumption DEF Weeks
<1>3. Over(new, old)[k] = IF k \in D THEN new[k] ELSE old[k]
  <2> HIDE DEF new, D
  <2> QED BY <1>1 DEF Over
<1>4. CASE k \in D
  <2>1. Over(new, old)[k].table = UpTo(results, k)
    BY <1>1, <1>3, <1>4
  <2>2. UpTo(results, k)[m] = Null
    BY <1>2 DEF UpTo
  <2> QED BY <2>1, <2>2
<1>5. CASE k \notin D
  <2>1. old[k].table[m] = Null
    BY <1>2, <1>5
  <2> HIDE DEF new, D
  <2> QED BY <1>3, <1>5, <2>1 DEF new
<1> QED BY <1>4, <1>5

\* Nor do Reset, Recalculate and UpdateResult.
LEMMA WriterClosed ==
  ASSUME AInv, NEW r \in Requests, Reset(r) \/ Recalculate(r) \/ UpdateResult(r)
  PROVE  HolderClosed(r)'
<1>1. /\ pc[r] = "work" /\ op[r].kind # "playAll" /\ lock = r /\ league # Null
      /\ ws[r] = NoWrites /\ tx[r].league = league /\ league.week \in 0..TotalWeeks
      /\ op[r].kind = "edit" => op[r].match \in Matches
      /\ score \in Results /\ snap \in [Weeks -> Snapshots \cup {Null}]
  <2>1. pc[r] = "work" /\ op[r].kind # "playAll"
    BY DEF Reset, Recalculate, UpdateResult
  <2>2. op[r] \in Ops
    BY <2>1 DEF AInv, EInv, IInv, Locking
  <2> QED BY <2>1, <2>2, HolderAtWork, OpShape DEF AInv, EInv
<1>2. /\ pc'[r] = "commit" /\ UNCHANGED <<league, score, snap, audit>>
      /\ SeenScore(r) = score
  <2>1. SeenScore(r) = score
    BY <1>1, SeenNothingWritten DEF AInv, EInv, IInv
  <2> QED
    BY <2>1 DEF Reset, Recalculate, UpdateResult, rows, AInv, EInv, IInv, TypeOK, RequestTypes
<1>3. Closed(league, score, snap)
  BY <1>1 DEF AInv
<1>4. \A m \in Matches : WeekOf[m] \in Weeks
  BY ConstantsAssumption
<1>5. CASE Reset(r)
  <2> DEFINE start == [week |-> 0, status |-> "NOT_STARTED"]
  <2>1. start \in Leagues /\ start # Null /\ start.week = 0
    BY ConstantsAssumption, NullAssumption DEF Leagues, Statuses
  <2>2. /\ ws'[r].league = start /\ ws'[r].score = NoResults /\ ws'[r].snap = NoSnapshots
    <3> HIDE DEF start
    <3>1. ws' = [ws EXCEPT ![r].score = NoResults, ![r].snap = NoSnapshots,
                           ![r].league = start]
      BY <1>5 DEF Reset, start
    <3> QED BY <1>1, <3>1 DEF NoWrites, AInv, EInv, IInv, TypeOK, RequestTypes
  <2> HIDE DEF start
  <2>3. /\ SeenLeague(r)' = start
        /\ SeenScore(r)' = Over(NoResults, score)
    BY <1>2, <2>1, <2>2 DEF SeenLeague, SeenScore
  <2>4. \A m \in Matches : SeenScore(r)'[m] = Null
    BY <2>3 DEF Over, NoResults
  <2> QED BY <1>2, <2>1, <2>3, <2>4 DEF HolderClosed, Closed, Weeks
<1>6. CASE Recalculate(r)
  <2> DEFINE new == Rebuilt(SeenScore(r), 1, tx[r].league.week, tx[r].start)
  <2>1. ws'[r].league = Null /\ ws'[r].score = NoRows /\ ws'[r].snap = new
    <3> HIDE DEF new
    <3>1. ws' = [ws EXCEPT ![r].snap = new]
      BY <1>6 DEF Recalculate, new
    <3> QED BY <1>1, <3>1 DEF NoWrites, AInv, EInv, IInv, TypeOK, RequestTypes
  <2> HIDE DEF new
  <2>2. /\ SeenLeague(r)' = league
        /\ SeenScore(r)' = score
        /\ SeenSnap(r)' = Over(new, snap)
    BY <1>1, <1>2, <2>1, OverNothing DEF SeenLeague, SeenScore, SeenSnap, Results
  <2>3. \A k \in Weeks : k <= league.week =>
          \A m \in Matches : WeekOf[m] > k => Over(new, snap)[k].table[m] = Null
    BY <1>1, <1>3, <1>4, RebuiltClosed DEF Closed, new
  <2> QED BY <1>2, <1>3, <2>2, <2>3 DEF HolderClosed, Closed
<1>7. CASE UpdateResult(r)
  <2> DEFINE e == op[r].match
             written == [x \in {e} |-> op[r].new]
             new == Rebuilt(Over(written, score), WeekOf[e], tx[r].league.week, tx[r].start)
  <2>1. ws'[r].league = Null /\ ws'[r].score = written /\ ws'[r].snap = new
    <3> HIDE DEF written, new
    <3>1. ws' = [ws EXCEPT ![r].audit = <<AuditEntry(r)>>, ![r].score = written,
                           ![r].snap = new]
      BY <1>7 DEF UpdateResult, written, new
    <3> HIDE DEF AuditEntry
    <3> QED BY <1>1, <3>1 DEF NoWrites, AInv, EInv, IInv, TypeOK, RequestTypes
  <2>2. score[e] # Null /\ e \in Matches
    BY <1>1, <1>7 DEF UpdateResult, AInv, EditFounded
  <2> HIDE DEF new
  <2>3. /\ SeenLeague(r)' = league
        /\ SeenScore(r)' = Over(written, score)
        /\ SeenSnap(r)' = Over(new, snap)
    <3> HIDE DEF written
    <3> QED BY <1>2, <2>1 DEF SeenLeague, SeenScore, SeenSnap
  <2>4. \A m \in Matches : WeekOf[m] > league.week => Over(written, score)[m] = Null
    <3>1. \A m \in Matches : WeekOf[m] > league.week => m # e /\ score[m] = Null
      BY <1>3, <2>2 DEF Closed
    <3> QED BY <1>1, <3>1 DEF Over, Results
  <2>5. \A k \in Weeks : k <= league.week =>
          \A m \in Matches : WeekOf[m] > k => Over(new, snap)[k].table[m] = Null
    <3> HIDE DEF written, e
    <3>1. WeekOf[e] \in Int /\ tx[r].league.week = league.week /\ league.week \in Int
      BY <1>1, <1>4, <2>2, ConstantsAssumption DEF Weeks
    <3>2. ASSUME NEW k \in Weeks, k <= league.week, NEW m \in Matches, WeekOf[m] > k
          PROVE  Over(new, snap)[k].table[m] = Null
      <4>1. snap[k].table[m] = Null
        BY <1>3, <3>2 DEF Closed
      <4> QED BY <1>1, <3>1, <3>2, <4>1, RebuiltClosed DEF new
    <3> QED BY <3>2
  <2> QED BY <1>2, <2>3, <2>4, <2>5 DEF HolderClosed, Closed
<1> QED BY <1>5, <1>6, <1>7

\* A transaction that takes the lock sees the committed league.
LEMMA AcquireClosed ==
  ASSUME AInv, NEW r \in Requests, Acquire(r), lock' = r PROVE HolderClosed(r)'
<1>1. /\ league # Null /\ pc' = [pc EXCEPT ![r] = "work"]
      /\ UNCHANGED ws /\ UNCHANGED <<league, score, snap, audit>>
  BY NullAssumption DEF Acquire, End, rows
<1>2. ws[r] = NoWrites
  BY DEF Acquire, AInv, EInv, IInv, Locking, InTx
<1>3. /\ SeenLeague(r)' = SeenLeague(r) /\ SeenScore(r)' = SeenScore(r)
      /\ SeenSnap(r)' = SeenSnap(r)
  BY <1>1 DEF SeenLeague, SeenScore, SeenSnap
<1>4. SeenLeague(r) = league /\ SeenScore(r) = score /\ SeenSnap(r) = snap
  BY <1>2, SeenNothingWritten DEF AInv, EInv, IInv
<1>5. Closed(league, score, snap)
  BY <1>1 DEF AInv
<1>6. pc'[r] = "work"
  BY <1>1 DEF AInv, EInv, IInv, TypeOK, RequestTypes
<1> QED BY <1>3, <1>4, <1>5, <1>6 DEF HolderClosed, Closed

\* A step of one request is no step of another.
LEMMA OneAtATime ==
  ASSUME IInv, NEW r \in Requests, Begin(r) \/ Step(r) \/ Abort(r),
         NEW q \in Requests, q # r
  PROVE  pc'[q] = pc[q] /\ op'[q] = op[q] /\ tx'[q] = tx[q]
<1>1. pc \in [Requests -> PCs] /\ op \in [Requests -> Ops \cup {Null}]
      /\ tx \in [Requests -> Locals]
  BY DEF IInv, TypeOK, RequestTypes
<1>2. ASSUME NEW outcome, End(r, outcome)
      PROVE  pc'[q] = pc[q] /\ op'[q] = op[q] /\ tx'[q] = tx[q]
  BY <1>1, <1>2 DEF End
<1>3. CASE Begin(r) \/ ReadMatch(r)
  <2>1. CASE Begin(r)
    BY <1>1, <2>1 DEF Begin
  <2>2. CASE ReadMatch(r)
    <3>1. \/ End(r, "notfound")
          \/ /\ op' = op /\ pc' = [pc EXCEPT ![r] = "lock"]
             /\ tx' = [tx EXCEPT ![r].match = score[op[r].match]]
      BY <2>2 DEF ReadMatch
    <3> QED BY <1>1, <1>2, <3>1
  <2> QED BY <1>3, <2>1, <2>2
<1>4. CASE Acquire(r)
  <2>1. \/ End(r, "notfound")
        \/ /\ op' = op /\ pc' = [pc EXCEPT ![r] = "work"]
           /\ tx' = [tx EXCEPT ![r].league = league, ![r].week = league.week + 1]
    BY <1>4 DEF Acquire
  <2> QED BY <1>1, <1>2, <2>1
<1>5. CASE Conflict(r) \/ DeleteLeague(r) \/ UpdateRating(r) \/ Commit(r) \/ Abort(r)
  <2>1. \E outcome : End(r, outcome)
    BY <1>5 DEF Conflict, DeleteLeague, UpdateRating, Commit, Abort
  <2> QED BY <1>2, <2>1
<1>6. CASE SimulateWeek(r) \/ Reset(r) \/ Recalculate(r) \/ UpdateResult(r)
  BY <1>1, <1>6 DEF SimulateWeek, Reset, Recalculate, UpdateResult
<1>7. CASE AdvanceAndSnapshot(r)
  <2>1. \/ op' = op /\ pc' = [pc EXCEPT ![r] = "work"]
           /\ tx' = [tx EXCEPT ![r].week = tx[r].week + 1]
        \/ op' = op /\ pc' = [pc EXCEPT ![r] = "commit"] /\ tx' = tx
    BY <1>7 DEF AdvanceAndSnapshot
  <2> QED BY <1>1, <2>1
<1> QED BY <1>3, <1>4, <1>5, <1>6, <1>7 DEF Step

\* A request that has begun keeps what it was asked to do.
LEMMA AskedStays ==
  ASSUME IInv, Fresh, [Next]_vars
  PROVE  Fresh' /\ \A r \in Requests : op[r] # Null => op'[r] = op[r]
<1> SUFFICES ASSUME NEW q \in Requests
             PROVE  /\ op[q] # Null => op'[q] = op[q]
                    /\ pc'[q] = "new" => op'[q] = Null
  BY DEF Fresh
<1>1. pc \in [Requests -> PCs] /\ (pc[q] = "new" => op[q] = Null)
  BY DEF Fresh, IInv, TypeOK, RequestTypes
<1>2. CASE UNCHANGED vars
  BY <1>1, <1>2 DEF vars
<1>3. ASSUME NEW r \in Requests, Begin(r) \/ Step(r) \/ Abort(r)
      PROVE  /\ op[q] # Null => op'[q] = op[q]
             /\ pc'[q] = "new" => op'[q] = Null
  <2>1. CASE q # r
    BY <1>1, <1>3, <2>1, OneAtATime
  <2>2. CASE Begin(r) /\ q = r
    <3>1. pc[r] = "new" /\ pc'[r] # "new"
      BY <1>1, <2>2 DEF Begin
    <3> QED BY <1>1, <2>2, <3>1
  <2>3. CASE (Step(r) \/ Abort(r)) /\ q = r
    <3>1. ASSUME NEW outcome, End(r, outcome) PROVE op' = op /\ pc'[r] # "new"
      BY <1>1, <3>1 DEF End
    <3>2. CASE ReadMatch(r) \/ Acquire(r)
      BY <1>1, <2>3, <3>1, <3>2 DEF ReadMatch, Acquire
    <3>3. CASE Conflict(r) \/ DeleteLeague(r) \/ UpdateRating(r) \/ Commit(r) \/ Abort(r)
      <4>1. \E outcome : End(r, outcome)
        BY <3>3 DEF Conflict, DeleteLeague, UpdateRating, Commit, Abort
      <4> QED BY <2>3, <3>1, <4>1
    <3>4. CASE SimulateWeek(r) \/ AdvanceAndSnapshot(r) \/ Reset(r) \/ Recalculate(r)
               \/ UpdateResult(r)
      BY <1>1, <2>3, <3>4
      DEF SimulateWeek, AdvanceAndSnapshot, Reset, Recalculate, UpdateResult
    <3> QED BY <2>3, <3>1, <3>2, <3>3, <3>4 DEF Step
  <2> QED BY <1>3, <2>1, <2>2, <2>3
<1> QED BY <1>2, <1>3 DEF Next, AllAnswered

\* While somebody asks for edits, a step leaves every result that counts to be,
\* save for the one that the edit it commits replaces.
LEMMA ResultsStay ==
  ASSUME AInv, [Next]_vars, Apart', Asked("edit")', league' # Null
  PROVE  /\ league # Null
         /\ \A m \in Matches : score[m] # Null => score'[m] # Null
         /\ \/ audit' = audit /\ \A m \in Matches : score[m] # Null => score'[m] = score[m]
            \/ \E r \in Requests : Commit(r) /\ op[r].kind = "edit"
<1>1. CASE UNCHANGED <<league, score, snap, audit>>
  BY <1>1
<1>2. ASSUME NEW r \in Requests, Commit(r)
      PROVE  /\ league # Null
             /\ \A m \in Matches : score[m] # Null => score'[m] # Null
             /\ \/ audit' = audit
                   /\ \A m \in Matches : score[m] # Null => score'[m] = score[m]
                \/ Commit(r) /\ op[r].kind = "edit"
  <2>1. EInv /\ Closed(league, score, snap) /\ league # Null
    BY <1>2, CommitPublishes DEF AInv
  <2>2. CASE op[r].kind \in {"play", "playAll"}
    <3>1. /\ \A m \in Matches : WeekOf[m] <= league.week => score'[m] = score[m]
          /\ audit' = audit /\ league \in Leagues
      BY <1>2, <2>1, <2>2, CommitPublishes
    <3>2. \A m \in Matches : score[m] # Null => WeekOf[m] <= league.week
      BY <2>1, <3>1, ConstantsAssumption DEF Closed, Leagues, Weeks
    <3> QED BY <2>1, <3>1, <3>2
  <2>3. op[r].kind # "reset"
    <3>1. op' = op /\ op[r] # Null
      <4>1. op[r] \in Ops
        BY <1>2 DEF AInv, EInv, IInv, Locking, Commit
      <4> QED BY <1>2, <4>1, CommitEnds, NullAssumption DEF AInv, EInv
    <3> QED BY <3>1 DEF Apart, Asked
  <2>4. CASE op[r].kind = "recalculate"
    BY <1>2, <2>1, <2>4, CommitPublishes
  <2>5. CASE op[r].kind = "edit"
    <3>1. /\ \A m \in Matches : score'[m] = IF m = op[r].match THEN op[r].new ELSE score[m]
          /\ op[r].new \in Scores
      BY <1>2, <2>1, <2>5, CommitPublishes
    <3> QED BY <1>2, <2>1, <2>5, <3>1, NullAssumption
  <2> QED BY <1>2, <2>1, <2>2, <2>3, <2>4, <2>5, CommitPublishes
<1> QED BY <1>1, <1>2, RowsChange DEF AInv, EInv

\* The committed league shows nothing of a later week.
LEMMA CommittedClosed ==
  ASSUME AInv, [Next]_vars, league' # Null PROVE Closed(league, score, snap)'
<1>1. CASE UNCHANGED <<league, score, snap, audit>>
  BY <1>1 DEF AInv, Closed
<1>2. ASSUME NEW r \in Requests, Commit(r) PROVE Closed(league, score, snap)'
  <2>1. Closed(SeenLeague(r), SeenScore(r), SeenSnap(r))
    BY <1>2 DEF Commit, AInv, EInv, IInv, Locking, InTx, HolderClosed
  <2>2. league' = SeenLeague(r) /\ score' = SeenScore(r) /\ snap' = SeenSnap(r)
    BY <1>2 DEF Commit
  <2> QED BY <2>1, <2>2 DEF Closed
<1> QED BY <1>1, <1>2, RowsChange DEF AInv, EInv

\* The lock holder sees nothing of a later week.
LEMMA HolderStaysClosed ==
  ASSUME AInv, [Next]_vars, NEW h \in Requests, lock' = h PROVE HolderClosed(h)'
<1>1. ASSUME lock = h, UNCHANGED <<league, score, snap>>,
             pc'[h] = pc[h], tx'[h] = tx[h], ws'[h] = ws[h]
      PROVE  HolderClosed(h)'
  <2>1. /\ SeenLeague(h)' = SeenLeague(h) /\ SeenScore(h)' = SeenScore(h)
        /\ SeenSnap(h)' = SeenSnap(h)
    BY <1>1 DEF SeenLeague, SeenScore, SeenSnap
  <2> QED BY <1>1, <2>1 DEF AInv, HolderClosed, Closed
<1>2. CASE UNCHANGED vars
  BY <1>1, <1>2 DEF vars
<1>3. ASSUME NEW r \in Requests, Begin(r) \/ Step(r) \/ Abort(r) PROVE HolderClosed(h)'
  <2>1. CASE h # r
    BY <1>1, <1>3, <2>1, OthersStep DEF AInv, EInv
  <2>2. CASE h = r
    <3>1. pc'[r] \in InTx /\ pc \in [Requests -> PCs]
      BY <2>2, NextEInv DEF AInv, EInv, IInv, Locking, TypeOK, RequestTypes
    <3>2. ~Begin(r)
      BY <3>1 DEF Begin, InTx
    <3>3. \A outcome : ~End(r, outcome)
      BY <3>1 DEF End, InTx
    <3>4. /\ ~ReadMatch(r) /\ ~Conflict(r) /\ ~DeleteLeague(r) /\ ~UpdateRating(r)
          /\ ~Commit(r) /\ ~Abort(r)
      BY <3>1, <3>3
      DEF ReadMatch, Conflict, DeleteLeague, UpdateRating, Commit, Abort, InTx
    <3> QED
      BY <1>3, <2>2, <3>2, <3>4, AcquireClosed, PlayClosed, WriterClosed DEF Step
  <2> QED BY <2>1, <2>2
<1> QED BY <1>2, <1>3 DEF Next, AllAnswered

\* An edit keeps the match it read: only a reset could take its result back.
LEMMA EditStaysFounded ==
  ASSUME AInv, [Next]_vars, Apart', NEW q \in Requests PROVE EditFounded(q)'
<1> SUFFICES ASSUME pc'[q] \in {"lock", "work", "commit"}, op'[q].kind = "edit",
                    tx'[q].match # Null, league' # Null
             PROVE  score'[op'[q].match] # Null
  BY DEF EditFounded
<1>1. /\ pc \in [Requests -> PCs] /\ op \in [Requests -> Ops \cup {Null}]
      /\ tx \in [Requests -> Locals] /\ EInv /\ IInv /\ IInv'
  BY NextEInv DEF AInv, EInv, IInv, TypeOK, RequestTypes
<1>2. op'[q] \in Ops /\ op'[q] # Null /\ op'[q].match \in Matches
  BY <1>1, OpShape, NullAssumption DEF IInv, Locking
<1>3. Asked("edit")'
  BY <1>2 DEF Asked
<1>4. /\ league # Null
      /\ \A m \in Matches : score[m] # Null => score'[m] # Null
  BY <1>3, ResultsStay
<1>5. ASSUME pc[q] \in {"lock", "work", "commit"}, op[q] = op'[q], tx[q].match = tx'[q].match
      PROVE  score'[op'[q].match] # Null
  BY <1>2, <1>4, <1>5 DEF AInv, EditFounded
<1>6. CASE UNCHANGED vars
  BY <1>5, <1>6 DEF vars
<1>7. ASSUME NEW r \in Requests, Begin(r) \/ Step(r) \/ Abort(r)
      PROVE  score'[op'[q].match] # Null
  <2>1. CASE q # r
    BY <1>1, <1>5, <1>7, <2>1, OneAtATime
  <2>2. CASE q = r
    <3>1. ~Begin(r)
      BY <1>1, <2>2 DEF Begin
    <3>2. \A outcome : ~End(r, outcome)
      BY <1>1, <2>2 DEF End
    <3>3. /\ ~Conflict(r) /\ ~DeleteLeague(r) /\ ~UpdateRating(r)
          /\ ~Commit(r) /\ ~Abort(r)
      BY <3>2 DEF Conflict, DeleteLeague, UpdateRating, Commit, Abort
    <3>4. CASE ReadMatch(r)
      <4>1. /\ tx' = [tx EXCEPT ![r].match = score[op[r].match]] /\ op' = op
            /\ score' = score
        BY <3>2, <3>4 DEF ReadMatch, rows
      <4> QED BY <1>1, <2>2, <4>1
    <3>5. CASE Acquire(r)
      <4>1. /\ tx' = [tx EXCEPT ![r].league = league, ![r].week = league.week + 1]
            /\ op' = op /\ pc[r] = "lock"
        BY <3>2, <3>5 DEF Acquire
      <4>2. tx'[r].match = tx[r].match
        BY <1>1, <4>1 DEF Locals
      <4> QED BY <1>5, <2>2, <4>1, <4>2
    <3>6. CASE SimulateWeek(r) \/ Reset(r) \/ Recalculate(r) \/ UpdateResult(r)
      <4>1. op' = op /\ tx' = tx /\ pc[r] = "work"
        BY <3>6 DEF SimulateWeek, Reset, Recalculate, UpdateResult
      <4> QED BY <1>5, <2>2, <4>1
    <3>7. ~AdvanceAndSnapshot(r)
      <4>1. ASSUME AdvanceAndSnapshot(r) PROVE op'[r].kind # "edit"
        <5>1. op' = op /\ pc[r] = "advance" /\ lock = r
          BY <1>1, <4>1 DEF AdvanceAndSnapshot, IInv, Locking, InTx
        <5> QED BY <1>1, <5>1 DEF EInv, Effect
      <4> QED BY <2>2, <4>1
    <3> QED BY <1>7, <3>1, <3>3, <3>4, <3>5, <3>6, <3>7 DEF Step
  <2> QED BY <2>1, <2>2
<1> QED BY <1>6, <1>7 DEF Next, AllAnswered

\* The audit log stays true to the results.
LEMMA AuditStaysTrue ==
  ASSUME AInv, [Next]_vars, Apart' PROVE Audited' /\ LastAuditIsCurrent'
<1>1. EInv /\ IInv /\ audit \in Seq(Audits) /\ Audited /\ LastAuditIsCurrent
  BY DEF AInv, EInv, IInv, TypeOK, RowTypes
<1>2. Asked("edit") => Asked("edit")'
  BY AskedStays DEF Asked, AInv, EInv
<1>3. \A i \in DOMAIN audit : audit[i].match \in Matches
  <2>1. \A i \in DOMAIN audit : audit[i] \in Audits
    BY <1>1
  <2> QED BY <2>1 DEF Audits
<1>4. CASE UNCHANGED <<league, score, snap, audit>>
  BY <1>1, <1>2, <1>4 DEF Audited, LastAuditIsCurrent
<1>5. CASE /\ league # Null /\ league' = Null
           /\ score' = NoResults /\ snap' = NoSnapshots /\ audit' = <<>>
  BY <1>5 DEF Audited, LastAuditIsCurrent
<1>6. ASSUME NEW r \in Requests, Commit(r), op[r].kind # "edit"
      PROVE  Audited' /\ LastAuditIsCurrent'
  <2>1. audit' = audit /\ league' # Null
    BY <1>1, <1>6, CommitPublishes, NullAssumption
  <2>2. CASE audit = <<>>
    BY <2>1, <2>2 DEF Audited, LastAuditIsCurrent
  <2>3. CASE audit # <<>>
    <3>1. Asked("edit")'
      BY <1>1, <1>2, <2>3 DEF Audited
    <3>2. \A m \in Matches : score[m] # Null => score'[m] = score[m]
      <4>1. ASSUME NEW s \in Requests, Commit(s), op[s].kind = "edit" PROVE FALSE
        BY <1>1, <1>6, <4>1, CommitEnds
      <4> QED BY <2>1, <3>1, <4>1, ResultsStay
    <3>3. \A i \in DOMAIN audit : score'[audit[i].match] = score[audit[i].match]
      BY <1>1, <1>3, <3>2 DEF Audited
    <3> QED BY <1>1, <2>1, <3>1, <3>3 DEF Audited, LastAuditIsCurrent
  <2> QED BY <2>2, <2>3
<1>7. ASSUME NEW r \in Requests, Commit(r), op[r].kind = "edit"
      PROVE  Audited' /\ LastAuditIsCurrent'
  <2> DEFINE e == op[r].match
             entry == AuditEntry(r)
  <2>1. /\ e \in Matches /\ op[r].new \in Scores /\ league' # Null
        /\ \A m \in Matches : score'[m] = IF m = e THEN op[r].new ELSE score[m]
        /\ audit' = Append(audit, entry)
    BY <1>1, <1>7, CommitPublishes, NullAssumption
  <2>2. entry.match = e /\ entry.new = op[r].new
    BY DEF AuditEntry
  <2>3. Asked("edit")'
    <3>1. op' = op /\ op[r] \in Ops
      BY <1>1, <1>7, CommitEnds DEF IInv, Locking, Commit
    <3> QED BY <1>7, <3>1, NullAssumption DEF Asked
  <2> HIDE DEF entry, e
  <2>4. /\ DOMAIN audit' = 1..Len(audit) + 1 /\ DOMAIN audit = 1..Len(audit)
        /\ Len(audit) \in Nat
        /\ audit'[Len(audit) + 1] = entry
        /\ \A i \in DOMAIN audit : audit'[i] = audit[i]
    BY <1>1, <2>1
  <2>5. Audited'
    <3>1. ASSUME NEW i \in DOMAIN audit' PROVE score'[audit'[i].match] # Null
      <4>1. CASE i = Len(audit) + 1
        BY <2>1, <2>2, <2>4, <4>1, NullAssumption
      <4>2. CASE i \in DOMAIN audit
        <5>1. score[audit[i].match] # Null
          BY <1>1, <4>2 DEF Audited
        <5> QED BY <1>3, <2>1, <2>4, <4>2, <5>1, NullAssumption
      <4> QED BY <2>4, <3>1, <4>1, <4>2
    <3> QED BY <2>1, <2>3, <3>1 DEF Audited
  <2>6. LastAuditIsCurrent'
    <3> SUFFICES ASSUME NEW i \in DOMAIN audit',
                        \A j \in DOMAIN audit' : audit'[j].match = audit'[i].match => j <= i
                 PROVE  audit'[i].new = score'[audit'[i].match]
      BY DEF LastAuditIsCurrent
    <3>1. CASE i = Len(audit) + 1
      BY <2>1, <2>2, <2>4, <3>1
    <3>2. CASE i \in DOMAIN audit
      <4>1. audit[i].match # e
        BY <2>2, <2>4, <3>2
      <4>2. \A j \in DOMAIN audit : audit[j].match = audit[i].match => j <= i
        BY <2>4, <3>2
      <4>3. audit[i].new = score[audit[i].match]
        BY <1>1, <3>2, <4>2 DEF LastAuditIsCurrent
      <4> QED BY <1>3, <2>1, <2>4, <3>2, <4>1, <4>3
    <3> QED BY <2>4, <3>1, <3>2
  <2> QED BY <2>5, <2>6
<1> QED BY <1>1, <1>4, <1>5, <1>6, <1>7, RowsChange

\* Every step that keeps edits and resets apart keeps the season promised.
LEMMA NextAInv == AInv /\ [Next]_vars /\ Apart' => AInv'
<1> SUFFICES ASSUME AInv, [Next]_vars, Apart' PROVE AInv'
  OBVIOUS
<1> QED
  BY NextEInv, CommittedClosed, HolderStaysClosed, EditStaysFounded, AuditStaysTrue, AskedStays
  DEF AInv, EInv

\* A season that was saved shows nothing of a later week.
LEMMA InitAInv == Init => AInv
<1> SUFFICES ASSUME Init PROVE AInv
  OBVIOUS
<1>1. EInv /\ audit = <<>> /\ lock = Null /\ op = [r \in Requests |-> Null]
      /\ pc = [r \in Requests |-> "new"]
  BY InitEInv DEF Init
<1>2. Closed(league, score, snap)
  <2>1. PICK w \in 0..TotalWeeks, results \in [Matches -> Scores] :
          /\ league = SavedLeague(w)
          /\ score = UpTo(results, w)
          /\ snap = [k \in Weeks |->
                       IF k <= w THEN SnapshotOf(UpTo(results, k), 0) ELSE Null]
    BY DEF Init
  <2>2. league.week = w
    BY <2>1 DEF SavedLeague
  <2>3. \A k \in Weeks : k <= w => snap[k].table = UpTo(results, k)
    BY <2>1 DEF SnapshotOf
  <2>4. \A k \in 0..TotalWeeks, m \in Matches : WeekOf[m] > k => UpTo(results, k)[m] = Null
    BY ConstantsAssumption DEF UpTo, Weeks
  <2> QED BY <2>1, <2>2, <2>3, <2>4, ConstantsAssumption DEF Closed, Weeks
<1>3. Apart
  BY <1>1 DEF Apart, Asked
<1>4. Fresh /\ \A r \in Requests : EditFounded(r)
  BY <1>1 DEF EditFounded, Fresh
<1>5. Audited /\ LastAuditIsCurrent
  BY <1>1 DEF Audited, LastAuditIsCurrent
<1> QED BY <1>1, <1>2, <1>3, <1>4, <1>5, NullAssumption DEF AInv

\* The invariant of the runs in which edits and resets are kept apart.
THEOREM ApartInvariance == ApartSpec => []AInv
<1>1. AInv /\ [Next /\ Apart']_vars => AInv'
  <2>1. ASSUME AInv, UNCHANGED vars PROVE AInv'
    <3>1. Apart'
      BY <2>1 DEF AInv, Apart, Asked, vars
    <3> QED BY <2>1, <3>1, NextAInv
  <2> QED BY <2>1, NextAInv
<1> QED BY <1>1, InitAInv, PTL DEF ApartSpec

\* While no league is both edited and reset, the last audit entry of a match
\* names the result the match has.
THEOREM LastAuditAlwaysCurrent == ApartSpec => []LastAuditIsCurrent
<1>1. AInv => LastAuditIsCurrent
  BY DEF AInv
<1> QED BY <1>1, ApartInvariance, PTL

(***************************************************************************)
(* The refinement of Season.                                               *)
(***************************************************************************)

\* The rows of a season that is played through, agrees and is closed are
\* determined by its week and its results.
StandsFor(l, results, snaps) ==
  /\ l = [week |-> l.week, status |-> Promise!Status(l.week)]
  /\ results = Promise!TableAfter(results, l.week)
  /\ TablesOf(snaps) =
       [k \in Weeks |-> IF k <= l.week THEN Promise!TableAfter(results, k) ELSE Null]

LEMMA SeasonStands ==
  ASSUME NEW l \in Leagues, NEW results \in Results,
         NEW snaps \in [Weeks -> Snapshots \cup {Null}],
         PlayedThrough(l, results), Agree(l, results, snaps), Closed(l, results, snaps)
  PROVE  StandsFor(l, results, snaps)
<1>1. l.week \in 0..TotalWeeks /\ l.status \in Statuses /\ l = [week |-> l.week, status |-> l.status]
  BY DEF Leagues
<1>2. l.status = Promise!Status(l.week)
  BY <1>1, ConstantsAssumption DEF Promise!Status, PlayedThrough, Statuses
<1>3. results = Promise!TableAfter(results, l.week)
  <2>1. \A m \in Matches : results[m] = Promise!TableAfter(results, l.week)[m]
    BY <1>1, ConstantsAssumption DEF Promise!TableAfter, Closed, Weeks
  <2> QED BY <2>1 DEF Results, Promise!TableAfter
<1>4. ASSUME NEW k \in Weeks
      PROVE  TablesOf(snaps)[k] = IF k <= l.week THEN Promise!TableAfter(results, k) ELSE Null
  <2>1. CASE k <= l.week
    <3>1. snaps[k] \in Snapshots /\ snaps[k] # Null
      BY <2>1 DEF Agree
    <3>2. snaps[k].table \in [Matches -> Scores \cup {Null}]
      BY <3>1 DEF Snapshots, Results
    <3>3. \A m \in Matches : snaps[k].table[m] = IF WeekOf[m] <= k THEN results[m] ELSE Null
      BY <2>1, ConstantsAssumption DEF Agree, Closed, Weeks
    <3>4. snaps[k].table = Promise!TableAfter(results, k)
      BY <3>2, <3>3 DEF Promise!TableAfter
    <3> QED BY <2>1, <3>1, <3>4 DEF TablesOf
  <2>2. CASE ~(k <= l.week)
    BY <2>2 DEF Agree, TablesOf
  <2> QED BY <2>1, <2>2
<1>5. TablesOf(snaps) =
        [k \in Weeks |-> IF k <= l.week THEN Promise!TableAfter(results, k) ELSE Null]
  BY <1>4 DEF TablesOf
<1> QED BY <1>1, <1>2, <1>3, <1>5 DEF StandsFor

LEMMA CommittedStands == AInv /\ league # Null => StandsFor(league, score, snap)
BY SeasonStands
DEF AInv, EInv, IInv, TypeOK, RowTypes, PlayedThroughWeek, SnapshotsAgree

\* Where the results agree up to the week, the season becomes what it stands for.
LEMMA SeasonBecomes ==
  ASSUME StandsFor(league, score, snap)', league'.week \in 0..TotalWeeks,
         NEW results \in [Matches -> Scores \cup {Null}],
         \A m \in Matches : WeekOf[m] <= league'.week => results[m] = score'[m]
  PROVE  Promise!BecomesAt(league'.week, results)
<1> DEFINE w == league'.week
<1>1. \A m \in Matches : WeekOf[m] \in Nat
  BY ConstantsAssumption DEF Weeks
<1>2. \A k \in 0..TotalWeeks : k <= w =>
        Promise!TableAfter(score', k) = Promise!TableAfter(results, k)
  BY <1>1, ConstantsAssumption DEF Promise!TableAfter
<1>3. Promise!TableAfter(score', w) = Promise!TableAfter(results, w)
  BY <1>2
<1>4. \A k \in Weeks : k <= w =>
        Promise!TableAfter(score', k) = Promise!TableAfter(results, k)
  BY <1>2 DEF Weeks
<1>5. /\ league' = [week |-> w, status |-> Promise!Status(w)]
      /\ score' = Promise!TableAfter(score', w)
      /\ TablesOf(snap)' =
           [k \in Weeks |-> IF k <= w THEN Promise!TableAfter(score', k) ELSE Null]
  BY DEF StandsFor, TablesOf
<1>6. Promise!Weeks = Weeks
  BY DEF Promise!Weeks, Weeks
<1> HIDE DEF w
<1> QED BY <1>3, <1>4, <1>5, <1>6 DEF Promise!BecomesAt, w

\* A season that was saved is one that was promised.
LEMMA InitPromised == Init => Promise!Init
<1> SUFFICES ASSUME Init PROVE Promise!Init
  OBVIOUS
<1>1. PICK w \in 0..TotalWeeks, results \in [Matches -> Scores] :
        /\ league = SavedLeague(w)
        /\ score = UpTo(results, w)
        /\ snap = [k \in Weeks |->
                     IF k <= w THEN SnapshotOf(UpTo(results, k), 0) ELSE Null]
  BY DEF Init
<1>2. league = [week |-> w, status |-> Promise!Status(w)]
  BY <1>1, ConstantsAssumption DEF SavedLeague, StatusForWeek, Promise!Status
<1>3. \A k : UpTo(results, k) = Promise!TableAfter(results, k)
  BY DEF UpTo, Promise!TableAfter
<1>4. ASSUME NEW k \in Weeks
      PROVE  TablesOf(snap)[k] = IF k <= w THEN Promise!TableAfter(results, k) ELSE Null
  <2>1. CASE k <= w
    <3>1. UpTo(results, k) \in Results
      BY DEF UpTo, Results
    <3>2. SnapshotOf(UpTo(results, k), 0) \in Snapshots
      BY <3>1 DEF SnapshotOf, Snapshots
    <3>3. snap[k] # Null /\ snap[k].table = UpTo(results, k)
      BY <1>1, <2>1, <3>2, NullAssumption DEF SnapshotOf
    <3> QED BY <1>3, <2>1, <3>3 DEF TablesOf
  <2>2. CASE ~(k <= w)
    BY <1>1, <2>2 DEF TablesOf
  <2> QED BY <2>1, <2>2
<1>5. TablesOf(snap) =
        [k \in Weeks |-> IF k <= w THEN Promise!TableAfter(results, k) ELSE Null]
  BY <1>4 DEF TablesOf
<1> QED BY <1>1, <1>2, <1>3, <1>5 DEF Promise!Init, Promise!StandsAt, Promise!Weeks, Weeks

\* Every commit is an operation of the season, or changes nothing of it.
LEMMA CommitPromised ==
  ASSUME AInv, AInv', [Next]_vars, Apart', NEW r \in Requests, Commit(r)
  PROVE  Promise!Next \/ UNCHANGED Promise!season
<1>1. /\ EInv /\ league # Null /\ league' # Null
      /\ league \in Leagues /\ league' \in Leagues
      /\ score \in Results /\ score' \in Results
      /\ snap \in [Weeks -> Snapshots \cup {Null}]
      /\ snap' \in [Weeks -> Snapshots \cup {Null}]
  BY CommitPublishes, NullAssumption DEF AInv
<1>2. StandsFor(league, score, snap) /\ StandsFor(league, score, snap)'
  <2>1. StandsFor(league, score, snap)
    BY <1>1, CommittedStands
  <2>2. (AInv /\ league # Null => StandsFor(league, score, snap))'
    BY CommittedStands, PTL
  <2> QED BY <1>1, <2>1, <2>2
<1>3. league.week \in 0..TotalWeeks /\ league'.week \in 0..TotalWeeks
  BY <1>1 DEF Leagues
<1>4. \A m \in Matches : score[m] # Null => WeekOf[m] <= league.week
  BY <1>1, <1>3, ConstantsAssumption DEF AInv, Closed, Weeks
<1>5. CASE op[r].kind \in {"play", "playAll"}
  <2> DEFINE simulated == [m \in Matches |-> IF score'[m] # Null THEN score'[m]
                                             ELSE Simulated[ratings][m]]
             results == [m \in Matches |-> IF score[m] # Null THEN score[m]
                                           ELSE simulated[m]]
  <2>1. /\ league.week < TotalWeeks
        /\ league'.week = IF op[r].kind = "play" THEN league.week + 1 ELSE TotalWeeks
        /\ \A m \in Matches : WeekOf[m] <= league.week => score'[m] = score[m]
    BY <1>1, <1>5, CommitPublishes
  <2>2. simulated \in [Matches -> Scores]
    BY <1>1, ConstantsAssumption DEF Results, AInv, EInv, IInv, TypeOK, RowTypes
  <2>3. \A m \in Matches : WeekOf[m] <= league'.week => score'[m] # Null
    BY <1>1 DEF AInv, EInv, IInv, PlayedThroughWeek, PlayedThrough
  <2>4. results \in [Matches -> Scores \cup {Null}]
    <3> HIDE DEF simulated
    <3> QED BY <1>1, <2>2 DEF Results
  <2>5. \A m \in Matches : WeekOf[m] <= league'.week => results[m] = score'[m]
    BY <1>4, <2>1, <2>3
  <2>6. Promise!BecomesAt(league'.week, results)
    <3> HIDE DEF results
    <3> QED BY <1>2, <1>3, <2>4, <2>5, SeasonBecomes
  <2>7. Promise!Play(league'.week)
    <3> HIDE DEF simulated
    <3> QED BY <2>2, <2>6 DEF Promise!Play
  <2> QED
    BY <1>1, <1>5, <2>1, <2>7 DEF Promise!Next, Promise!PlayWeek, Promise!PlayAll
<1>6. CASE op[r].kind = "reset"
  <2>1. league' = [week |-> 0, status |-> "NOT_STARTED"] /\ score' = NoResults
    BY <1>1, <1>6, CommitPublishes
  <2>2. league'.week = 0
    BY <2>1
  <2>3. \A m \in Matches : WeekOf[m] <= league'.week => score[m] = score'[m]
    BY <2>2, ConstantsAssumption DEF Weeks
  <2>4. Promise!BecomesAt(0, score)
    BY <1>1, <1>2, <1>3, <2>2, <2>3, SeasonBecomes DEF Results
  <2> QED BY <1>1, <2>4 DEF Promise!Next, Promise!Reset
<1>7. CASE op[r].kind = "recalculate"
  <2>1. league' = league /\ score' = score
    BY <1>1, <1>7, CommitPublishes
  <2>2. TablesOf(snap)' = TablesOf(snap)
    BY <1>2, <2>1 DEF StandsFor, TablesOf
  <2> QED BY <2>1, <2>2 DEF Promise!season
<1>8. CASE op[r].kind = "edit"
  <2> DEFINE e == op[r].match
             results == [score EXCEPT ![e] = op[r].new]
  <2>1. /\ tx[r].match # Null /\ e \in Matches /\ op[r].new \in Scores
        /\ league' = league
        /\ \A m \in Matches : score'[m] = IF m = e THEN op[r].new ELSE score[m]
    BY <1>1, <1>8, CommitPublishes
  <2>2. score[e] # Null
    BY <1>1, <1>8, <2>1 DEF Commit, AInv, EditFounded
  <2>3. results \in [Matches -> Scores \cup {Null}]
        /\ \A m \in Matches : results[m] = score'[m]
    BY <1>1, <2>1 DEF Results
  <2>4. Promise!BecomesAt(league.week, results)
    <3> HIDE DEF results
    <3> QED BY <1>2, <1>3, <2>1, <2>3, SeasonBecomes
  <2> QED BY <1>1, <2>1, <2>2, <2>4 DEF Promise!Next, Promise!Edit
<1> QED BY <1>1, <1>5, <1>6, <1>7, <1>8, CommitPublishes

\* Every step of the server is a step of the season or changes nothing of it.
LEMMA NextPromised ==
  ASSUME AInv, AInv', [Next]_vars, Apart' PROVE [Promise!Next]_Promise!season
<1>1. CASE UNCHANGED <<league, score, snap, audit>>
  <2>1. TablesOf(snap)' = TablesOf(snap)
    BY <1>1 DEF TablesOf
  <2> QED BY <1>1, <2>1 DEF Promise!season
<1>2. CASE \E r \in Requests : Commit(r)
  BY <1>2, CommitPromised
<1>3. CASE /\ league # Null /\ league' = Null
           /\ score' = NoResults /\ snap' = NoSnapshots /\ audit' = <<>>
  <2>1. TablesOf(snap)' = [k \in Weeks |-> Null]
    BY <1>3 DEF TablesOf, NoSnapshots
  <2>2. Promise!Delete
    BY <1>3, <2>1 DEF Promise!Delete, NoResults, Promise!Weeks, Weeks
  <2> QED BY <2>2 DEF Promise!Next
<1> QED BY <1>1, <1>2, <1>3, RowsChange DEF AInv, EInv

\* The concurrent requests have on the committed league the effect of the
\* season's operations one at a time, as long as edits and resets stay apart
\* (docs/DESIGN.md, section 8; WithinTx and GetByIDForUpdate).
THEOREM ServerKeepsPromise == ApartSpec => ImplementsSeason
<1>1. Init => Promise!Init
  BY InitPromised
<1>2. AInv /\ AInv' /\ [Next /\ Apart']_vars => [Promise!Next]_Promise!season
  <2>1. ASSUME AInv, UNCHANGED vars PROVE [Promise!Next]_Promise!season
    BY <2>1 DEF vars, Promise!season, TablesOf
  <2> QED BY <2>1, NextPromised
<1> QED BY <1>1, <1>2, ApartInvariance, PTL DEF ApartSpec, ImplementsSeason, Promise!Spec

=============================================================================
