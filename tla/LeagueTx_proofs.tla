-------------------------- MODULE LeagueTx_proofs --------------------------
(***************************************************************************)
(* For every set of requests, number of weeks, fixture list and result     *)
(* set: the committed league is always between two weeks and its standings *)
(* history agrees with its results.                                        *)
(***************************************************************************)
EXTENDS LeagueTx, TLAPS

\* Names for rows, expanded wherever they occur.
USE DEF NoResults, NoSnapshots, SnapshotOf, AuditEntry

(***************************************************************************)
(* The inductive invariant.  Only the holder of the row lock has writes,   *)
(* and its own view of the league, its writes over the committed rows, is  *)
(* a consistent season whenever it may commit.                             *)
(***************************************************************************)
InTx == {"work", "advance", "commit"}

\* Who holds the lock, and what those who do not hold it may have.
Locking ==
  \A r \in Requests :
    /\ pc[r] \in InTx <=> lock = r
    /\ pc[r] \notin InTx => ws[r] = NoWrites
    /\ pc[r] \in {"new", "done"} \/ op[r] \in Ops
    /\ pc[r] = "lookup" => op[r].kind = "edit"

\* The view of r is a season between two weeks.
Consistent(r) ==
  /\ PlayedThrough(SeenLeague(r), SeenScore(r))
  /\ Agree(SeenLeague(r), SeenScore(r), SeenSnap(r))

\* How far the transaction of the lock holder r has come.
Holding(r) ==
  /\ league # Null
  /\ tx[r].league = league
  /\ op[r].kind \notin {"delete", "rate"}
  /\ pc[r] \in {"work", "commit"} => Consistent(r)
  /\ pc[r] = "work" =>
       /\ tx[r].week = SeenLeague(r).week + 1
       /\ league.status # "FINISHED" => tx[r].week <= TotalWeeks
       /\ op[r].kind # "playAll" => ws[r] = NoWrites
  /\ pc[r] = "advance" =>
       /\ tx[r].week = SeenLeague(r).week + 1
       /\ tx[r].week <= TotalWeeks
       /\ \A m \in Matches : WeekOf[m] <= tx[r].week => SeenScore(r)[m] # Null
       /\ Agree(SeenLeague(r), SeenScore(r), SeenSnap(r))

IInv ==
  /\ TypeOK
  /\ Locking
  /\ \A h \in Requests : lock = h => Holding(h)
  /\ PlayedThroughWeek
  /\ SnapshotsAgree

(***************************************************************************)
(* Write sets over rows.                                                   *)
(***************************************************************************)

\* Writes to some of the rows, over all the rows, are all the rows: the
\* written ones new, the others as they were.
LEMMA OverRows ==
  ASSUME NEW S, NEW T, NEW D \in SUBSET S, NEW f \in [D -> T], NEW g \in [S -> T]
  PROVE  /\ Over(f, g) \in [S -> T]
         /\ \A x \in S : Over(f, g)[x] = IF x \in D THEN f[x] ELSE g[x]
  BY DEF Over

\* Two sets of writes to rows of the same table are a set of writes.
LEMMA OverWrites ==
  ASSUME NEW S, NEW T, NEW D \in SUBSET S, NEW E \in SUBSET S,
         NEW f \in [D -> T], NEW g \in [E -> T]
  PROVE  /\ Over(f, g) \in [D \cup E -> T]
         /\ D \cup E \in SUBSET S
         /\ \A h \in [S -> T], x \in S :
              Over(Over(f, g), h)[x] = IF x \in D THEN f[x] ELSE Over(g, h)[x]
  BY DEF Over

\* A transaction that has written nothing sees the committed rows.
LEMMA OverNothing ==
  ASSUME NEW S, NEW T, NEW g \in [S -> T]
  PROVE  Over(NoRows, g) = g
  BY DEF Over, NoRows

\* The empty write set is a write set.
LEMMA NoWritesType == IsWriteSet(NoWrites)
<1>1. NoRows \in [{} -> Scores \cup {Null}] /\ NoRows \in [{} -> Snapshots \cup {Null}]
  BY DEF NoRows
<1>2. /\ DOMAIN NoWrites = {"league", "score", "snap", "audit"}
      /\ NoWrites.league = Null /\ NoWrites.score = NoRows
      /\ NoWrites.snap = NoRows /\ NoWrites.audit = <<>>
  BY DEF NoWrites
<1>3. /\ \E D \in SUBSET Matches : NoWrites.score \in [D -> Scores \cup {Null}]
      /\ \E D \in SUBSET Weeks : NoWrites.snap \in [D -> Snapshots \cup {Null}]
  <2>1. {} \in SUBSET Matches /\ {} \in SUBSET Weeks
    OBVIOUS
  <2> QED BY <1>1, <1>2, <2>1, Zenon
<1>4. NoWrites.audit \in Seq(Audits)
  <2>1. <<>> \in Seq(Audits)
    OBVIOUS
  <2> QED BY <1>2, <2>1
<1> QED BY <1>2, <1>3, <1>4 DEF IsWriteSet

\* What a transaction sees has the type of the committed rows.
LEMMA SeenType ==
  ASSUME TypeOK, NEW r \in Requests
  PROVE  /\ SeenScore(r) \in Results
         /\ SeenSnap(r) \in [Weeks -> Snapshots \cup {Null}]
         /\ league # Null => SeenLeague(r) \in Leagues
<1>1. IsWriteSet(ws[r])
  BY DEF TypeOK, RequestTypes
<1>2. SeenScore(r) \in Results
  <2>1. PICK D \in SUBSET Matches : ws[r].score \in [D -> Scores \cup {Null}]
    BY <1>1 DEF IsWriteSet
  <2>2. score \in [Matches -> Scores \cup {Null}]
    BY DEF TypeOK, RowTypes, Results
  <2>3. Over(ws[r].score, score) \in [Matches -> Scores \cup {Null}]
    BY <2>1, <2>2 DEF Over
  <2> QED BY <2>3 DEF SeenScore, Results
<1>3. SeenSnap(r) \in [Weeks -> Snapshots \cup {Null}]
  <2>1. PICK D \in SUBSET Weeks : ws[r].snap \in [D -> Snapshots \cup {Null}]
    BY <1>1 DEF IsWriteSet
  <2>2. snap \in [Weeks -> Snapshots \cup {Null}]
    BY DEF TypeOK, RowTypes
  <2>3. Over(ws[r].snap, snap) \in [Weeks -> Snapshots \cup {Null}]
    BY <2>1, <2>2 DEF Over
  <2> QED BY <2>3 DEF SeenSnap
<1>4. league # Null => SeenLeague(r) \in Leagues
  BY <1>1 DEF IsWriteSet, SeenLeague, TypeOK, RowTypes
<1> QED BY <1>2, <1>3, <1>4

\* Without writes a transaction sees the committed league.
LEMMA SeenNothingWritten ==
  ASSUME TypeOK, NEW r \in Requests, ws[r] = NoWrites
  PROVE  SeenScore(r) = score /\ SeenSnap(r) = snap /\ SeenLeague(r) = league
<1>1. /\ ws[r].score = NoRows /\ ws[r].snap = NoRows /\ ws[r].league = Null
  BY DEF NoWrites
<1>2. score \in [Matches -> Scores \cup {Null}] /\ snap \in [Weeks -> Snapshots \cup {Null}]
  BY DEF TypeOK, RowTypes, Results
<1> QED BY <1>1, <1>2, OverNothing DEF SeenScore, SeenSnap, SeenLeague


(***************************************************************************)
(* The holder, and the end of a transaction.                               *)
(***************************************************************************)

\* A step that leaves the rows and h's own state alone leaves h where it is.
LEMMA HoldingKept ==
  ASSUME NEW h \in Requests, Holding(h), UNCHANGED <<league, score, snap>>,
         pc'[h] = pc[h], op'[h] = op[h], tx'[h] = tx[h], ws'[h] = ws[h]
  PROVE  Holding(h)'
<1>1. /\ SeenScore(h)' = SeenScore(h)
      /\ SeenSnap(h)' = SeenSnap(h)
      /\ SeenLeague(h)' = SeenLeague(h)
  BY DEF SeenScore, SeenSnap, SeenLeague
<1>2. Consistent(h)' <=> Consistent(h)
  BY <1>1 DEF Consistent, PlayedThrough, Agree
<1>3. Agree(SeenLeague(h), SeenScore(h), SeenSnap(h))'
        <=> Agree(SeenLeague(h), SeenScore(h), SeenSnap(h))
  BY <1>1 DEF Agree
<1> QED BY <1>1, <1>2, <1>3 DEF Holding

\* The rows are as they were, so they are a season as they were.
LEMMA RowsKept ==
  ASSUME PlayedThroughWeek, SnapshotsAgree, UNCHANGED <<league, score, snap>>
  PROVE  PlayedThroughWeek' /\ SnapshotsAgree'
  BY DEF PlayedThroughWeek, SnapshotsAgree, PlayedThrough, Agree

\* When a transaction ends, its request keeps nothing, and whoever else held
\* the lock still does.
LEMMA Ending ==
  ASSUME TypeOK, Locking, NEW r \in Requests, NEW outcome \in Replies,
         End(r, outcome)
  PROVE  /\ RequestTypes'
         /\ Locking'
         /\ \A h \in Requests :
              lock' = h => /\ lock = h
                           /\ pc'[h] = pc[h] /\ op'[h] = op[h]
                           /\ tx'[h] = tx[h] /\ ws'[h] = ws[h]
<1>1. IsWriteSet(NoWrites)
  BY NoWritesType
<1>2. NoLocals \in Locals
  BY ConstantsAssumption DEF NoLocals, Locals
<1>3. /\ pc' \in [Requests -> PCs] /\ reply' \in [Requests -> Replies]
      /\ lock' \in Requests \cup {Null} /\ clock' \in Nat
      /\ op' \in [Requests -> Ops \cup {Null}]
  BY DEF End, TypeOK, RequestTypes, PCs
<1>4. tx' \in [Requests -> Locals]
  BY <1>2 DEF End, TypeOK, RequestTypes
<1>5. DOMAIN ws' = Requests /\ \A q \in Requests : IsWriteSet(ws'[q])
  BY <1>1 DEF End, TypeOK, RequestTypes
<1>6. Locking'
  BY NullAssumption DEF End, TypeOK, RequestTypes, Locking, InTx
<1>7. \A h \in Requests :
        lock' = h => /\ lock = h
                     /\ pc'[h] = pc[h] /\ op'[h] = op[h]
                     /\ tx'[h] = tx[h] /\ ws'[h] = ws[h]
  BY NullAssumption DEF End, TypeOK, RequestTypes
<1> QED BY <1>3, <1>4, <1>5, <1>6, <1>7 DEF RequestTypes

\* A transaction that ends without committing keeps the invariant.
LEMMA EndingKeeps ==
  ASSUME IInv, NEW r \in Requests, NEW outcome \in Replies,
         End(r, outcome), UNCHANGED <<rows, ratings>>
  PROVE  IInv'
<1>1. UNCHANGED <<league, score, snap, audit, ratings>>
  BY DEF rows
<1>2. RowTypes'
  BY <1>1 DEF IInv, TypeOK, RowTypes
<1>3. /\ RequestTypes'
      /\ Locking'
      /\ \A h \in Requests :
           lock' = h => /\ lock = h
                        /\ pc'[h] = pc[h] /\ op'[h] = op[h]
                        /\ tx'[h] = tx[h] /\ ws'[h] = ws[h]
  BY Ending DEF IInv
<1>4. ASSUME NEW h \in Requests, lock' = h PROVE Holding(h)'
  <2>1. Holding(h)
    BY <1>3, <1>4 DEF IInv
  <2> QED BY <1>1, <1>3, <1>4, <2>1, HoldingKept
<1>5. PlayedThroughWeek' /\ SnapshotsAgree'
  BY <1>1, RowsKept DEF IInv
<1> QED BY <1>2, <1>3, <1>4, <1>5 DEF IInv, TypeOK

(***************************************************************************)
(* The invariant is inductive: one lemma per action.                       *)
(***************************************************************************)

\* Saved seasons are consistent, and nobody has started.
LEMMA InitIInv == Init => IInv
<1> SUFFICES ASSUME Init PROVE IInv
  OBVIOUS
<1>1. PICK w \in 0..TotalWeeks, results \in [Matches -> Scores] :
        /\ league = SavedLeague(w)
        /\ score = UpTo(results, w)
        /\ snap = [k \in Weeks |->
                     IF k <= w THEN [table |-> UpTo(results, k), at |-> 0] ELSE Null]
  BY DEF Init
<1>2. league \in Leagues /\ league.week = w
      /\ league.status = IF w = 0 THEN "NOT_STARTED" ELSE StatusForWeek(w)
  BY <1>1 DEF SavedLeague, Leagues, Statuses, StatusForWeek
<1>3. \A k \in Weeks : UpTo(results, k) \in Results
  BY ConstantsAssumption DEF UpTo, Results, Weeks
<1>4. score \in Results
  BY <1>1, ConstantsAssumption DEF UpTo, Results, Weeks
<1>5. snap \in [Weeks -> Snapshots \cup {Null}]
  BY <1>1, <1>3 DEF Snapshots
<1>6. RowTypes
  <2>1. audit \in Seq(Audits) /\ ratings \in Ratings
    BY DEF Init
  <2> QED BY <1>2, <1>4, <1>5, <2>1 DEF RowTypes
<1>7. RequestTypes
  <2>1. IsWriteSet(NoWrites)
    BY NoWritesType
  <2>2. NoLocals \in Locals
    BY ConstantsAssumption DEF NoLocals, Locals
  <2> QED BY <2>1, <2>2 DEF Init, RequestTypes, PCs, Replies
<1>8. Locking /\ (\A h \in Requests : lock = h => Holding(h))
  BY NullAssumption DEF Init, Locking, InTx
<1>9. PlayedThroughWeek
  BY <1>1, <1>2, NullAssumption, ConstantsAssumption
  DEF PlayedThroughWeek, PlayedThrough, UpTo, StatusForWeek, Weeks
<1>10. SnapshotsAgree
  <2>1. \A k \in Weeks : k <= w => /\ snap[k] # Null
                                   /\ snap[k].table = UpTo(results, k)
    BY <1>1, <1>3, NullAssumption DEF Snapshots
  <2>2. \A k \in Weeks : ~(k <= w) => snap[k] = Null
    BY <1>1
  <2>3. \A k \in Weeks, m \in Matches :
          k <= w /\ WeekOf[m] <= k => snap[k].table[m] = score[m]
    BY <1>1, <2>1, ConstantsAssumption DEF UpTo, Weeks
  <2> QED BY <1>2, <2>1, <2>2, <2>3 DEF SnapshotsAgree, Agree
<1> QED BY <1>6, <1>7, <1>8, <1>9, <1>10 DEF IInv, TypeOK

\* A request that comes in holds nothing yet.
LEMMA BeginIInv ==
  ASSUME IInv, NEW r \in Requests, Begin(r) PROVE IInv'
<1>1. UNCHANGED <<league, score, snap, audit, ratings, lock, ws, reply>>
  BY DEF Begin, rows
<1>2. PICK o \in Ops :
        /\ op' = [op EXCEPT ![r] = o]
        /\ pc' = [pc EXCEPT ![r] = IF o.kind = "edit" THEN "lookup" ELSE "lock"]
  BY DEF Begin
<1>3. pc[r] = "new" /\ clock' = clock + 1
      /\ tx' = [tx EXCEPT ![r].start = clock + 1]
  BY DEF Begin
<1>4. RowTypes'
  BY <1>1 DEF IInv, TypeOK, RowTypes
<1>5. RequestTypes'
  <2>1. tx' \in [Requests -> Locals]
    BY <1>3 DEF IInv, TypeOK, RequestTypes, Locals
  <2>2. pc' \in [Requests -> PCs] /\ op' \in [Requests -> Ops \cup {Null}]
    BY <1>2 DEF IInv, TypeOK, RequestTypes, PCs
  <2> QED BY <1>1, <1>3, <2>1, <2>2 DEF IInv, TypeOK, RequestTypes
<1>6. Locking'
  BY <1>1, <1>2, <1>3 DEF IInv, TypeOK, RequestTypes, Locking, InTx
<1>7. ASSUME NEW h \in Requests, lock' = h PROVE Holding(h)'
  <2>1. Holding(h) /\ h # r
    BY <1>1, <1>3, <1>7 DEF IInv, Locking, InTx
  <2>2. pc'[h] = pc[h] /\ op'[h] = op[h] /\ tx'[h] = tx[h] /\ ws'[h] = ws[h]
    BY <1>1, <1>2, <1>3, <2>1 DEF IInv, TypeOK, RequestTypes
  <2> QED BY <1>1, <2>1, <2>2, HoldingKept
<1>8. PlayedThroughWeek' /\ SnapshotsAgree'
  BY <1>1, RowsKept DEF IInv
<1> QED BY <1>4, <1>5, <1>6, <1>7, <1>8 DEF IInv, TypeOK

\* Looking a match up writes nothing: the request only remembers the result.
LEMMA ReadMatchIInv ==
  ASSUME IInv, NEW r \in Requests, ReadMatch(r) PROVE IInv'
<1>1. op[r] \in Ops /\ UNCHANGED <<rows, ratings>> /\ pc[r] = "lookup"
  BY DEF ReadMatch, IInv, Locking
<1>2. CASE End(r, "notfound")
  BY <1>1, <1>2, EndingKeeps DEF Replies
<1>3. CASE /\ pc' = [pc EXCEPT ![r] = "lock"]
           /\ tx' = [tx EXCEPT ![r].match = score[op[r].match]]
           /\ UNCHANGED <<lock, clock, op, ws, reply>>
  <2>1. UNCHANGED <<league, score, snap, audit, ratings>>
    BY <1>1 DEF rows
  <2>2. score[op[r].match] \in Scores \cup {Null}
    BY <1>1 DEF IInv, TypeOK, RowTypes, Results, Ops, Locking
  <2>3. RequestTypes'
    BY <1>3, <2>2 DEF IInv, TypeOK, RequestTypes, Locals, PCs
  <2>4. Locking'
    BY <1>1, <1>3 DEF IInv, TypeOK, RequestTypes, Locking, InTx
  <2>5. ASSUME NEW h \in Requests, lock' = h PROVE Holding(h)'
    <3>1. Holding(h) /\ h # r
      BY <1>1, <1>3, <2>5 DEF IInv, Locking, InTx
    <3>2. pc'[h] = pc[h] /\ op'[h] = op[h] /\ tx'[h] = tx[h] /\ ws'[h] = ws[h]
      BY <1>3, <3>1 DEF IInv, TypeOK, RequestTypes
    <3> QED BY <2>1, <3>1, <3>2, HoldingKept
  <2>6. PlayedThroughWeek' /\ SnapshotsAgree'
    BY <2>1, RowsKept DEF IInv
  <2> QED BY <2>1, <2>3, <2>4, <2>5, <2>6 DEF IInv, TypeOK, RowTypes
<1> QED BY <1>2, <1>3 DEF ReadMatch

\* The lock is free: the new holder sees the committed season.
LEMMA AcquireIInv ==
  ASSUME IInv, NEW r \in Requests, Acquire(r) PROVE IInv'
<1>1. /\ op[r] \in Ops /\ UNCHANGED <<rows, ratings>>
      /\ pc[r] = "lock" /\ lock = Null
      /\ op[r].kind \notin {"delete", "rate"}
  BY DEF Acquire, IInv, Locking
<1>2. CASE End(r, "notfound")
  BY <1>1, <1>2, EndingKeeps DEF Replies
<1>3. CASE /\ league # Null
           /\ lock' = r
           /\ tx' = [tx EXCEPT ![r].league = league, ![r].week = league.week + 1]
           /\ pc' = [pc EXCEPT ![r] = "work"]
           /\ UNCHANGED <<clock, op, ws, reply>>
  <2>1. UNCHANGED <<league, score, snap, audit, ratings>>
    BY <1>1 DEF rows
  <2>2. league \in Leagues
    BY <1>3 DEF IInv, TypeOK, RowTypes
  <2>3. league.week \in 0..TotalWeeks /\ league.week + 1 \in 0..TotalWeeks + 1
    BY <2>2, ConstantsAssumption DEF Leagues
  <2>4. RequestTypes'
    BY <1>3, <2>2, <2>3 DEF IInv, TypeOK, RequestTypes, Locals, PCs
  <2>5. Locking'
    BY <1>1, <1>3, NullAssumption DEF IInv, TypeOK, RequestTypes, Locking, InTx
  <2>6. ws[r] = NoWrites
    BY <1>1 DEF IInv, Locking, InTx
  <2>7. PlayedThrough(league, score) /\ Agree(league, score, snap)
    BY <1>3 DEF IInv, PlayedThroughWeek, SnapshotsAgree
  <2>8. /\ SeenScore(r)' = score /\ SeenSnap(r)' = snap /\ SeenLeague(r)' = league
    <3>1. SeenScore(r) = score /\ SeenSnap(r) = snap /\ SeenLeague(r) = league
      BY <2>6, SeenNothingWritten DEF IInv
    <3> QED BY <1>3, <2>1, <3>1 DEF SeenScore, SeenSnap, SeenLeague
  <2>9. Consistent(r)'
    BY <2>7, <2>8 DEF Consistent, PlayedThrough, Agree
  <2>10. Holding(r)'
    <3>1. pc'[r] = "work" /\ op' = op /\ ws'[r] = NoWrites
          /\ tx'[r].league = league /\ tx'[r].week = league.week + 1
      BY <1>3, <2>6 DEF IInv, TypeOK, RequestTypes, Locals
    <3>2. league.status # "FINISHED" => tx'[r].week <= TotalWeeks
      BY <2>3, <2>7, <3>1, ConstantsAssumption DEF PlayedThrough
    <3> QED BY <1>1, <1>3, <2>1, <2>8, <2>9, <3>1, <3>2 DEF Holding
  <2>11. \A h \in Requests : lock' = h => Holding(h)'
    BY <1>3, <2>10
  <2>12. PlayedThroughWeek' /\ SnapshotsAgree'
    BY <2>1, RowsKept DEF IInv
  <2> QED BY <2>1, <2>4, <2>5, <2>11, <2>12 DEF IInv, TypeOK, RowTypes
<1> QED BY <1>2, <1>3 DEF Acquire

\* A refused request ends without a write.
LEMMA ConflictIInv ==
  ASSUME IInv, NEW r \in Requests, Conflict(r) PROVE IInv'
<1>1. op[r] \in Ops
  BY DEF Conflict, IInv, Locking
<1> QED BY <1>1, EndingKeeps DEF Conflict, Replies

\* A rollback publishes nothing.
LEMMA AbortIInv ==
  ASSUME IInv, NEW r \in Requests, Abort(r) PROVE IInv'
<1>1. op[r] \in Ops
  BY DEF Abort, IInv, Locking
<1> QED BY <1>1, EndingKeeps DEF Abort, Replies

\* A step of the lock holder that only adds to its writes: what remains to be
\* shown is that its own state is where it should be.
LEMMA HolderStep ==
  ASSUME IInv, NEW r \in Requests, pc[r] \in InTx,
         UNCHANGED <<rows, ratings, lock, clock, op, reply>>,
         NEW next \in InTx, pc' = [pc EXCEPT ![r] = next],
         NEW locals \in Locals, tx' = [tx EXCEPT ![r] = locals],
         NEW writes, ws' = [ws EXCEPT ![r] = writes], IsWriteSet(writes),
         Holding(r)'
  PROVE  IInv'
<1>1. UNCHANGED <<league, score, snap, audit, ratings>>
  BY DEF rows
<1>2. lock = r /\ lock' = r
  BY DEF IInv, Locking
<1>3. RowTypes'
  BY <1>1 DEF IInv, TypeOK, RowTypes
<1>4. RequestTypes'
  BY DEF IInv, TypeOK, RequestTypes, PCs, InTx
<1>5. Locking'
  BY DEF IInv, TypeOK, RequestTypes, Locking, InTx
<1>6. PlayedThroughWeek' /\ SnapshotsAgree'
  BY <1>1, RowsKept DEF IInv
<1> QED BY <1>2, <1>3, <1>4, <1>5, <1>6 DEF IInv, TypeOK

\* The week's matches get results under those the transaction already wrote.
LEMMA SimulateWeekIInv ==
  ASSUME IInv, NEW r \in Requests, SimulateWeek(r) PROVE IInv'
<1> DEFINE w == tx[r].week
           new == [m \in InWeek(w) |-> Simulated[ratings][m]]
           writes == [ws[r] EXCEPT !.score = Over(new, @)]
<1>1. /\ pc[r] = "work" /\ lock = r /\ Holding(r)
      /\ tx[r].league.status # "FINISHED"
      /\ op[r].kind \in {"play", "playAll"}
  BY DEF SimulateWeek, IInv, Locking, InTx
<1>2. /\ league # Null /\ tx[r].league = league
      /\ w = SeenLeague(r).week + 1 /\ w <= TotalWeeks
      /\ PlayedThrough(SeenLeague(r), SeenScore(r))
      /\ Agree(SeenLeague(r), SeenScore(r), SeenSnap(r))
  BY <1>1 DEF Holding, Consistent
<1>3. /\ SeenScore(r) \in Results /\ SeenLeague(r) \in Leagues
      /\ SeenLeague(r).week \in Nat /\ w \in Nat
  BY <1>2, SeenType, ConstantsAssumption DEF IInv, Leagues
<1>4. new \in [InWeek(w) -> Scores \cup {Null}] /\ \A m \in InWeek(w) : new[m] \in Scores
  BY ConstantsAssumption DEF InWeek, IInv, TypeOK, RowTypes
<1>5. IsWriteSet(ws[r])
  BY DEF IInv, TypeOK, RequestTypes
<1>6. PICK D \in SUBSET Matches : ws[r].score \in [D -> Scores \cup {Null}]
  BY <1>5 DEF IsWriteSet
<1>7. score \in [Matches -> Scores \cup {Null}]
  BY DEF IInv, TypeOK, RowTypes, Results
<1>8. InWeek(w) \in SUBSET Matches
  BY DEF InWeek
<1>9. /\ Over(new, ws[r].score) \in [InWeek(w) \cup D -> Scores \cup {Null}]
      /\ \A m \in Matches : Over(Over(new, ws[r].score), score)[m]
                              = IF m \in InWeek(w) THEN new[m] ELSE SeenScore(r)[m]
  <2> HIDE DEF new
  <2> QED BY <1>4, <1>6, <1>7, <1>8 DEF Over, SeenScore
<1>10. IsWriteSet(writes)
  <2>1. InWeek(w) \cup D \in SUBSET Matches
    BY <1>8
  <2> HIDE DEF new
  <2>2. /\ DOMAIN writes = DOMAIN ws[r]
        /\ writes.league = ws[r].league /\ writes.snap = ws[r].snap
        /\ writes.audit = ws[r].audit
        /\ writes.score = Over(new, ws[r].score)
    BY <1>5 DEF IsWriteSet
  <2>3. \E E \in SUBSET Matches : writes.score \in [E -> Scores \cup {Null}]
    BY <1>9, <2>1, <2>2
  <2> QED BY <1>5, <2>2, <2>3 DEF IsWriteSet
<1>11. /\ UNCHANGED <<rows, ratings, lock, clock, op, tx, reply>>
       /\ pc' = [pc EXCEPT ![r] = "advance"] /\ ws' = [ws EXCEPT ![r] = writes]
  BY DEF SimulateWeek, IInv, TypeOK, RequestTypes
<1>12. /\ ws'[r].score = Over(new, ws[r].score)
       /\ ws'[r].snap = ws[r].snap /\ ws'[r].league = ws[r].league
       /\ pc'[r] = "advance"
  BY <1>5, <1>11 DEF IInv, TypeOK, RequestTypes, IsWriteSet
<1>13. /\ SeenLeague(r)' = SeenLeague(r)
       /\ SeenSnap(r)' = SeenSnap(r)
       /\ SeenScore(r)' = Over(Over(new, ws[r].score), score)
  BY <1>11, <1>12 DEF SeenLeague, SeenSnap, SeenScore, rows
<1>14. \A m \in Matches : WeekOf[m] <= w => SeenScore(r)'[m] # Null
  <2>1. ASSUME NEW m \in Matches, WeekOf[m] <= w PROVE SeenScore(r)'[m] # Null
    <3>1. CASE m \in InWeek(w)
      BY <1>4, <1>9, <1>13, <3>1, NullAssumption
    <3>2. CASE m \notin InWeek(w)
      <4>1. WeekOf[m] <= SeenLeague(r).week
        BY <1>2, <1>3, <2>1, <3>2, ConstantsAssumption DEF InWeek, Weeks
      <4> QED BY <1>2, <1>9, <1>13, <3>2, <4>1 DEF PlayedThrough
    <3> QED BY <3>1, <3>2
  <2> QED BY <2>1
<1>15. Agree(SeenLeague(r), SeenScore(r), SeenSnap(r))'
  <2>1. ASSUME NEW m \in Matches, NEW k \in Weeks, k <= SeenLeague(r).week, WeekOf[m] <= k
        PROVE  SeenScore(r)'[m] = SeenScore(r)[m]
    <3>1. m \notin InWeek(w)
      BY <1>2, <1>3, <2>1, ConstantsAssumption DEF InWeek, Weeks
    <3> QED BY <1>9, <1>13, <3>1
  <2> QED BY <1>2, <1>13, <2>1 DEF Agree
<1>16. Holding(r)'
  <2>1. UNCHANGED <<league, tx, op>>
    BY <1>11 DEF rows
  <2> QED BY <1>1, <1>2, <1>12, <1>13, <1>14, <1>15, <2>1 DEF Holding
<1>17. tx[r] \in Locals /\ tx' = [tx EXCEPT ![r] = tx[r]]
  BY <1>11 DEF IInv, TypeOK, RequestTypes
<1> HIDE DEF writes
<1> QED BY <1>1, <1>10, <1>11, <1>16, <1>17, HolderStep DEF InTx

\* The week's snapshot and the league's new week join the writes.
LEMMA AdvanceAndSnapshotIInv ==
  ASSUME IInv, NEW r \in Requests, AdvanceAndSnapshot(r) PROVE IInv'
<1> DEFINE w == tx[r].week
           row == [table |-> SeenScore(r), at |-> tx[r].start]
           new == [k \in {w} |-> row]
           moved == [week |-> w, status |-> StatusForWeek(w)]
           writes == [ws[r] EXCEPT !.snap = Over(new, @), !.league = moved]
<1>1. pc[r] = "advance" /\ lock = r /\ Holding(r)
  BY DEF AdvanceAndSnapshot, IInv, Locking, InTx
<1>2. /\ league # Null /\ tx[r].league = league
      /\ w = SeenLeague(r).week + 1 /\ w <= TotalWeeks
      /\ \A m \in Matches : WeekOf[m] <= w => SeenScore(r)[m] # Null
      /\ Agree(SeenLeague(r), SeenScore(r), SeenSnap(r))
      /\ op[r].kind \notin {"delete", "rate"}
  BY <1>1 DEF Holding
<1>3. /\ SeenScore(r) \in Results /\ SeenLeague(r) \in Leagues
      /\ SeenLeague(r).week \in Nat /\ w \in Weeks /\ tx[r].start \in Nat
  BY <1>2, SeenType, ConstantsAssumption DEF IInv, Leagues, Weeks, TypeOK, RequestTypes, Locals
<1>4. row \in Snapshots /\ row # Null /\ row.table = SeenScore(r)
  BY <1>3, NullAssumption DEF Snapshots
<1>5. /\ moved \in Leagues /\ moved # Null
      /\ moved.week = w /\ moved.status = StatusForWeek(w)
  BY <1>3, NullAssumption, ConstantsAssumption DEF Leagues, StatusForWeek, Statuses, Weeks
<1>6. IsWriteSet(ws[r])
  BY DEF IInv, TypeOK, RequestTypes
<1>7. PICK D \in SUBSET Weeks : ws[r].snap \in [D -> Snapshots \cup {Null}]
  BY <1>6 DEF IsWriteSet
<1>8. snap \in [Weeks -> Snapshots \cup {Null}]
  BY DEF IInv, TypeOK, RowTypes
<1>9. /\ Over(new, ws[r].snap) \in [{w} \cup D -> Snapshots \cup {Null}]
      /\ \A k \in Weeks : Over(Over(new, ws[r].snap), snap)[k]
                            = IF k = w THEN row ELSE SeenSnap(r)[k]
  <2> HIDE DEF row
  <2> QED BY <1>3, <1>4, <1>7, <1>8 DEF Over, SeenSnap
<1>10. IsWriteSet(writes)
  <2>1. {w} \cup D \in SUBSET Weeks
    BY <1>3
  <2> HIDE DEF new, moved
  <2>2. /\ DOMAIN writes = DOMAIN ws[r]
        /\ writes.league = moved /\ writes.score = ws[r].score
        /\ writes.audit = ws[r].audit
        /\ writes.snap = Over(new, ws[r].snap)
    BY <1>6 DEF IsWriteSet
  <2>3. \E E \in SUBSET Weeks : writes.snap \in [E -> Snapshots \cup {Null}]
    BY <1>9, <2>1, <2>2
  <2> QED BY <1>5, <1>6, <2>2, <2>3 DEF IsWriteSet
<1>11. UNCHANGED <<rows, ratings, lock, clock, op, reply>> /\ ws' = [ws EXCEPT ![r] = writes]
  BY DEF AdvanceAndSnapshot, IInv, TypeOK, RequestTypes
<1>12. /\ ws'[r].snap = Over(new, ws[r].snap)
       /\ ws'[r].score = ws[r].score /\ ws'[r].league = moved
  <2> HIDE DEF new, moved
  <2> QED BY <1>6, <1>11 DEF IInv, TypeOK, RequestTypes, IsWriteSet
<1>13. /\ SeenLeague(r)' = moved
       /\ SeenScore(r)' = SeenScore(r)
       /\ SeenSnap(r)' = Over(Over(new, ws[r].snap), snap)
  <2> HIDE DEF new, moved
  <2> QED BY <1>5, <1>11, <1>12 DEF SeenLeague, SeenSnap, SeenScore, rows
<1>14. PlayedThrough(SeenLeague(r), SeenScore(r))'
  <2> HIDE DEF moved
  <2>1. \A m \in Matches : WeekOf[m] <= moved.week => SeenScore(r)[m] # Null
    BY <1>2, <1>5
  <2>2. /\ moved.status = "NOT_STARTED" <=> moved.week = 0
        /\ moved.status = "FINISHED" <=> moved.week = TotalWeeks
    BY <1>2, <1>3, <1>5, ConstantsAssumption DEF StatusForWeek, Weeks
  <2> QED BY <1>13, <2>1, <2>2 DEF PlayedThrough
<1>15. Agree(SeenLeague(r), SeenScore(r), SeenSnap(r))'
  <2> DEFINE sn == Over(Over(new, ws[r].snap), snap)
  <2>1. sn[w] = row /\ \A k \in Weeks : k # w => sn[k] = SeenSnap(r)[k]
    BY <1>3, <1>9
  <2> HIDE DEF sn, row
  <2>2. \A k \in Weeks : sn[k] # Null <=> k <= w
    BY <1>2, <1>3, <1>4, <2>1 DEF Agree, Weeks
  <2>3. \A k \in Weeks, m \in Matches :
          k <= w /\ WeekOf[m] <= k => sn[k].table[m] = SeenScore(r)[m]
    BY <1>2, <1>3, <1>4, <2>1 DEF Agree, Weeks
  <2>4. Agree(moved, SeenScore(r), sn)
    BY <1>5, <2>2, <2>3 DEF Agree
  <2> QED BY <1>13, <2>4 DEF Agree, sn
<1>16. CASE /\ MoreWeeks(r, w)
            /\ tx' = [tx EXCEPT ![r].week = w + 1]
            /\ pc' = [pc EXCEPT ![r] = "work"]
  <2> DEFINE locals == [tx[r] EXCEPT !.week = w + 1]
  <2>1. tx[r] \in Locals /\ tx' = [tx EXCEPT ![r] = locals]
    BY <1>16 DEF IInv, TypeOK, RequestTypes
  <2>2. locals \in Locals /\ locals.week = w + 1 /\ locals.league = tx[r].league
    BY <1>3, <2>1, ConstantsAssumption DEF Locals, Weeks
  <2>3. /\ pc'[r] = "work" /\ op' = op /\ league' = league
        /\ tx'[r].week = w + 1 /\ tx'[r].league = league
    BY <1>2, <1>11, <1>16, <2>1, <2>2 DEF IInv, TypeOK, RequestTypes, rows
  <2>4. w + 1 <= TotalWeeks
    BY <1>3, <1>16, ConstantsAssumption DEF Weeks, MoreWeeks
  <2>5. Holding(r)'
    <3> HIDE DEF moved
    <3> QED BY <1>2, <1>5, <1>13, <1>14, <1>15, <1>16, <2>3, <2>4 DEF Holding, Consistent, MoreWeeks
  <2> HIDE DEF locals, writes
  <2> QED BY <1>1, <1>10, <1>11, <1>16, <2>1, <2>2, <2>5, HolderStep DEF InTx
<1>17. CASE /\ ~MoreWeeks(r, w)
            /\ pc' = [pc EXCEPT ![r] = "commit"]
            /\ UNCHANGED tx
  <2>1. tx[r] \in Locals /\ tx' = [tx EXCEPT ![r] = tx[r]]
    BY <1>17 DEF IInv, TypeOK, RequestTypes
  <2>2. pc'[r] = "commit" /\ UNCHANGED <<tx, op, league>>
    BY <1>11, <1>17 DEF IInv, TypeOK, RequestTypes, rows
  <2>3. Holding(r)'
    BY <1>2, <1>14, <1>15, <2>2 DEF Holding, Consistent
  <2> HIDE DEF writes
  <2> QED BY <1>1, <1>10, <1>11, <1>17, <2>1, <2>3, HolderStep DEF InTx
<1> QED BY <1>16, <1>17 DEF AdvanceAndSnapshot

\* What a holder that has not written yet sees is the committed season.
LEMMA HolderAtWork ==
  ASSUME IInv, NEW r \in Requests, pc[r] = "work", op[r].kind # "playAll"
  PROVE  /\ lock = r /\ league # Null /\ league \in Leagues /\ league.week \in 0..TotalWeeks
         /\ tx[r] \in Locals /\ tx[r].league = league /\ tx[r].start \in Nat
         /\ op[r].kind \notin {"delete", "rate"}
         /\ ws[r] = NoWrites
         /\ score \in Results /\ snap \in [Weeks -> Snapshots \cup {Null}]
         /\ PlayedThrough(league, score) /\ Agree(league, score, snap)
<1>1. lock = r /\ Holding(r)
  BY DEF IInv, Locking, InTx
<1>2. league # Null /\ league \in Leagues /\ ws[r] = NoWrites
  BY <1>1 DEF Holding, IInv, TypeOK, RowTypes
<1> QED BY <1>1, <1>2
  DEF Holding, IInv, TypeOK, RowTypes, RequestTypes, Locals, Leagues, PlayedThroughWeek, SnapshotsAgree

\* Reset, Recalculate and UpdateResult write everything in one go: it is
\* enough that what they leave is a season.
LEMMA WriterStep ==
  ASSUME IInv, NEW r \in Requests, pc[r] = "work", op[r].kind # "playAll",
         UNCHANGED <<rows, ratings, lock, clock, op, tx, reply>>,
         pc' = [pc EXCEPT ![r] = "commit"],
         NEW writes, ws' = [ws EXCEPT ![r] = writes], IsWriteSet(writes),
         Consistent(r)'
  PROVE  IInv'
<1>1. /\ league # Null /\ tx[r].league = league /\ tx[r] \in Locals
      /\ op[r].kind \notin {"delete", "rate"}
  BY HolderAtWork
<1>2. tx' = [tx EXCEPT ![r] = tx[r]]
  BY DEF IInv, TypeOK, RequestTypes
<1>3. pc'[r] = "commit" /\ UNCHANGED <<tx, op, league>>
  BY DEF IInv, TypeOK, RequestTypes, rows
<1>4. Holding(r)'
  BY <1>1, <1>3 DEF Holding
<1> QED BY <1>1, <1>2, <1>4, HolderStep DEF InTx

\* A reset season is the one before week 1.
LEMMA ResetIInv ==
  ASSUME IInv, NEW r \in Requests, Reset(r) PROVE IInv'
<1> DEFINE blank == [m \in Matches |-> Null]
           none == [k \in Weeks |-> Null]
           start == [week |-> 0, status |-> "NOT_STARTED"]
           writes == [ws[r] EXCEPT !.score = blank, !.snap = none, !.league = start]
<1>1. /\ pc[r] = "work" /\ op[r].kind # "playAll"
      /\ score \in Results /\ snap \in [Weeks -> Snapshots \cup {Null}]
      /\ ws[r] = NoWrites
  BY HolderAtWork DEF Reset
<1>2. start \in Leagues /\ start # Null /\ start.week = 0 /\ start.status = "NOT_STARTED"
  BY ConstantsAssumption, NullAssumption DEF Leagues, Statuses
<1>3. /\ DOMAIN writes = {"league", "score", "snap", "audit"}
      /\ writes.league = start /\ writes.score = blank /\ writes.snap = none
      /\ writes.audit = <<>>
  BY <1>1 DEF NoWrites
<1>4. IsWriteSet(writes)
  <2>1. blank \in [Matches -> Scores \cup {Null}] /\ none \in [Weeks -> Snapshots \cup {Null}]
    OBVIOUS
  <2>2. Matches \in SUBSET Matches /\ Weeks \in SUBSET Weeks /\ <<>> \in Seq(Audits)
    OBVIOUS
  <2> HIDE DEF writes, blank, none, start
  <2>3. /\ \E D \in SUBSET Matches : writes.score \in [D -> Scores \cup {Null}]
        /\ \E D \in SUBSET Weeks : writes.snap \in [D -> Snapshots \cup {Null}]
    BY <1>3, <2>1, <2>2
  <2> QED BY <1>2, <1>3, <2>2, <2>3 DEF IsWriteSet
<1>5. /\ UNCHANGED <<rows, ratings, lock, clock, op, tx, reply>>
      /\ pc' = [pc EXCEPT ![r] = "commit"] /\ ws' = [ws EXCEPT ![r] = writes]
  BY DEF Reset
<1>6. ws'[r] = writes
  BY <1>5 DEF IInv, TypeOK, RequestTypes
<1>7. /\ SeenLeague(r)' = start
      /\ SeenScore(r)' = Over(blank, score) /\ SeenSnap(r)' = Over(none, snap)
  <2> HIDE DEF writes, start, blank, none
  <2> QED BY <1>2, <1>3, <1>5, <1>6 DEF SeenLeague, SeenScore, SeenSnap, rows
<1>8. \A k \in Weeks : Over(none, snap)[k] = Null
  BY DEF Over
<1>9. PlayedThrough(SeenLeague(r), SeenScore(r))'
  BY <1>2, <1>7, ConstantsAssumption DEF PlayedThrough, Weeks
<1>10. Agree(SeenLeague(r), SeenScore(r), SeenSnap(r))'
  BY <1>2, <1>7, <1>8, ConstantsAssumption DEF Agree, Weeks
<1>11. Consistent(r)'
  BY <1>9, <1>10 DEF Consistent
<1> HIDE DEF writes
<1> QED BY <1>1, <1>4, <1>5, <1>11, WriterStep

\* The snapshots that rebuildSnapshots writes, over those of a season whose
\* results differ from these only from week `from' on, agree with them.
LEMMA RebuiltAgrees ==
  ASSUME NEW results \in Results, NEW from \in Weeks, NEW current \in 0..TotalWeeks,
         NEW now \in Nat, NEW old \in [Weeks -> Snapshots \cup {Null}],
         NEW l, l.week = current, NEW results0 \in Results, Agree(l, results0, old),
         \A m \in Matches : WeekOf[m] < from => results[m] = results0[m]
  PROVE  /\ \E D \in SUBSET Weeks :
              Rebuilt(results, from, current, now) \in [D -> Snapshots \cup {Null}]
         /\ Agree(l, results, Over(Rebuilt(results, from, current, now), old))
<1> DEFINE D == {i \in 1..current : i >= from}
           new == Rebuilt(results, from, current, now)
<1>1. D \in SUBSET Weeks
  BY ConstantsAssumption DEF Weeks
<1>2. \A k \in Weeks : UpTo(results, k) \in Results
  BY DEF UpTo, Results
<1>3. DOMAIN new = D /\ \A k \in D : /\ new[k] = [table |-> UpTo(results, k), at |-> now]
                                     /\ new[k] \in Snapshots
                                     /\ new[k] # Null
                                     /\ new[k].table = UpTo(results, k)
  BY <1>1, <1>2, NullAssumption DEF Rebuilt, Snapshots
<1>4. new \in [D -> Snapshots \cup {Null}]
  BY <1>3 DEF Rebuilt
<1>5. \A k \in Weeks : Over(new, old)[k] = IF k \in D THEN new[k] ELSE old[k]
  <2> HIDE DEF new, D
  <2> QED BY <1>1, <1>3 DEF Over
<1>6. ASSUME NEW k \in Weeks
      PROVE  /\ Over(new, old)[k] # Null <=> k <= l.week
             /\ k <= l.week =>
                  \A m \in Matches : WeekOf[m] <= k => Over(new, old)[k].table[m] = results[m]
  <2>1. CASE k \in D
    <3>1. Over(new, old)[k] # Null /\ k <= l.week
          /\ Over(new, old)[k].table = UpTo(results, k)
      BY <1>3, <1>5, <2>1
    <3> HIDE DEF new, D
    <3> QED BY <3>1 DEF UpTo
  <2>2. CASE k \notin D
    <3>1. Over(new, old)[k] = old[k]
      BY <1>5, <2>2
    <3>2. k <= l.week => k < from
      BY <2>2, ConstantsAssumption DEF Weeks
    <3>3. \A m \in Matches : k <= l.week /\ WeekOf[m] <= k => results[m] = results0[m]
      BY <3>2, ConstantsAssumption DEF Weeks
    <3> HIDE DEF new, D
    <3> QED BY <3>1, <3>3 DEF Agree
  <2> QED BY <2>1, <2>2
<1>7. Agree(l, results, Over(new, old))
  <2> HIDE DEF new, D
  <2> QED BY <1>6 DEF Agree
<1>8. \E E \in SUBSET Weeks : new \in [E -> Snapshots \cup {Null}]
  <2> HIDE DEF new, D
  <2> QED BY <1>1, <1>4
<1> QED BY <1>7, <1>8

\* A rebuild from week 1 writes the snapshots of the same season again.
LEMMA RecalculateIInv ==
  ASSUME IInv, NEW r \in Requests, Recalculate(r) PROVE IInv'
<1> DEFINE new == Rebuilt(SeenScore(r), 1, tx[r].league.week, tx[r].start)
           writes == [ws[r] EXCEPT !.snap = new]
<1>1. /\ pc[r] = "work" /\ op[r].kind # "playAll"
      /\ tx[r].league = league /\ league.week \in 0..TotalWeeks /\ tx[r].start \in Nat
      /\ league # Null
      /\ score \in Results /\ snap \in [Weeks -> Snapshots \cup {Null}]
      /\ PlayedThrough(league, score) /\ Agree(league, score, snap)
      /\ ws[r] = NoWrites
  BY HolderAtWork DEF Recalculate
<1>2. SeenScore(r) = score
  BY <1>1, SeenNothingWritten DEF IInv
<1>3. /\ \E D \in SUBSET Weeks : new \in [D -> Snapshots \cup {Null}]
      /\ Agree(league, score, Over(new, snap))
  <2>1. 1 \in Weeks
    BY ConstantsAssumption DEF Weeks
  <2>2. \A m \in Matches : WeekOf[m] < 1 => score[m] = score[m]
    OBVIOUS
  <2> QED BY <1>1, <1>2, <2>1, <2>2, RebuiltAgrees
<1>4. /\ DOMAIN writes = {"league", "score", "snap", "audit"}
      /\ writes.league = Null /\ writes.score = NoRows
      /\ writes.snap = new /\ writes.audit = <<>>
  <2> HIDE DEF new
  <2> QED BY <1>1 DEF NoWrites
<1>5. IsWriteSet(writes)
  <2>1. IsWriteSet(NoWrites) /\ NoWrites.score = NoRows
        /\ NoWrites.league = Null /\ NoWrites.audit = <<>>
    BY NoWritesType DEF NoWrites
  <2> HIDE DEF writes, new
  <2> QED BY <1>3, <1>4, <2>1 DEF IsWriteSet
<1>6. /\ UNCHANGED <<rows, ratings, lock, clock, op, tx, reply>>
      /\ pc' = [pc EXCEPT ![r] = "commit"] /\ ws' = [ws EXCEPT ![r] = writes]
  BY DEF Recalculate
<1>7. ws'[r] = writes
  BY <1>6 DEF IInv, TypeOK, RequestTypes
<1>8. /\ SeenLeague(r)' = league
      /\ SeenScore(r)' = Over(NoRows, score) /\ SeenSnap(r)' = Over(new, snap)
  <2> HIDE DEF writes, new
  <2> QED BY <1>4, <1>6, <1>7 DEF SeenLeague, SeenScore, SeenSnap, rows
<1>9. Over(NoRows, score) = score
  BY <1>1, OverNothing DEF Results
<1>10. Consistent(r)'
  <2> HIDE DEF new
  <2> QED BY <1>1, <1>3, <1>8, <1>9 DEF Consistent, PlayedThrough, Agree
<1> HIDE DEF writes
<1> QED BY <1>1, <1>5, <1>6, <1>10, WriterStep

\* An edit replaces one result and rebuilds the snapshots from its week on.
LEMMA UpdateResultIInv ==
  ASSUME IInv, NEW r \in Requests, UpdateResult(r) PROVE IInv'
<1> DEFINE m == op[r].match
           written == [x \in {m} |-> op[r].new]
           results == Over(written, score)
           new == Rebuilt(results, WeekOf[m], tx[r].league.week, tx[r].start)
           entry == [match |-> m, old |-> tx[r].match, new |-> op[r].new, at |-> tx[r].start]
           writes == [ws[r] EXCEPT !.audit = <<entry>>, !.score = written, !.snap = new]
<1>1. /\ pc[r] = "work" /\ op[r].kind # "playAll" /\ op[r].kind = "edit"
      /\ tx[r] \in Locals
      /\ tx[r].league = league /\ league.week \in 0..TotalWeeks /\ tx[r].start \in Nat
      /\ league # Null
      /\ score \in Results /\ snap \in [Weeks -> Snapshots \cup {Null}]
      /\ PlayedThrough(league, score) /\ Agree(league, score, snap)
      /\ ws[r] = NoWrites
  BY HolderAtWork DEF UpdateResult
<1>2. m \in Matches /\ op[r].new \in Scores
  <2>1. op[r] \in Ops
    BY <1>1 DEF IInv, Locking
  <2> QED BY <1>1, <2>1 DEF Ops
<1>3. entry \in Audits
  BY <1>1, <1>2 DEF Audits, Locals
<1>4. written \in [{m} -> Scores \cup {Null}] /\ {m} \in SUBSET Matches
  BY <1>2
<1>5. /\ results \in Results
      /\ \A x \in Matches : results[x] = IF x = m THEN op[r].new ELSE score[x]
  BY <1>1, <1>2 DEF Over, Results
<1>6. WeekOf[m] \in Weeks
  BY <1>2, ConstantsAssumption
<1>7. /\ \E D \in SUBSET Weeks : new \in [D -> Snapshots \cup {Null}]
      /\ Agree(league, results, Over(new, snap))
  <2>1. \A x \in Matches : WeekOf[x] < WeekOf[m] => results[x] = score[x]
    BY <1>2, <1>5, <1>6 DEF Weeks
  <2> HIDE DEF results, m
  <2> QED BY <1>1, <1>5, <1>6, <2>1, RebuiltAgrees
<1>8. PlayedThrough(league, results)
  <2> HIDE DEF results
  <2> QED BY <1>1, <1>2, <1>5, NullAssumption DEF PlayedThrough
<1>9. /\ DOMAIN writes = {"league", "score", "snap", "audit"}
      /\ writes.league = Null /\ writes.score = written
      /\ writes.snap = new /\ writes.audit = <<entry>>
  <2> HIDE DEF new, written, entry
  <2> QED BY <1>1 DEF NoWrites
<1>10. IsWriteSet(writes)
  <2>1. <<entry>> \in Seq(Audits)
    BY <1>3
  <2>2. \E D \in SUBSET Matches : writes.score \in [D -> Scores \cup {Null}]
    <3> HIDE DEF writes, written
    <3> QED BY <1>4, <1>9
  <2> HIDE DEF writes, new, entry, written
  <2> QED BY <1>7, <1>9, <2>1, <2>2 DEF IsWriteSet
<1>11. /\ UNCHANGED <<rows, ratings, lock, clock, op, tx, reply>>
       /\ pc' = [pc EXCEPT ![r] = "commit"] /\ ws' = [ws EXCEPT ![r] = writes]
  BY DEF UpdateResult
<1>12. ws'[r] = writes
  BY <1>11 DEF IInv, TypeOK, RequestTypes
<1>13. /\ SeenLeague(r)' = league
       /\ SeenScore(r)' = results /\ SeenSnap(r)' = Over(new, snap)
  <2> HIDE DEF writes, new, written
  <2> QED BY <1>9, <1>11, <1>12 DEF SeenLeague, SeenScore, SeenSnap, rows
<1>14. Consistent(r)'
  <2> HIDE DEF new, results
  <2> QED BY <1>7, <1>8, <1>13 DEF Consistent, PlayedThrough, Agree
<1> HIDE DEF writes
<1> QED BY <1>1, <1>10, <1>11, <1>14, WriterStep

\* A commit publishes the season the transaction saw.
LEMMA CommitIInv ==
  ASSUME IInv, NEW r \in Requests, Commit(r) PROVE IInv'
<1>1. pc[r] = "commit" /\ lock = r /\ Holding(r) /\ op[r] \in Ops
  BY DEF Commit, IInv, Locking, InTx
<1>2. league # Null /\ Consistent(r)
  BY <1>1 DEF Holding
<1>3. /\ league' = SeenLeague(r) /\ score' = SeenScore(r) /\ snap' = SeenSnap(r)
      /\ audit' = audit \o ws[r].audit /\ ratings' = ratings
  BY DEF Commit
<1>4. /\ league' \in Leagues /\ score' \in Results
      /\ snap' \in [Weeks -> Snapshots \cup {Null}]
  BY <1>2, <1>3, SeenType DEF IInv
<1>5. audit' \in Seq(Audits)
  <2>1. audit \in Seq(Audits) /\ ws[r].audit \in Seq(Audits)
    BY DEF IInv, TypeOK, RowTypes, RequestTypes, IsWriteSet
  <2> QED BY <1>3, <2>1
<1>6. RowTypes'
  BY <1>3, <1>4, <1>5 DEF IInv, TypeOK, RowTypes
<1>7. PICK outcome \in {"ok", "error"} : End(r, outcome)
  BY DEF Commit
<1>8. RequestTypes' /\ Locking'
  BY <1>1, <1>7, Ending DEF IInv, Replies
<1>9. \A h \in Requests : lock' = h => Holding(h)'
  BY <1>1, <1>7, NullAssumption DEF End
<1>10. PlayedThroughWeek' /\ SnapshotsAgree'
  BY <1>2, <1>3 DEF Consistent, PlayedThroughWeek, SnapshotsAgree
<1> QED BY <1>6, <1>8, <1>9, <1>10 DEF IInv, TypeOK

\* A deleted league has no rows, and nobody is at work on it.
LEMMA DeleteLeagueIInv ==
  ASSUME IInv, NEW r \in Requests, DeleteLeague(r) PROVE IInv'
<1>1. op[r] \in Ops /\ lock = Null /\ ratings' = ratings /\ pc[r] = "lock"
  BY DEF DeleteLeague, IInv, Locking
<1>2. CASE End(r, "notfound") /\ UNCHANGED rows
  BY <1>1, <1>2, EndingKeeps DEF Replies
<1>3. CASE /\ league' = Null
           /\ score' = [m \in Matches |-> Null]
           /\ snap' = [k \in Weeks |-> Null]
           /\ audit' = <<>>
           /\ \E outcome \in {"ok", "error"} : End(r, outcome)
  <2>1. RowTypes'
    BY <1>1, <1>3 DEF IInv, TypeOK, RowTypes, Results
  <2>2. PICK outcome \in {"ok", "error"} : End(r, outcome)
    BY <1>3
  <2>3. RequestTypes' /\ Locking'
    BY <1>1, <2>2, Ending DEF IInv, Replies
  <2>4. \A h \in Requests : lock' = h => Holding(h)'
    BY <1>1, <2>2, NullAssumption DEF End
  <2>5. PlayedThroughWeek' /\ SnapshotsAgree'
    BY <1>3 DEF PlayedThroughWeek, SnapshotsAgree
  <2> QED BY <2>1, <2>3, <2>4, <2>5 DEF IInv, TypeOK
<1> QED BY <1>2, <1>3 DEF DeleteLeague

\* The catalog's ratings are no part of a season.
LEMMA UpdateRatingIInv ==
  ASSUME IInv, NEW r \in Requests, UpdateRating(r) PROVE IInv'
<1>1. op[r] \in Ops /\ pc[r] = "lock" /\ op[r].kind = "rate"
  BY DEF UpdateRating, IInv, Locking
<1>2. UNCHANGED <<league, score, snap, audit>>
  BY DEF UpdateRating, rows
<1>3. ratings' \in Ratings
  BY <1>1 DEF UpdateRating, Ops
<1>4. RowTypes'
  BY <1>2, <1>3 DEF IInv, TypeOK, RowTypes
<1>5. PICK outcome \in {"ok", "error"} : End(r, outcome)
  BY DEF UpdateRating
<1>6. /\ RequestTypes' /\ Locking'
      /\ \A h \in Requests :
           lock' = h => /\ lock = h
                        /\ pc'[h] = pc[h] /\ op'[h] = op[h]
                        /\ tx'[h] = tx[h] /\ ws'[h] = ws[h]
  BY <1>1, <1>5, Ending DEF IInv, Replies
<1>7. ASSUME NEW h \in Requests, lock' = h PROVE Holding(h)'
  <2>1. Holding(h)
    BY <1>6, <1>7 DEF IInv
  <2> QED BY <1>2, <1>6, <1>7, <2>1, HoldingKept
<1>8. PlayedThroughWeek' /\ SnapshotsAgree'
  BY <1>2, RowsKept DEF IInv
<1> QED BY <1>4, <1>6, <1>7, <1>8 DEF IInv, TypeOK

\* A stuttering step.
LEMMA StutterIInv == IInv /\ UNCHANGED vars => IInv'
<1> SUFFICES ASSUME IInv, UNCHANGED vars PROVE IInv'
  OBVIOUS
<1>1. /\ UNCHANGED <<league, score, snap, audit, ratings>>
      /\ UNCHANGED <<lock, clock, pc, op, tx, ws, reply>>
  BY DEF vars
<1>2. TypeOK'
  BY <1>1 DEF IInv, TypeOK, RowTypes, RequestTypes
<1>3. Locking'
  BY <1>1 DEF IInv, Locking
<1>4. \A h \in Requests : lock' = h => Holding(h)'
  BY <1>1, HoldingKept DEF IInv
<1>5. PlayedThroughWeek' /\ SnapshotsAgree'
  BY <1>1, RowsKept DEF IInv
<1> QED BY <1>2, <1>3, <1>4, <1>5 DEF IInv

\* Every step keeps the invariant.
LEMMA NextIInv == IInv /\ [Next]_vars => IInv'
<1> SUFFICES ASSUME IInv, [Next]_vars PROVE IInv'
  OBVIOUS
<1>1. ASSUME NEW r \in Requests, Begin(r) PROVE IInv'
  BY <1>1, BeginIInv
<1>2. ASSUME NEW r \in Requests, Step(r) PROVE IInv'
  BY <1>2, ReadMatchIInv, AcquireIInv, ConflictIInv, SimulateWeekIInv,
     AdvanceAndSnapshotIInv, ResetIInv, RecalculateIInv, UpdateResultIInv,
     DeleteLeagueIInv, UpdateRatingIInv, CommitIInv
  DEF Step
<1>3. ASSUME NEW r \in Requests, Abort(r) PROVE IInv'
  BY <1>3, AbortIInv
<1>4. CASE AllAnswered
  BY <1>4, StutterIInv DEF AllAnswered
<1>5. CASE UNCHANGED vars
  BY <1>5, StutterIInv
<1> QED BY <1>1, <1>2, <1>3, <1>4, <1>5 DEF Next

(***************************************************************************)
(* The theorems.                                                           *)
(***************************************************************************)

\* In every reachable state the invariant holds, for any requests, weeks,
\* fixtures and results: the row lock makes each transaction's view a season
\* and its commit publishes that season (league_play.go, match_service.go).
THEOREM Invariance == Spec => []IInv
BY NextIInv, InitIInv, PTL DEF Spec

\* Every variable keeps its type; in particular current_week never leaves
\* 0..total_weeks (the leagues columns, schema.sql).
THEOREM TypeCorrect == Spec => []TypeOK
<1>1. IInv => TypeOK
  BY DEF IInv
<1> QED BY <1>1, Invariance, PTL

\* The committed league is always between two weeks (domain/league.go).
THEOREM AlwaysPlayedThroughWeek == Spec => []PlayedThroughWeek
<1>1. IInv => PlayedThroughWeek
  BY DEF IInv
<1> QED BY <1>1, Invariance, PTL

\* The standings history covers exactly the weeks played and never shows a
\* stale result of a week it covers (recalc.go, advanceAndSnapshot).
THEOREM SnapshotsAlwaysAgree == Spec => []SnapshotsAgree
<1>1. IInv => SnapshotsAgree
  BY DEF IInv
<1> QED BY <1>1, Invariance, PTL

=============================================================================
