------------------------------ MODULE LeagueTx ------------------------------
(***************************************************************************)
(* One league and the HTTP requests that change it concurrently.           *)
(*                                                                         *)
(* Every mutation of a league except DELETE runs in one PostgreSQL         *)
(* transaction (Transactor.WithinTx) at the default READ COMMITTED level:  *)
(* a statement sees the committed rows plus the transaction's own writes,  *)
(* and the writes become visible to others when the transaction commits.   *)
(* The transactions are ordered by the row lock on the league that         *)
(* GetByIDForUpdate takes.  UpdateResult reads its match BEFORE it asks    *)
(* for that lock, in a statement of its own.                               *)
(*                                                                         *)
(* The variables are the committed rows of the league, the row lock, and   *)
(* per request its program counter, the locals of its handler and the      *)
(* writes it has not committed.  A league table is represented by the      *)
(* results it was computed from: Null for a match it does not count.       *)
(*                                                                         *)
(* A definition marked Variant is its successor with a plausible mistake;  *)
(* no specification uses it.                                               *)
(***************************************************************************)
EXTENDS Integers, Sequences

CONSTANTS
  Requests,     \* the requests the server receives, each with its goroutine
  TotalWeeks,   \* leagues.total_weeks
  Matches,      \* the fixtures of the league
  WeekOf,       \* matches.week_number
  Scores,       \* the results a match can have: home and away goals
  Ratings,      \* the ratings the teams of the catalog can have
  Simulated,    \* what the simulator, seeded by league and week, scores
  Kinds,        \* the operations the clients ask for
  Null          \* SQL NULL, an absent row, nobody

Weeks    == 1..TotalWeeks
Statuses == {"NOT_STARTED", "IN_PROGRESS", "FINISHED"}
AllKinds == {"play", "playAll", "reset", "recalculate", "edit", "delete", "rate"}

Results   == [Matches -> Scores \cup {Null}]
Leagues   == [week: 0..TotalWeeks, status: Statuses]
Snapshots == [table: Results, at: Nat]
Audits    == [match: Matches, old: Scores \cup {Null}, new: Scores, at: Nat]

ASSUME ConstantsAssumption ==
  /\ TotalWeeks \in Nat \ {0}
  /\ WeekOf \in [Matches -> Weeks]
  /\ Simulated \in [Ratings -> [Matches -> Scores]]
  /\ Kinds \subseteq AllKinds

\* What a client asks for: a request names its operation and its inputs.
Ops == [kind: Kinds \ {"edit", "rate"}]
         \cup (IF "edit" \in Kinds
               THEN [kind: {"edit"}, match: Matches, new: Scores] ELSE {})
         \cup (IF "rate" \in Kinds
               THEN [kind: {"rate"}, ratings: Ratings] ELSE {})

ASSUME NullAssumption ==
  /\ Null \notin Scores
  /\ Null \notin Requests
  /\ Null \notin Leagues
  /\ Null \notin Snapshots
  /\ Null \notin Ops

VARIABLES
  league,   \* the leagues row, Null once deleted
  score,    \* the matches rows: goals, Null while SCHEDULED
  snap,     \* the standings snapshot of each week, Null if there is none
  audit,    \* match_audit_logs in insertion (id) order
  ratings,  \* the ratings columns of teams
  lock,     \* the request whose transaction holds the league row lock
  clock,    \* the time of the last BEGIN: what NOW() says in a transaction
  pc,       \* per request: the statement its handler executes next
  op,       \* per request: what it was asked to do
  tx,       \* per request: the locals of its handler
  ws,       \* per request: the rows its transaction wrote, uncommitted
  reply     \* per request: the outcome its client was told

rows == <<league, score, snap, audit>>
vars == <<league, score, snap, audit, ratings, lock, clock, pc, op, tx, ws, reply>>

(***************************************************************************)
(* Rows and write sets.                                                    *)
(***************************************************************************)

\* The rows old after the writes new: both are functions from keys to rows.
Over(new, old) ==
  [x \in DOMAIN new \cup DOMAIN old |-> IF x \in DOMAIN new THEN new[x] ELSE old[x]]

NoRows   == [x \in {} |-> Null]
NoWrites == [league |-> Null, score |-> NoRows, snap |-> NoRows, audit |-> <<>>]
NoLocals == [start |-> 0, match |-> Null, league |-> Null, week |-> 0]

\* What a statement of request r sees: committed rows under its own writes.
SeenScore(r)  == Over(ws[r].score, score)
SeenSnap(r)   == Over(ws[r].snap, snap)
SeenLeague(r) == IF ws[r].league = Null THEN league ELSE ws[r].league

InWeek(k) == {m \in Matches : WeekOf[m] = k}

\* standings.Calculate over the matches of weeks 1..k: those not played add nothing.
UpTo(results, k) == [m \in Matches |-> IF WeekOf[m] <= k THEN results[m] ELSE Null]

\* service/league_play.go statusForWeek
StatusForWeek(week) == IF week >= TotalWeeks THEN "FINISHED" ELSE "IN_PROGRESS"

\* Rows whose goals ClearResults has set to NULL, snapshots DeleteFromWeek(0)
\* has deleted, and the snapshot that Upsert leaves behind.
NoResults   == [m \in Matches |-> Null]
NoSnapshots == [k \in Weeks |-> Null]
SnapshotOf(results, now) == [table |-> results, at |-> now]

\* Variant: the edited week's own snapshot is left out of the rebuild.
RebuiltAfterWeek(results, from, current, now) ==
  [k \in {i \in 1..current : i > from} |-> SnapshotOf(UpTo(results, k), now)]

\* service/recalc.go rebuildSnapshots: the snapshots it upserts for the
\* weeks from..current, captured at NOW(), the start of the transaction.
Rebuilt(results, from, current, now) ==
  [k \in {i \in 1..current : i >= from} |-> SnapshotOf(UpTo(results, k), now)]

(***************************************************************************)
(* The states a server can be started on: a database whose league has      *)
(* played its first weeks, with whatever results, and their snapshots.     *)
(***************************************************************************)
SavedLeague(w) ==
  [week |-> w, status |-> IF w = 0 THEN "NOT_STARTED" ELSE StatusForWeek(w)]

Init ==
  /\ \E w \in 0..TotalWeeks, results \in [Matches -> Scores] :
       /\ league = SavedLeague(w)
       /\ score = UpTo(results, w)
       /\ snap = [k \in Weeks |->
                    IF k <= w THEN SnapshotOf(UpTo(results, k), 0) ELSE Null]
  /\ audit = <<>>
  /\ ratings \in Ratings
  /\ lock = Null
  /\ clock = 0
  /\ pc = [r \in Requests |-> "new"]
  /\ op = [r \in Requests |-> Null]
  /\ tx = [r \in Requests |-> NoLocals]
  /\ ws = [r \in Requests |-> NoWrites]
  /\ reply = [r \in Requests |-> "none"]

(***************************************************************************)
(* Starting and ending a request.                                          *)
(***************************************************************************)

\* The handler starts: pool.Begin opens the transaction, and with it NOW().
Begin(r) ==
  /\ pc[r] = "new"
  /\ \E o \in Ops :
       /\ op' = [op EXCEPT ![r] = o]
       /\ pc' = [pc EXCEPT ![r] = IF o.kind = "edit" THEN "lookup" ELSE "lock"]
  /\ clock' = clock + 1
  /\ tx' = [tx EXCEPT ![r].start = clock + 1]
  /\ UNCHANGED <<rows, ratings, lock, ws, reply>>

\* Variant: a handler returns without the deferred Rollback, its lock stays.
EndKeepingLock(r, outcome) ==
  /\ pc' = [pc EXCEPT ![r] = "done"]
  /\ tx' = [tx EXCEPT ![r] = NoLocals]
  /\ ws' = [ws EXCEPT ![r] = NoWrites]
  /\ reply' = [reply EXCEPT ![r] = outcome]
  /\ UNCHANGED <<lock, clock, op>>

\* The transaction of r is over: its locals, its writes and its lock go.
End(r, outcome) ==
  /\ pc' = [pc EXCEPT ![r] = "done"]
  /\ tx' = [tx EXCEPT ![r] = NoLocals]
  /\ ws' = [ws EXCEPT ![r] = NoWrites]
  /\ lock' = IF lock = r THEN Null ELSE lock
  /\ reply' = [reply EXCEPT ![r] = outcome]
  /\ UNCHANGED <<clock, op>>

\* WithinTx commits.  COMMIT takes effect and then either the answer reaches
\* the handler or the connection is lost and the client is told of an error.
Commit(r) ==
  /\ pc[r] = "commit"
  /\ league' = SeenLeague(r)
  /\ score' = SeenScore(r)
  /\ snap' = SeenSnap(r)
  /\ audit' = audit \o ws[r].audit
  /\ \E outcome \in {"ok", "error"} : End(r, outcome)
  /\ UNCHANGED ratings

\* The deferred Rollback: a statement failed, the client went away and its
\* context was cancelled, or the server or its connection was lost.
Abort(r) ==
  /\ pc[r] \in {"lookup", "lock", "work", "advance", "commit"}
  /\ End(r, "error")
  /\ UNCHANGED <<rows, ratings>>

(***************************************************************************)
(* The league row lock.                                                    *)
(***************************************************************************)

\* UpdateResult's first statement: the match row, read without any lock.
ReadMatch(r) ==
  /\ pc[r] = "lookup"
  /\ \/ /\ league = Null
        /\ End(r, "notfound")
     \/ /\ league # Null
        /\ pc' = [pc EXCEPT ![r] = "lock"]
        /\ tx' = [tx EXCEPT ![r].match = score[op[r].match]]
        /\ UNCHANGED <<lock, clock, op, ws, reply>>
  /\ UNCHANGED <<rows, ratings>>

\* Variant: GetByID where GetByIDForUpdate belongs.
AcquireUnlocked(r) ==
  /\ pc[r] = "lock"
  /\ op[r].kind \notin {"delete", "rate"}
  /\ league # Null
  /\ tx' = [tx EXCEPT ![r].league = league, ![r].week = league.week + 1]
  /\ pc' = [pc EXCEPT ![r] = "work"]
  /\ UNCHANGED <<rows, ratings, lock, clock, op, ws, reply>>

\* Variant: the week to play is the current one, not the one after it.
AcquireAtCurrentWeek(r) ==
  /\ pc[r] = "lock"
  /\ op[r].kind \notin {"delete", "rate"}
  /\ lock = Null
  /\ league # Null
  /\ lock' = r
  /\ tx' = [tx EXCEPT ![r].league = league, ![r].week = league.week]
  /\ pc' = [pc EXCEPT ![r] = "work"]
  /\ UNCHANGED <<rows, ratings, clock, op, ws, reply>>

\* GetByIDForUpdate: waits for the row lock, then reads the latest row.
Acquire(r) ==
  /\ pc[r] = "lock"
  /\ op[r].kind \notin {"delete", "rate"}
  /\ lock = Null
  /\ \/ /\ league = Null
        /\ End(r, "notfound")
     \/ /\ league # Null
        /\ lock' = r
        /\ tx' = [tx EXCEPT ![r].league = league, ![r].week = league.week + 1]
        /\ pc' = [pc EXCEPT ![r] = "work"]
        /\ UNCHANGED <<clock, op, ws, reply>>
  /\ UNCHANGED <<rows, ratings>>

\* PlayWeek and PlayAll refuse a league that has finished.
PlayRefused(r) ==
  op[r].kind \in {"play", "playAll"} /\ tx[r].league.status = "FINISHED"

\* UpdateResult refuses a match that was SCHEDULED when it was read.
EditRefused(r) == op[r].kind = "edit" /\ tx[r].match = Null

\* The guards after the lock: the request ends without a write.
Conflict(r) ==
  /\ pc[r] = "work"
  /\ PlayRefused(r) \/ EditRefused(r)
  /\ End(r, "conflict")
  /\ UNCHANGED <<rows, ratings>>

(***************************************************************************)
(* Playing weeks: PlayWeek and PlayAll.                                    *)
(***************************************************************************)

\* Variant: a finished league is played on.
SimulateFinishedLeague(r) ==
  /\ pc[r] = "work"
  /\ op[r].kind \in {"play", "playAll"}
  /\ ws' = [ws EXCEPT ![r].score =
              Over([m \in InWeek(tx[r].week) |-> Simulated[ratings][m]], @)]
  /\ pc' = [pc EXCEPT ![r] = "advance"]
  /\ UNCHANGED <<rows, ratings, lock, clock, op, tx, reply>>

\* simulateWeek: one read of the teams, then a result for every match of the
\* week, whatever the match held before.
SimulateWeek(r) ==
  /\ pc[r] = "work"
  /\ op[r].kind \in {"play", "playAll"}
  /\ tx[r].league.status # "FINISHED"
  /\ ws' = [ws EXCEPT ![r].score =
              Over([m \in InWeek(tx[r].week) |-> Simulated[ratings][m]], @)]
  /\ pc' = [pc EXCEPT ![r] = "advance"]
  /\ UNCHANGED <<rows, ratings, lock, clock, op, tx, reply>>

\* PlayAll's loop goes on after week w, PlayWeek has none.
MoreWeeks(r, w) == op[r].kind = "playAll" /\ w < TotalWeeks

\* Variant: every week is written through the pool, not the transaction.
AdvanceCommittingEachWeek(r) ==
  LET w == tx[r].week IN
  /\ pc[r] = "advance"
  /\ score' = SeenScore(r)
  /\ snap' = [snap EXCEPT ![w] = SnapshotOf(SeenScore(r), tx[r].start)]
  /\ league' = [week |-> w, status |-> StatusForWeek(w)]
  /\ ws' = [ws EXCEPT ![r] = NoWrites]
  /\ \/ /\ MoreWeeks(r, w)
        /\ tx' = [tx EXCEPT ![r].week = w + 1]
        /\ pc' = [pc EXCEPT ![r] = "work"]
     \/ /\ ~MoreWeeks(r, w)
        /\ pc' = [pc EXCEPT ![r] = "commit"]
        /\ UNCHANGED tx
  /\ UNCHANGED <<audit, ratings, lock, clock, op, reply>>

\* advanceAndSnapshot: the table over ALL matches becomes the snapshot of the
\* week, and the league moves to that week.  PlayAll goes on to the next one.
AdvanceAndSnapshot(r) ==
  LET w == tx[r].week IN
  /\ pc[r] = "advance"
  /\ ws' = [ws EXCEPT
       ![r].snap = Over([k \in {w} |-> SnapshotOf(SeenScore(r), tx[r].start)], @),
       ![r].league = [week |-> w, status |-> StatusForWeek(w)]]
  /\ \/ /\ MoreWeeks(r, w)
        /\ tx' = [tx EXCEPT ![r].week = w + 1]
        /\ pc' = [pc EXCEPT ![r] = "work"]
     \/ /\ ~MoreWeeks(r, w)
        /\ pc' = [pc EXCEPT ![r] = "commit"]
        /\ UNCHANGED tx
  /\ UNCHANGED <<rows, ratings, lock, clock, op, reply>>

(***************************************************************************)
(* Reset, Recalculate and UpdateResult.                                    *)
(***************************************************************************)

\* Variant: the results go, the league row stays.
ResetKeepingWeek(r) ==
  /\ pc[r] = "work"
  /\ op[r].kind = "reset"
  /\ ws' = [ws EXCEPT ![r].score = NoResults,
                      ![r].snap = NoSnapshots]
  /\ pc' = [pc EXCEPT ![r] = "commit"]
  /\ UNCHANGED <<rows, ratings, lock, clock, op, tx, reply>>

\* Reset: ClearResults, DeleteFromWeek(0), UpdateStatusAndWeek.
Reset(r) ==
  /\ pc[r] = "work"
  /\ op[r].kind = "reset"
  /\ ws' = [ws EXCEPT ![r].score = NoResults,
                      ![r].snap = NoSnapshots,
                      ![r].league = [week |-> 0, status |-> "NOT_STARTED"]]
  /\ pc' = [pc EXCEPT ![r] = "commit"]
  /\ UNCHANGED <<rows, ratings, lock, clock, op, tx, reply>>

\* Recalculate: every snapshot of weeks 1..currentWeek from the results.
Recalculate(r) ==
  /\ pc[r] = "work"
  /\ op[r].kind = "recalculate"
  /\ ws' = [ws EXCEPT ![r].snap =
              Rebuilt(SeenScore(r), 1, tx[r].league.week, tx[r].start)]
  /\ pc' = [pc EXCEPT ![r] = "commit"]
  /\ UNCHANGED <<rows, ratings, lock, clock, op, tx, reply>>

\* The row Audits().Create inserts: the goals as they were read, and the new.
AuditEntry(r) ==
  [match |-> op[r].match, old |-> tx[r].match, new |-> op[r].new, at |-> tx[r].start]

\* Variant: every snapshot is rebuilt, whatever the edited week.
UpdateResultRebuildingAll(r) ==
  LET m == op[r].match
      written == [x \in {m} |-> op[r].new]
  IN
  /\ pc[r] = "work"
  /\ op[r].kind = "edit"
  /\ tx[r].match # Null
  /\ ws' = [ws EXCEPT
       ![r].audit = <<AuditEntry(r)>>,
       ![r].score = written,
       ![r].snap = Rebuilt(Over(written, score), 1, tx[r].league.week, tx[r].start)]
  /\ pc' = [pc EXCEPT ![r] = "commit"]
  /\ UNCHANGED <<rows, ratings, lock, clock, op, tx, reply>>

\* Variant: the audit entry is written through the pool, not the transaction.
UpdateResultAuditOutside(r) ==
  LET m == op[r].match
      written == [x \in {m} |-> op[r].new]
  IN
  /\ pc[r] = "work"
  /\ op[r].kind = "edit"
  /\ tx[r].match # Null
  /\ audit' = Append(audit, AuditEntry(r))
  /\ ws' = [ws EXCEPT
       ![r].score = written,
       ![r].snap = Rebuilt(Over(written, score), WeekOf[m], tx[r].league.week, tx[r].start)]
  /\ pc' = [pc EXCEPT ![r] = "commit"]
  /\ UNCHANGED <<league, score, snap, ratings, lock, clock, op, tx, reply>>

\* UpdateResult under the lock.  Both its status check and the old goals it
\* audits come from the match as it was read before the lock.
UpdateResult(r) ==
  LET m == op[r].match
      written == [x \in {m} |-> op[r].new]
  IN
  /\ pc[r] = "work"
  /\ op[r].kind = "edit"
  /\ tx[r].match # Null
  /\ ws' = [ws EXCEPT
       ![r].audit = <<AuditEntry(r)>>,
       ![r].score = written,
       ![r].snap = Rebuilt(Over(written, score), WeekOf[m], tx[r].league.week, tx[r].start)]
  /\ pc' = [pc EXCEPT ![r] = "commit"]
  /\ UNCHANGED <<rows, ratings, lock, clock, op, tx, reply>>

(***************************************************************************)
(* Single statements outside WithinTx, each its own transaction.           *)
(***************************************************************************)

\* DELETE FROM leagues waits for the row lock; the cascade takes the fixtures,
\* the snapshots and the audit logs with it.
DeleteLeague(r) ==
  /\ pc[r] = "lock"
  /\ op[r].kind = "delete"
  /\ lock = Null
  /\ \/ /\ league = Null
        /\ End(r, "notfound")
        /\ UNCHANGED rows
     \/ /\ league # Null
        /\ league' = Null
        /\ score' = NoResults
        /\ snap' = NoSnapshots
        /\ audit' = <<>>
        /\ \E outcome \in {"ok", "error"} : End(r, outcome)
  /\ UNCHANGED ratings

\* TeamService.UpdateRating: the catalog is not under the league lock.
UpdateRating(r) ==
  /\ pc[r] = "lock"
  /\ op[r].kind = "rate"
  /\ ratings' = op[r].ratings
  /\ \E outcome \in {"ok", "error"} : End(r, outcome)
  /\ UNCHANGED rows

(***************************************************************************)
(* The specification.                                                      *)
(***************************************************************************)

\* A step of r's handler that the database answers.
Step(r) ==
  \/ ReadMatch(r)
  \/ Acquire(r)
  \/ Conflict(r)
  \/ SimulateWeek(r)
  \/ AdvanceAndSnapshot(r)
  \/ Reset(r)
  \/ Recalculate(r)
  \/ UpdateResult(r)
  \/ DeleteLeague(r)
  \/ UpdateRating(r)
  \/ Commit(r)

\* Every request has been answered: nothing is left to do.
AllAnswered ==
  /\ \A r \in Requests : pc[r] = "done"
  /\ UNCHANGED vars

Next ==
  \/ \E r \in Requests : Begin(r) \/ Step(r) \/ Abort(r)
  \/ AllAnswered

Spec == Init /\ [][Next]_vars

\* The runs in which no league is both edited and reset: an edit and a reset
\* that meet are what keeps the code from implementing Season.
Asked(kind) == \E r \in Requests : op[r] # Null /\ op[r].kind = kind

Apart == ~(Asked("edit") /\ Asked("reset"))

ApartSpec == Init /\ [][Next /\ Apart']_vars

(***************************************************************************)
(* Correctness.                                                            *)
(***************************************************************************)
PCs     == {"new", "lookup", "lock", "work", "advance", "commit", "done"}
Replies == {"none", "ok", "notfound", "conflict", "error"}

Locals == [start: Nat, match: Scores \cup {Null},
           league: Leagues \cup {Null}, week: 0..TotalWeeks + 1]

IsWriteSet(w) ==
  /\ DOMAIN w = {"league", "score", "snap", "audit"}
  /\ w.league \in Leagues \cup {Null}
  /\ \E D \in SUBSET Matches : w.score \in [D -> Scores \cup {Null}]
  /\ \E D \in SUBSET Weeks : w.snap \in [D -> Snapshots \cup {Null}]
  /\ w.audit \in Seq(Audits)

RowTypes ==
  /\ league \in Leagues \cup {Null}
  /\ score \in Results
  /\ snap \in [Weeks -> Snapshots \cup {Null}]
  /\ audit \in Seq(Audits)
  /\ ratings \in Ratings

RequestTypes ==
  /\ lock \in Requests \cup {Null}
  /\ clock \in Nat
  /\ pc \in [Requests -> PCs]
  /\ op \in [Requests -> Ops \cup {Null}]
  /\ tx \in [Requests -> Locals]
  /\ DOMAIN ws = Requests
  /\ \A r \in Requests : IsWriteSet(ws[r])
  /\ reply \in [Requests -> Replies]

\* The type of every variable: the columns keep the values schema.sql lets
\* them have, in particular current_week stays within 0..total_weeks.
TypeOK == RowTypes /\ RequestTypes

\* Every match of the weeks played has a result, and the status is the one
\* that belongs to the week.
PlayedThrough(l, results) ==
  /\ \A m \in Matches : WeekOf[m] <= l.week => results[m] # Null
  /\ l.status = "NOT_STARTED" <=> l.week = 0
  /\ l.status = "FINISHED" <=> l.week = TotalWeeks

\* There is a snapshot for exactly the weeks played, and each has, for the
\* matches up to its week, the results they have.
Agree(l, results, snaps) ==
  \A k \in Weeks :
    /\ snaps[k] # Null <=> k <= l.week
    /\ k <= l.week =>
         \A m \in Matches : WeekOf[m] <= k => snaps[k].table[m] = results[m]

\* Whatever interleaves, the committed league is between two weeks: every
\* match up to current_week has a result, and the status is the one that
\* belongs to that week (domain/league.go lifecycle, advanceAndSnapshot).
PlayedThroughWeek == league # Null => PlayedThrough(league, score)

\* The standings history covers exactly the weeks played, and each week's
\* table has, for the matches up to that week, the results they have now: no
\* interleaving of edits, plays and resets leaves a stale result in a table
\* (rebuildSnapshots, advanceAndSnapshot).
SnapshotsAgree == league # Null => Agree(league, score, snap)

\* r's transaction commits in this step, and its client learns so.
Succeeds(r) == pc[r] # "done" /\ pc'[r] = "done" /\ reply'[r] = "ok"

\* A play-week that succeeds advances the league by exactly one week from
\* where it then is, and a play-all to its end: two concurrent calls never
\* play the same week, nor does one play a league that has been deleted
\* (PlayWeek's comment, domain/league.go).
PlayAdvances ==
  [][\A r \in Requests : Succeeds(r) /\ op[r].kind \in {"play", "playAll"} =>
       /\ league # Null /\ league.week < TotalWeeks
       /\ league'.week = IF op[r].kind = "play" THEN league.week + 1 ELSE TotalWeeks]_vars

\* Whatever its client is told, and whenever it is cancelled, a play changes the
\* league by the whole of what it was asked for: a play-week by one week, a
\* play-all by all that remain ("in one transaction", PlayAll's comment).
PlaysCommitWhole ==
  [][\A r \in Requests :
       lock = r /\ op[r].kind \in {"play", "playAll"} /\ league' \notin {league, Null} =>
         league'.week = IF op[r].kind = "play" THEN league.week + 1 ELSE TotalWeeks]_vars

\* A season moves forward: its week and its status go back only when a reset
\* commits (domain/league.go: no other backward transitions).
OnlyResetGoesBack ==
  [][/\ league # Null
     /\ league' # Null
     /\ \/ league'.week < league.week
        \/ league'.status # "FINISHED" /\ league.status = "FINISHED"
     => \E r \in Requests : /\ pc[r] = "commit" /\ pc'[r] = "done"
                            /\ op[r].kind = "reset"]_vars

\* A result that counts, of a week already played, is replaced by another one
\* only together with an audit entry that names the new one (UpdateResult).
ResultsChangeOnlyByAudit ==
  [][\A m \in Matches :
       /\ league # Null
       /\ WeekOf[m] <= league.week
       /\ score'[m] \notin {score[m], Null}
       => /\ Len(audit') = Len(audit) + 1
          /\ audit'[Len(audit')].match = m
          /\ audit'[Len(audit')].new = score'[m]]_vars

\* An edit commits without touching the snapshots of the weeks before its
\* match, their capture times included (rebuildSnapshots' comment).
EarlierSnapshotsKept ==
  [][Len(audit') > Len(audit) =>
       \A k \in Weeks :
         k < WeekOf[audit'[Len(audit')].match] => snap'[k] = snap[k]]_vars

\* While nobody resets the league, the audit entry with the highest id shows
\* the result the match has: an edit that failed leaves no entry, one that
\* committed left its own (UpdateResult's single transaction).
LastAuditIsCurrent ==
  \A i \in DOMAIN audit :
    (\A j \in DOMAIN audit : audit[j].match = audit[i].match => j <= i)
      => audit[i].new = score[audit[i].match]

\* The league one operation at a time, as its users see it.
TablesOf(s) == [k \in Weeks |-> IF s[k] = Null THEN Null ELSE s[k].table]
Promise == INSTANCE Season WITH tables <- TablesOf(snap)

\* The concurrent requests have, on the league's committed rows, the effect of
\* the operations of Season executed one at a time.
ImplementsSeason == Promise!Spec

(***************************************************************************)
(* What the repository's comments and documents say, and the code does not *)
(* keep: refuted by a run.                                                 *)
(***************************************************************************)

\* "Only PLAYED matches can be edited" (service/match_service.go): when an
\* edit commits, the match it edits has a result.
OnlyPlayedMatchesEdited ==
  [][Len(audit') > Len(audit) => score[audit'[Len(audit')].match] # Null]_vars
=============================================================================
