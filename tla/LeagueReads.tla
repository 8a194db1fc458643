---------------------------- MODULE LeagueReads ----------------------------
(***************************************************************************)
(* The GET requests of one league beside the requests that change it.      *)
(*                                                                         *)
(* A read handler uses the pool-backed repositories: each of its           *)
(* statements is a transaction of its own and sees what is committed when  *)
(* it runs, and LeagueTx's transactions commit in between.  The answer is  *)
(* put together from rows of different moments.  The tables are again      *)
(* represented by the results they are computed from.                      *)
(*                                                                         *)
(* A definition marked Variant is its successor with a plausible mistake;  *)
(* no specification uses it.                                               *)
(***************************************************************************)
EXTENDS LeagueTx

CONSTANTS
  Readers,             \* the GET requests, each with its goroutine
  PredictionsFromWeek  \* prediction_service.go predictionsFromWeek

\* What a reader asks for.
Queries == [kind: {"weekDetail"}, week: Weeks]
             \cup [kind: {"standings", "prediction", "history"}]

ASSUME ReadersAssumption ==
  /\ PredictionsFromWeek \in Nat
  /\ Null \notin Results
  /\ Null \notin Queries

VARIABLES
  query,   \* per reader: what it was asked for
  todo,    \* per reader: the statements its handler has not executed yet
  seen,    \* per reader: the rows it has read so far, in the end its answer
  answer   \* per reader: the outcome its client was told

readVars == <<query, todo, seen, answer>>
allVars  == <<vars, readVars>>

NothingSeen == [league |-> Null, results |-> Null, tables |-> Null]

\* Variant: each handler reads what the league row speaks of first.
StatementsRowsFirst(kind) ==
  IF kind = "weekDetail" THEN <<"league", "tables", "results">>
  ELSE IF kind = "history" THEN <<"tables", "league">>
  ELSE <<"results", "league">>

\* The statements of the handlers, in their order.  Standings and Predict also
\* list the teams, rows that no request here changes.
Statements(kind) ==
  IF kind = "weekDetail" THEN <<"league", "results", "tables">>
  ELSE IF kind = "history" THEN <<"league", "tables">>
  ELSE <<"league", "results">>

ReadInit ==
  /\ Init
  /\ query = [g \in Readers |-> Null]
  /\ todo = [g \in Readers |-> <<>>]
  /\ seen = [g \in Readers |-> NothingSeen]
  /\ answer = [g \in Readers |-> "none"]

Ask(g) ==
  /\ query[g] = Null
  /\ \E q \in Queries :
       /\ query' = [query EXCEPT ![g] = q]
       /\ todo' = [todo EXCEPT ![g] = Statements(q.kind)]
  /\ UNCHANGED <<vars, seen, answer>>

\* The next statement of g is s.
Executes(g, s) == todo[g] # <<>> /\ Head(todo[g]) = s

\* The handler's last statement is followed by its answer.
Proceed(g) ==
  /\ todo' = [todo EXCEPT ![g] = Tail(@)]
  /\ answer' = [answer EXCEPT ![g] = IF Len(todo[g]) = 1 THEN "ok" ELSE @]
  /\ UNCHANGED <<vars, query>>

Refuse(g, outcome) ==
  /\ todo' = [todo EXCEPT ![g] = <<>>]
  /\ answer' = [answer EXCEPT ![g] = outcome]
  /\ UNCHANGED <<vars, query, seen>>

\* Predict refuses a league that has not come to PredictionsFromWeek.
TooEarly(g) == query[g].kind = "prediction" /\ league.week < PredictionsFromWeek

\* Leagues().GetByID, the first statement of every read of a league.
ReadLeague(g) ==
  /\ Executes(g, "league")
  /\ \/ league = Null /\ Refuse(g, "notfound")
     \/ league # Null /\ TooEarly(g) /\ Refuse(g, "conflict")
     \/ /\ league # Null
        /\ ~TooEarly(g)
        /\ seen' = [seen EXCEPT ![g].league = league]
        /\ Proceed(g)

\* Matches().ListByLeague, or ListByLeagueAndWeek for a week's detail.
ReadMatches(g) ==
  /\ Executes(g, "results")
  /\ seen' = [seen EXCEPT ![g].results =
                [m \in Matches |-> IF query[g].kind = "weekDetail" /\ WeekOf[m] # query[g].week
                                   THEN Null ELSE score[m]]]
  /\ Proceed(g)

\* Variant: the history is read one week after the other.
ReadSnapshotsByWeek(g) ==
  LET read == IF seen[g].tables = Null THEN NoSnapshots ELSE seen[g].tables
      left == {k \in Weeks : read[k] = Null /\ snap[k] # Null}
  IN
  /\ Executes(g, "tables")
  /\ \/ /\ left = {}
        /\ seen' = [seen EXCEPT ![g].tables = read]
        /\ Proceed(g)
     \/ /\ \E k \in left : seen' = [seen EXCEPT ![g].tables = [read EXCEPT ![k] = snap[k]]]
        /\ UNCHANGED <<vars, query, todo, answer>>

\* Snapshots().GetByWeek for a week's detail, ListHistory for the history:
\* one statement each.
ReadSnapshots(g) ==
  /\ Executes(g, "tables")
  /\ seen' = [seen EXCEPT ![g].tables =
                [k \in Weeks |-> IF query[g].kind = "weekDetail" /\ k # query[g].week
                                 THEN Null ELSE snap[k]]]
  /\ Proceed(g)

Read(g) == ReadLeague(g) \/ ReadMatches(g) \/ ReadSnapshots(g)

ReadNext ==
  \/ Next /\ UNCHANGED readVars
  \/ \E g \in Readers : Ask(g) \/ Read(g)

ReadSpec == ReadInit /\ [][ReadNext]_allVars

(***************************************************************************)
(* What the answers promise to a league that is still there.               *)
(***************************************************************************)
Answered(kind) == {g \in Readers : answer[g] = "ok" /\ query[g].kind = kind}

\* No request has asked for a reset.
NobodyResets == \A r \in Requests : op[r] = Null \/ op[r].kind # "reset"

\* Unless the league is reset, the matches of a prediction are never behind the
\* week it says it is for, whatever is played between its statements: every
\* match up to that week has a result (Predict reads the league first).
PredictionCoversItsWeek ==
  league # Null /\ NobodyResets =>
    \A g \in Answered("prediction"), m \in Matches :
      WeekOf[m] <= seen[g].league.week => seen[g].results[m] # Null

\* Unless the league is reset, a week whose matches are answered as played comes
\* with its table: it may be empty only "if the week has not been played yet"
\* (WeekDetail reads the matches before the snapshot).
PlayedWeekHasTable ==
  league # Null /\ NobodyResets =>
    \A g \in Answered("weekDetail") :
      (\E m \in Matches : seen[g].results[m] # Null)
        => seen[g].tables[query[g].week] # Null

\* A history is the history of one moment: it has the weeks from the first to
\* some week, and a match has the same result in all of their tables, though
\* edits rewrite several of them and a reset all (ListHistory is one statement).
HistoryOfOneMoment ==
  \A g \in Answered("history"), k \in Weeks :
    seen[g].tables[k] # Null =>
      \A i \in 1..k :
        /\ seen[g].tables[i] # Null
        /\ \A m \in InWeek(i) : seen[g].tables[i].table[m] = seen[g].tables[k].table[m]

\* "Once the league is finished it returns the actual final table"
\* (prediction_service.go): an answer that says finished, with a champion, is
\* computed from a result for every match.
FinishedMeansAllPlayed ==
  \A g \in Answered("prediction") :
    seen[g].league.status = "FINISHED" => \A m \in Matches : seen[g].results[m] # Null
=============================================================================
