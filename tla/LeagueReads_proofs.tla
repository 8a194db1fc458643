------------------------- MODULE LeagueReads_proofs -------------------------
(***************************************************************************)
(* For every set of readers beside every set of requests: what the answer  *)
(* to a read promises though its statements see different moments.         *)
(***************************************************************************)
EXTENDS LeagueReads, Season_proofs

(***************************************************************************)
(* The league, whose requests do not know of the readers.                  *)
(***************************************************************************)

\* While nobody resets the league it is the season promised.  A league that
\* has been deleted has no snapshots.
LeagueInv ==
  /\ EInv
  /\ Fresh
  /\ NobodyResets => AInv
  /\ league = Null => snap = NoSnapshots

\* Who has not asked for a reset now had not asked for one before.
LEMMA NobodyReset ==
  ASSUME IInv, Fresh, [Next]_vars, NobodyResets' PROVE NobodyResets /\ Apart'
BY AskedStays DEF NobodyResets, Apart, Asked

LEMMA LeagueInvNext == LeagueInv /\ [Next]_vars => LeagueInv'
<1> SUFFICES ASSUME LeagueInv, [Next]_vars PROVE LeagueInv'
  OBVIOUS
<1>1. IInv /\ EInv /\ EInv' /\ Fresh'
  BY NextEInv, AskedStays DEF LeagueInv, EInv
<1>2. NobodyResets' => AInv'
  BY <1>1, NobodyReset, NextAInv DEF LeagueInv
<1>3. league' = Null => snap' = NoSnapshots
  <2>1. ASSUME NEW r \in Requests, Commit(r) PROVE league' # Null
    BY <1>1, <2>1, CommitPublishes, NullAssumption
  <2> QED BY <1>1, <2>1, RowsChange DEF LeagueInv, NoSnapshots
<1> QED BY <1>1, <1>2, <1>3 DEF LeagueInv

\* Without a reset a league that is still there has not gone back.
LEMMA NoWayBack ==
  ASSUME LeagueInv, [Next]_vars, NobodyResets', league' # Null
  PROVE  /\ league # Null /\ NobodyResets
         /\ league \in Leagues /\ league' \in Leagues
         /\ league.week <= league'.week
<1>1. IInv /\ EInv /\ IInv' /\ BackStep /\ NobodyResets
  BY NextEInv, StepsAllowed, NobodyReset DEF LeagueInv, EInv
<1>2. league # Null
  <2>1. ASSUME NEW r \in Requests, Commit(r) PROVE league # Null
    BY <1>1, <2>1, CommitPublishes
  <2> QED BY <1>1, <2>1, RowsChange
<1>3. league \in Leagues /\ league' \in Leagues
  BY <1>1, <1>2 DEF IInv, TypeOK, RowTypes
<1>4. league.week \in Nat /\ league'.week \in Nat
  BY <1>3, ConstantsAssumption DEF Leagues
<1>5. ~(league'.week < league.week)
  <2> SUFFICES ASSUME league'.week < league.week PROVE FALSE
    OBVIOUS
  <2>1. PICK r \in Requests : pc[r] = "commit" /\ op[r].kind = "reset"
    BY <1>1, <1>2 DEF BackStep
  <2>2. op[r] # Null
    BY <1>1, <2>1, NullAssumption DEF IInv, Locking
  <2> QED BY <1>1, <2>1, <2>2 DEF NobodyResets
<1> QED BY <1>1, <1>2, <1>3, <1>4, <1>5

(***************************************************************************)
(* The readers.                                                            *)
(***************************************************************************)

\* The statements a handler of this kind may still have to execute.
Remaining(kind) ==
  IF kind = "weekDetail"
  THEN {<<"league", "results", "tables">>, <<"results", "tables">>, <<"tables">>, <<>>}
  ELSE IF kind = "history" THEN {<<"league", "tables">>, <<"tables">>, <<>>}
  ELSE {<<"league", "results">>, <<"results">>, <<>>}

GatherType == [league: Leagues \cup {Null}, results: Results \cup {Null},
               tables: [Weeks -> Snapshots \cup {Null}] \cup {Null}]

\* A handler executes its statements one after the other.
LEMMA Executing ==
  ASSUME NEW kind, NEW s \in Remaining(kind), s # <<>>
  PROVE  /\ Tail(s) \in Remaining(kind)
         /\ Len(s) = 1 <=> Tail(s) = <<>>
         /\ kind \in {"prediction", "standings"} =>
              \/ Head(s) = "league" /\ Tail(s) = <<"results">> /\ Len(s) = 2
              \/ Head(s) = "results" /\ Tail(s) = <<>>
         /\ kind = "history" =>
              \/ Head(s) = "league" /\ Tail(s) = <<"tables">> /\ Len(s) = 2
              \/ Head(s) = "tables" /\ Tail(s) = <<>>
         /\ kind = "weekDetail" =>
              \/ Head(s) = "league" /\ Tail(s) = <<"results", "tables">> /\ Len(s) = 3
              \/ Head(s) = "results" /\ Tail(s) = <<"tables">> /\ Len(s) = 2
              \/ Head(s) = "tables" /\ Tail(s) = <<>>
<1>1. /\ Tail(<<"league", "results", "tables">>) = <<"results", "tables">>
      /\ Tail(<<"league", "results">>) = <<"results">>
      /\ Tail(<<"league", "tables">>) = <<"tables">>
      /\ Tail(<<"results", "tables">>) = <<"tables">>
      /\ Tail(<<"results">>) = <<>> /\ Tail(<<"tables">>) = <<>>
  OBVIOUS
<1>2. <<"results">> # <<>> /\ <<"tables">> # <<>> /\ <<"results", "tables">> # <<>>
  OBVIOUS
<1>3. /\ Len(<<"league", "results", "tables">>) = 3 /\ Len(<<"league", "results">>) = 2
      /\ Len(<<"league", "tables">>) = 2 /\ Len(<<"results", "tables">>) = 2
      /\ Len(<<"results">>) = 1 /\ Len(<<"tables">>) = 1
  OBVIOUS
<1>4. /\ Head(<<"league", "results", "tables">>) = "league"
      /\ Head(<<"league", "results">>) = "league"
      /\ Head(<<"league", "tables">>) = "league"
      /\ Head(<<"results", "tables">>) = "results"
      /\ Head(<<"results">>) = "results" /\ Head(<<"tables">>) = "tables"
  OBVIOUS
<1>5. CASE kind = "weekDetail"
  <2>1. s \in {<<"league", "results", "tables">>, <<"results", "tables">>, <<"tables">>}
    BY <1>5 DEF Remaining
  <2>2. CASE s = <<"league", "results", "tables">>
    BY <1>1, <1>2, <1>3, <1>4, <1>5, <2>2 DEF Remaining
  <2>3. CASE s = <<"results", "tables">>
    BY <1>1, <1>2, <1>3, <1>4, <1>5, <2>3 DEF Remaining
  <2>4. CASE s = <<"tables">>
    BY <1>1, <1>2, <1>3, <1>4, <1>5, <2>4 DEF Remaining
  <2> QED BY <2>1, <2>2, <2>3, <2>4
<1>6. CASE kind = "history"
  <2>1. CASE s = <<"league", "tables">>
    BY <1>1, <1>2, <1>3, <1>4, <1>6, <2>1 DEF Remaining
  <2>2. CASE s = <<"tables">>
    BY <1>1, <1>2, <1>3, <1>4, <1>6, <2>2 DEF Remaining
  <2> QED BY <1>6, <2>1, <2>2 DEF Remaining
<1>7. CASE kind \notin {"weekDetail", "history"}
  <2>1. CASE s = <<"league", "results">>
    BY <1>1, <1>2, <1>3, <1>4, <1>7, <2>1 DEF Remaining
  <2>2. CASE s = <<"results">>
    BY <1>1, <1>2, <1>3, <1>4, <1>7, <2>2 DEF Remaining
  <2> QED BY <1>7, <2>1, <2>2 DEF Remaining
<1> QED BY <1>5, <1>6, <1>7

\* The variables of the readers.
ReadersType ==
  /\ query \in [Readers -> Queries \cup {Null}]
  /\ DOMAIN todo = Readers
  /\ seen \in [Readers -> GatherType]
  /\ DOMAIN answer = Readers

\* How far a handler has come.
ReaderState(g) ==
  /\ query[g] = Null => todo[g] = <<>> /\ answer[g] = "none"
  /\ query[g] # Null => todo[g] \in Remaining(query[g].kind)
  /\ answer[g] = "ok" => todo[g] = <<>>

\* No request has taken the league back, nor will one.
Standing == league # Null /\ NobodyResets

\* Between its statements the league a prediction has read can only advance.
PredictionSoFar(g) ==
  query[g] # Null /\ query[g].kind = "prediction" =>
    /\ Executes(g, "results") => seen[g].league \in Leagues
    /\ Executes(g, "results") /\ Standing => seen[g].league.week <= league.week
    /\ answer[g] = "ok" /\ Standing =>
         \A m \in Matches : WeekOf[m] <= seen[g].league.week => seen[g].results[m] # Null

\* A week whose matches were played when they were read still is.
WeekSoFar(g) ==
  /\ query[g] # Null /\ query[g].kind = "weekDetail"
  /\ Standing
  /\ \E m \in Matches : seen[g].results[m] # Null
  => /\ Executes(g, "tables") => query[g].week <= league.week
     /\ answer[g] = "ok" => seen[g].tables[query[g].week] # Null

\* A history that was read in one statement is the history of that moment.
HistorySoFar(g) ==
  query[g] # Null /\ query[g].kind = "history" /\ answer[g] = "ok" =>
    \A k \in Weeks :
      seen[g].tables[k] # Null =>
        \A i \in 1..k :
          /\ seen[g].tables[i] # Null
          /\ \A m \in InWeek(i) : seen[g].tables[i].table[m] = seen[g].tables[k].table[m]

SoFar(g) == ReaderState(g) /\ PredictionSoFar(g) /\ WeekSoFar(g) /\ HistorySoFar(g)

RInv == LeagueInv /\ ReadersType /\ \A g \in Readers : SoFar(g)

\* A step of the requests leaves what was read and what it is worth.
LEMMA RequestStep ==
  ASSUME RInv, [Next]_vars, UNCHANGED readVars PROVE RInv'
<1>1. LeagueInv' /\ query' = query /\ todo' = todo /\ seen' = seen /\ answer' = answer
  BY LeagueInvNext DEF RInv, readVars
<1>2. Standing' => /\ Standing /\ league \in Leagues /\ league' \in Leagues
                   /\ league.week <= league'.week
  BY NoWayBack DEF RInv, Standing
<1>3. ASSUME NEW g \in Readers PROVE SoFar(g)'
  <2>1. ReaderState(g) /\ PredictionSoFar(g) /\ WeekSoFar(g) /\ HistorySoFar(g)
    BY DEF RInv, SoFar
  <2>2. ReaderState(g)'
    BY <1>1, <2>1 DEF ReaderState
  <2>3. PredictionSoFar(g)'
    <3>1. ASSUME Standing', seen[g].league \in Leagues, seen[g].league.week <= league.week
          PROVE  seen[g].league.week <= league'.week
      BY <1>2, <3>1, ConstantsAssumption DEF Leagues
    <3> QED BY <1>1, <1>2, <2>1, <3>1 DEF PredictionSoFar, Executes
  <2>4. WeekSoFar(g)'
    <3>1. ASSUME Standing', NEW w \in Weeks, w <= league.week PROVE w <= league'.week
      BY <1>2, <3>1, ConstantsAssumption DEF Leagues, Weeks
    <3>2. query[g] # Null /\ query[g].kind = "weekDetail" => query[g].week \in Weeks
      BY DEF RInv, ReadersType, Queries
    <3> QED BY <1>1, <1>2, <2>1, <3>1, <3>2 DEF WeekSoFar, Executes
  <2>5. HistorySoFar(g)'
    BY <1>1, <2>1 DEF HistorySoFar
  <2> QED BY <2>2, <2>3, <2>4, <2>5 DEF SoFar
<1> QED BY <1>1, <1>3 DEF RInv, ReadersType

\* A reader disturbs neither the league nor another reader.
LEMMA OtherReaders ==
  ASSUME RInv, NEW g \in Readers, Ask(g) \/ Read(g)
  PROVE  /\ UNCHANGED vars
         /\ LeagueInv' /\ Standing' = Standing
         /\ DOMAIN todo' = Readers /\ DOMAIN answer' = Readers
         /\ \A q \in Readers \ {g} : SoFar(q)'
<1>1. UNCHANGED vars
  BY DEF Ask, Read, ReadLeague, ReadMatches, ReadSnapshots, Proceed, Refuse
<1>2. LeagueInv'
  BY <1>1, LeagueInvNext DEF RInv
<1>3. Standing' = Standing /\ UNCHANGED <<league, op>>
  BY <1>1 DEF Standing, NobodyResets, vars
<1>4. /\ DOMAIN todo' = Readers /\ DOMAIN answer' = Readers
      /\ \A q \in Readers \ {g} : /\ query'[q] = query[q] /\ todo'[q] = todo[q]
                                  /\ seen'[q] = seen[q] /\ answer'[q] = answer[q]
  BY DEF Ask, Read, ReadLeague, ReadMatches, ReadSnapshots, Proceed, Refuse, RInv, ReadersType
<1>5. ASSUME NEW q \in Readers \ {g} PROVE SoFar(q)'
  BY <1>3, <1>4
  DEF RInv, SoFar, ReaderState, PredictionSoFar, WeekSoFar, HistorySoFar, Executes
<1> QED BY <1>1, <1>2, <1>3, <1>4, <1>5

\* A handler that starts has read nothing.
LEMMA AskStep ==
  ASSUME RInv, NEW g \in Readers, Ask(g) PROVE SoFar(g)' /\ ReadersType'
<1>1. PICK q \in Queries : /\ query' = [query EXCEPT ![g] = q]
                           /\ todo' = [todo EXCEPT ![g] = Statements(q.kind)]
  BY DEF Ask
<1>2. /\ query'[g] = q /\ todo'[g] = Statements(q.kind) /\ seen' = seen /\ answer' = answer
      /\ query[g] = Null /\ answer[g] = "none" /\ q # Null
  BY <1>1, ReadersAssumption DEF Ask, RInv, ReadersType, SoFar, ReaderState
<1>3. /\ Statements(q.kind) \in Remaining(q.kind)
      /\ Head(Statements(q.kind)) = "league"
  <2>1. /\ Head(<<"league", "results", "tables">>) = "league"
        /\ Head(<<"league", "results">>) = "league"
        /\ Head(<<"league", "tables">>) = "league"
    OBVIOUS
  <2> QED BY <2>1 DEF Statements, Remaining
<1>4. ReadersType'
  BY <1>1, <1>2 DEF RInv, ReadersType
<1> QED
  BY <1>2, <1>3, <1>4
  DEF SoFar, ReaderState, PredictionSoFar, WeekSoFar, HistorySoFar, Executes

\* What Proceed leaves to do.
LEMMA Proceeding ==
  ASSUME RInv, NEW g \in Readers, todo[g] # <<>>, Proceed(g),
         NEW s, seen' = [seen EXCEPT ![g] = s], s \in GatherType
  PROVE  /\ ReadersType' /\ ReaderState(g)'
         /\ query'[g] = query[g] /\ seen'[g] = s /\ todo'[g] = Tail(todo[g])
         /\ query[g] \in Queries /\ query[g] # Null
         /\ todo[g] \in Remaining(query[g].kind)
         /\ answer'[g] = "ok" => Tail(todo[g]) = <<>>
<1>1. query[g] \in Queries /\ query[g] # Null /\ todo[g] \in Remaining(query[g].kind)
      /\ answer[g] # "ok"
  BY DEF RInv, ReadersType, SoFar, ReaderState
<1>2. Tail(todo[g]) \in Remaining(query[g].kind) /\ (Len(todo[g]) = 1 <=> Tail(todo[g]) = <<>>)
  BY <1>1, Executing
<1>3. ReadersType'
  BY DEF Proceed, RInv, ReadersType
<1>4. /\ query'[g] = query[g] /\ seen'[g] = s /\ todo'[g] = Tail(todo[g])
      /\ answer'[g] = IF Len(todo[g]) = 1 THEN "ok" ELSE answer[g]
  BY DEF Proceed, RInv, ReadersType
<1>5. ReaderState(g)'
  BY <1>1, <1>2, <1>4 DEF ReaderState
<1> QED BY <1>1, <1>2, <1>3, <1>4, <1>5

\* The league, as a handler reads it.
LEMMA ReadLeagueStep ==
  ASSUME RInv, NEW g \in Readers, ReadLeague(g) PROVE SoFar(g)' /\ ReadersType'
<1>1. todo[g] # <<>> /\ Head(todo[g]) = "league"
  BY DEF ReadLeague, Executes
<1>2. query[g] \in Queries /\ query[g] # Null /\ todo[g] \in Remaining(query[g].kind)
      /\ answer[g] # "ok" /\ seen[g] \in GatherType
  BY <1>1 DEF RInv, ReadersType, SoFar, ReaderState
<1>3. CASE \E outcome \in {"notfound", "conflict"} : Refuse(g, outcome)
  <2>1. /\ query'[g] = query[g] /\ seen' = seen /\ todo'[g] = <<>>
        /\ answer'[g] \in {"notfound", "conflict"} /\ ReadersType'
    BY <1>3 DEF Refuse, RInv, ReadersType
  <2>2. <<>> \in Remaining(query[g].kind)
    BY DEF Remaining
  <2> QED
    BY <1>2, <2>1, <2>2
    DEF SoFar, ReaderState, PredictionSoFar, WeekSoFar, HistorySoFar, Executes
<1>4. CASE league # Null /\ Proceed(g) /\ seen' = [seen EXCEPT ![g].league = league]
  <2> DEFINE s == [seen[g] EXCEPT !.league = league]
  <2>1. /\ league \in Leagues /\ league' = league
        /\ seen' = [seen EXCEPT ![g] = s]
    BY <1>4 DEF Proceed, vars, RInv, ReadersType, LeagueInv, EInv, IInv, TypeOK, RowTypes
  <2>2. s \in GatherType /\ s.league = league
    BY <1>2, <2>1 DEF GatherType
  <2> HIDE DEF s
  <2>3. /\ ReadersType' /\ ReaderState(g)'
        /\ query'[g] = query[g] /\ seen'[g] = s /\ todo'[g] = Tail(todo[g])
        /\ answer'[g] = "ok" => Tail(todo[g]) = <<>>
    BY <1>1, <1>4, <2>1, <2>2, Proceeding
  <2>4. query[g].kind \in {"weekDetail", "standings", "prediction", "history"}
    BY <1>2 DEF Queries
  <2>5. /\ <<"results">> # <<>> /\ <<"tables">> # <<>>
        /\ <<"results", "tables">> # <<>> /\ Head(<<"results", "tables">>) = "results"
    OBVIOUS
  <2>6. answer'[g] # "ok"
    BY <1>1, <1>2, <2>3, <2>4, <2>5, Executing
  <2>7. query[g].kind = "weekDetail" => Head(todo'[g]) = "results"
    BY <1>1, <1>2, <2>3, <2>5, Executing
  <2>8. league.week <= league.week
    BY <2>1, ConstantsAssumption DEF Leagues
  <2>9. PredictionSoFar(g)' /\ WeekSoFar(g)' /\ HistorySoFar(g)'
    BY <2>1, <2>2, <2>3, <2>6, <2>7, <2>8
    DEF PredictionSoFar, WeekSoFar, HistorySoFar, Executes
  <2> QED BY <2>3, <2>9 DEF SoFar
<1> QED BY <1>3, <1>4 DEF ReadLeague

\* The results, as a handler reads them.
LEMMA ReadMatchesStep ==
  ASSUME RInv, NEW g \in Readers, ReadMatches(g) PROVE SoFar(g)' /\ ReadersType'
<1> DEFINE kind == query[g].kind
           read == [m \in Matches |-> IF kind = "weekDetail" /\ WeekOf[m] # query[g].week
                                      THEN Null ELSE score[m]]
           s == [seen[g] EXCEPT !.results = read]
<1>1. /\ todo[g] # <<>> /\ Head(todo[g]) = "results" /\ Proceed(g)
      /\ UNCHANGED vars
      /\ seen[g] \in GatherType
      /\ seen' = [seen EXCEPT ![g] = s]
  BY DEF ReadMatches, Executes, Proceed, RInv, ReadersType
<1>2. score \in [Matches -> Scores \cup {Null}]
  BY DEF RInv, LeagueInv, EInv, IInv, TypeOK, RowTypes, Results
<1>3. read \in Results /\ \A m \in Matches : read[m] # Null => read[m] = score[m]
  BY <1>2 DEF Results
<1>4. /\ s \in GatherType /\ s.league = seen[g].league /\ s.results = read
  <2> HIDE DEF read
  <2> QED BY <1>1, <1>3 DEF GatherType
<1> HIDE DEF s
<1>5. /\ ReadersType' /\ ReaderState(g)'
      /\ query'[g] = query[g] /\ seen'[g] = s /\ todo'[g] = Tail(todo[g])
      /\ query[g] \in Queries /\ query[g] # Null /\ todo[g] \in Remaining(kind)
      /\ answer'[g] = "ok" => Tail(todo[g]) = <<>>
  BY <1>1, <1>4, Proceeding
<1>6. Standing' = Standing /\ league' = league
  BY <1>1 DEF Standing, NobodyResets, vars
<1>7. /\ Head(<<"tables">>) = "tables" /\ <<"tables">> # <<>>
  OBVIOUS
<1>8. PredictionSoFar(g)'
  <2> SUFFICES ASSUME kind = "prediction" PROVE PredictionSoFar(g)'
    BY <1>5 DEF PredictionSoFar
  <2>1. todo'[g] = <<>> /\ read = score
    BY <1>1, <1>2, <1>5, Executing
  <2>2. ASSUME Standing, NEW m \in Matches, WeekOf[m] <= seen[g].league.week
        PROVE  score[m] # Null
    <3>1. /\ seen[g].league \in Leagues /\ seen[g].league.week <= league.week
          /\ query[g] # Null
      BY <1>1, <1>5, <2>2 DEF RInv, SoFar, PredictionSoFar, Executes
    <3>2. /\ league \in Leagues /\ PlayedThrough(league, score)
      BY <2>2 DEF Standing, RInv, LeagueInv, EInv, IInv, TypeOK, RowTypes, PlayedThroughWeek
    <3>3. WeekOf[m] <= league.week
      BY <2>2, <3>1, <3>2, ConstantsAssumption DEF Leagues, Weeks
    <3> QED BY <3>2, <3>3 DEF PlayedThrough
  <2> QED BY <1>4, <1>5, <1>6, <2>1, <2>2 DEF PredictionSoFar, Executes
<1>9. WeekSoFar(g)'
  <2> SUFFICES ASSUME kind = "weekDetail", Standing, NEW m \in Matches, read[m] # Null
               PROVE  answer'[g] # "ok" /\ query[g].week <= league.week
    BY <1>4, <1>5, <1>6 DEF WeekSoFar
  <2>1. answer'[g] # "ok"
    BY <1>1, <1>5, <1>7, Executing
  <2>2. WeekOf[m] = query[g].week /\ score[m] # Null
    BY <1>3
  <2>3. Closed(league, score, snap) /\ league \in Leagues
    BY DEF Standing, RInv, LeagueInv, AInv, EInv, IInv, TypeOK, RowTypes
  <2> QED BY <2>1, <2>2, <2>3, ConstantsAssumption DEF Closed, Leagues, Weeks
<1>10. HistorySoFar(g)'
  BY <1>1, <1>5, Executing DEF HistorySoFar
<1> QED BY <1>5, <1>8, <1>9, <1>10 DEF SoFar

\* The snapshots, as a handler reads them.
LEMMA ReadSnapshotsStep ==
  ASSUME RInv, NEW g \in Readers, ReadSnapshots(g) PROVE SoFar(g)' /\ ReadersType'
<1> DEFINE kind == query[g].kind
           read == [k \in Weeks |-> IF kind = "weekDetail" /\ k # query[g].week
                                    THEN Null ELSE snap[k]]
           s == [seen[g] EXCEPT !.tables = read]
<1>1. /\ todo[g] # <<>> /\ Head(todo[g]) = "tables" /\ Proceed(g)
      /\ UNCHANGED vars
      /\ seen[g] \in GatherType
      /\ seen' = [seen EXCEPT ![g] = s]
  BY DEF ReadSnapshots, Executes, Proceed, RInv, ReadersType
<1>2. snap \in [Weeks -> Snapshots \cup {Null}]
  BY DEF RInv, LeagueInv, EInv, IInv, TypeOK, RowTypes
<1>3. read \in [Weeks -> Snapshots \cup {Null}]
  BY <1>2
<1>4. /\ s \in GatherType /\ s.results = seen[g].results /\ s.tables = read
  <2> HIDE DEF read
  <2> QED BY <1>1, <1>3 DEF GatherType
<1> HIDE DEF s
<1>5. /\ ReadersType' /\ ReaderState(g)'
      /\ query'[g] = query[g] /\ seen'[g] = s /\ todo'[g] = Tail(todo[g])
      /\ query[g] \in Queries /\ query[g] # Null /\ todo[g] \in Remaining(kind)
      /\ answer'[g] = "ok" => Tail(todo[g]) = <<>>
  BY <1>1, <1>4, Proceeding
<1>6. Standing' = Standing /\ league' = league
  BY <1>1 DEF Standing, NobodyResets, vars
<1>7. league # Null => Agree(league, score, snap) /\ league \in Leagues
  BY DEF RInv, LeagueInv, EInv, IInv, SnapshotsAgree, TypeOK, RowTypes
<1>8. PredictionSoFar(g)'
  BY <1>1, <1>5, Executing DEF PredictionSoFar
<1>9. WeekSoFar(g)'
  <2> SUFFICES ASSUME kind = "weekDetail", Standing,
                      \E m \in Matches : seen[g].results[m] # Null
               PROVE  todo'[g] = <<>> /\ read[query[g].week] # Null
    BY <1>4, <1>5, <1>6 DEF WeekSoFar, Executes
  <2>1. todo'[g] = <<>>
    BY <1>1, <1>5, Executing
  <2>2. query[g].week \in Weeks /\ query[g].week <= league.week
    BY <1>1, <1>5 DEF RInv, SoFar, WeekSoFar, Executes, Queries
  <2> QED BY <1>7, <2>1, <2>2 DEF Standing, Agree
<1>10. HistorySoFar(g)'
  <2> SUFFICES ASSUME kind = "history", NEW k \in Weeks, read[k] # Null, NEW i \in 1..k
               PROVE  /\ read[i] # Null
                      /\ \A m \in InWeek(i) : read[i].table[m] = read[k].table[m]
    <3> HIDE DEF read
    <3> QED BY <1>4, <1>5 DEF HistorySoFar
  <2>1. i \in Weeks /\ i <= k
    BY ConstantsAssumption DEF Weeks
  <2>2. read[k] = snap[k] /\ read[i] = snap[i]
    BY <2>1
  <2>3. league # Null
    BY <2>2 DEF RInv, LeagueInv, NoSnapshots
  <2>4. k <= league.week /\ i <= league.week
    BY <1>7, <2>1, <2>2, <2>3, ConstantsAssumption DEF Agree, Weeks, Leagues
  <2> QED BY <1>7, <2>1, <2>2, <2>3, <2>4, ConstantsAssumption DEF Agree, InWeek, Weeks
<1> QED BY <1>5, <1>8, <1>9, <1>10 DEF SoFar

\* What is read is worth what it promises, whatever happens in between.
THEOREM ReadInvariance == ReadSpec => []RInv
<1>1. ReadInit => RInv
  <2> SUFFICES ASSUME ReadInit PROVE RInv
    OBVIOUS
  <2>1. EInv /\ AInv /\ Fresh /\ league # Null
    <3>1. Init /\ EInv /\ AInv
      BY InitEInv, InitAInv DEF ReadInit
    <3>2. league # Null
      <4>1. PICK w \in 0..TotalWeeks : league = SavedLeague(w)
        BY <3>1 DEF Init
      <4>2. SavedLeague(w) \in Leagues
        BY ConstantsAssumption DEF SavedLeague, StatusForWeek, Leagues, Statuses
      <4> QED BY <4>1, <4>2, NullAssumption
    <3> QED BY <3>1, <3>2 DEF AInv
  <2>2. NothingSeen \in GatherType
    BY DEF NothingSeen, GatherType
  <2> QED
    BY <2>1, <2>2
    DEF ReadInit, RInv, LeagueInv, ReadersType, SoFar, ReaderState, PredictionSoFar,
        WeekSoFar, HistorySoFar
<1>2. RInv /\ [ReadNext]_allVars => RInv'
  <2> SUFFICES ASSUME RInv, [ReadNext]_allVars PROVE RInv'
    OBVIOUS
  <2>1. CASE [Next]_vars /\ UNCHANGED readVars
    BY <2>1, RequestStep
  <2>2. ASSUME NEW g \in Readers, Ask(g) \/ Read(g) PROVE RInv'
    <3>1. SoFar(g)' /\ ReadersType'
      BY <2>2, AskStep, ReadLeagueStep, ReadMatchesStep, ReadSnapshotsStep DEF Read
    <3>2. LeagueInv' /\ \A q \in Readers \ {g} : SoFar(q)'
      BY <2>2, OtherReaders
    <3> QED BY <3>1, <3>2 DEF RInv
  <2> QED BY <2>1, <2>2 DEF ReadNext, allVars
<1> QED BY <1>1, <1>2, PTL DEF ReadSpec

\* Unless the league is reset, a prediction has a result for every match up to
\* the week it speaks of (Predict reads the league first).
THEOREM PredictionsCoverTheirWeek == ReadSpec => []PredictionCoversItsWeek
<1>1. RInv => PredictionCoversItsWeek
  BY ReadersAssumption
  DEF RInv, SoFar, ReaderState, PredictionSoFar, PredictionCoversItsWeek, Answered, Standing
<1> QED BY <1>1, ReadInvariance, PTL

\* Unless the league is reset, a week answered as played comes with its table
\* (WeekDetail reads the matches before the snapshot).
THEOREM PlayedWeeksHaveTables == ReadSpec => []PlayedWeekHasTable
<1>1. RInv => PlayedWeekHasTable
  BY DEF RInv, SoFar, ReaderState, WeekSoFar, PlayedWeekHasTable, Answered, Standing
<1> QED BY <1>1, ReadInvariance, PTL

\* A history is the history of one moment (ListHistory is one statement).
THEOREM HistoriesOfOneMoment == ReadSpec => []HistoryOfOneMoment
<1>1. RInv => HistoryOfOneMoment
  BY DEF RInv, SoFar, ReaderState, HistorySoFar, HistoryOfOneMoment, Answered
<1> QED BY <1>1, ReadInvariance, PTL

=============================================================================
