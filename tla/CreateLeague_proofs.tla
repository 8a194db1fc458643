------------------------ MODULE CreateLeague_proofs ------------------------
(***************************************************************************)
(* For every even number of teams from four on, every shuffle and every    *)
(* list of ids: what POST /leagues leaves behind, and what it answers.     *)
(***************************************************************************)
EXTENDS CreateLeague, Fixtures_proofs, FiniteSetTheorems

\* The catalog has N teams, and listing it names each of them once.
LEMMA Catalog ==
  ASSUME NEW w \in Wheels
  PROVE  /\ Cardinality(Teams) = N
         /\ SetToSeq(Teams) \in [1..N -> Teams]
         /\ Len(SetToSeq(Teams)) = N
         /\ ToSet(SetToSeq(Teams)) \subseteq Teams
<1> DEFINE f == [i \in 1..N |-> w[i - 1]]
<1>1. /\ w \in [Indices -> Teams]
      /\ \A i, j \in Indices : w[i] = w[j] => i = j
      /\ \A t \in Teams : \E i \in Indices : w[i] = t
  BY DEF Wheels
<1>2. /\ N \in Nat
      /\ \A i \in 1..N : i - 1 \in Indices
      /\ \A i \in Indices : i + 1 \in 1..N /\ (i + 1) - 1 = i
      /\ \A i, j \in 1..N : i - 1 = j - 1 => i = j
  BY HalfAssumption DEF N, Indices
<1> HIDE DEF N, Indices
<1>3. f \in [1..N -> Teams] /\ \A a, b \in 1..N : f[a] = f[b] => a = b
  BY <1>1, <1>2
<1>4. \A t \in Teams : \E i \in 1..N : f[i] = t
  <2> SUFFICES ASSUME NEW t \in Teams PROVE \E i \in 1..N : f[i] = t
    OBVIOUS
  <2>1. PICK i \in Indices : w[i] = t
    BY <1>1
  <2>2. i + 1 \in 1..N /\ f[i + 1] = t
    BY <1>2, <2>1
  <2> QED BY <2>2
<1> HIDE DEF f
<1>5. f \in Bijection(1..N, Teams) /\ IsInjective(f)
  BY <1>3, <1>4 DEF Bijection, Injection, Surjection, IsInjective
<1>6. Cardinality(Teams) = N
  BY <1>2, <1>5, FS_CountingElements DEF ExistsBijection
<1>7. SetToSeq(Teams) \in [1..N -> Teams]
  BY <1>3, <1>5, <1>6 DEF SetToSeq
<1>8. DOMAIN SetToSeq(Teams) = 1..N /\ SetToSeq(Teams) \in Seq(Teams)
  BY <1>2, <1>7
<1>9. Len(SetToSeq(Teams)) = N /\ ToSet(SetToSeq(Teams)) \subseteq Teams
  BY <1>2, <1>7, <1>8 DEF ToSet
<1> QED BY <1>6, <1>7, <1>9

(***************************************************************************)
(* The inductive invariant.                                                *)
(***************************************************************************)
Running == {"insert", "generate", "commit"}

\* The ids that were accepted, and the league they were accepted for.
Accepted == ToSet(ids) \subseteq Teams /\ (~HasDuplicates(ids) => Len(ids) = N)

\* The rows of the transaction, without the matches.
Inserted ==
  /\ ~HasDuplicates(ids)
  /\ written.weeks = 2 * Rounds
  /\ written.members = ToSet(ids)
  /\ written \in LeagueRows

CInv ==
  /\ Unrolled /\ Inv
  /\ at \in Running \cup {"resolve", "done"}
  /\ at = "resolve" => ids \in Requested
  /\ at \in Running => Accepted
  /\ at \in {"generate", "commit"} => Inserted
  /\ at = "commit" => round = Rounds /\ written.matches = fixtures
  /\ at # "done" => stored = Null /\ result = "none"
  /\ StoredLeagueIsPlayable
  /\ OnlyRepeatsRefused
  /\ AnswerTellsWhatIsStored

\* The schedule's rows are rows of the matches table.
LEMMA ScheduleRows ==
  ASSUME Unrolled, TypeOK
  PROVE  fixtures \in SUBSET [week: 1..2 * Rounds, home: Teams, away: Teams]
<1> SUFFICES ASSUME NEW f \in fixtures
             PROVE  f \in [week: 1..2 * Rounds, home: Teams, away: Teams]
  OBVIOUS
<1>1. PICK w \in Wheels : fixtures = Schedule(w, round)
  BY DEF Unrolled
<1>2. PICK r \in 0..round - 1, p \in Indices : f = Meeting(Turned(w, r), r, p)
  BY <1>1, ScheduledMeeting DEF Unrolled
<1>3. f = [week |-> f.week, home |-> f.home, away |-> f.away]
  BY <1>2 DEF Meeting, Match
<1>4. f.week \in 1..2 * Rounds /\ f.home \in Teams /\ f.away \in Teams
  BY DEF TypeOK
<1> QED BY <1>3, <1>4

\* There is nothing yet.
LEMMA CreateInitInv == CreateInit => CInv
<1> SUFFICES ASSUME CreateInit PROVE CInv
  OBVIOUS
<1>1. Init
  BY DEF CreateInit
<1>2. Unrolled
  BY <1>1, InitUnrolled
<1>3. Inv
  BY <1>1, InitInv
<1> QED BY <1>2, <1>3
  DEF CreateInit, CInv, Running, StoredLeagueIsPlayable, OnlyRepeatsRefused,
      AnswerTellsWhatIsStored, Answer

\* A failed request has stored nothing.
LEMMA FailKeepsInv ==
  ASSUME CInv, at # "done", NEW error, Fail(error),
         \/ error \in {"invalid", "failed", "commit tx"}
         \/ error = "refused" /\ HasDuplicates(ids)
  PROVE  CInv'
<1>1. /\ at' = "done" /\ result' = error /\ ids' = ids /\ stored' = stored
      /\ stored = Null /\ UNCHANGED vars
  BY DEF Fail, CInv
<1>2. Unrolled' /\ Inv'
  BY <1>1 DEF vars, CInv, Unrolled, Inv, TypeOK, OnceAWeek
<1> QED BY <1>1, <1>2
  DEF CInv, Running, StoredLeagueIsPlayable, OnlyRepeatsRefused, AnswerTellsWhatIsStored, Answer

\* The schedule is not touched outside the generator.
LEMMA ScheduleKept ==
  ASSUME CInv, UNCHANGED vars PROVE Unrolled' /\ Inv'
BY DEF vars, CInv, Unrolled, Inv, TypeOK, OnceAWeek

LEMMA ResolveKeepsInv == ASSUME CInv, ResolveTeams PROVE CInv'
<1>1. at = "resolve" /\ ids \in Requested /\ stored = Null /\ result = "none"
  BY DEF ResolveTeams, CInv
<1>2. CASE Fail("invalid")
  BY <1>1, <1>2, FailKeepsInv
<1>3. CASE ~Fail("invalid")
  <2> DEFINE list == Resolved(ids)
  <2>1. /\ list # Null /\ IsPlayable(Len(list))
        /\ ids' = list /\ at' = "insert"
        /\ UNCHANGED <<vars, written, stored, result>>
    BY <1>3 DEF ResolveTeams
  <2>2. ToSet(list) \subseteq Teams /\ (~HasDuplicates(list) => Len(list) = N)
    <3>1. CASE ids = <<>>
      <4>1. \E w : w \in Wheels
        BY DEF CInv, Inv, TypeOK
      <4> QED BY <3>1, <4>1, Catalog DEF Resolved
    <3>2. CASE ids # <<>>
      <4>1. list = ids /\ ToSet(ids) \subseteq Teams
        BY <2>1, <3>2 DEF Resolved
      <4> QED BY <1>1, <2>1, <4>1, RequestedAssumption
    <3> QED BY <3>1, <3>2
  <2> HIDE DEF list
  <2>3. Accepted'
    BY <2>1, <2>2 DEF Accepted, HasDuplicates
  <2>4. Unrolled' /\ Inv'
    BY <2>1, ScheduleKept
  <2> QED BY <1>1, <2>1, <2>3, <2>4
    DEF CInv, Running, StoredLeagueIsPlayable, OnlyRepeatsRefused, AnswerTellsWhatIsStored, Answer
<1> QED BY <1>2, <1>3

LEMMA InsertKeepsInv == ASSUME CInv, InsertLeague PROVE CInv'
<1>1. at = "insert" /\ Accepted /\ stored = Null /\ result = "none"
  BY DEF InsertLeague, CInv, Running
<1>2. CASE Fail("refused") /\ HasDuplicates(ids)
  BY <1>1, <1>2, FailKeepsInv
<1>3. CASE ~(Fail("refused") /\ HasDuplicates(ids))
  <2>1. /\ ~HasDuplicates(ids)
        /\ written' = [NoRows EXCEPT !.weeks = TotalWeeks(Len(ids)), !.members = ToSet(ids)]
        /\ at' = "generate"
        /\ UNCHANGED <<vars, ids, stored, result>>
    BY <1>1, <1>3 DEF InsertLeague, Accepted
  <2>2. TotalWeeks(Len(ids)) = 2 * Rounds /\ 2 * Rounds \in Nat
    BY <1>1, <2>1, HalfAssumption DEF Accepted, TotalWeeks, Rounds, N
  <2>3. written' = [weeks |-> 2 * Rounds, members |-> ToSet(ids), matches |-> {}]
    BY <2>1, <2>2 DEF NoRows
  <2>4. Inserted'
    <3>1. written' \in LeagueRows
      BY <1>1, <2>2, <2>3 DEF LeagueRows, Accepted
    <3>2. ~HasDuplicates(ids)' /\ ToSet(ids)' = ToSet(ids)
      BY <2>1 DEF HasDuplicates
    <3> QED BY <2>3, <3>1, <3>2 DEF Inserted, LeagueRows, Rounds, N
  <2>5. Accepted'
    BY <1>1, <2>1 DEF Accepted, HasDuplicates
  <2>6. Unrolled' /\ Inv'
    BY <2>1, ScheduleKept
  <2> QED BY <1>1, <2>1, <2>4, <2>5, <2>6
    DEF CInv, Running, StoredLeagueIsPlayable, OnlyRepeatsRefused, AnswerTellsWhatIsStored, Answer
<1> QED BY <1>2, <1>3

LEMMA GenerateKeepsInv == ASSUME CInv, Generate PROVE CInv'
<1>1. /\ at = "generate" /\ Round /\ Unrolled /\ Inv /\ Accepted /\ Inserted
      /\ at' = at /\ ids' = ids /\ written' = written /\ stored' = stored /\ result' = result
  BY DEF Generate, request, CInv, Running
<1>2. Unrolled' /\ Inv'
  BY <1>1, RoundUnrolled, RoundKeepsInv
<1>3. Accepted' /\ Inserted'
  BY <1>1 DEF Accepted, Inserted, HasDuplicates, LeagueRows
<1> QED BY <1>1, <1>2, <1>3
  DEF CInv, Running, StoredLeagueIsPlayable, OnlyRepeatsRefused, AnswerTellsWhatIsStored, Answer

\* The schedule satisfies the table's constraints whatever the shuffle.
LEMMA FixturesKeepInv == ASSUME CInv, InsertFixtures PROVE CInv'
<1>1. /\ at = "generate" /\ Unrolled /\ Inv /\ Accepted /\ Inserted /\ round = Rounds
      /\ stored = Null /\ result = "none"
  BY DEF InsertFixtures, CInv, Running
<1>2. RowsDistinct /\ \A f \in fixtures : f.home # f.away
  BY <1>1, UnrolledRowsDistinct DEF Inv, OnceAWeek
<1>3. /\ written' = [written EXCEPT !.matches = fixtures]
      /\ at' = "commit"
      /\ UNCHANGED <<vars, ids, stored, result>>
  BY <1>2 DEF InsertFixtures
<1>4. written' = [weeks |-> 2 * Rounds, members |-> ToSet(ids), matches |-> fixtures]
  BY <1>1, <1>3 DEF Inserted, LeagueRows
<1>5. Inserted'
  <2>1. written' \in LeagueRows
    <3>1. 2 * Rounds \in Nat
      BY HalfAssumption DEF Rounds, N
    <3> QED BY <1>1, <1>4, <3>1, ScheduleRows DEF LeagueRows, Accepted, Inv
  <2>2. ~HasDuplicates(ids)' /\ ToSet(ids)' = ToSet(ids)
    BY <1>1, <1>3 DEF Inserted, HasDuplicates
  <2> QED BY <1>4, <2>1, <2>2 DEF Inserted, LeagueRows, Rounds, N
<1>6. Accepted'
  BY <1>1, <1>3 DEF Accepted, HasDuplicates
<1>7. Unrolled' /\ Inv'
  BY <1>3, ScheduleKept
<1>8. round' = Rounds /\ written'.matches = fixtures'
  BY <1>1, <1>3, <1>4 DEF vars
<1> QED BY <1>1, <1>3, <1>5, <1>6, <1>7, <1>8
  DEF CInv, Running, StoredLeagueIsPlayable, OnlyRepeatsRefused, AnswerTellsWhatIsStored, Answer

\* Every week of the season of 2 * Rounds weeks has been filled.
LEMMA CommitKeepsInv == ASSUME CInv, CommitLeague PROVE CInv'
<1>1. /\ at = "commit" /\ Unrolled /\ Inv /\ Accepted /\ Inserted
      /\ round = Rounds /\ written.matches = fixtures
  BY DEF CommitLeague, CInv, Running
<1>2. /\ stored' = written /\ at' = "done" /\ result' \in {"created", "commit tx"}
      /\ UNCHANGED <<vars, ids, written>>
  BY DEF CommitLeague
<1>3. stored' # Null
  BY <1>1, <1>2, RowsAssumption DEF Inserted
<1>4. WeeksFilled(Rounds) = 1..2 * Rounds
  BY HalfAssumption DEF WeeksFilled, Rounds, N
<1>5. StoredLeagueIsPlayable'
  <2>1. /\ stored'.weeks = 2 * Rounds /\ stored'.members \subseteq Teams
        /\ stored'.matches = fixtures
    BY <1>1, <1>2 DEF Inserted, Accepted
  <2>2. /\ \A f \in fixtures : f.week \in 1..2 * Rounds
        /\ \A w \in 1..2 * Rounds, t \in Teams :
             \E f \in fixtures :
               /\ f.week = w /\ Plays(f, t)
               /\ \A g \in fixtures : g.week = w /\ Plays(g, t) => g = f
    BY <1>1, <1>4 DEF Inv, TypeOK, OnceAWeek
  <2> QED BY <2>1, <2>2 DEF StoredLeagueIsPlayable, Plays
<1>6. Unrolled' /\ Inv'
  BY <1>2, ScheduleKept
<1> QED BY <1>2, <1>3, <1>5, <1>6
  DEF CInv, Running, OnlyRepeatsRefused, AnswerTellsWhatIsStored, Answer

\* Every request to create a league keeps its invariant.
THEOREM CreateInvariance == CreateSpec => []CInv
<1>1. CInv /\ [CreateNext]_<<vars, request>> => CInv'
  <2> SUFFICES ASSUME CInv, [CreateNext]_<<vars, request>> PROVE CInv'
    OBVIOUS
  <2>1. CASE UNCHANGED <<vars, request>>
    <3>1. Unrolled' /\ Inv'
      BY <2>1, ScheduleKept
    <3> QED BY <2>1, <3>1
      DEF request, vars, CInv, Running, Accepted, Inserted, HasDuplicates, LeagueRows,
          StoredLeagueIsPlayable, OnlyRepeatsRefused, AnswerTellsWhatIsStored, Answer
  <2>2. CASE StatementFails \/ CommitFails
    <3>1. at # "done" /\ \E error \in {"failed", "commit tx"} : Fail(error)
      BY <2>2 DEF StatementFails, CommitFails
    <3> QED BY <3>1, FailKeepsInv
  <2>3. CASE Done
    BY <2>1, <2>3 DEF Done
  <2> QED BY <2>1, <2>2, <2>3, ResolveKeepsInv, InsertKeepsInv, GenerateKeepsInv,
             FixturesKeepInv, CommitKeepsInv DEF CreateNext
<1> QED BY <1>1, CreateInitInv, PTL DEF CreateSpec

\* A stored league can be played, however its creation ended: every week has
\* exactly one match for each of its teams.
THEOREM StoredLeaguesArePlayable == CreateSpec => []StoredLeagueIsPlayable
<1>1. CInv => StoredLeagueIsPlayable
  BY DEF CInv
<1> QED BY <1>1, CreateInvariance, PTL

\* No shuffle and no list without duplicates makes the database refuse a row of
\* the league, of its memberships or of its schedule (schema.sql, resolveTeamIDs).
THEOREM OnlyRepeatsAreRefused == CreateSpec => []OnlyRepeatsRefused
<1>1. CInv => OnlyRepeatsRefused
  BY DEF CInv
<1> QED BY <1>1, CreateInvariance, PTL

\* A created league is stored; one that was refused or failed has left no rows,
\* unless it is COMMIT that failed (WithinTx).
THEOREM AnswersTellWhatIsStored == CreateSpec => []AnswerTellsWhatIsStored
<1>1. CInv => AnswerTellsWhatIsStored
  BY DEF CInv
<1> QED BY <1>1, CreateInvariance, PTL

\* The generator keeps its properties inside the transaction that creates the
\* league.
THEOREM SchedulesOfLeagues ==
  CreateSpec => [](TypeOK /\ OnceAWeek /\ NoPairTwice /\ DoubleRoundRobin)
<1>1. CInv => TypeOK /\ OnceAWeek /\ NoPairTwice /\ DoubleRoundRobin
  BY UnrolledPairsOnce, UnrolledPairsTwice DEF CInv, Inv
<1> QED BY <1>1, CreateInvariance, PTL

=============================================================================
