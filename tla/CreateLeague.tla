---------------------------- MODULE CreateLeague ----------------------------
(***************************************************************************)
(* POST /leagues: LeagueService.CreateLeague with its fixture generator.   *)
(*                                                                         *)
(* The team ids are resolved against the catalog in a statement of its     *)
(* own; then one transaction inserts the league, its memberships, whose    *)
(* primary key refuses an id that is there twice, and the schedule that    *)
(* Fixtures generates round by round.  Its rows are published by its       *)
(* commit, and dropped when it fails.  Any statement may fail, as it does   *)
(* when the client has gone away and its context is cancelled.             *)
(*                                                                         *)
(* The catalog is the teams of Fixtures, so the leagues are those of all   *)
(* its teams: a league of some of them is the instance of a smaller        *)
(* catalog.                                                                *)
(*                                                                         *)
(* A definition marked Variant is its successor with a plausible mistake;  *)
(* no specification uses it.                                               *)
(***************************************************************************)
EXTENDS Fixtures, SequencesExt

CONSTANTS
  Requested,  \* the lists of team ids that clients send, empty for all teams
  Null        \* no rows

HasDuplicates(list) == Cardinality(ToSet(list)) < Len(list)
IsPlayable(n) == n >= 4 /\ n % 2 = 0

ASSUME RequestedAssumption ==
  \A list \in Requested :
    ToSet(list) \subseteq Teams /\ IsPlayable(Len(list)) /\ ~HasDuplicates(list)
      => Len(list) = N

\* A leagues row with its weeks, its league_teams and its matches.
LeagueRows ==
  [weeks: Nat, members: SUBSET Teams,
   matches: SUBSET [week: 1..2 * Rounds, home: Teams, away: Teams]]

NoRows == [weeks |-> 0, members |-> {}, matches |-> {}]

ASSUME RowsAssumption == Null \notin LeagueRows

VARIABLES
  at,       \* the part of CreateLeague that comes next
  ids,      \* the team ids, requested and then resolved
  written,  \* the rows the transaction has inserted
  stored,   \* the rows of the league that are committed, Null if there are none
  result    \* what CreateLeague returns: a league, or which kind of error

request == <<at, ids, written, stored, result>>

CreateInit ==
  /\ Init
  /\ at = "resolve"
  /\ ids \in Requested
  /\ written = NoRows
  /\ stored = Null
  /\ result = "none"

\* CreateLeague returns: the transaction, if there is one, is rolled back.
Fail(error) ==
  /\ at' = "done"
  /\ written' = NoRows
  /\ result' = error
  /\ UNCHANGED <<vars, ids, stored>>

\* Variant: the explicit ids are taken as they are.
ResolvedUnchecked(list) == IF list = <<>> THEN SetToSeq(Teams) ELSE list

\* resolveTeamIDs: no ids mean the whole catalog; every id must be in it, Null
\* otherwise.
Resolved(list) ==
  IF list = <<>> THEN SetToSeq(Teams)
  ELSE IF ToSet(list) \subseteq Teams THEN list ELSE Null

\* The checks that come before the transaction.
ResolveTeams ==
  LET list == Resolved(ids)
      accepted == list # Null /\ IsPlayable(Len(list))
  IN
  /\ at = "resolve"
  /\ \/ ~accepted /\ Fail("invalid")
     \/ /\ accepted
        /\ ids' = list
        /\ at' = "insert"
        /\ UNCHANGED <<vars, written, stored, result>>

\* Variant: a single round-robin's weeks.
TotalWeeksOnce(n) == n - 1

TotalWeeks(n) == 2 * (n - 1)

\* Variant: the league is inserted through the pool, not the transaction.
InsertLeagueOutside ==
  /\ at = "insert"
  /\ stored' = [NoRows EXCEPT !.weeks = TotalWeeks(Len(ids)), !.members = ToSet(ids)]
  /\ written' = stored'
  /\ at' = "generate"
  /\ UNCHANGED <<vars, ids, result>>

\* Leagues().Create: the keys of league_teams refuse a repeated or unknown id.
InsertLeague ==
  /\ at = "insert"
  /\ LET accepted == ~HasDuplicates(ids) /\ ToSet(ids) \subseteq Teams IN
     \/ ~accepted /\ Fail("refused")
     \/ /\ accepted
        /\ written' = [NoRows EXCEPT !.weeks = TotalWeeks(Len(ids)), !.members = ToSet(ids)]
        /\ at' = "generate"
        /\ UNCHANGED <<vars, ids, stored, result>>

\* The fixture generator at work.
Generate ==
  /\ at = "generate"
  /\ Round
  /\ UNCHANGED request

\* Matches().BulkCreate: the whole schedule in one statement, which fails on a
\* row that is there twice (matches_unique_fixture) or a team that meets itself.
InsertFixtures ==
  /\ at = "generate"
  /\ round = Rounds
  /\ LET accepted == RowsDistinct /\ \A f \in fixtures : f.home # f.away IN
     \/ ~accepted /\ Fail("refused")
     \/ /\ accepted
        /\ written' = [written EXCEPT !.matches = fixtures]
        /\ at' = "commit"
        /\ UNCHANGED <<vars, ids, stored, result>>

\* COMMIT, whose result may be lost.
CommitLeague ==
  /\ at = "commit"
  /\ stored' = written
  /\ at' = "done"
  /\ result' \in {"created", "commit tx"}
  /\ UNCHANGED <<vars, ids, written>>

\* The statement that comes next fails: listing the teams, BEGIN or one of the
\* inserts.
StatementFails ==
  /\ at \in {"resolve", "insert"} \/ (at = "generate" /\ round = Rounds)
  /\ Fail("failed")

\* COMMIT fails without effect.
CommitFails == at = "commit" /\ Fail("commit tx")

\* httpapi respondError: only ErrInvalidInput is the client's, any other error is
\* told as internal.
Answer ==
  CASE result = "none"    -> "none"
    [] result = "created" -> "201"
    [] result = "invalid" -> "400 INVALID_INPUT"
    [] OTHER              -> "500 INTERNAL"

Done == at = "done" /\ UNCHANGED <<vars, request>>

CreateNext ==
  \/ ResolveTeams \/ InsertLeague \/ Generate \/ InsertFixtures \/ CommitLeague
  \/ StatementFails \/ CommitFails \/ Done

CreateSpec == CreateInit /\ [][CreateNext]_<<vars, request>>

(***************************************************************************)
(* Correctness.                                                            *)
(***************************************************************************)

\* What is stored is a league that can be played: each of its weeks has one
\* match for each of its teams and there are no others, whichever way its
\* creation ended (one transaction; total_weeks is computed apart from the
\* schedule).  These are the states LeagueTx starts from.
StoredLeagueIsPlayable ==
  stored # Null =>
    /\ \A f \in stored.matches : f.week \in 1..stored.weeks
    /\ \A w \in 1..stored.weeks, t \in stored.members :
         \E f \in stored.matches :
           /\ f.week = w /\ Plays(f, t)
           /\ \A g \in stored.matches : g.week = w /\ Plays(g, t) => g = f

\* The database refuses no row but that of a team named twice: an unknown team is
\* "a clean ErrInvalidInput (400) rather than a foreign-key violation"
\* (resolveTeamIDs), and no shuffle gives a schedule against the keys of matches.
OnlyRepeatsRefused == result = "refused" => HasDuplicates(ids)

\* The answer tells what is there: a created league is stored, one that was
\* refused or failed at any statement has left no rows, and a client that is told
\* of an internal error can find a league only if that came from COMMIT (WithinTx).
AnswerTellsWhatIsStored ==
  /\ Answer = "201" => stored # Null
  /\ Answer = "400 INVALID_INPUT" => stored = Null
  /\ Answer = "500 INTERNAL" => stored = Null \/ result = "commit tx"
=============================================================================
