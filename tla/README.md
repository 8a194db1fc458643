# Football league simulator: specification

This directory models the league server of this repository and its page in
TLA+: what requests do to a league when they overlap, what a reader sees among
them, how a league is created, how tables and forecasts are computed, how the
process serves and stops, and what the page shows when answers come out of
order; what TLC checks of it on small instances and what is proved of it for
every instance. Paths below are relative to the repository's root.

## The system

The server is a Go program over PostgreSQL: HTTP handlers (`internal/httpapi`)
decode a request and call one method of a service (`internal/service`); a
service reads and writes through repositories (`internal/repository/postgres`)
and calls four pure packages. A small page (`web/index.html`) is the client.

| component | state | operations | what makes it correct |
|---|---|---|---|
| league transactions (`league_play.go`, `recalc.go`, `transactor.go`) | leagues, matches, snapshots rows; the league row lock | play-week, play-all, reset, recalculate, delete | calls on one league have the effect of one after the other; the league is always between two weeks; its history agrees with its results |
| match edits (`match_service.go`, `audit_repo.go`) | matches, snapshots, audit rows | PUT result, list audit | the result, its audit entry and the tables change together or not at all; only played matches are edited |
| team ratings (`team_service.go`) | teams rows, shared by all leagues | PATCH ratings | results already recorded stay |
| match simulator (`simulation/poisson.go`) | none | Simulate | a function of ratings, seed and week |
| fixture generator (`fixture/generator.go`) | none | Generate | a double round-robin, one match per team and week |
| standings calculator (`standings/calculator.go`) | none | Calculate | the table is a function of the results |
| prediction engine (`prediction/monte_carlo.go`) | none | Predict | rank tallies add up to the number of trials |
| read endpoints (`league_service.go`, `prediction_service.go`) | none | standings, week detail, history, predictions | what they combine belongs together |
| league creation (`league_service.go`) | leagues, league_teams, matches | create | all rows or none, no refused schedule |
| server process (`cmd/server/main.go`, `db.go`) | listener, pool | start, serve, shut down | every accepted request ends before the pool closes |
| web client (`web/index.html`) | the shown league, table, tabs, busy flag | selections, mutations, refreshes | what is shown belongs to the selected league, and the buttons come back |

Components interact through calls, except that the requests for one league
share its rows. All mutations but DELETE and PATCH run in a transaction at
READ COMMITTED (`Transactor.WithinTx`), and they are put in order by the lock
that `GetByIDForUpdate` takes on the league row. That is where the behaviour is
hard: what a handler read before it waited for the lock may be out of date
after it; a transaction's `NOW()` is older than its wait; a client may be told
of an error when the commit took effect; ratings change under no lock. Reads
take no transaction at all: each of their statements sees what is committed at
its moment. Requests also share the pool's connections, which a lock waiter
keeps while it waits, and `run()` shares the handlers' end with a signal, a
listener error and two ways of waiting. In the page, handlers interleave at
every `await`. `PROJECT.json` lists the hazards with their lines.

## Modules

| module | models |
|---|---|
| `LeagueTx` | one league and the concurrent requests that change it |
| `Season` | the abstract league: the same operations one at a time |
| `Replay` | `LeagueTx` with a history variable: the first result simulated for every match |
| `LeagueReads` | `LeagueTx` and the reads of several statements among its commits |
| `Server` | `LeagueTx` in its process: the connection pool, `/ready`, `run()`, kill and restart |
| `Fixtures` | `circleGenerator.Generate`, a step per round |
| `CreateLeague` | POST /leagues around `Fixtures`: team ids, the transaction, its answer |
| `Standings` | `calculator.Calculate`, a step per match and one for the sort |
| `Prediction` | the Monte Carlo engine around `Standings`: trials, tally, `aggregate` |
| `WebClient` | the page's asynchronous handlers, with the server reduced to what their answers are computed from |
| `LeagueTx_proofs`, `Season_proofs`, `LeagueReads_proofs`, `Server_proofs`, `Fixtures_proofs`, `CreateLeague_proofs`, `Prediction_proofs`, `WebClient_proofs` | theorems and proofs, each about the module of its name (`Season_proofs`: that `LeagueTx` implements `Season`; `Prediction_proofs`: `Standings` too) |
| `MC*` | instances for TLC |

`LeagueReads` and `Server` extend `LeagueTx` and use its actions: a reader's or
the process's step leaves the requests alone or is one of theirs with the
connection it takes or gives back. `CreateLeague` extends `Fixtures` and ends
where `LeagueTx`'s initial states begin. `Prediction` extends `Standings`.

### LeagueTx

*Rows.* `league` (week and status, `Null` when deleted), `score` (the goals of
every match, `Null` while SCHEDULED: the CHECK `matches_played_goals_consistent`
makes status and goals one piece of information), `snap` (per week: the table
and `captured_at`), `audit` (in id order), `ratings`. A table is represented by
the results it was computed from, because `Calculate` is a function of them
(checked in `Standings`); two tables of the model are equal only if every match
counted is.

*Transactions.* `lock` is the holder of the row lock. A request `r` has a
program counter `pc[r]`, its operation `op[r]`, its handler's locals `tx[r]`
(the time it began, the match read before the lock, the league row, the week),
its uncommitted writes `ws[r]` and the outcome `reply[r]` its client was told.
A statement sees the committed rows under the transaction's own writes
(`SeenScore`, `SeenLeague`): that is READ COMMITTED, and PostgreSQL itself is
the one part modelled from how the code uses it. `clock` counts the BEGINs and
gives `NOW()`.

*Actions.* `Begin` starts the handler. `ReadMatch` is the read at the head of
`UpdateResult`, before the lock. `Acquire` is `GetByIDForUpdate`. `Conflict`
ends a request that a guard refuses. `SimulateWeek` and `AdvanceAndSnapshot`
are the two functions of that name, which play-all repeats. `Reset`,
`Recalculate` and `UpdateResult` perform the statements under the lock: nobody
else can write the league's rows meanwhile and nobody sees them before the
commit, so they are one step each. `Commit` publishes the writes, with the
answer delivered or lost. `Abort` is the deferred Rollback, possible at every
statement: a failed statement, a cancelled context, a lost connection, a server
that stops. `DeleteLeague` and `UpdateRating` are single statements.

*Left out.* Validation that changes no state (negative goals, bad ids), the
audit's reason, `played_at`, and other leagues, which share only the ratings.

### LeagueReads

A reader has a query, the statements its handler has not executed (`todo`),
what it read (`seen`) and the outcome its client was told. The order of the
statements is the code's (`Statements`); a missing league or a prediction that
comes too early ends the handler at its first statement. A snapshot read is one
statement, with all its rows of one moment.

### Server

`queue` and `held` are the handlers that wait for a connection and those that
have one; a request's `Begin` takes it, its last step, its abort or the end of
the process gives it back. `main` is where `run()` is: its select (`serving`),
the signal taken (`stopping`), in `srv.Shutdown` (`draining`), in the deferred
`pool.Close` (`closing`), returned (`exited`). `listener` is what `serverErr`
would say and `exit` what `run()` returns: no error (`clean`), the listener's
(`http server`) or that of `Shutdown` (`graceful shutdown`), which is returned
without a look at `serverErr`. The drain timeout may expire at any time while
handlers run. `Killed` is possible everywhere: the database rolls
back what was open, clients are cut off, and `Restart` starts a new process on
the same rows; requests that come then are those not yet sent. Start-up before
the select is sequential and is not modelled. pgxpool is modelled from its use:
waiters are served in order, `Close` waits for every connection.

### Fixtures and CreateLeague

`Fixtures` starts with the wheel in any order, since the seed's shuffle can
give every order, and adds the two matches of every pair of a round.
`CreateLeague` resolves the ids in a statement of its own, inserts the league
with its memberships, generates, inserts the schedule and commits. `result` is
what the service returns. The keys and checks of the schema are the guards that
make an insert fail (`refused`); `matches_unique_fixture` refuses a row that is
there twice, so the guard is `RowsDistinct`, and `NoPairTwice` is the stronger
claim about the generator. Any statement can fail for another reason (`failed`),
COMMIT too, with or without effect (`commit tx`). `Answer` is `respondError`: the
client is told 400 of an unplayable or unknown list and 500 INTERNAL of every
other error, whatever its cause.

### Standings and Prediction

`Standings` reads the results in the order of the slice; teams are numbered in
the order of their names, which are UNIQUE. The map iteration and the unstable
sort are a choice among all orders that the comparator accepts. `Prediction`
runs it once on the league's own results (`forecast` false: GET standings, or
the table of a finished league, whose first row is its champion) or once per trial on the combined results. The
simulator is a choice among results. Percentages and averages are the integers
that the code divides by the number of trials, so comparing them is exact where
the code compares floating-point quotients of the same divisor. A sum is the size
of a set with one element for every unit (`Total`): a fold would say the same to
TLC, and nothing to a prover without induction over data.

### WebClient

A task is a handler at an `await`: the requests that are not answered (`due`)
and their answers (`got`). `Serve` answers one request at one moment or loses
it, a write then with or without its effect; `Proceed` is a handler's code from
one `await` to the next; `Click` is what the user can do with what is rendered
and not disabled. `page` holds, for each view, which league it shows and after
how many changes and edits of it. `refresh` does not wait for
`loadPrediction`, which is a task of its own (`op = "predict"`). Left out: the
catalog tab (`loadCatalog`, `saveTeam`), the create panel's form, texts and the
error line.

## What TLC checks

| run | instance | shows |
|---|---|---|
| `all` | 3 requests of every kind, 2 weeks of a match, two ratings | `IInv` (the invariant of the proofs), types, `PlayedThroughWeek`, `SnapshotsAgree`, `PlayAdvances`, `OnlyResetGoesBack`, `ResultsChangeOnlyByAudit`, `EarlierSnapshotsKept`, `PlaysCommitWhole` |
| `promise` | 3 requests, 3 matches (two in week 1), all operations on the league, an edit and a reset not both | `ImplementsSeason`, `LastAuditIsCurrent` |
| `serve` | 2 requests (play-all, edit, delete, rating) and a probe, 2 connections, fairness | `ConnectionsMatchHandlers`, `SomebodyGoesOn`, `CleanExitCutsNobody`, `ExitNamesItsCause`, `SnapshotsAgree`, `EveryRequestAnswered` (of probes too), `ShutdownEnds` |
| `create` | 6 teams, all 720 wheels, six lists of ids | the schedule's properties; `StoredLeagueIsPlayable`, `OnlyRepeatsRefused`, `AnswerTellsWhatIsStored` |
| `predict` | 4 teams, 6 matches of which 2 or 4 are played, 1 or 2 trials | rows and their order against counting (`RowsCountTheMatches`, `OrderedByTheRules`); `PredictionsAddUp`, `SettledTitleIsCertain`, `OrderFollowsFromCounts`, the limits of `clampSimulations` |
| `answers` | 2 requests of every kind, 1 reader | `PredictionCoversItsWeek`, `PlayedWeekHasTable`, `HistoryOfOneMoment` |
| `web` | 2 leagues of 2 weeks, 2 clicks after the page opens, 1 lost answer, fairness | `LockedByOne`, `PredictionOfShownLeague`, `PageAgrees`, `ButtonsComeBack` |

*Bounds.* Each request is one call, so three of them bound the number of
overlapping or successive calls; a hazard here needs an edit, something that
overtakes it and something that builds on the result, which is three. Two
weeks are the fewest with a week before and a week after another, and with a
play-all that loops and a week that is not the last. Two results tell an edit
from what it replaces, and two ratings a play before a rating's change from one
after it; the season starts with the first of them. `Init` starts in every week, so three calls reach
everything between week 0 and the end. `clock` and `audit` are bounded by the
number of requests.

A reader executes at most three statements, so two commits around them are all
that it can tell apart; predictions start at week 1 of 2 there, and in
`WebClient`, instead of 4 of 6. Two connections are the fewest with which a lock
holder and a waiter exhaust the pool; the third client, the probe, then waits.
Six teams are the smallest number for which the rotation moves more than the
middle of the wheel; the lists of ids are empty, complete, with a repeated id,
with an unknown one, and too short or odd. With four teams and three weeks, teams level on
every criterion, on all but goals and on points alone all occur, and so do
titles settled before the end; two trials can disagree. In the page, an initial
load and two clicks give three handlers, of which an answer of the first can
come after all of the third; the older league is between its weeks at first,
the newer one, which the page selects, anywhere (`MCInit`).

*Symmetry.* Requests are interchangeable in the safety runs, and so are the two
matches of week 1 in `promise`; `serve` and `web`, with liveness, use none.

*Deadlock* is checked everywhere but in `web`, where a user may stop clicking;
the explicit final steps (`AllAnswered`, `Calculated`, `Done`, `Predicted`)
only stutter when all work is done, and `Server` can always be killed.

*Fairness.* `ServerSpec` assumes weak fairness of what handlers do by
themselves (`Serve`, `Answer`: the database answers a statement that can run,
the pool serves its queue) and of `run()`. It is not assumed that clients come
or go away, that a signal or an error comes, or that a killed process is
started again: a request is answered or cut off without that. Weak fairness is
enough although requests compete for the lock because there are finitely many;
with an endless stream of them one waiter could be overtaken for ever in the
model, which PostgreSQL's lock queue prevents. `WebClient`'s `FairSpec` assumes
that a request is answered or fails, which a browser's connection sees to, and
that its handler goes on; not that anybody clicks.

### What the code does not keep

Five runs refute something the repository says; `PROJECT.json` quotes each line.

- `late_edit`: *only played matches can be edited.* `UpdateResult` reads the
  match, then waits for the lock. A reset commits; the edit then gives a
  SCHEDULED match of a later week a result.
- `replay_rating`: *replaying reproduces the results.* Not when a rating was
  changed in between.
- `finished_prediction`: *once finished, predictions return the actual final
  table.* `Predict` reads a finished league, a reset commits, and the matches it
  reads next are unplayed: it names the champion of an empty table.
- `ready`: *503 on /ready means the database is unreachable.* The probe takes
  its connection from the request pool, and requests that wait for one league's
  lock can hold all of them for longer than its two seconds.
- `stale_prediction`: *predictions recompute automatically* after an edit. The
  forecast asked for before the edit may arrive after the new one;
  `loadPrediction` looks only at which league is shown.

Because of the first, `ImplementsSeason` fails when edits and resets meet; it
is checked with an edit and a reset never both among the requests. `PlayedThroughWeek`
and `SnapshotsAgree` are stated so that they hold even then: they speak of the
matches up to the current week, and no result of those is ever stale.

The same reads before the lock have consequences that no run states as a
property: after a late edit `advanceAndSnapshot` counts the later match in the
table of week 1 (it takes every PLAYED match, `rebuildSnapshots` does not); of
two edits that overlap the second audits the goals from before the first; and
since `NOW()` is when a transaction began, an edit that waited longer moves
`captured_at` back and is listed as the older audit entry.

Three more claims do not hold of the code; the passing properties next to them
say what does.

- *Teams still level are deemed to occupy the same position*, the name being *not
  a ranking criterion* (`docs/DESIGN.md:192`, `calculator.go:21-24`,
  `docs/PREDICTION_ALGORITHM.md:133-135`). `Calculate` sorts by name at last and
  numbers the rows (`calculator.go:63-65`): by `OrderedByTheRules` no two teams
  ever have the same rank. The name so decides which of the level teams at the
  top is the `champion` of a finished league.
- *Ties for first split the count across teams, so the total may slightly exceed
  100* (`monte_carlo_test.go:101`, which accepts 99 to 105). A trial counts rank 1
  once, for the first by name, and by `PredictionsAddUp` the chances add up to all
  trials exactly; the name decides who wins a tied trial.
- A listener error *that arrived right as a signal landed* is not *silently
  dropped* (`main.go:123-125`). It is when the drain times out: `run()` returns
  "graceful shutdown" at line 120 and never reads `serverErr`. In `Server` these
  are `ListenerFails`, `Signal`, `Shutdown` and `DrainTimesOut` with a handler
  running, which end in `exit = "graceful shutdown"` and `listener = "failed"`.
  `ExitNamesItsCause` is about the drains that end in time, where the second read
  of `serverErr` is what reports the error.

## What is proved

`LeagueTx_proofs`, for every set of requests, number of weeks, fixture list,
set of results and set of operations, from `ConstantsAssumption` and
`NullAssumption` (the weeks of the matches exist; the simulator returns a
result; `Null` is not a row):

- `TypeCorrect`, `AlwaysPlayedThroughWeek`, `SnapshotsAlwaysAgree`, all from
  `Invariance`.

The three properties are not inductive: they say nothing of a transaction that
is about to commit. `IInv` adds `Locking` (a request is past the lock exactly
if it holds it, and only then has writes) and `Holding` (the holder's locals
are the committed league row; what it would see, its writes over the committed
rows, is a season between two weeks when it is at `work` or `commit`; at
`advance` the week just simulated is complete). A step of the holder is then an
argument about its own view, a commit publishes that view, an abort forgets it,
and the steps of the others touch neither. `RebuiltAgrees` is the heart of the
edit: rebuilding from the edited match's week on is enough.

`Server_proofs`, for every pool size and every set of requests and probes, from
the same assumptions and `ServerAssumption` (a probe is not a request):
`ConnectionsAlwaysMatch`, `SomebodyAlwaysGoesOn`, `CleanExitsCutNobody`,
`ExitsNameTheirCause` and `SnapshotsSurviveKills`, all from
`ServerInvariance`. `SInv` adds three things to `IInv`: who waits for a connection has not begun and waits once (`Distinct`; a
client in the queue twice would get a connection it does not give back), exactly
the running handlers hold one, and after a clean exit the queue and the pool are
empty and stay so, because the listener is closed. That the season survives a
kill needs both: a request that has written holds the lock (`Locking`), so it
holds a connection (`PoolInv`) and the end of the process rolls it back.
`SomebodyAlwaysGoesOn` is the part of "every request is answered" that needs no
fairness: handlers never all wait for each other, because the lock's holder has a
connection and asks for nothing that another one holds. It says with `Unblocked` that
a statement waits for no lock, where ENABLED would say it; on the instance of
`serve` TLC finds the two the same for every handler that holds a connection.

`Season_proofs`, from the same assumptions: what a step of a league may never
do, and that the concurrent server implements the sequential league.

- `PlaysAdvance`, `PlaysAlwaysCommitWhole`, `OnlyAResetGoesBack`,
  `ResultsChangeByAudit`, `EditsKeepEarlierSnapshots`, from `EInv`. These five speak of a commit, so
  `IInv` must also know what the holder's writes may be: `Effect` says it for
  each kind of operation, as a difference between what it sees and what is
  committed (a week played adds results of its week only; an edit changes one
  match, audits it, and writes no snapshot before that match's week).
- `LastAuditAlwaysCurrent` and `ServerKeepsPromise` (that is
  `ImplementsSeason`), from `AInv`, under `ApartSpec`: the requests that begin
  never hold an edit and a reset both, which is the condition under which the
  run `promise` finds them true and the run `late_edit` shows them needed.
  `AInv` adds to `EInv` that no result is recorded beyond the current week
  (`Closed`), for the rows and for the holder's view of them, and that an edit's
  match, read before the lock, is still as good as it was (`EditFounded`).
  Every step of `LeagueTx` then maps to one step of `Season`, the commit, or to a
  stutter.

`LeagueReads_proofs`, from these and `ReadersAssumption`:
`PredictionsCoverTheirWeek`, `PlayedWeeksHaveTables` and `HistoriesOfOneMoment`,
from `RInv`: for every statement a handler has executed, what it read is related
to the rows as they are now, in a way that every commit keeps (weeks only grow
where nobody resets, results of past weeks have tables), so that the next
statement meets rows that fit. The properties are about any number of commits
between two statements.

`Fixtures_proofs`, for every even number of teams from four on and every
wheel: `ScheduleTypeCorrect`, `EveryTeamOnceAWeek`, `NoPairingTwice` and
`EveryPairMeetsTwice`. The rotation is a permutation (`RotateKeepsWheels`), and
the positions i and N-1-i pair every team once (`Opposite`), so a round fills
its two weeks. That no pair meets twice needs the whole loop: `Unrolled` gives
the schedule after every round in closed form, from where the team at each
position sat at first (`Source`); two seats of the wheel face each other in
exactly one round, an argument about sums modulo N-1, which is odd.

`CreateLeague_proofs`, from `RequestedAssumption` (a requested list of distinct known
teams that passes the size rule has N entries: N is the size of the created league) and `RowsAssumption` (`Null` is not a
row): `StoredLeaguesArePlayable`, `OnlyRepeatsAreRefused` and
`AnswersTellWhatIsStored`, from `CInv`, which says what the transaction has
written before each of its steps. It rests on `Fixtures_proofs`: that the
database refuses no generated schedule is the first half of `NoPairingTwice`
(`RowsDistinct`), and every step that
generates is a step of `Fixtures` (`SchedulesOfLeagues`).

`Prediction_proofs`, for every set of teams, fixture list, results and number of
trials, from `StandingsAssumption` and `PredictionAssumption` (teams are numbered
by name, a match has two of them, goals are natural numbers, the default number
of trials is within the limits):

- `TablesFollowFromResults` of `Standings` alone, `RowsAlwaysCountTheMatches`
  and `TablesAlwaysOrdered` in every trial. `TableInv` is the loop's
  invariant: the rows are what the matches before `next` say. `Place` is the
  fact about sorting: an order that leaves no two elements level has one sorted
  sequence, in which a place is one more than the number of elements before it.
  It needs no stability and no transitivity, and serves both sorts.
- `PredictionTypeCorrect`, `PredictionsAlwaysAddUp`, `SettledTitlesAreCertain`
  and `OrderAlwaysFollows`, from `PInv`. `Tallied` says that in the trials
  counted so far each team has one rank, the first rank one team, and the ranks
  add up to n(n+1)/2 per trial; `Titles` that no trial went against what the
  played matches settle, because a complete table gives a team at least the
  points it has and at most three more a match (`PointsWithin`). The lemmas on
  sums (`TotalPlus`, `TotalPermuted`, `SumOfRanks`) count instead of summing.

`WebClient_proofs`, for any finite set of leagues and any number of weeks,
clicks and lost requests, from `WebAssumption`: `WebTypeCorrect` (every answer
is of the kind and the league that its handler asked for), `ButtonsLockedByOne`
and `PredictionsStayWithTheirLeague`, from `WInv`. `Locked` names the handler
that holds the buttons; `Covered` says that a prediction of another league is
shown only while a handler that will clear it is on its way, or after a failure
that the page has noticed.

`PagesAgree` also uses `AbsentAssumption` (the values that stand for no league
and no view are none) and is from `Agreed`, an invariant of the executions in
which nothing was lost and no two handlers overlapped since the last selection in
quiet. `Settled` is what holds when nothing is in flight: every view that is
rendered is of the server's present. `Underway` is what holds while one handler
runs, for each handler and each of its awaits: the answers it has got are those
the server would still give, and the views it will not ask for again are already
of the present. A handler that left a view out of its refresh would
break it at its last await. A click that sends no request disturbs nothing, and a
selection in quiet makes the page of any past agree: it asks for everything.

The assumptions only say what the constants are; TLC evaluates each of them on
the instances of the runs.

Only model-checked: liveness (`EveryRequestAnswered`, `ShutdownEnds`,
`ButtonsComeBack`), because fairness and ENABLED are out of the prover's reach;
every invariant and action property of a passing run has a theorem. The five
properties that the code does not keep are refuted by counterexamples.

## Not modelled

- The match simulator's distribution (floating point) and the migrations and
  configuration (sequential, at start-up).
- HTTP decoding, validation and DTOs, which change no state.
- Goal sums in INT columns: a sum that does not fit makes the statement fail,
  which is the abort that is possible everywhere.
- UpdateRating's reply, read in a second statement: nothing is promised of it.
- The page's catalog tab and create form. `web/vue.global.prod.js` is a
  third-party library, and so is Swagger UI; neither is modelled.

## Running

`tlc -config <cfg> <module>` with the pairs of `PROJECT.json`, `tlapm
<module>.tla` for the proofs. A run takes one or two minutes at most; the proofs
of a module take between half a minute and a few minutes.
