----------------------------- MODULE Prediction -----------------------------
(***************************************************************************)
(* The Monte Carlo prediction: internal/prediction/monte_carlo.go, with    *)
(* the table of each trial computed by Standings.                          *)
(*                                                                         *)
(* A trial keeps the results of the matches that are played, simulates the *)
(* others, has the table calculated and counts every team's rank.  What    *)
(* the simulator scores is left open within SimulatedGoals.  Chances and   *)
(* averages are kept as integers: the counts and sums that the code        *)
(* divides by the number of trials.                                        *)
(*                                                                         *)
(* A definition marked Variant is its successor with a plausible mistake;  *)
(* no specification uses it.                                               *)
(***************************************************************************)
EXTENDS Standings

CONSTANTS
  Played,              \* how many matches, from the first, can be played
  PlayedGoals,         \* the results they can have
  SimulatedGoals,      \* the results the simulator can score
  Asked,               \* the values of ?simulations= that clients send
  DefaultSimulations,  \* prediction_service.go defaultSimulations
  MaxSimulations       \* prediction_service.go maxSimulations

ASSUME PredictionAssumption ==
  /\ Played \subseteq 0..Len(Fixtures)
  /\ PlayedGoals \cup SimulatedGoals \subseteq [home: Goals, away: Goals]
  /\ Asked \subseteq Int
  /\ MaxSimulations \in Nat
  /\ DefaultSimulations \in 1..MaxSimulations

n == Cardinality(Teams)

VARIABLES
  played,       \* the results the league has, Null for a SCHEDULED match
  forecast,     \* FALSE if the league's own table is asked for
  simulations,  \* the number of trials
  trial,        \* the trials that are counted
  rankCounts,   \* per team and rank: how many trials it finished there
  predictions   \* the answer, in its order: empty before aggregate

predictionVars == <<played, forecast, simulations, trial, rankCounts, predictions>>

\* Variant: no request count is the default only when it is absent.
ClampUpperOnly(k) == IF k > MaxSimulations THEN MaxSimulations ELSE k

\* prediction_service.go clampSimulations
ClampSimulations(k) ==
  IF k <= 0 THEN DefaultSimulations
  ELSE IF k > MaxSimulations THEN MaxSimulations ELSE k

\* Before a trial no match is looked at and there is no table.
NoRows == [t \in Teams |-> EmptyRow]

\* A forecast waits for its first trial; the table of a finished league, as that
\* of GET /standings, is calculated from the matches as they are.
PredictionInit ==
  /\ \E w \in Played : \E g \in [1..w -> PlayedGoals] :
       played = [i \in DOMAIN Fixtures |-> IF i <= w THEN g[i] ELSE Null]
  /\ simulations \in {ClampSimulations(k) : k \in Asked}
  /\ trial = 0
  /\ rankCounts = [t \in Teams |-> [r \in 1..n |-> 0]]
  /\ predictions = <<>>
  /\ forecast \in BOOLEAN
  /\ results = played
  /\ next = IF forecast THEN 0 ELSE 1
  /\ rows = NoRows
  /\ table = <<>>

\* The combined matches of a trial: the scheduled ones get a simulated result.
Simulate ==
  /\ trial < simulations
  /\ next = 0
  /\ results' \in {g \in [DOMAIN Fixtures -> SimulatedGoals \cup PlayedGoals] :
                     \A i \in DOMAIN Fixtures :
                       IF played[i] = Null THEN g[i] \in SimulatedGoals ELSE g[i] = played[i]}
  /\ next' = 1
  /\ UNCHANGED <<rows, table, predictionVars>>

\* Calculate on the combined matches.
CalculateTable == (Count \/ Rank) /\ next > 0 /\ UNCHANGED predictionVars

\* Variant: the rank is used as a team's index, and not the other way round.
TallySwapped ==
  /\ forecast
  /\ table # <<>>
  /\ rankCounts' = [t \in Teams |-> [r \in 1..n |->
                      rankCounts[t][r] + (IF table[t] = r THEN 1 ELSE 0)]]
  /\ trial' = trial + 1
  /\ results' = played /\ next' = 0 /\ rows' = NoRows /\ table' = <<>>
  /\ UNCHANGED <<played, forecast, simulations, predictions>>

\* Every row of the table adds one to its team's count for its rank.
Tally ==
  /\ forecast
  /\ table # <<>>
  /\ rankCounts' = [t \in Teams |-> [r \in 1..n |->
                      rankCounts[t][r] + (IF table[r] = t THEN 1 ELSE 0)]]
  /\ trial' = trial + 1
  /\ results' = played /\ next' = 0 /\ rows' = NoRows /\ table' = <<>>
  /\ UNCHANGED <<played, forecast, simulations, predictions>>

\* Variant: ranks are weighted from 0.
PredictionFromZero(t) ==
  LET counts == rankCounts[t] IN
  [team   |-> t,
   chance |-> counts[1],
   sum    |-> Total([r \in 1..n |-> (r - 1) * counts[r]]),
   mode   |-> CHOOSE r \in 1..n : \A q \in 1..n :
                counts[q] < counts[r] \/ (counts[q] = counts[r] /\ r <= q)]

\* The loop body of aggregate: the trials won, the weighted sum of the ranks,
\* and the first of the most frequent ranks.
Prediction(t) ==
  LET counts == rankCounts[t] IN
  [team   |-> t,
   chance |-> counts[1],
   sum    |-> Total([r \in 1..n |-> r * counts[r]]),
   mode   |-> CHOOSE r \in 1..n : \A q \in 1..n :
                counts[q] < counts[r] \/ (counts[q] = counts[r] /\ r <= q)]

\* Variant: teams level in chance and average compare as equal.
AheadUnnamed(p, q) ==
  p.chance > q.chance \/ (p.chance = q.chance /\ p.sum < q.sum)

\* The comparator of aggregate's sort.Slice.
Ahead(p, q) ==
  \/ p.chance > q.chance
  \/ p.chance = q.chance /\ p.sum < q.sum
  \/ p.chance = q.chance /\ p.sum = q.sum /\ p.team < q.team

\* aggregate: the rows come out of a map in any order, then they are sorted.
Aggregate ==
  /\ forecast
  /\ trial = simulations
  /\ predictions = <<>>
  /\ predictions' \in
       {p \in [1..n -> {Prediction(t) : t \in Teams}] :
          \A i, j \in 1..n : i < j => p[i] # p[j] /\ ~Ahead(p[j], p[i])}
  /\ UNCHANGED <<vars, played, forecast, simulations, trial, rankCounts>>

\* The answer is there.
Predicted ==
  /\ predictions # <<>> \/ (~forecast /\ table # <<>>)
  /\ UNCHANGED <<vars, predictionVars>>

PredictionNext == Simulate \/ CalculateTable \/ Tally \/ Aggregate \/ Predicted

PredictionSpec == PredictionInit /\ [][PredictionNext]_<<vars, predictionVars>>

(***************************************************************************)
(* Correctness.                                                            *)
(***************************************************************************)

\* The number of trials is within the service's limits, whatever is asked for,
\* and no rank is counted more often than there were trials (clampSimulations).
PredictionTypeOK ==
  /\ simulations \in 1..MaxSimulations
  /\ trial \in 0..simulations
  /\ rankCounts \in [Teams -> [1..n -> 0..trial]]

\* In the answer, the chances of all teams add up to certainty and the average
\* positions to those of a table, and a team that wins most of the trials is
\* most likely first (aggregate).  The sum is exact because a trial has one
\* winner: of teams level at the top, the first by name.  That is not what the
\* engine's test says, for which "ties for first split the count across teams,
\* so the total may slightly exceed 100" (monte_carlo_test.go).
PredictionsAddUp ==
  predictions # <<>> =>
    /\ {predictions[i].team : i \in 1..n} = Teams
    /\ Total([i \in 1..n |-> predictions[i].chance]) = simulations
    /\ 2 * Total([i \in 1..n |-> predictions[i].sum]) = simulations * n * (n + 1)
    /\ \A i \in 1..n : 2 * predictions[i].chance > simulations => predictions[i].mode = 1

\* The points of team t from played matches, and how many matches it has left.
PlayedMatches(t) ==
  {i \in DOMAIN Fixtures : played[i] # Null /\ t \in {Fixtures[i].home, Fixtures[i].away}}

PlayedDraws(t) == {i \in PlayedMatches(t) : played[i].home = played[i].away}

PlayedWins(t) ==
  {i \in PlayedMatches(t) \ PlayedDraws(t) :
     (Fixtures[i].home = t) = (played[i].home > played[i].away)}

PlayedPoints(t) == 3 * Cardinality(PlayedWins(t)) + Cardinality(PlayedDraws(t))

Unplayed(t) ==
  {i \in DOMAIN Fixtures : played[i] = Null /\ t \in {Fixtures[i].home, Fixtures[i].away}}

Left(t) == Cardinality(Unplayed(t))

\* Team t cannot catch team u any more, even if it wins all that it has left.
CannotCatch(t, u) == PlayedPoints(u) > PlayedPoints(t) + 3 * Left(t)

\* A team that no other can catch any more wins every trial, and one that
\* cannot catch another wins none: the played results stand in every trial and
\* count for the right teams (Predict).
SettledTitleIsCertain ==
  \A i \in DOMAIN predictions :
    LET s == predictions[i].team IN
    /\ (\E t \in Teams \ {s} : CannotCatch(s, t)) => predictions[i].chance = 0
    /\ (\A t \in Teams \ {s} : CannotCatch(t, s))
         => predictions[i].chance = simulations /\ predictions[i].sum = simulations

\* The order of the answer follows from the counts, however the map of counts
\* is iterated: a team's place is one more than the number of teams that win
\* more trials, or as many with a better average, or come first by name.
OrderFollowsFromCounts ==
  \A i \in DOMAIN predictions :
    LET s == predictions[i].team IN
    i = 1 + Cardinality({t \in Teams :
              LET a == Prediction(t)  b == Prediction(s) IN
              \/ a.chance > b.chance
              \/ a.chance = b.chance /\ (a.sum < b.sum \/ (a.sum = b.sum /\ t < s))})
=============================================================================
