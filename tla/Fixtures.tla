------------------------------ MODULE Fixtures ------------------------------
(***************************************************************************)
(* The schedule of a new league: the circle method of                      *)
(* internal/fixture/generator.go, one step per round.                      *)
(*                                                                         *)
(* The seed only decides how the wheel is shuffled before the first round, *)
(* and a shuffle can produce every order of the teams, so the wheel starts *)
(* in any order.  Indices are those of the Go slices, from 0.              *)
(*                                                                         *)
(* A definition marked Variant is its successor with a plausible mistake;  *)
(* no specification uses it.                                               *)
(***************************************************************************)
EXTENDS Integers, FiniteSets

CONSTANTS
  Teams,  \* the teams of the league
  Half    \* half their number: CreateLeague refuses an odd one, or under 4

N       == 2 * Half
Indices == 0..N - 1
Rounds  == N - 1

ASSUME HalfAssumption == Half \in Nat /\ Half >= 2

\* The orders a shuffle can leave the wheel in: every team is in it once.
Wheels ==
  {f \in [Indices -> Teams] :
     /\ \A i, j \in Indices : f[i] = f[j] => i = j
     /\ \A t \in Teams : \E i \in Indices : f[i] = t}

VARIABLES
  wheel,    \* the teams around the circle
  round,    \* the rounds generated: the loop variable r
  fixtures  \* the matches generated: their week, home and away team

vars == <<wheel, round, fixtures>>

Match(week, home, away) == [week |-> week, home |-> home, away |-> away]

\* Variant: the return match one week early.
RoundMatchesEarly(w, r) ==
  {Match(r + 1, w[i], w[N - 1 - i]) : i \in 0..Half - 1}
    \cup {Match(r + Rounds, w[N - 1 - i], w[i]) : i \in 0..Half - 1}

\* The first-leg matches of a round and, Rounds weeks later, their returns.
RoundMatches(w, r) ==
  {Match(r + 1, w[i], w[N - 1 - i]) : i \in 0..Half - 1}
    \cup {Match(r + 1 + Rounds, w[N - 1 - i], w[i]) : i \in 0..Half - 1}

\* Variant: every position moves, the first one too.
RotateAll(w) == [i \in Indices |-> IF i = 0 THEN w[N - 1] ELSE w[i - 1]]

\* wheel[0] stays, wheel[1..n-1] moves right, the last comes to position 1.
Rotate(w) ==
  [i \in Indices |-> IF i = 0 THEN w[0] ELSE IF i = 1 THEN w[N - 1] ELSE w[i - 1]]

Init ==
  /\ wheel \in Wheels
  /\ round = 0
  /\ fixtures = {}

\* Variant: a loop that also runs for r = rounds.
RoundOnceMore ==
  /\ round <= Rounds
  /\ fixtures' = fixtures \cup RoundMatches(wheel, round)
  /\ wheel' = Rotate(wheel)
  /\ round' = round + 1

Round ==
  /\ round < Rounds
  /\ fixtures' = fixtures \cup RoundMatches(wheel, round)
  /\ wheel' = Rotate(wheel)
  /\ round' = round + 1

\* The loop is over: Generate has returned.
Generated == round = Rounds /\ UNCHANGED vars

Next == Round \/ Generated

Spec == Init /\ [][Next]_vars

(***************************************************************************)
(* Correctness.                                                            *)
(***************************************************************************)
\* The type of the loop's variables: the wheel always holds every team once,
\* and no match is scheduled outside the 2 * Rounds weeks of the season.
TypeOK ==
  /\ wheel \in Wheels
  /\ round \in 0..Rounds
  /\ \A f \in fixtures : f.week \in 1..2 * Rounds /\ f.home \in Teams /\ f.away \in Teams

Plays(f, t) == f.home = t \/ f.away = t

\* The weeks a number of rounds has filled, in both halves of the season.
WeeksFilled(r) == {w \in 1..2 * Rounds : w <= r \/ (Rounds < w /\ w <= Rounds + r)}

\* In every week generated so far every team plays exactly one match, and
\* never against itself; the other weeks are still empty (generator.go).
OnceAWeek ==
  /\ \A f \in fixtures : f.home # f.away /\ f.week \in WeeksFilled(round)
  /\ \A w \in WeeksFilled(round), t \in Teams :
       \E f \in fixtures :
         /\ f.week = w /\ Plays(f, t)
         /\ \A g \in fixtures : g.week = w /\ Plays(g, t) => g = f

\* The rows of the slice are all different: every round appends N of them.
RowsDistinct == Cardinality(fixtures) = N * round

\* No row is generated twice ("the generator should never produce the same
\* triple twice", schema.sql), and no pairing with the same home side in another
\* week either, which the table's key would not notice.
NoPairTwice ==
  /\ RowsDistinct
  /\ \A f, g \in fixtures : f.home = g.home /\ f.away = g.away => f = g

\* The finished schedule is a double round-robin: every team meets every other
\* at home and away, once in each half of the season (generator.go).
DoubleRoundRobin ==
  round = Rounds =>
    \A a, b \in Teams : a # b =>
      \E f, g \in fixtures :
        /\ f.home = a /\ f.away = b
        /\ g.home = b /\ g.away = a
        /\ g.week = f.week + Rounds \/ f.week = g.week + Rounds
=============================================================================
