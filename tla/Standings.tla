----------------------------- MODULE Standings -----------------------------
(***************************************************************************)
(* The league table: internal/standings/calculator.go, one step for every  *)
(* match of the slice and one for the sort.                                *)
(*                                                                         *)
(* The rows live in a Go map, whose iteration order is not defined, and    *)
(* sort.Slice is not stable: the sort may leave the rows in any order that *)
(* its comparator accepts.  Every match names two teams of the league, as  *)
(* simulateWeek and the foreign keys make sure.                            *)
(*                                                                         *)
(* A definition marked Variant is its successor with a plausible mistake;  *)
(* no specification uses it.                                               *)
(***************************************************************************)
EXTENDS Integers, Sequences, FiniteSets

CONSTANTS
  Teams,     \* the teams, numbered by the order of their names (UNIQUE)
  Fixtures,  \* the matches in the order they are listed: home and away team
  Goals,     \* the goals a side can score
  Null       \* the goals of a match that is SCHEDULED

ASSUME StandingsAssumption ==
  /\ Teams \subseteq Nat
  /\ IsFiniteSet(Teams)
  /\ Fixtures \in Seq([home: Teams, away: Teams])
  /\ \A i \in DOMAIN Fixtures : Fixtures[i].home # Fixtures[i].away
  /\ Goals \subseteq Nat
  /\ Null \notin [home: Goals, away: Goals]

VARIABLES
  results,  \* the goals of every match, Null while it is SCHEDULED
  next,     \* the index of the match the loop looks at
  rows,     \* the map from teams to their rows
  table     \* the sorted rows, by team: empty before the sort

vars == <<results, next, rows, table>>

\* The sum of the numbers that are g's values, by counting: a set with one
\* element for every unit of every value.
Units(g) == UNION {{x} \X (1..g[x]) : x \in DOMAIN g}
Total(g) == Cardinality(Units(g))

EmptyRow == [played |-> 0, won |-> 0, drawn |-> 0, lost |-> 0,
             gf |-> 0, ga |-> 0, gd |-> 0, points |-> 0]

\* Variant: the goal difference is that of the row before the match.
ApplyResultStaleDifference(row, scored, conceded) ==
  [played |-> row.played + 1,
   won    |-> row.won + (IF scored > conceded THEN 1 ELSE 0),
   drawn  |-> row.drawn + (IF scored = conceded THEN 1 ELSE 0),
   lost   |-> row.lost + (IF scored < conceded THEN 1 ELSE 0),
   gf     |-> row.gf + scored,
   ga     |-> row.ga + conceded,
   gd     |-> row.gf - row.ga,
   points |-> row.points + (IF scored > conceded THEN 3
                            ELSE IF scored = conceded THEN 1 ELSE 0)]

\* standings.applyResult
ApplyResult(row, scored, conceded) ==
  [played |-> row.played + 1,
   won    |-> row.won + (IF scored > conceded THEN 1 ELSE 0),
   drawn  |-> row.drawn + (IF scored = conceded THEN 1 ELSE 0),
   lost   |-> row.lost + (IF scored < conceded THEN 1 ELSE 0),
   gf     |-> row.gf + scored,
   ga     |-> row.ga + conceded,
   gd     |-> row.gf + scored - (row.ga + conceded),
   points |-> row.points + (IF scored > conceded THEN 3
                            ELSE IF scored = conceded THEN 1 ELSE 0)]

\* Variant: goals scored decide before the goal difference does.
BeforeByGoalsFirst(s, t, rs) ==
  \/ rs[s].points > rs[t].points
  \/ /\ rs[s].points = rs[t].points
     /\ \/ rs[s].gf > rs[t].gf
        \/ rs[s].gf = rs[t].gf /\ rs[s].gd > rs[t].gd
        \/ rs[s].gf = rs[t].gf /\ rs[s].gd = rs[t].gd /\ s < t

\* The comparator of sort.Slice: team s comes before team t.
Before(s, t, rs) ==
  \/ rs[s].points > rs[t].points
  \/ /\ rs[s].points = rs[t].points
     /\ \/ rs[s].gd > rs[t].gd
        \/ rs[s].gd = rs[t].gd /\ rs[s].gf > rs[t].gf
        \/ rs[s].gd = rs[t].gd /\ rs[s].gf = rs[t].gf /\ s < t

\* The orders in which sort.Slice can leave the rows: each team once, none
\* behind a team that it comes before.
Sorted(rs) ==
  {p \in [1..Cardinality(Teams) -> Teams] :
     \A i, j \in DOMAIN p : i < j => p[i] # p[j] /\ ~Before(p[j], p[i], rs)}

Init ==
  /\ results \in [DOMAIN Fixtures -> [home: Goals, away: Goals] \cup {Null}]
  /\ next = 1
  /\ rows = [t \in Teams |-> EmptyRow]
  /\ table = <<>>

\* The loop's body: a match that is not PLAYED is passed over.
Count ==
  /\ next \in DOMAIN Fixtures
  /\ LET f == Fixtures[next]
         g == results[next]
     IN  rows' = IF g = Null THEN rows
                 ELSE [rows EXCEPT ![f.home] = ApplyResult(@, g.home, g.away),
                                   ![f.away] = ApplyResult(@, g.away, g.home)]
  /\ next' = next + 1
  /\ UNCHANGED <<results, table>>

\* The sort; the rank of a row is its place, also among teams that are level.
Rank ==
  /\ next = Len(Fixtures) + 1
  /\ table = <<>>
  /\ table' \in Sorted(rows)
  /\ UNCHANGED <<results, next, rows>>

\* Calculate has returned.
Calculated == table # <<>> /\ UNCHANGED vars

Next == Count \/ Rank \/ Calculated

Spec == Init /\ [][Next]_vars

(***************************************************************************)
(* Correctness, against a definition by counting.                          *)
(***************************************************************************)

\* The matches counted so far that team t played, and its goals in them.
PlayedBy(t) ==
  {i \in 1..next - 1 : results[i] # Null /\ t \in {Fixtures[i].home, Fixtures[i].away}}

Scored(t, i)   == IF Fixtures[i].home = t THEN results[i].home ELSE results[i].away
Conceded(t, i) == IF Fixtures[i].home = t THEN results[i].away ELSE results[i].home

WonBy(t)   == {i \in PlayedBy(t) : Scored(t, i) > Conceded(t, i)}
DrawnBy(t) == {i \in PlayedBy(t) : Scored(t, i) = Conceded(t, i)}

GoalsFor(t)     == Total([i \in PlayedBy(t) |-> Scored(t, i)])
GoalsAgainst(t) == Total([i \in PlayedBy(t) |-> Conceded(t, i)])
Points(t)       == 3 * Cardinality(WonBy(t)) + Cardinality(DrawnBy(t))

\* Every row says what the matches say: at home and away, won, drawn and lost,
\* a scheduled match counting for nobody (Calculate, applyResult).
RowsCountTheMatches ==
  \A t \in Teams :
    rows[t] = [played |-> Cardinality(PlayedBy(t)),
               won    |-> Cardinality(WonBy(t)),
               drawn  |-> Cardinality(DrawnBy(t)),
               lost   |-> Cardinality(PlayedBy(t) \ (WonBy(t) \cup DrawnBy(t))),
               gf     |-> GoalsFor(t),
               ga     |-> GoalsAgainst(t),
               gd     |-> GoalsFor(t) - GoalsAgainst(t),
               points |-> Points(t)]

\* Team s is ranked above team t by the rules of the Premier League.
Above(s, t) ==
  LET difference(x) == GoalsFor(x) - GoalsAgainst(x) IN
  \/ Points(s) > Points(t)
  \/ Points(s) = Points(t) /\ difference(s) > difference(t)
  \/ /\ Points(s) = Points(t) /\ difference(s) = difference(t)
     /\ GoalsFor(s) > GoalsFor(t)

\* The table is in one order, which follows from the results whatever the map
\* and the sort do: a team is behind the teams above it and, of the teams level
\* with it, behind those whose name comes first.  Calculate tells this place as
\* the rank.  That is what the code does and not what is said of it: teams that
\* are level "are deemed to occupy the same position", the name being a "display
\* order" and "not a ranking criterion" (DESIGN.md 5.3, Calculate's comment),
\* while by this property two teams never have the same rank.
OrderedByTheRules ==
  \A i \in DOMAIN table :
    i = 1 + Cardinality({t \in Teams : \/ Above(t, table[i])
                                       \/ ~Above(table[i], t) /\ t < table[i]})
=============================================================================
