------------------------------- MODULE Season -------------------------------
(***************************************************************************)
(* What a league promises its users: one operation at a time.              *)
(*                                                                         *)
(* A league has played its first `week' weeks and no others.  Playing adds *)
(* the results of the next week, or of all that remain; an edit replaces a *)
(* result that has been played; a reset takes every result back; deleting  *)
(* the league is final.  The published history is at every moment the      *)
(* table after each played week, counting the results of that week and of  *)
(* those before it, as they stand now (docs/DESIGN.md, section 8).         *)
(***************************************************************************)
EXTENDS Integers

CONSTANTS TotalWeeks, Matches, WeekOf, Scores, Null

VARIABLES
  league,   \* its week and status, Null once deleted
  score,    \* the result of every match, Null while it is not played
  tables    \* the published table of every week, Null if there is none

season == <<league, score, tables>>

Weeks == 1..TotalWeeks

Status(w) ==
  IF w = 0 THEN "NOT_STARTED" ELSE IF w = TotalWeeks THEN "FINISHED" ELSE "IN_PROGRESS"

\* The table after week k: the results of the matches up to that week.
TableAfter(results, k) ==
  [m \in Matches |-> IF WeekOf[m] <= k THEN results[m] ELSE Null]

\* The season stands after week w with these results.
StandsAt(w, results) ==
  /\ league = [week |-> w, status |-> Status(w)]
  /\ score = TableAfter(results, w)
  /\ tables = [k \in Weeks |-> IF k <= w THEN TableAfter(results, k) ELSE Null]

BecomesAt(w, results) ==
  /\ league' = [week |-> w, status |-> Status(w)]
  /\ score' = TableAfter(results, w)
  /\ tables' = [k \in Weeks |-> IF k <= w THEN TableAfter(results, k) ELSE Null]

Init == \E w \in 0..TotalWeeks, results \in [Matches -> Scores] : StandsAt(w, results)

\* The results so far stay; the matches of the weeks up to w get theirs.
Play(w) ==
  \E simulated \in [Matches -> Scores] :
    BecomesAt(w, [m \in Matches |-> IF score[m] # Null THEN score[m] ELSE simulated[m]])

PlayWeek ==
  /\ league # Null
  /\ league.week < TotalWeeks
  /\ Play(league.week + 1)

PlayAll ==
  /\ league # Null
  /\ league.week < TotalWeeks
  /\ Play(TotalWeeks)

Edit ==
  /\ league # Null
  /\ \E m \in Matches, new \in Scores :
       /\ score[m] # Null
       /\ BecomesAt(league.week, [score EXCEPT ![m] = new])

Reset ==
  /\ league # Null
  /\ BecomesAt(0, score)

Delete ==
  /\ league # Null
  /\ league' = Null
  /\ score' = [m \in Matches |-> Null]
  /\ tables' = [k \in Weeks |-> Null]

Next == PlayWeek \/ PlayAll \/ Edit \/ Reset \/ Delete

Spec == Init /\ [][Next]_season
=============================================================================
