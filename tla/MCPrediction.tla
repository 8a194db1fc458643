---------------------------- MODULE MCPrediction ----------------------------
(***************************************************************************)
(* Four teams and half of their season: three weeks, of which one or two   *)
(* are played.                                                             *)
(***************************************************************************)
EXTENDS Prediction

MCFixtures ==
  <<[home |-> 1, away |-> 4], [home |-> 2, away |-> 3],
    [home |-> 3, away |-> 1], [home |-> 4, away |-> 2],
    [home |-> 1, away |-> 2], [home |-> 3, away |-> 4]>>

Result(home, away) == [home |-> home, away |-> away]

MCPlayedGoals    == {Result(0, 0), Result(1, 0), Result(0, 2), Result(2, 1)}
MCSimulatedGoals == {Result(0, 0), Result(3, 1)}

MCAsked == {-1, 0, 1, 5}
=============================================================================
