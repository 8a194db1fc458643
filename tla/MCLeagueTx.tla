---------------------------- MODULE MCLeagueTx ----------------------------
(***************************************************************************)
(* Small instances of LeagueTx: two weeks, the first with two matches.     *)
(***************************************************************************)
EXTENDS LeagueTx, TLC, FiniteSets

CONSTANTS m1, m2, m3, before, after

MCMatches == {m1, m2, m3}
MCWeekOf  == m1 :> 1 @@ m2 :> 1 @@ m3 :> 2

\* Two matches, one a week, where the interleavings are what matters.
MCTwoMatches == {m1, m3}
MCTwoWeekOf  == m1 :> 1 @@ m3 :> 2

\* What the simulator scores with the ratings before and after a change.
MCSimulated(matches) == [q \in Ratings |-> [m \in matches |-> IF q = before THEN "1-0" ELSE "0-2"]]
MCSimulatedThree == MCSimulated(MCMatches)
MCSimulatedTwo   == MCSimulated(MCTwoMatches)

\* Requests are told apart by what they ask for, never by their identity.
RequestSymmetry == Permutations(Requests)

\* The two matches of week 1 are alike, too.
WeekSymmetry == Permutations(Requests) \cup Permutations({m1, m2})
=============================================================================
