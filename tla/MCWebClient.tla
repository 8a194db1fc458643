---------------------------- MODULE MCWebClient ----------------------------
(***************************************************************************)
(* Two leagues of two weeks, predicted from the first; the ids are numbers *)
(* because the page selects the newest league.                             *)
(***************************************************************************)
EXTENDS WebClient

MCLeague == {1, 2}

\* The newer league, which is selected first, is anywhere in its season; the
\* older one, when there is one, is between its two weeks.
MCInit == Init /\ (Exists(1) => server[1].week = 1)

MCFairSpec == MCInit /\ [][Next]_vars /\ WF_vars(Respond)
=============================================================================
