------------------------------- MODULE Replay -------------------------------
(***************************************************************************)
(* Playing a league again after a reset.  A history variable remembers the *)
(* first result that a play-week or play-all committed for every match.    *)
(***************************************************************************)
EXTENDS LeagueTx

VARIABLE first  \* the first simulated result of every match, Null before it

\* The results that a play commits in this step.
Played ==
  {m \in Matches :
     /\ score'[m] \notin {Null, score[m]}
     /\ \E r \in Requests : /\ op[r].kind \in {"play", "playAll"}
                            /\ pc[r] = "commit"
                            /\ pc'[r] = "done"}

ReplayInit == Init /\ first = [m \in Matches |-> Null]

ReplayNext ==
  /\ Next
  /\ first' = [m \in Matches |->
                 IF first[m] = Null /\ m \in Played THEN score'[m] ELSE first[m]]

ReplaySpec == ReplayInit /\ [][ReplayNext]_<<vars, first>>

\* "replaying with the same seed reproduces the same results" (Reset's comment
\* in service/league_play.go): a result that is simulated again is the same.
ReplayReproduces ==
  [][\A m \in Played : first[m] # Null => score'[m] = first[m]]_<<vars, first>>
=============================================================================
