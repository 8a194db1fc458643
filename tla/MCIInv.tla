------------------------------- MODULE MCIInv -------------------------------
(***************************************************************************)
(* The instances of MCLeagueTx with the invariant of the proofs in sight.  *)
(***************************************************************************)
EXTENDS MCLeagueTx, LeagueTx_proofs

\* The ratings are those before a change, until a request changes them.
RatedInit == Init /\ ratings = before

RatedSpec == RatedInit /\ [][Next]_vars
=============================================================================
