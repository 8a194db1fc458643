------------------------------ MODULE MCServer ------------------------------
(***************************************************************************)
(* A pool smaller than the number of clients; one match a week.            *)
(***************************************************************************)
EXTENDS MCLeagueTx, Server
=============================================================================
