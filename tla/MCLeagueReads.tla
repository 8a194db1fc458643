---------------------------- MODULE MCLeagueReads ----------------------------
(***************************************************************************)
(* One reader beside the requests of MCLeagueTx's instances.               *)
(***************************************************************************)
EXTENDS MCLeagueTx, LeagueReads
=============================================================================
