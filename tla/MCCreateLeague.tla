--------------------------- MODULE MCCreateLeague ---------------------------
(***************************************************************************)
(* A catalog of six teams; x is an id that is not in it.                   *)
(***************************************************************************)
EXTENDS CreateLeague

CONSTANTS a, b, c, d, e, f, x

MCRequested ==
  {<<>>, <<f, e, d, c, b, a>>, <<a, b, c, a>>, <<a, b, c, x>>, <<a, b, c>>, <<a, b>>}
=============================================================================
