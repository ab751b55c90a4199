----------------------------- MODULE MCConsole ------------------------------
(***************************************************************************)
(* Console with two listeners, two readers and strings of every kind: the  *)
(* empty one, one with a 0 inside, and two of different lengths.           *)
(***************************************************************************)
EXTENDS Console

CONSTANTS l1, l2, r1, r2

MCStrings == {<<>>, <<7, 0, 8>>, <<5, 6>>}
=============================================================================
