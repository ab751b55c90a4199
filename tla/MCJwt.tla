------------------------------- MODULE MCJwt --------------------------------
(***************************************************************************)
(* Jwt with MACs of two bytes (two modulo three, as 32 is) and JSON texts  *)
(* of every length modulo three.                                           *)
(***************************************************************************)
EXTENDS Jwt, TLC

CONSTANTS t1, t2, k1, k2

MCHeader == <<123, 125>>                                \* {}

\* "a"  "a>?"  "a?aa?": three, five and seven bytes; the second has one "-", the
\* third two "_".
MCPayloads == {<<34, 97, 34>>, <<34, 97, 62, 63, 34>>, <<34, 97, 63, 97, 97, 63, 34>>}

\* In the URL alphabet the first has one "-" and one "_", the second two "_".
MCMacs == {<<251, 241>>, <<255, 255>>}

Symmetry == Permutations(Threads) \cup Permutations(Secrets)
=============================================================================
