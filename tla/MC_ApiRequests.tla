-------------------------- MODULE MC_ApiRequests ---------------------------
(***************************************************************************)
(* Small argument sets: 0 and a positive integer, the empty string and a   *)
(* word, so that every falsy-but-set case and every None case occurs, and  *)
(* an env dict whose insertion order is not alphabetical.                  *)
(***************************************************************************)
EXTENDS ApiRequests

MC_Ints == {0, 2}
MC_Strs == {"", "eu"}
MC_EnvMaps == {<<>>, <<<<"B", "2">>, <<"A", "1">>>>}
=============================================================================
