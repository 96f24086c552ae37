--------------------------- MODULE MCHashMultimap ---------------------------
(***************************************************************************)
(* Two keys that share a bucket of the two smallest tables and part in the *)
(* next one: a rehash keeps them together, a later one separates them.     *)
(***************************************************************************)
EXTENDS HashMultimap

CONSTANTS k1, k2, v1, v2

MCHash == [k \in Key |-> IF k = k1 THEN 1 ELSE 9]
=============================================================================
