--------------------------- MODULE MCSubstrReplacer ---------------------------
(***************************************************************************)
(* Keys that are prefixes of each other, one that sorts between a key and  *)
(* a string it is a prefix of, and the empty one.  The replacements are    *)
(* shorter and longer than the keys and contain some of them.              *)
(***************************************************************************)
EXTENDS SubstrReplacer

MCKeys == {<< >>, <<1>>, <<1, 2>>, <<1, 2, 2>>, <<2>>}
MCReplacements == {<< >>, <<2, 1>>}
=============================================================================
