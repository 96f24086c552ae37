------------------------ MODULE MCCompoundCorrector ------------------------
(***************************************************************************)
(* Kinds of tokens, one for each way they differ to the corrector: all of  *)
(* them in sentences of up to three tokens, and those that may be merged   *)
(* in sentences of four, in which three candidates overlap.                *)
(***************************************************************************)
EXTENDS CompoundCorrector

Kind(len) ==
  [len |-> len, tail |-> FALSE, inert |-> FALSE, wordInert |-> FALSE,
   stop |-> FALSE, spelled |-> FALSE, titled |-> FALSE]

MCMergeable == {Kind(1), Kind(2), Kind(3), [Kind(2) EXCEPT !.stop = TRUE],
                [Kind(3) EXCEPT !.tail = TRUE]}

MCAllKinds ==
  MCMergeable \cup
  {[Kind(2) EXCEPT !.tail = TRUE],
   [Kind(1) EXCEPT !.stop = TRUE, !.spelled = TRUE],
   [Kind(3) EXCEPT !.spelled = TRUE, !.titled = TRUE],
   [Kind(3) EXCEPT !.titled = TRUE],
   [Kind(2) EXCEPT !.inert = TRUE, !.wordInert = TRUE],
   [Kind(3) EXCEPT !.inert = TRUE, !.tail = TRUE],
   [Kind(0) EXCEPT !.inert = TRUE, !.wordInert = TRUE, !.tail = TRUE,
                   !.spelled = TRUE]}

\* Bound of the model: kept by every step, since tokens never changes.
Bounded == Len(tokens) <= 3 \/ Range(tokens) \subseteq MCMergeable
=============================================================================
