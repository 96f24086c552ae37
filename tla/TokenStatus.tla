----------------------------- MODULE TokenStatus -----------------------------
(***************************************************************************)
(* What CorrectionResult::status promises a caller that aligns the         *)
(* corrected text with its own tokens: every token is decided at most      *)
(* once.  A merge claims two neighbours that were both undecided, a        *)
(* substitution one token that was undecided, and nothing is taken back.   *)
(***************************************************************************)
EXTENDS Integers, Sequences

CONSTANT MaxTokens    (* The longest sentence. *)

VARIABLE status       (* The status code of each token. *)

Unchanged == 0
MergedWithNext == 1
MergedByPrev == -1
Substituted == 2

Init == \E n \in 0 .. MaxTokens : status = [t \in 1 .. n |-> Unchanged]

Merge(t) ==
  /\ t + 1 \in DOMAIN status
  /\ status[t] = Unchanged /\ status[t + 1] = Unchanged
  /\ status' = [status EXCEPT ![t] = MergedWithNext, ![t + 1] = MergedByPrev]

Substitute(t) ==
  /\ status[t] = Unchanged
  /\ status' = [status EXCEPT ![t] = Substituted]

Next == \E t \in DOMAIN status : Merge(t) \/ Substitute(t)

Spec == Init /\ [][Next]_status
=============================================================================
