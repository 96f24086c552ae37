------------------------------ MODULE SingleFix ------------------------------
(***************************************************************************)
(* CompoundCorrector::Impl::try_single_fix: which of the suggestions for a *)
(* word replaces it.  CompoundCorrector.tla leaves the outcome open; here  *)
(* it is decided, one suggestion per step, in the order suggest() gives.   *)
(*                                                                         *)
(* A suggestion is a record of what the loop compares: whether it is as    *)
(* long as the word, its Hamming distance, whether it begins with the same *)
(* letter and its unigram log-probability.                                 *)
(***************************************************************************)
EXTENDS Integers, Sequences, SequencesExt, FiniteSets, FiniteSetsExt

CONSTANTS
  Distances,        (* Bound of the model: the distances that occur.        *)
  LogProbs,         (* Bound of the model: the log-probabilities.           *)
  MaxSuggestions,   (* Bound of the model: the longest list of suggestions. *)
  Lowest,           (* Minus infinity: below every weight.                  *)
  Threshold,        (* config.hamming_distance_threshold                    *)
  Bonus             (* config.same_first_letter_bonus                       *)

Suggestion == [sameLength : BOOLEAN, distance : Distances,
               sameFirst : BOOLEAN, logprob : LogProbs]

WeightsAssumption ==
  /\ Distances \subseteq Nat
  /\ Threshold \in Nat /\ MaxSuggestions \in Nat
  /\ LogProbs \subseteq Int
  /\ Bonus \in Int /\ Lowest \in Int
  /\ \A lp \in LogProbs : Lowest < lp /\ Lowest < lp + Bonus

VARIABLES
  suggs,         (* What dict.suggest returned.                             *)
  j,             (* The suggestion the loop is at.                          *)
  best,          (* Where best_candidate is in suggs, 0 while it is empty.  *)
  bestLogprob,   (* best_logprob                                            *)
  pc             (* "loop" or "done".                                       *)

vars == <<suggs, j, best, bestLogprob, pc>>

-----------------------------------------------------------------------------
(* Mutant: the distance is compared with <=, so that a suggestion          *)
(* that differs in case only is taken for a correction.                    *)
Eligible_AtMost(s) == s.sameLength /\ s.distance <= Threshold

Eligible(s) == s.sameLength /\ s.distance = Threshold

Weight(s) == s.logprob + (IF s.sameFirst THEN Bonus ELSE 0)

(* Mutant: of equal weights the later one is kept.                         *)
Better_OrEqual(s) == Weight(s) >= bestLogprob

Better(s) == Weight(s) > bestLogprob

Init ==
  /\ suggs \in BoundedSeq(Suggestion, MaxSuggestions)
  /\ j = 1
  /\ best = 0
  /\ bestLogprob = Lowest
  /\ pc = "loop"

(* A suggestion that is eligible and weighs more than the best so far. *)
TakeSuggestion ==
  /\ pc = "loop"
  /\ j <= Len(suggs)
  /\ Eligible(suggs[j]) /\ Better(suggs[j])
  /\ best' = j
  /\ bestLogprob' = Weight(suggs[j])
  /\ j' = j + 1
  /\ UNCHANGED <<suggs, pc>>

RejectSuggestion ==
  /\ pc = "loop"
  /\ j <= Len(suggs)
  /\ ~ (Eligible(suggs[j]) /\ Better(suggs[j]))
  /\ j' = j + 1
  /\ UNCHANGED <<suggs, best, bestLogprob, pc>>

Return ==
  /\ pc = "loop"
  /\ j > Len(suggs)
  /\ pc' = "done"
  /\ UNCHANGED <<suggs, j, best, bestLogprob>>

Next == TakeSuggestion \/ RejectSuggestion \/ Return

Spec == Init /\ [][Next]_vars
Done == pc = "done"

-----------------------------------------------------------------------------
EligibleIndexes == {n \in DOMAIN suggs : Eligible(suggs[n])}

(* best names a suggestion that the loop has been at. *)
TypeOK ==
  /\ suggs \in Seq(Suggestion)
  /\ j \in 1 .. Len(suggs) + 1
  /\ best \in 0 .. j - 1
  /\ bestLogprob \in Int
  /\ pc \in {"loop", "done"}

(* The fix is the heaviest of the eligible suggestions, the first of them  *)
(* if several weigh the same, and there is a fix whenever one is eligible: *)
(* the order of the list decides ties and nothing else.                    *)
HeaviestChosen ==
  pc = "done" =>
    /\ best = 0 <=> EligibleIndexes = {}
    /\ best # 0 =>
         /\ suggs[best].sameLength /\ suggs[best].distance = Threshold
         /\ \A n \in EligibleIndexes :
              /\ Weight(suggs[n]) <= Weight(suggs[best])
              /\ Weight(suggs[n]) = Weight(suggs[best]) => best <= n
=============================================================================
