-------------------------- MODULE CompoundCorrector --------------------------
(***************************************************************************)
(* CompoundCorrector::CorrectWithStatus: one sentence, corrected in steps. *)
(*                                                                         *)
(*   candidates   every pair of neighbours is weighed for a merge          *)
(*   scan         the sentence is cut, left to right, into words, each     *)
(*                one token or a merge of two                              *)
(*   fix          the words that are still unknown may be substituted      *)
(*                                                                         *)
(* A token is a record of what the steps can tell about it:                *)
(*                                                                         *)
(*   len        the length of its core (what strip_trailing_punct leaves)  *)
(*   tail       it has trailing punctuation                                *)
(*   inert      its core has a Chinese character or no letter at all       *)
(*   wordInert  the same of the whole token; a core without letters may    *)
(*              have a tail that is not ASCII, so inert does not imply it  *)
(*   stop       its core is a stop word                                    *)
(*   spelled    the dictionary knows its core                              *)
(*   titled     the dictionary knows its core with a capital first letter  *)
(*                                                                         *)
(* What the dictionary, the unigram table and the acronym list say of the  *)
(* two cores of a pair joined together is chosen freely, pair by pair.     *)
(***************************************************************************)
EXTENDS Integers, Sequences, SequencesExt

CONSTANTS
  TokenKinds,           (* The tokens a sentence is made of.               *)
  MaxTokens,            (* Bound of the model: the longest sentence.       *)
  LogProbs,             (* Unigram log-probabilities, only their order and *)
                        (* that of the next two matters.                   *)
  AcronymOverride,      (* config.acronym_override_logprob                 *)
  ShortShortThreshold,  (* config.short_short_arpa_threshold               *)
  Floor,                (* config.arpa_unigram_floor                       *)
  FixMinLen             (* config.single_word_fix_min_len                  *)

Token == [len : Nat, tail : BOOLEAN, inert : BOOLEAN, wordInert : BOOLEAN,
          stop : BOOLEAN, spelled : BOOLEAN, titled : BOOLEAN]

(* A word is inert only if its core is, and if it has no tail, it is its   *)
(* core; a stop word is a word of one or two letters.                      *)
ASSUME TokenAssumption ==
  /\ TokenKinds \subseteq Token
  /\ \A t \in TokenKinds :
       /\ t.wordInert => t.inert
       /\ t.inert /\ ~ t.tail => t.wordInert
       /\ t.stop => ~ t.inert /\ t.len \in 1 .. 2

ASSUME ConfigAssumption ==
  /\ MaxTokens \in Nat
  /\ LogProbs \subseteq Int
  /\ {AcronymOverride, ShortShortThreshold, Floor, FixMinLen} \subseteq Int

VARIABLES
  tokens,     (* The tokens of the input.                                   *)
  fixSingle,  (* The argument fix_single.                                   *)
  pc,         (* "candidates", "scan", "fix" or "done".                     *)
  i,          (* The loop index of the step: of a token, in "fix" of a word. *)
  mergeInfo,  (* For each pair, whether it may be merged and its weight.    *)
  merged,     (* The words of the output, each with the tokens it stands    *)
              (* for and the punctuation it carries.                        *)
  status      (* result.status                                              *)

vars == <<tokens, fixSingle, pc, i, mergeInfo, merged, status>>

-----------------------------------------------------------------------------
(* Step 2: how a token is classified. *)
Class_ShortFirst(t) ==      (* Faulty variant: short words are never inert. *)
  IF t.len <= 2 THEN "SHORT_VALID"
  ELSE IF t.inert \/ t.spelled THEN "LONG_VALID" ELSE "INVALID"

Class(t) ==
  IF ~ t.inert /\ t.len <= 2 THEN "SHORT_VALID"
  ELSE IF t.inert \/ t.spelled THEN "LONG_VALID" ELSE "INVALID"

ShortShort(l, r) == Class(l) = "SHORT_VALID" /\ Class(r) = "SHORT_VALID"

(* What can be known of a pair, its two cores joined. *)
Lookup == [spelled : BOOLEAN,       (* spell() as typed                   *)
           upperSpelled : BOOLEAN,  (* spell() in upper case              *)
           acronym : BOOLEAN,       (* is_known_acronym() in upper case   *)
           logprob : LogProbs,      (* get_logprob() as typed             *)
           upperLogprob : LogProbs] (* get_logprob() in upper case        *)

(* Step 3: which pairs are worth a look. *)
MergeableClasses(l, r, found) ==
  \/ Class(l) = "INVALID" /\ Class(r) # "LONG_VALID"
  \/ Class(l) = "SHORT_VALID" /\ Class(r) = "INVALID"
  \/ /\ ShortShort(l, r)
     /\ l.len + r.len = 3 \/ (l.len = 2 /\ r.len = 2 /\ found.acronym)
     /\ ~ (l.stop /\ r.stop)

(* Faulty variant: punctuation between the two cores is no obstacle. *)
TryMerge_IgnoreTail(l, r, found) == MergeableClasses(l, r, found)

TryMerge(l, r, found) == ~ l.tail /\ MergeableClasses(l, r, found)

UpperWeight(found) ==
  IF found.acronym THEN AcronymOverride ELSE found.upperLogprob

UpperAccepted(l, r, found) ==
  /\ found.upperSpelled \/ found.acronym
  /\ ShortShort(l, r) => UpperWeight(found) >= ShortShortThreshold

(* A pair is joined as typed if the dictionary knows it so and it is not   *)
(* two short words, else in upper case if that is accepted.                *)
AsTyped(l, r, found) ==
  TryMerge(l, r, found) /\ ~ ShortShort(l, r) /\ found.spelled

InUpper(l, r, found) ==
  /\ TryMerge(l, r, found) /\ ~ AsTyped(l, r, found)
  /\ UpperAccepted(l, r, found)

Candidate(l, r, found) ==
  [valid |-> AsTyped(l, r, found) \/ InUpper(l, r, found),
   logprob |-> IF AsTyped(l, r, found) THEN found.logprob
               ELSE IF InUpper(l, r, found) THEN UpperWeight(found) ELSE Floor]

(* Step 4: the candidate at t is merged unless the one that would take its *)
(* second token weighs more.                                               *)
Merges_TieGoesRight(t) ==     (* Faulty variant: > for >=. *)
  /\ t < Len(tokens) /\ mergeInfo[t].valid
  /\ t + 1 < Len(tokens) /\ mergeInfo[t + 1].valid
       => mergeInfo[t].logprob > mergeInfo[t + 1].logprob

Merges(t) ==
  /\ t < Len(tokens) /\ mergeInfo[t].valid
  /\ t + 1 < Len(tokens) /\ mergeInfo[t + 1].valid
       => mergeInfo[t].logprob >= mergeInfo[t + 1].logprob

(* A word of the output that stands for the tokens first to last, and       *)
(* whether it was substituted.                                             *)
Word(first, last, fixed) ==
  [first |-> first, last |-> last, tail |-> tokens[last].tail,
   fixed |-> fixed]

(* Step 5: the words that are left alone, and those too short to look up. *)
LeftAlone_AsTyped(t) ==   (* Faulty variant: the core is not tried with a capital. *)
  t.wordInert \/ t.spelled

LeftAlone(t) == t.wordInert \/ t.spelled \/ t.titled

MayFix(t) == ~ LeftAlone(t) /\ t.len >= FixMinLen

-----------------------------------------------------------------------------
Init ==
  /\ tokens \in BoundedSeq(TokenKinds, MaxTokens)
  /\ fixSingle \in BOOLEAN
  /\ pc = IF Len(tokens) < 2 THEN "single" ELSE "candidates"
  /\ i = 1
  /\ mergeInfo = << >>
  /\ merged = << >>
  /\ status = [t \in DOMAIN tokens |-> 0]

(* No token, or a single one that is not to be, or cannot be, fixed. *)
PassThrough ==
  /\ pc = "single"
  /\ merged' = [t \in DOMAIN tokens |-> Word(t, t, FALSE)]
  /\ pc' = "done"
  /\ UNCHANGED <<tokens, fixSingle, i, mergeInfo, status>>

(* try_single_fix has a suggestion for the only token. *)
FixSingleToken ==
  /\ pc = "single"
  /\ fixSingle
  /\ Len(tokens) = 1 /\ MayFix(tokens[1])
  /\ merged' = <<Word(1, 1, TRUE)>>
  /\ status' = <<2>>
  /\ pc' = "done"
  /\ UNCHANGED <<tokens, fixSingle, i, mergeInfo>>

(* One round of step 3, for the pair of tokens i and i + 1. *)
WeighPair ==
  /\ pc = "candidates"
  /\ i < Len(tokens)
  /\ \E found \in Lookup :
       mergeInfo' = Append(mergeInfo, Candidate(tokens[i], tokens[i + 1], found))
  /\ i' = i + 1
  /\ UNCHANGED <<tokens, fixSingle, pc, merged, status>>

StartScan ==
  /\ pc = "candidates"
  /\ i >= Len(tokens)
  /\ pc' = "scan"
  /\ i' = 1
  /\ UNCHANGED <<tokens, fixSingle, mergeInfo, merged, status>>

(* Faulty variant: the token merged into its neighbour is scanned again. *)
MergePair_StepOne ==
  /\ pc = "scan"
  /\ i <= Len(tokens)
  /\ Merges(i)
  /\ merged' = Append(merged, Word(i, i + 1, FALSE))
  /\ status' = [status EXCEPT ![i] = 1, ![i + 1] = -1]
  /\ i' = i + 1
  /\ UNCHANGED <<tokens, fixSingle, pc, mergeInfo>>

(* One round of step 4 that merges tokens i and i + 1. *)
MergePair ==
  /\ pc = "scan"
  /\ i <= Len(tokens)
  /\ Merges(i)
  /\ merged' = Append(merged, Word(i, i + 1, FALSE))
  /\ status' = [status EXCEPT ![i] = 1, ![i + 1] = -1]
  /\ i' = i + 2
  /\ UNCHANGED <<tokens, fixSingle, pc, mergeInfo>>

(* One round of step 4 that keeps token i. *)
KeepToken ==
  /\ pc = "scan"
  /\ i <= Len(tokens)
  /\ ~ Merges(i)
  /\ merged' = Append(merged, Word(i, i, FALSE))
  /\ i' = i + 1
  /\ UNCHANGED <<tokens, fixSingle, pc, mergeInfo, status>>

FinishScan ==
  /\ pc = "scan"
  /\ i > Len(tokens)
  /\ pc' = IF fixSingle THEN "fix" ELSE "done"
  /\ i' = 1
  /\ UNCHANGED <<tokens, fixSingle, mergeInfo, merged, status>>

(* Faulty variant: the status of the word is looked up, and set, under its *)
(* index in the output.                                                    *)
StatusIndex_OfWord(k) == k

(* orig_start[k] *)
StatusIndex(k) == merged[k].first

(* Faulty variant: the loop goes on without the next word. *)
LeaveWord_NoStep ==
  /\ pc = "fix"
  /\ i <= Len(merged)
  /\ UNCHANGED vars

(* One round of step 5 that leaves word i as it is: it was merged, it is   *)
(* not to be fixed, or try_single_fix has nothing for it.                  *)
LeaveWord ==
  /\ pc = "fix"
  /\ i <= Len(merged)
  /\ i' = i + 1
  /\ UNCHANGED <<tokens, fixSingle, pc, mergeInfo, merged, status>>

(* Faulty variant: words that were merged are looked at again. *)
FixWord_Merged ==
  /\ pc = "fix"
  /\ i <= Len(merged)
  /\ MayFix(tokens[merged[i].first])
  /\ merged' = [merged EXCEPT ![i] = Word(@.first, @.last, TRUE)]
  /\ status' = [status EXCEPT ![StatusIndex(i)] = 2]
  /\ i' = i + 1
  /\ UNCHANGED <<tokens, fixSingle, pc, mergeInfo>>

(* One round of step 5 that substitutes word i, a single token. *)
FixWord ==
  /\ pc = "fix"
  /\ i <= Len(merged)
  /\ status[StatusIndex(i)] = 0
  /\ MayFix(tokens[merged[i].first])
  /\ merged' = [merged EXCEPT ![i] = Word(@.first, @.last, TRUE)]
  /\ status' = [status EXCEPT ![StatusIndex(i)] = 2]
  /\ i' = i + 1
  /\ UNCHANGED <<tokens, fixSingle, pc, mergeInfo>>

FinishFix ==
  /\ pc = "fix"
  /\ i > Len(merged)
  /\ pc' = "done"
  /\ UNCHANGED <<tokens, fixSingle, i, mergeInfo, merged, status>>

Next ==
  \/ PassThrough \/ FixSingleToken
  \/ WeighPair \/ StartScan
  \/ MergePair \/ KeepToken \/ FinishScan
  \/ LeaveWord \/ FixWord \/ FinishFix

Spec == Init /\ [][Next]_vars

(* CorrectWithStatus is called and runs on. *)
FairSpec == Spec /\ WF_vars(Next)

-----------------------------------------------------------------------------
(* The variables hold values of their types, and the indexes stay within   *)
(* the sequences they range over.                                          *)
TypeOK ==
  /\ tokens \in Seq(TokenKinds)
  /\ fixSingle \in BOOLEAN
  /\ pc \in {"single", "candidates", "scan", "fix", "done"}
  /\ i \in 1 .. Len(tokens) + 1
  /\ mergeInfo \in Seq([valid : BOOLEAN, logprob : Int])
  /\ merged \in Seq([first : DOMAIN tokens, last : DOMAIN tokens,
                     tail : BOOLEAN, fixed : BOOLEAN])
  /\ status \in [DOMAIN tokens -> {-1, 0, 1, 2}]

(* The words cover the tokens from the first on, each once and in order: a *)
(* caller that walks the words and the statuses in parallel never loses    *)
(* its place, and at the end no token is missing from the text.            *)
WordsCoverTokens ==
  LET covered == IF merged = << >> THEN 0 ELSE merged[Len(merged)].last
  IN /\ \A k \in DOMAIN merged :
          /\ merged[k].first = IF k = 1 THEN 1 ELSE merged[k - 1].last + 1
          /\ merged[k].last \in {merged[k].first, merged[k].first + 1}
     /\ pc = "scan" => covered = i - 1
     /\ pc \in {"fix", "done"} => covered = Len(tokens)

(* The status codes tell what became of each token: a word of two tokens   *)
(* is 1 then -1, a word of one is 2 if it was substituted and 0 if not,    *)
(* and a token no word stands for yet is 0.                                *)
StatusTellsOutput ==
  /\ \A k \in DOMAIN merged :
       LET w == merged[k]
       IN IF w.first = w.last
          THEN status[w.first] = IF w.fixed THEN 2 ELSE 0
          ELSE ~ w.fixed /\ status[w.first] = 1 /\ status[w.last] = -1
  /\ \A t \in DOMAIN tokens :
       (\A k \in DOMAIN merged : t \notin merged[k].first .. merged[k].last)
         => status[t] = 0

(* Trailing punctuation survives: the token that has it is the last of its *)
(* word, and the word carries it.                                          *)
PunctuationKept ==
  \A k \in DOMAIN merged : \A t \in merged[k].first .. merged[k].last :
    tokens[t].tail => t = merged[k].last /\ merged[k].tail

(* What is left alone on every path that changes a token: inert tokens     *)
(* (Chinese text, numbers, symbols) and pairs of stop words are never      *)
(* merged, a merged word is not substituted on top, and a substituted word *)
(* is one token that the dictionary knows neither as typed nor with a      *)
(* capital.  README.md:285-286 calls inert tokens safe without exception,  *)
(* but the fix pass asks this of the whole word, the merge pass of the     *)
(* core (compound_corrector.cxx:431, 646-655): an inert token may be       *)
(* substituted, only if its tail makes a word of it that is not inert.     *)
(* (One of two tokens of a merge may be a stop word; the fix pass does not *)
(* ask about stop words.)                                                  *)
InertAndStopWordsKept ==
  \A k \in DOMAIN merged :
    LET l == tokens[merged[k].first]
        r == tokens[merged[k].last]
    IN /\ merged[k].first # merged[k].last =>
            ~ l.inert /\ ~ r.inert /\ ~ (l.stop /\ r.stop)
       /\ merged[k].fixed =>
            /\ merged[k].first = merged[k].last
            /\ l.inert => l.tail /\ ~ l.wordInert
            /\ ~ l.spelled /\ ~ l.titled

(* The scan misses no merge: a candidate was merged, or one of its tokens  *)
(* went to the candidate before it, or the one after it weighs more and    *)
(* was preferred.                                                          *)
CandidatesResolved ==
  pc \in {"fix", "done"} =>
    \A t \in DOMAIN mergeInfo :
      mergeInfo[t].valid =>
        \/ status[t] = 1
        \/ status[t] = -1
        \/ /\ t + 1 \in DOMAIN mergeInfo
           /\ mergeInfo[t + 1].valid
           /\ mergeInfo[t + 1].logprob > mergeInfo[t].logprob

(* The correction ends, with every token in the output. *)
Terminates == <>(pc = "done")

(* Every token is decided at most once. *)
Abs == INSTANCE TokenStatus
ImplementsTokenStatus == Abs!Spec
=============================================================================
