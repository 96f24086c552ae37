---------------------------- MODULE LeafSearches ----------------------------
(***************************************************************************)
(* The routines at the bottom of the program, which call nothing that is   *)
(* modelled: the iterator over the affixes of a word, the match of an      *)
(* affix condition, the match of a compound rule and the cutting of a word *)
(* for it, the spellings with sharp s, the choice of a suggestion, the     *)
(* replacement of substrings and the reader of a bundle.  A behaviour is   *)
(* one call of one of them; the variables of the others are idle.          *)
(***************************************************************************)
EXTENDS Integers, Sequences

CONSTANTS
    Tables, IndexedWords,                                   \* AffixIndex
    Conditions, ConditionedWords, LeadBytes,                \* Condition
    Rules, WordSequences,                                   \* SimpleRegex
    Languages, RuledWords,                                  \* CompoundRules
    Bases, Lists, MaxSharps,                                \* Sharps
    Distances, LogProbs, MaxSuggestions, Lowest, Threshold, Bonus, \* SingleFix
    Char, ReplacedKeys, Replacements, MaxPairs, MaxLength,  \* SubstrReplacer
    Contents, Name, Magic, Version                          \* Bundle

VARIABLES
    search,     \* which one is called
    table, key, it, last, len, valid, index_pc, visited,    \* AffixIndex
    given, word, side, condition_pc, i, num_cp, s, s_i,     \* Condition
    pattern, data, stack, verdict,                          \* SimpleRegex
    lang, cut, allowForce, words_data, open, rules_pc, result,  \* CompoundRules
    input, list, base, calls, ret, looks,                   \* Sharps
    suggs, j, best, bestLogprob, fix_pc,                    \* SingleFix
    pairs, original, rewritten, rewritten_i, replace_pc,              \* SubstrReplacer
    packed, file, pos, bad, left, entry, entries, bundle_pc \* Bundle

Index == INSTANCE AffixIndex WITH Inputs <- IndexedWords, word <- key, pc <- index_pc
Cond == INSTANCE Condition WITH Inputs <- ConditionedWords, pc <- condition_pc
Regex == INSTANCE SimpleRegex WITH Words <- WordSequences
Ruled == INSTANCE CompoundRules
    WITH Inputs <- RuledWords, input <- cut, calls <- open, pc <- rules_pc
Sharp == INSTANCE Sharps
Fix == INSTANCE SingleFix WITH pc <- fix_pc
Replacer == INSTANCE SubstrReplacer
    WITH Keys <- ReplacedKeys, table <- pairs, input <- original, s <- rewritten,
         i <- rewritten_i, pc <- replace_pc
Reader == INSTANCE Bundle WITH pc <- bundle_pc

ASSUME SharpsAssumption == Sharp!MaxSharpsAssumption
ASSUME FixAssumption == Fix!WeightsAssumption
ASSUME ReplacerAssumption == Replacer!StringsAssumption
ASSUME ReaderAssumption == Reader!BundleAssumption

indexVars == <<table, key, it, last, len, valid, index_pc, visited>>
condVars == <<given, word, side, condition_pc, i, num_cp, s, s_i>>
regexVars == <<pattern, data, stack, verdict>>
ruledVars == <<lang, cut, allowForce, words_data, open, rules_pc, result>>
sharpVars == <<input, list, base, calls, ret, looks>>
fixVars == <<suggs, j, best, bestLogprob, fix_pc>>
replacerVars == <<pairs, original, rewritten, rewritten_i, replace_pc>>
readerVars == <<packed, file, pos, bad, left, entry, entries, bundle_pc>>
vars == <<search, indexVars, condVars, regexVars, ruledVars, sharpVars,
          fixVars, replacerVars, readerVars>>

\* What is not called holds no values.
Idle == "idle"
IndexIdle ==
    /\ table = Idle /\ key = Idle /\ it = Idle /\ last = Idle
    /\ len = Idle /\ valid = Idle /\ index_pc = Idle /\ visited = Idle
CondIdle ==
    /\ given = Idle /\ word = Idle /\ side = Idle /\ condition_pc = Idle
    /\ i = Idle /\ num_cp = Idle /\ s = Idle /\ s_i = Idle
RegexIdle == pattern = Idle /\ data = Idle /\ stack = Idle /\ verdict = Idle
RuledIdle ==
    /\ lang = Idle /\ cut = Idle /\ allowForce = Idle /\ words_data = Idle
    /\ open = Idle /\ rules_pc = Idle /\ result = Idle
SharpIdle ==
    /\ input = Idle /\ list = Idle /\ base = Idle /\ calls = Idle
    /\ ret = Idle /\ looks = Idle
FixIdle == suggs = Idle /\ j = Idle /\ best = Idle /\ bestLogprob = Idle /\ fix_pc = Idle
ReplacerIdle == pairs = Idle /\ original = Idle /\ rewritten = Idle /\ rewritten_i = Idle /\ replace_pc = Idle
ReaderIdle ==
    /\ packed = Idle /\ file = Idle /\ pos = Idle /\ bad = Idle
    /\ left = Idle /\ entry = Idle /\ entries = Idle /\ bundle_pc = Idle

Init ==
    /\ search \in {"index", "condition", "regex", "rules",
                  "sharps", "fix", "replace", "bundle"}
    /\ IF search = "index" THEN Index!Init ELSE IndexIdle
    /\ IF search = "condition" THEN Cond!Init ELSE CondIdle
    /\ IF search = "regex" THEN Regex!Init ELSE RegexIdle
    /\ IF search = "rules" THEN Ruled!Init ELSE RuledIdle
    /\ IF search = "sharps" THEN Sharp!Init ELSE SharpIdle
    /\ IF search = "fix" THEN Fix!Init ELSE FixIdle
    /\ IF search = "replace" THEN Replacer!Init ELSE ReplacerIdle
    /\ IF search = "bundle" THEN Reader!Init ELSE ReaderIdle

OfIndex == search = "index" /\ Index!Next
           /\ UNCHANGED <<search, condVars, regexVars, ruledVars,
                         sharpVars, fixVars, replacerVars, readerVars>>
OfCond == search = "condition" /\ Cond!Next
           /\ UNCHANGED <<search, indexVars, regexVars, ruledVars,
                         sharpVars, fixVars, replacerVars, readerVars>>
OfRegex == search = "regex" /\ Regex!Next
           /\ UNCHANGED <<search, indexVars, condVars, ruledVars,
                         sharpVars, fixVars, replacerVars, readerVars>>
OfRuled == search = "rules" /\ Ruled!Next
           /\ UNCHANGED <<search, indexVars, condVars, regexVars,
                         sharpVars, fixVars, replacerVars, readerVars>>
OfSharp == search = "sharps" /\ Sharp!Next
           /\ UNCHANGED <<search, indexVars, condVars, regexVars,
                         ruledVars, fixVars, replacerVars, readerVars>>
OfFix == search = "fix" /\ Fix!Next
           /\ UNCHANGED <<search, indexVars, condVars, regexVars,
                         ruledVars, sharpVars, replacerVars, readerVars>>
OfReplacer == search = "replace" /\ Replacer!Next
           /\ UNCHANGED <<search, indexVars, condVars, regexVars,
                         ruledVars, sharpVars, fixVars, readerVars>>
OfReader == search = "bundle" /\ Reader!Next
           /\ UNCHANGED <<search, indexVars, condVars, regexVars,
                         ruledVars, sharpVars, fixVars, replacerVars>>

Next == OfIndex \/ OfCond \/ OfRegex \/ OfRuled
          \/ OfSharp \/ OfFix \/ OfReplacer \/ OfReader
Spec == Init /\ [][Next]_vars
\* What is called runs on.
FairSpec == Spec /\ WF_vars(Next)

-----------------------------------------------------------------------------
\* Each conjunct is explained in the module it comes from.

\* What a routine relies on while it runs.  The affix iterator compares keys
\* at a place that all of them have; Condition::match_prefix never takes the
\* rest of a letter for another one; spell_sharps has sharp s in its buffer
\* exactly for the calls that are open, and check_compound_with_rules the
\* flags of exactly the parts that are; replace looks at no text it wrote;
\* and no index leaves its text.
PlacesAreSound ==
    /\ search = "index" => Index!TypeOK /\ Index!RangeIsComparable
    /\ search = "condition" => Cond!TypeOK /\ Cond!InStep
    /\ search = "regex" => Regex!TypeOK
    /\ search = "rules" => Ruled!DataIsOpenParts
    /\ search = "sharps" => Sharp!TypeOK /\ Sharp!SharpsAreOpenCalls
    /\ search = "fix" => Fix!TypeOK
    /\ search = "replace" => Replacer!SinglePass
    /\ search = "bundle" => Reader!TypeOK

\* What a routine answers is what it means, although each takes a short cut.
\* Iter_Prefixes_Of visits the keys that begin the word, each once; Condition
\* refuses what is malformed and else matches it; match_simple_regex answers
\* for the whole rule though it gives up early; a word is found by the rules
\* if and only if one of its cuts matches one; spell_sharps looks up every
\* spelling once; try_single_fix chooses the heaviest suggestion, and the
\* first on a tie; a key that find_match finds is the longest that fits; a
\* bundle is loaded as it was packed, or refused if it was cut.
AnswersAreMeant ==
    /\ search = "index" => Index!VisitsWhatFits
    /\ search = "condition" => Cond!VerdictIsMeaning
    /\ search = "regex" => Regex!VerdictIsMeaning
    /\ search = "rules" => Ruled!FoundIsCompound
    /\ search = "sharps" => Sharp!EveryVariantOnce
    /\ search = "fix" => Fix!HeaviestChosen
    /\ search = "replace" => Replacer!FoundIsLongest
    /\ search = "bundle" => Reader!AllOrNothing

\* Each of them comes to an end: the stars of a rule, the recursions, an
\* empty key of a table and the zero that a failed read gives for a length
\* do not keep it going.
Terminates ==
    <>(/\ search = "index" => Index!Done
       /\ search = "condition" => Cond!Done
       /\ search = "regex" => Regex!Done
       /\ search = "rules" => Ruled!Done
       /\ search = "sharps" => Sharp!Done
       /\ search = "fix" => Fix!Done
       /\ search = "replace" => replace_pc = "done"
       /\ search = "bundle" => bundle_pc \in {"loaded", "rejected"})
=============================================================================
