--------------------------- MODULE CompoundRules ---------------------------
(***************************************************************************)
(* Checker::check_compound_with_rules: is a word a compound by one of the  *)
(* COMPOUNDRULE patterns?  The word is cut like in CompoundCheck, but the  *)
(* parts are looked up as they are, their flags are kept in words_data,    *)
(* and the rules are matched against all of them when a part may be the    *)
(* last one.  A call that returns takes its own flags out of words_data.   *)
(***************************************************************************)
EXTENDS Integers, Sequences, SequencesExt, FiniteSets

CONSTANTS
    Languages,  \* names to dictionaries [words, rules, min]; words is a
                \* sequence of [stem, flags], rules a set of patterns
    Inputs      \* for each dictionary, the words that are checked

VARIABLES
    lang, input,
    allowForce, \* allow_bad_forceucase
    words_data, \* the flags of the parts
    calls,      \* the stack of calls, outermost first
    pc,         \* "search", "last", "return"
    result      \* what the call that returned last returned
vars == <<lang, input, allowForce, words_data, calls, pc, result>>

L == Languages[lang]
\* match_simple_regex answers by this meaning.
Regex == INSTANCE SimpleRegex
    WITH Rules <- {}, Words <- {}, pattern <- <<>>, data <- words_data,
         stack <- <<>>, verdict <- "running"
MatchAnyRule(d) == \E r \in L.rules : Regex!Matches(r, d)

\* all_flags, and the first entry of a part that has one of them.
AllFlags == UNION {ToSet(r) : r \in L.rules} \ {"?", "*"}
NoEntry == [stem |-> <<>>, flags |-> {}]
Usable(part) ==
    SelectSeq(L.words, LAMBDA e : /\ e.stem = part /\ "needaffix" \notin e.flags
                                  /\ e.flags \cap AllFlags # {})
Entry(part) == IF Usable(part) = <<>> THEN NoEntry ELSE Head(Usable(part))

MinLetters == IF L.min = 0 THEN 3 ELSE L.min
\* Mutant: the least number of letters is not kept at the end.
Call_NoMinAtEnd(start) ==
    [start |-> start, i |-> start + MinLetters,
     last |-> Len(input) - 1, part1 |-> NoEntry]
\* part1 is set while a call waits for the one on the rest.
Call(start) ==
    [start |-> start, i |-> start + MinLetters,
     last |-> Len(input) - MinLetters, part1 |-> NoEntry]
Depth == Len(calls)
Top == calls[Depth]
Part1 == Entry(SubSeq(input, Top.start + 1, Top.i))
Part2 == Entry(SubSeq(input, Top.i + 1, Len(input)))

Init ==
    /\ lang \in DOMAIN Languages /\ input \in Inputs[lang]
    /\ allowForce \in BOOLEAN
    /\ words_data = <<>> /\ pc = "search" /\ result = NoEntry
    /\ calls = <<Call(0)>>

FixedInput == UNCHANGED <<lang, input, allowForce>>
SetTop(c) == calls' = [calls EXCEPT ![Depth] = c]
Return(value) == calls' = Front(calls) /\ result' = value /\ pc' = "return"
NextPlace == [Top EXCEPT !.i = @ + 1, !.part1 = NoEntry]

\* No part for a rule begins here.
SkipPlace ==
    /\ pc = "search" /\ Top.i <= Top.last /\ Part1 = NoEntry
    /\ SetTop(NextPlace)
    /\ UNCHANGED <<words_data, pc, result>> /\ FixedInput

PushFirst ==
    /\ pc = "search" /\ Top.i <= Top.last /\ Part1 # NoEntry
    /\ words_data' = Append(words_data, Part1.flags)
    /\ SetTop([Top EXCEPT !.part1 = Part1])
    /\ pc' = "last"
    /\ UNCHANGED result /\ FixedInput

\* Mutant: FORCEUCASE is not looked at.
EndsCompound_AnyCase ==
    Part2 # NoEntry /\ MatchAnyRule(Append(words_data, Part2.flags))
\* The rest is one word: its flags are there while the rules are matched.
EndsCompound ==
    /\ Part2 # NoEntry
    /\ MatchAnyRule(Append(words_data, Part2.flags))
    /\ allowForce \/ "force" \notin Part2.flags

\* Both scopes are left: nothing of this call stays in words_data.
AcceptLast ==
    /\ pc = "last" /\ EndsCompound
    /\ words_data' = Front(words_data)
    /\ Return(Top.part1)
    /\ FixedInput

RecurseOnRest ==
    /\ pc = "last" /\ ~EndsCompound
    /\ calls' = Append(calls, Call(Top.i)) /\ pc' = "search"
    /\ UNCHANGED <<words_data, result>> /\ FixedInput

\* What the call on the rest returned is returned in turn.
PassOn ==
    /\ pc = "return" /\ calls # <<>> /\ result # NoEntry
    /\ words_data' = Front(words_data)
    /\ Return(result)
    /\ FixedInput

\* Mutant: the flags stay.
RestFails_FlagsStay ==
    /\ pc = "return" /\ calls # <<>> /\ result = NoEntry
    /\ SetTop(NextPlace) /\ pc' = "search"
    /\ UNCHANGED <<words_data, result>> /\ FixedInput

RestFails ==
    /\ pc = "return" /\ calls # <<>> /\ result = NoEntry
    /\ words_data' = Front(words_data)
    /\ SetTop(NextPlace) /\ pc' = "search"
    /\ UNCHANGED result /\ FixedInput

Exhausted ==
    /\ pc = "search" /\ Top.i > Top.last
    /\ Return(NoEntry)
    /\ UNCHANGED words_data /\ FixedInput

Next == SkipPlace \/ PushFirst \/ AcceptLast \/ RecurseOnRest \/ PassOn
          \/ RestFails \/ Exhausted
Spec == Init /\ [][Next]_vars
Done == pc = "return" /\ calls = <<>>

-----------------------------------------------------------------------------
\* Each call begins where the first part of the one outside it ends, and the
\* parts that wait leave room for the rest.
TypeOK ==
    /\ pc \in {"search", "last", "return"}
    /\ \A k \in DOMAIN calls :
        LET c == calls[k]
        IN  /\ c.start = (IF k = 1 THEN 0 ELSE calls[k - 1].i)
            /\ c.start + MinLetters <= c.i
            /\ k < Depth => c.part1 # NoEntry /\ c.i <= Len(input) - MinLetters

\* words_data holds the flags of the first parts of the calls that wait, in
\* their order, and nothing else: what a rule is matched against are the
\* words of one way to cut the word (checker.cxx: the two AT_SCOPE_EXIT of
\* check_compound_with_rules).
DataIsOpenParts ==
    /\ TypeOK
    /\ words_data = LET open == SelectSeq(calls, LAMBDA c : c.part1 # NoEntry)
                    IN  [k \in DOMAIN open |-> open[k].part1.flags]

\* The ways to cut a word at places that keep the least number of letters,
\* into at least two parts that have entries for the rules.
Cuts(w) ==
    {S \in SUBSET (1..Len(w) - 1) : S # {} /\
        \A i, j \in S \cup {0, Len(w)} : i < j => j - i >= MinLetters}
PartsOf(w, S) ==
    LET ends == SetToSortSeq(S \cup {0, Len(w)}, <)
    IN  [k \in 1..Len(ends) - 1 |-> Entry(SubSeq(w, ends[k] + 1, ends[k + 1]))]
Compounds(w) ==
    {p \in {PartsOf(w, S) : S \in Cuts(w)} :
        /\ \A k \in DOMAIN p : p[k] # NoEntry
        /\ MatchAnyRule([k \in DOMAIN p |-> p[k].flags])
        /\ allowForce \/ "force" \notin Last(p).flags}

\* A word is accepted if and only if it can be cut into words whose flags
\* match a rule, and the entry that is returned is the one before the last
\* word of such a cut (checker.cxx, check_compound_with_rules).
FoundIsCompound ==
    Done => /\ result # NoEntry => \E p \in Compounds(input) : p[Len(p) - 1] = result
            /\ result = NoEntry => Compounds(input) = {}
=============================================================================
