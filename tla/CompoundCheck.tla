--------------------------- MODULE CompoundCheck ---------------------------
(***************************************************************************)
(* Checker::check_compound: is a word a compound of words of the           *)
(* dictionary?  The first part is cut off at every place in turn; the rest *)
(* must be one word that may end a compound or, recursively, a compound    *)
(* again.  Two parts may be joined plainly, by a CHECKCOMPOUNDPATTERN that *)
(* wrote a replacement for the end of one and the beginning of the other,  *)
(* or by dropping one of three equal letters.  To try the last two, the    *)
(* search edits the one shared buffer, calls itself on it, and must undo   *)
(* its edits whatever happened, while it counts words, letters and         *)
(* syllables on the edited text.                                           *)
(*                                                                         *)
(* A letter is a code point, and indices count letters from 0 as in the    *)
(* code.  Joint 0 of a place is the plain one (check_compound_classic),    *)
(* joint k is pattern k (check_compound_with_pattern_replacements).  What  *)
(* the affix searches return for a part is a table here: AffixStripping    *)
(* models them.                                                            *)
(***************************************************************************)
EXTENDS Integers, Sequences, SequencesExt, FiniteSets

CONSTANTS
    Languages,  \* a function from names to dictionaries, see Language below
    Inputs,     \* for each dictionary, the words that are checked
    Capitals,   \* the letters for which u_isupper holds
    Alphabetic, \* and those for which u_isalpha does
    Width,      \* one more than the largest size_t
    StackSize   \* how many calls of check_compound fit on the stack

(* A dictionary is a record:                                               *)
(*   words     sequence of entries [stem, flags], in the order of the list *)
(*   readings  set of what the affix searches find:                        *)
(*             [kind, form, modes, entry, prefix, suffix]                  *)
(*   patterns  sequence of [first, second, replacement, flag1, flag2,      *)
(*             unaffixed]                                                  *)
(*   min, maxWords, syllableMax, syllableNum, vowels                       *)
(*   enabled   one of the compound flags is set                            *)
(*   triple, upper, simplified, duplicate, rep   the CHECKCOMPOUND options *)
(*   reps      set of [kind, from, to], and simple, the words for which    *)
(*             check_simple_word holds                                     *)
(*   byRules   the words for which check_compound_with_rules holds         *)
\* Words, and what a pattern says, are sequences of letters.
Letter == STRING
ASSUME TextAssumption ==
    \A x \in DOMAIN Languages :
        /\ Inputs[x] \subseteq Seq(Letter)
        /\ Languages[x].min \in Nat
        /\ Languages[x].patterns \in
               Seq([first : Seq(Letter), second : Seq(Letter),
                    replacement : Seq(Letter), flag1 : STRING, flag2 : STRING,
                    unaffixed : BOOLEAN])

ASSUME StackAssumption == StackSize \in Nat \ {0}

VARIABLES
    lang,       \* the dictionary
    input,      \* the word as it came
    allowForce, \* allow_bad_forceucase
    word,       \* the shared buffer
    calls,      \* the stack of check_compound, outermost first
    pc,         \* "search", "last", "return", "rules", "done", "overflow"
    result      \* what the call that returned last returned
vars == <<lang, input, allowForce, word, calls, pc, result>>

L == Languages[lang]

\* Compounding_Result, and the one that converts to false.
Result(entry, words, syllables, modified) ==
    [entry |-> entry, words |-> words, syllables |-> syllables,
     modified |-> modified]
NoWord == Result([stem |-> <<>>, flags |-> {}], 0, 0, FALSE)
Flags(res) == res.entry.flags

-----------------------------------------------------------------------------
\* Letters and places.
HasAt(w, i, x) == i + Len(x) <= Len(w) /\ SubSeq(w, i + 1, i + Len(x)) = x
Splice(w, i, n, x) == SubSeq(w, 1, i) \o x \o SubSeq(w, i + n + 1, Len(w))
From(w, i) == SubSeq(w, i + 1, Len(w))

CountSyllables(w) == Cardinality({i \in DOMAIN w : w[i] \in L.vowels})
Hungarian == L.vowels # {}

\* are_three_code_points_equal: two equal letters meet at i, and a third
\* follows or precedes them.
ThreeEqual(w, i) ==
    /\ i < Len(w) /\ w[i] = w[i + 1]
    /\ \/ i + 2 <= Len(w) /\ w[i + 2] = w[i]
       \/ i >= 2 /\ w[i - 1] = w[i]

UppercaseAtBoundary(w, i) ==
    /\ i < Len(w)
    /\ \/ w[i + 1] \in Capitals /\ w[i] \in Alphabetic
       \/ w[i] \in Capitals /\ w[i + 1] \in Alphabetic

\* is_rep_similar: one replacement makes a simple word of w.
RepSimilar(w) ==
    \E r \in L.reps :
        LET places == {i \in 0..Len(w) : HasAt(w, i, r.from)}
            allowed == CASE r.kind = "whole" -> {i \in {0} : w = r.from}
                         [] r.kind = "start" -> {0}
                         [] r.kind = "end"   -> {Len(w) - Len(r.from)}
                         [] r.kind = "any"   -> 0..Len(w)
        IN  \E i \in places \cap allowed :
                Splice(w, i, Len(r.from), r.to) \in L.simple

-----------------------------------------------------------------------------
\* check_word_in_compound, with the counts that Hungarian needs.
Modes == {"begin", "middle", "end"}

PrefixWords(prefix) ==
    IF Hungarian /\ CountSyllables(prefix.appending) > 1 THEN 1 ELSE 0

EntrySyllables(mode, entry) ==
    IF mode = "end" /\ Hungarian /\ "I" \in entry.flags /\ "J" \notin entry.flags
    THEN -1 ELSE 0

\* An i that ends a suffix, but not after y or t, counts twice.
ExtraSyllable(app) ==
    IF /\ app # <<>> /\ Last(app) = "i"
       /\ Len(app) > 1 => app[Len(app) - 1] \notin {"y", "t"}
    THEN 1 ELSE 0

SuffixSyllables(mode, entry, suffix) ==
    IF mode # "end" \/ ~Hungarian THEN 0
    ELSE (CASE ~L.syllableNum -> 0
            [] L.syllableNum /\ suffix.flag = "c" -> 2
            [] L.syllableNum /\ suffix.flag = "J" -> 1
            [] L.syllableNum /\ suffix.flag = "I" /\ "J" \in entry.flags -> 1
            [] OTHER -> 0)
         - CountSyllables(suffix.appending) - ExtraSyllable(suffix.appending)

\* The entries that may stand at a place of a compound as they are.
Bare(mode, part) ==
    SelectSeq(L.words, LAMBDA e : /\ e.stem = part
                                  /\ "needaffix" \notin e.flags
                                  /\ {"compound", mode} \cap e.flags # {}
                                  /\ "hidden" \notin e.flags)

FromReading(mode, r) ==
    Result(r.entry,
           IF r.kind = "suffix" THEN 0 ELSE PrefixWords(r.prefix),
           IF r.kind = "prefix" THEN 0 ELSE SuffixSyllables(mode, r.entry, r.suffix),
           (r.kind # "suffix" /\ r.prefix.modifies)
              \/ (r.kind # "prefix" /\ r.suffix.modifies))

CheckWord(mode, part) ==
    LET of(kind) == {r \in L.readings : /\ r.kind = kind /\ r.form = part
                                        /\ mode \in r.modes}
        pick(kind) == FromReading(mode, CHOOSE r \in of(kind) : TRUE)
    IN  CASE Bare(mode, part) # <<>> ->
                LET e == Head(Bare(mode, part))
                IN  Result(e, 0, EntrySyllables(mode, e), FALSE)
          [] Bare(mode, part) = <<>> /\ of("suffix") # {} -> pick("suffix")
          [] Bare(mode, part) = <<>> /\ of("suffix") = {}
                /\ of("prefix") # {} -> pick("prefix")
          [] Bare(mode, part) = <<>> /\ of("suffix") = {}
                /\ of("prefix") = {} /\ of("both") # {} -> pick("both")
          [] OTHER -> NoWord

-----------------------------------------------------------------------------
(* A call tries places i up to last, and at each the joints in turn.  Its  *)
(* stage tells where it is with the joint: "try", or waiting for the call  *)
(* on the rest, "tail", or on the rest with a dropped letter put back,     *)
(* "tripled".  While it waits, its edits are in the buffer.                *)

MinLetters == IF L.min = 0 THEN 3 ELSE L.min

\* Mutant: the last place is left out.
Call_LastMissing(w, start, mode, words) ==
    [start |-> start, mode |-> mode, words |-> words,
     i |-> start + MinLetters, last |-> Len(w) - MinLetters - 1,
     joint |-> 0, stage |-> "try", part1 |-> NoWord]
Call(w, start, mode, words) ==
    [start |-> start, mode |-> mode, words |-> words,
     i |-> start + MinLetters, last |-> Len(w) - MinLetters,
     joint |-> 0, stage |-> "try", part1 |-> NoWord]
Depth == Len(calls)
Top == calls[Depth]

Plain == [first |-> <<>>, second |-> <<>>, replacement |-> <<>>,
          flag1 |-> "none", flag2 |-> "none", unaffixed |-> FALSE]
Pattern(c) == IF c.joint = 0 THEN Plain ELSE L.patterns[c.joint]
\* Where the second part begins, once the joint is written out.
At(c) == c.i + Len(Pattern(c).first)

\* The buffer with the joint of c written out, and taken back.
WrittenOut(c, w) ==
    Splice(w, c.i, Len(Pattern(c).replacement),
           Pattern(c).first \o Pattern(c).second)
TakenBack(c, w) ==
    Splice(w, c.i, Len(Pattern(c).first) + Len(Pattern(c).second),
           Pattern(c).replacement)
\* The buffer with a letter doubled before the second part, and without.
Tripled(c, w) == Splice(w, At(c), 0, <<w[At(c)]>>)
Untripled(c, w) == Splice(w, At(c), 1, <<>>)

\* The buffer without the edits of c, which it made if it is at stage s.
WithoutEdits(c, s, w) ==
    CASE s = "try"     -> w
      [] s = "tail"    -> TakenBack(c, w)
      [] s = "tripled" -> TakenBack(c, Untripled(c, w))

JointApplies(c, w) ==
    c.joint # 0 => /\ Pattern(c).replacement # <<>>
                   /\ HasAt(w, c.i, Pattern(c).replacement)

FirstPart(c, w) == CheckWord(c.mode, SubSeq(w, c.start + 1, At(c)))
SecondPart(c, w) == CheckWord("end", From(w, At(c)))

\* Mutant: a forbidden word may begin a compound.
FirstFits_Forbidden(c, w, part1) ==
    /\ part1 # NoWord
    /\ Pattern(c).flag1 # "none" => Pattern(c).flag1 \in Flags(part1)
    /\ L.triple => ~ThreeEqual(w, At(c))
    /\ c.joint = 0 /\ L.upper => ~UppercaseAtBoundary(w, At(c))

\* The checks of the first part and of the letters around the joint.
FirstFits(c, w, part1) ==
    /\ part1 # NoWord /\ "forbidden" \notin Flags(part1)
    /\ Pattern(c).flag1 # "none" => Pattern(c).flag1 \in Flags(part1)
    /\ L.triple => ~ThreeEqual(w, At(c))
    /\ c.joint = 0 /\ L.upper => ~UppercaseAtBoundary(w, At(c))

\* is_compound_forbidden_by_patterns, for a plain joint at i.
ForbiddenByPatterns(w, i, part1, part2) ==
    \E k \in DOMAIN L.patterns :
        LET p == L.patterns[k]
        IN  /\ i >= Len(p.first)
            /\ HasAt(w, i - Len(p.first), p.first \o p.second)
            /\ p.flag1 # "none" => p.flag1 \in Flags(part1)
            /\ p.flag2 # "none" => p.flag2 \in Flags(part2)
            /\ ~(p.unaffixed /\ part1.modified)

\* What the patterns say of two parts that meet.
JointAllows(c, w, part1, part2) ==
    IF c.joint = 0 THEN ~ForbiddenByPatterns(w, At(c), part1, part2)
    ELSE Pattern(c).flag2 # "none" => Pattern(c).flag2 \in Flags(part2)

\* The word from the first part on, as it is written in the buffer of c.
Written(c, s, w) == From(WithoutEdits(c, s, w), c.start)

\* The checks of a second part that ends the compound.
LastFits(c, s, w, part2) ==
    /\ part2 # NoWord /\ "forbidden" \notin Flags(part2)
    /\ JointAllows(c, w, c.part1, part2)
    /\ L.duplicate => c.part1.entry # part2.entry
    /\ L.rep => ~RepSimilar(Written(c, s, w))
    /\ allowForce \/ "force" \notin Flags(part2)

\* The first part and the entry of the second, where the second part is
\* that entry; a letter that was put back is left out, a pattern is not.
UpToSecond(c, s, w, part2) ==
    LET both == SubSeq(w, c.start + 1, At(c) + Len(part2.entry.stem))
    IN  IF s = "tripled" THEN Splice(both, At(c) - c.start, 1, <<>>) ELSE both

\* The checks of a second part that is a compound itself.
TailFits(c, s, w, part2) ==
    /\ part2 # NoWord
    /\ JointAllows(c, w, c.part1, part2)
    /\ L.rep => /\ ~RepSimilar(Written(c, s, w))
                /\ HasAt(w, At(c), part2.entry.stem) =>
                      ~RepSimilar(UpToSecond(c, s, w, part2))

-----------------------------------------------------------------------------
\* Counting words.  A plain joint counts the words that the parts add; a
\* pattern counts the parts only.
Adds(part) == part.words + (IF "root" \in Flags(part) THEN 1 ELSE 0)

\* Mutant: the words before the first part are forgotten.
WordsBefore_Reset(c) ==
    IF c.joint = 0 THEN Adds(c.part1) ELSE 0
WordsBefore(c) ==
    c.words + (IF c.joint = 0 THEN Adds(c.part1) ELSE 0)

AtLimit(words) == L.maxWords # 0 /\ words + 1 >= L.maxWords
\* size_t plus signed char.
Syllables(w, part2) == (CountSyllables(w) + part2.syllables) % Width

CountedLast(c, s, part2) ==
    WordsBefore(c) + (IF c.joint = 0 /\ s = "tail" THEN Adds(part2) ELSE 0)
\* Too many words for good, and too many syllables as well.
TooMany(c, s, part2) ==
    /\ AtLimit(CountedLast(c, s, part2))
    /\ c.joint = 0 /\ s = "tail" => ~Hungarian
TooLong(c, s, w, part2) ==
    /\ AtLimit(CountedLast(c, s, part2))
    /\ c.joint = 0 /\ s = "tail" /\ Hungarian
    /\ Syllables(w, part2) > L.syllableMax

-----------------------------------------------------------------------------
Init ==
    /\ lang \in DOMAIN Languages
    /\ input \in Inputs[lang] /\ word = input
    /\ allowForce \in BOOLEAN
    /\ result = NoWord
    /\ IF L.enabled
       THEN calls = <<Call(input, 0, "begin", 0)>> /\ pc = "search"
       ELSE calls = <<>> /\ pc = "rules"

Searching(stage) == pc = "search" /\ Top.stage = stage /\ Top.i <= Top.last
Returned(stage) == pc = "return" /\ calls # <<>> /\ Top.stage = stage

SetTop(c) == calls' = [calls EXCEPT ![Depth] = c]
\* Mutant: the rest is not cut off from the first part.
CheckRest_WithFirst(c, w) ==
    /\ calls' = Append(Front(calls), c)
                  \o <<Call(w, c.start, "middle", WordsBefore(c) + 1)>>
    /\ word' = w /\ pc' = "search"
    /\ UNCHANGED result

\* The rest, from the second part of c on, is checked by a call of its own.
CheckRest(c, w) ==
    /\ calls' = Append(Front(calls), c)
                  \o <<Call(w, At(c), "middle", WordsBefore(c) + 1)>>
    /\ word' = w /\ pc' = "search"
    /\ UNCHANGED result

\* The edits of c, at stage s, are undone: AT_SCOPE_EXIT.
Undo(c, s) == word' = WithoutEdits(c, s, word)

Return(value) ==
    /\ calls' = Front(calls) /\ result' = value /\ pc' = "return"

\* The next joint of the place, then the next place.
NextPlace(c) == [c EXCEPT !.i = @ + 1, !.joint = 0, !.stage = "try", !.part1 = NoWord]
\* Mutants: the same joint again; one pattern more than there are.
NextJoint_Same(c) ==
    IF c.joint < Len(L.patterns)
    THEN [c EXCEPT !.stage = "try", !.part1 = NoWord]
    ELSE NextPlace(c)
NextJoint_OneMore(c) ==
    IF c.joint <= Len(L.patterns)
    THEN [c EXCEPT !.joint = @ + 1, !.stage = "try", !.part1 = NoWord]
    ELSE NextPlace(c)
NextJoint(c) ==
    IF c.joint < Len(L.patterns)
    THEN [c EXCEPT !.joint = @ + 1, !.stage = "try", !.part1 = NoWord]
    ELSE NextPlace(c)

\* With too many words, a plain joint gives way to the patterns, a pattern
\* to the next place.
GiveUp(c) == IF c.joint = 0 THEN NextJoint(c) ELSE NextPlace(c)

FixedInput == UNCHANGED <<lang, input, allowForce>>

-----------------------------------------------------------------------------
\* The joint is not there, or the first part is no word for this place.
SkipJoint ==
    /\ Searching("try")
    /\ LET w == WrittenOut(Top, word)
       IN  JointApplies(Top, word) => ~FirstFits(Top, w, FirstPart(Top, w))
    /\ SetTop(NextJoint(Top))
    /\ UNCHANGED <<word, pc, result>> /\ FixedInput

\* The first part is a word: the joint is written out to look at the rest.
JoinFirst ==
    /\ Searching("try") /\ JointApplies(Top, word)
    /\ LET w == WrittenOut(Top, word)
       IN  /\ FirstFits(Top, w, FirstPart(Top, w))
           /\ word' = w
           /\ SetTop([Top EXCEPT !.stage = "tail", !.part1 = FirstPart(Top, w)])
    /\ pc' = "last"
    /\ UNCHANGED result /\ FixedInput

\* The rest is one word that may end the compound.
AcceptLast ==
    /\ pc = "last"
    /\ LET part2 == SecondPart(Top, word)
       IN  /\ LastFits(Top, Top.stage, word, part2)
           /\ ~TooMany(Top, Top.stage, part2)
           /\ ~TooLong(Top, Top.stage, word, part2)
    /\ Undo(Top, Top.stage) /\ Return(Top.part1)
    /\ FixedInput

\* It is, but of too many words.
TooManyWords ==
    /\ pc = "last"
    /\ LET part2 == SecondPart(Top, word)
       IN  LastFits(Top, Top.stage, word, part2) /\ TooMany(Top, Top.stage, part2)
    /\ Undo(Top, Top.stage) /\ SetTop(GiveUp(Top)) /\ pc' = "search"
    /\ UNCHANGED result /\ FixedInput

\* It is not, or has too many syllables: the rest may be a compound.
RecurseOnRest ==
    /\ pc = "last"
    /\ LET part2 == SecondPart(Top, word)
       IN  \/ ~LastFits(Top, Top.stage, word, part2)
           \/ TooLong(Top, Top.stage, word, part2)
    /\ Depth < StackSize
    /\ CheckRest(Top, word) /\ FixedInput

\* The same, but the call does not fit on the stack: the program ends here.
OverflowStack ==
    /\ pc = "last"
    /\ LET part2 == SecondPart(Top, word)
       IN  \/ ~LastFits(Top, Top.stage, word, part2)
           \/ TooLong(Top, Top.stage, word, part2)
    /\ Depth >= StackSize
    /\ pc' = "overflow"
    /\ UNCHANGED <<word, calls, result>> /\ FixedInput

\* The rest is a compound and fits.
AcceptTail ==
    /\ Returned("tail") \/ Returned("tripled")
    /\ TailFits(Top, Top.stage, word, result)
    /\ Undo(Top, Top.stage) /\ Return(Top.part1)
    /\ FixedInput

\* SIMPLIFIEDTRIPLE: the first part ends in a double letter, the next part
\* may have begun with it too.
DoubleBefore(c, w) == At(c) >= 2 /\ w[At(c)] = w[At(c) - 1]

TryTriple ==
    /\ Returned("tail") /\ ~TailFits(Top, "tail", word, result)
    /\ L.simplified /\ DoubleBefore(Top, word)
    /\ word' = Tripled(Top, word)
    /\ SetTop([Top EXCEPT !.stage = "tripled"])
    /\ pc' = "last"
    /\ UNCHANGED result /\ FixedInput

\* Mutant: the letter that was put back stays when the joint fails.
JointFails_LetterStays ==
    /\ Returned("tail") \/ Returned("tripled")
    /\ ~TailFits(Top, Top.stage, word, result)
    /\ Top.stage = "tail" => ~(L.simplified /\ DoubleBefore(Top, word))
    /\ Undo(Top, "tail") /\ SetTop(NextJoint(Top)) /\ pc' = "search"
    /\ UNCHANGED result /\ FixedInput

\* Nothing is left to try with this joint.
JointFails ==
    /\ Returned("tail") \/ Returned("tripled")
    /\ ~TailFits(Top, Top.stage, word, result)
    /\ Top.stage = "tail" => ~(L.simplified /\ DoubleBefore(Top, word))
    /\ Undo(Top, Top.stage) /\ SetTop(NextJoint(Top)) /\ pc' = "search"
    /\ UNCHANGED result /\ FixedInput

\* The call has no place left, or never had one.
Exhausted ==
    /\ pc = "search" /\ Top.i > Top.last
    /\ Return(NoWord)
    /\ UNCHANGED word /\ FixedInput

\* The outermost call is back; COMPOUNDRULE is asked if it found nothing.
Finish ==
    /\ calls = <<>> /\ pc = "return"
    /\ pc' = IF result = NoWord THEN "rules" ELSE "done"
    /\ UNCHANGED <<word, calls, result>> /\ FixedInput

AskRules ==
    /\ pc = "rules"
    /\ pc' = "done"
    /\ result' = IF word \in DOMAIN L.byRules THEN L.byRules[word] ELSE NoWord
    /\ UNCHANGED <<word, calls>> /\ FixedInput

Next ==
    \/ SkipJoint \/ JoinFirst \/ AcceptLast \/ TooManyWords \/ RecurseOnRest
    \/ OverflowStack \/ AcceptTail \/ TryTriple \/ JointFails \/ Exhausted
    \/ Finish \/ AskRules

Spec == Init /\ [][Next]_vars
\* A function that is called and runs on.
FairSpec == Spec /\ WF_vars(Next)
Done == pc = "done"

-----------------------------------------------------------------------------
\* Calls are nested in the order in which they were made, and the places
\* they try leave the least number of letters on both sides.
TypeOK ==
    /\ pc \in {"search", "last", "return", "rules", "done", "overflow"}
    /\ \A k \in DOMAIN calls :
        LET c == calls[k]
        IN  /\ c.mode = (IF k = 1 THEN "begin" ELSE "middle")
            /\ c.words >= k - 1
            /\ c.i - c.start >= MinLetters
            /\ c.joint \in 0..Len(L.patterns)
            /\ c.stage \in (IF k < Len(calls) THEN {"tail", "tripled"}
                            ELSE {"try", "tail", "tripled"})
            /\ c.stage # "try" => c.part1 # NoWord /\ c.i <= c.last

\* The buffer with the edits that c, at its stage, has made to w.
WithEdits(c, w) ==
    CASE c.stage = "try"     -> w
      [] c.stage = "tail"    -> WrittenOut(c, w)
      [] c.stage = "tripled" -> Tripled(c, WrittenOut(c, w))
\* The buffer after the edits of the first n calls.
EditedBy(n) ==
    LET after[k \in 0..n] ==
            IF k = 0 THEN input ELSE WithEdits(calls[k], after[k - 1])
    IN  after[n]

\* The buffer is the word with the edits of the calls that are open, in their
\* order, and with no other; so every call finds what it left, and the word
\* comes back as it was (checker.cxx: AT_SCOPE_EXIT in check_compound_classic
\* and check_compound_with_pattern_replacements).
BufferIsEdits == word = EditedBy(Depth)

\* Letters that the joint of c puts into the text, beyond those of the first
\* part that the pattern wrote over and those it took out.
Added(c) ==
    Len(Pattern(c).second) - Len(Pattern(c).replacement)
      + (IF c.stage = "tripled" THEN 1 ELSE 0)

\* A nested call has the text of its caller less the first part, which ends
\* where the joint begins, and with the letters that the joint adds; so it is
\* shorter as long as a joint adds fewer letters than the first part has.
TextsAccounted ==
    \A k \in 1..Depth - 1 :
        LET c == calls[k]
            d == calls[k + 1]
        IN  d.last - d.start = (c.last - c.start) - (c.i - c.start) + Added(c)

\* What the calls that are open rely on, each of those outside it.
OpenCallsAreSound == TypeOK /\ BufferIsEdits /\ TextsAccounted

\* No joint of the dictionary adds as many letters as a part has at least.
\* Nothing in the code asks for it.
JointsShrink ==
    LET put == IF L.simplified THEN 1 ELSE 0
    IN  /\ put < MinLetters
        /\ \A k \in DOMAIN L.patterns :
              LET p == L.patterns[k]
              IN  p.replacement # <<>> =>
                      Len(p.second) - Len(p.replacement) + put < MinLetters

\* For such a dictionary the search ends, on a stack that has room for as
\* many calls as the word has letters (checker.cxx, check_compound).
Terminates == JointsShrink /\ Len(input) <= StackSize => <>Done

\* spell answers, whatever the dictionary and the word (dictionary.cxx: "any
\* word").  It does not: see CompoundCheckEndless.cfg.
SpellReturns == <>Done
=============================================================================
