----------------------------- MODULE Condition -----------------------------
(***************************************************************************)
(* Condition, the small regular expressions that affixes come with:        *)
(* letters, ".", "[...]" and "[^...]".  construct() walks over the text    *)
(* once, to refuse what is malformed and to count the letters it stands    *)
(* for; match_prefix() walks over it again, byte by byte and with no check *)
(* of its end inside brackets, next to the word; match_suffix() first goes *)
(* back from the end of the word by the number of letters counted.         *)
(*                                                                         *)
(* Texts are sequences of bytes: a letter is one byte, or a lead byte and  *)
(* one more.  Places count from 0 as in the code.                          *)
(***************************************************************************)
EXTENDS Integers, Sequences, SequencesExt, FiniteSets

CONSTANTS
    Conditions, \* records [text, malformed, elements]; elements is what a
                \* text means: a sequence of sets of letters
    Inputs,     \* words, as sequences of letters
    LeadBytes   \* the bytes that another one follows

VARIABLES
    given,      \* the condition that is assigned
    word,       \* the word that is matched, as letters
    side,       \* "prefix", "suffix"
    pc,         \* "construct", "match", or the end: "thrown", "true", "false"
    i,          \* i of construct, cond_i of match_prefix
    num_cp,
    s, s_i      \* of match_prefix
vars == <<given, word, side, pc, i, num_cp, s, s_i>>

cond == given.text
Byte(k) == cond[k + 1]
Trailing(bytes, k) == k > 0 /\ bytes[k] \in LeadBytes
\* The code points of bytes from place k to before place j, as bytes.
Advance(bytes, k) == IF bytes[k + 1] \in LeadBytes THEN k + 2 ELSE k + 1
LettersAt(bytes, k, j) == {m \in k..j - 1 : ~Trailing(bytes, m)}
Letter(bytes, k) == SubSeq(bytes, k + 1, Advance(bytes, k))
\* std::string::find and find_first_of; the size stands for npos.
Find(bytes, k) ==
    CHOOSE j \in k..Len(cond) :
        /\ j < Len(cond) => Byte(j) \in bytes
        /\ \A m \in k..j - 1 : Byte(m) \notin bytes

Init ==
    /\ given \in Conditions /\ word \in Inputs /\ side \in {"prefix", "suffix"}
    /\ pc = "construct" /\ i = 0 /\ num_cp = 0 /\ s = <<>> /\ s_i = 0

FixedInput == UNCHANGED <<given, word, side>>

-----------------------------------------------------------------------------
\* construct(): the letters up to the next special character are counted.
Constructing == pc = "construct" /\ i # Len(cond)
Special == Find({"[", "]", "."}, i)
\* Mutant: bytes are counted.
Counted_Bytes == num_cp + Special - i
Counted == num_cp + Cardinality(LettersAt(cond, i, Special))

CountLetters ==
    /\ Constructing /\ Special = Len(cond)
    /\ i' = Special /\ num_cp' = Counted
    /\ UNCHANGED <<pc, s, s_i>> /\ FixedInput

CountDot ==
    /\ Constructing /\ Special < Len(cond) /\ Byte(Special) = "."
    /\ i' = Special + 1 /\ num_cp' = Counted + 1
    /\ UNCHANGED <<pc, s, s_i>> /\ FixedInput

\* Where the letters in a bracket that opens at k begin.
Inside(k) == IF k + 1 < Len(cond) /\ Byte(k + 1) = "^" THEN k + 2 ELSE k + 1
Close(k) == Find({"]"}, Inside(k))
GoodBracket(k) ==
    k + 1 < Len(cond) /\ Close(k) # Inside(k) /\ Close(k) < Len(cond)

CountBracket ==
    /\ Constructing /\ Special < Len(cond) /\ Byte(Special) = "["
    /\ GoodBracket(Special)
    /\ i' = Close(Special) + 1 /\ num_cp' = Counted + 1
    /\ UNCHANGED <<pc, s, s_i>> /\ FixedInput

\* Condition_Exception.
Throw ==
    /\ Constructing /\ Special < Len(cond)
    /\ \/ Byte(Special) = "]"
       \/ Byte(Special) = "[" /\ ~GoodBracket(Special)
    /\ pc' = "thrown"
    /\ UNCHANGED <<i, num_cp, s, s_i>> /\ FixedInput

-----------------------------------------------------------------------------
\* match_suffix(): the last num_cp letters, if there are as many.
Start ==
    /\ pc = "construct" /\ i = Len(cond)
    /\ LET n    == Len(word)
           from == IF side = "suffix" THEN n - num_cp ELSE 0
           rest == FlattenSeq(SubSeq(word, from + 1, n))
       IN  IF from < 0 \/ Len(rest) < num_cp
           THEN pc' = "false" /\ UNCHANGED <<i, s, s_i>>
           ELSE pc' = "match" /\ i' = 0 /\ s' = rest /\ s_i' = 0
    /\ UNCHANGED num_cp /\ FixedInput

Matching == pc = "match" /\ s_i # Len(s) /\ i # Len(cond)
\* match_prefix(): a byte of a letter.
MatchByte ==
    /\ Matching /\ Byte(i) \notin {".", "["}
    /\ IF s[s_i + 1] = Byte(i)
       THEN s_i' = s_i + 1 /\ i' = i + 1 /\ UNCHANGED pc
       ELSE pc' = "false" /\ UNCHANGED <<s_i, i>>
    /\ UNCHANGED <<num_cp, s>> /\ FixedInput

\* Mutant: a dot stands for a byte.
MatchDot_Byte ==
    /\ Matching /\ Byte(i) = "."
    /\ s_i' = s_i + 1 /\ i' = i + 1
    /\ UNCHANGED <<pc, num_cp, s>> /\ FixedInput
MatchDot ==
    /\ Matching /\ Byte(i) = "."
    /\ s_i' = Advance(s, s_i) /\ i' = i + 1
    /\ UNCHANGED <<pc, num_cp, s>> /\ FixedInput

\* The letters inside are compared one by one, up to the closing bracket.
MatchBracket ==
    /\ Matching /\ Byte(i) = "["
    /\ LET inside == {Letter(cond, k) : k \in LettersAt(cond, Inside(i), Close(i))}
           found  == Letter(s, s_i) \in inside
       IN  IF found = (Byte(i + 1) = "^")
           THEN pc' = "false" /\ UNCHANGED <<s_i, i>>
           ELSE s_i' = Advance(s, s_i) /\ i' = Close(i) + 1 /\ UNCHANGED pc
    /\ UNCHANGED <<num_cp, s>> /\ FixedInput

Finish ==
    /\ pc = "match" /\ (s_i = Len(s) \/ i = Len(cond))
    /\ pc' = IF i = Len(cond) THEN "true" ELSE "false"
    /\ UNCHANGED <<i, num_cp, s, s_i>> /\ FixedInput

Next == CountLetters \/ CountDot \/ CountBracket \/ Throw \/ Start
          \/ MatchByte \/ MatchDot \/ MatchBracket \/ Finish
Spec == Init /\ [][Next]_vars
Done == pc \in {"thrown", "true", "false"}

-----------------------------------------------------------------------------
\* The places are in the texts or at their ends.
TypeOK ==
    /\ pc \in {"construct", "match", "thrown", "true", "false"}
    /\ i \in 0..Len(cond) /\ num_cp \in 0..Len(cond) /\ s_i \in 0..Len(s)

\* The letters of the word, from its beginning or up to its end, are each in
\* the set of its place.
Fits ==
    LET n == Len(given.elements)
        from == IF side = "prefix" THEN 0 ELSE Len(word) - n
    IN  n <= Len(word) /\ \A k \in 1..n : word[from + k] \in given.elements[k]

\* A condition is refused exactly if it is malformed, and else the verdict is
\* its meaning, also where a letter takes two bytes (structures.hxx,
\* Condition::construct, match_prefix, match_suffix).
VerdictIsMeaning ==
    Done => /\ pc = "thrown" <=> given.malformed
            /\ pc # "thrown" => (pc = "true" <=> Fits)

\* The places before k where an element of the condition begins.
Starts(k) ==
    {m \in LettersAt(cond, 0, k) :
        ~\E o \in 0..m - 1 : Byte(o) = "[" /\ m <= Close(o)}

\* construct counts the elements it has passed, and match_prefix has consumed
\* as many letters of the word as elements, or is within a letter of both: so
\* it never takes the rest of a letter, or of a bracket, for an element.
InStep ==
    /\ pc = "construct" => num_cp = Cardinality(Starts(i))
    /\ pc = "match" => /\ Cardinality(Starts(i)) = Cardinality(LettersAt(s, 0, s_i))
                       /\ Trailing(s, s_i) <=> Trailing(cond, i)
=============================================================================
