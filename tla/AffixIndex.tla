----------------------------- MODULE AffixIndex -----------------------------
(***************************************************************************)
(* Prefix_Multiset, the table that both affix tables are built on, and its *)
(* iterator Iter_Prefixes_Of, which visits the entries whose keys are      *)
(* prefixes of a word.  The table is sorted by key; the iterator narrows a *)
(* range of it one letter at a time.  The keys of suffixes are read        *)
(* backwards (Reversed_String_View), which changes nothing here.           *)
(*                                                                         *)
(* A letter is a number, a key a sequence of letters, and an entry is its  *)
(* key; places in the table count from 1, and last is one past the end.    *)
(***************************************************************************)
EXTENDS Integers, Sequences, SequencesExt, FiniteSets

CONSTANTS
    Tables,     \* vectors that are assigned, in any order
    Inputs      \* words that are searched

VARIABLES
    table,      \* the vector, sorted
    word,       \* *search_key
    it, last, len, valid,   \* as in Iter_Prefixes_Of
    pc,         \* "sort", "enter", "narrow" (in advance()), "at" (it returned)
    visited     \* the places the iterator stopped at, in order (history)
vars == <<table, word, it, last, len, valid, pc, visited>>

-----------------------------------------------------------------------------
Less(a, b) ==
    \/ IsStrictPrefix(a, b)
    \/ \E i \in DOMAIN a \cap DOMAIN b :
          a[i] < b[i] /\ \A j \in 1..i - 1 : a[j] = b[j]

\* std::sort: any order of the same entries that is sorted.
Sortings(v) ==
    {w \in {[i \in DOMAIN v |-> v[p[i]]] :
                p \in {q \in [DOMAIN v -> DOMAIN v] : IsInjective(q)}} :
        \A i \in 1..Len(w) - 1 : ~Less(w[i + 1], w[i])}

\* first_letter and prefix_idx_with_first_letter: where each letter begins,
\* in order, and at the end of the second the end of the table.
Begins == {i \in DOMAIN table : /\ table[i] # <<>>
                                /\ i = 1 \/ table[i - 1] = <<>> \/
                                      table[i - 1][1] < table[i][1]}
PrefixIdx == LET starts == SetToSortSeq(Begins, <)
             IN  IF starts = <<>> THEN <<>> ELSE Append(starts, Len(table) + 1)
FirstLetter == [i \in 1..Cardinality(Begins) |-> table[PrefixIdx[i]][1]]

\* Mutants: the range is closed at its end; it is not cut at its end.
EqualRange_Closed(letter) ==
    LET below == {i \in it..last - 1 : table[i][len + 1] < letter}
        upto  == {i \in it..last - 1 : table[i][len + 1] <= letter}
    IN  [it |-> it + Cardinality(below), last |-> it + Cardinality(upto) - 1]
EqualRange_LowerOnly(letter) ==
    LET below == {i \in it..last - 1 : table[i][len + 1] < letter}
    IN  [it |-> it + Cardinality(below), last |-> last]

\* The part of the range whose keys have the given letter after len others:
\* std::equal_range, on a range that is sorted by that letter.
EqualRange(letter) ==
    LET below == {i \in it..last - 1 : table[i][len + 1] < letter}
        upto  == {i \in it..last - 1 : table[i][len + 1] <= letter}
    IN  [it |-> it + Cardinality(below), last |-> it + Cardinality(upto)]

-----------------------------------------------------------------------------
Init ==
    /\ table \in Tables /\ word \in Inputs
    /\ it = 1 /\ last = 1 /\ len = 0 /\ valid = FALSE
    /\ pc = "sort" /\ visited = <<>>

\* sort(), then iterate_prefixes_of(word) on the sorted table.
Sort ==
    /\ pc = "sort"
    /\ table' \in Sortings(table)
    /\ last' = Len(table) + 1 /\ valid' = TRUE /\ pc' = "enter"
    /\ UNCHANGED <<word, it, len, visited>>

Stop  == pc' = "at" /\ visited' = Append(visited, it) /\ UNCHANGED valid
Invalidate == pc' = "at" /\ valid' = FALSE /\ UNCHANGED visited

\* advance() with len = 0: the empty keys come first, then the range of the
\* word's first letter.
EnterTable ==
    /\ pc = "enter" /\ len = 0
    /\ IF it # last /\ table[it] = <<>>
       THEN Stop /\ UNCHANGED <<it, last, len>>
       ELSE LET idx == {i \in DOMAIN FirstLetter : FirstLetter[i] = word[1]} IN
            IF it = last \/ word = <<>> \/ idx = {}
            THEN Invalidate /\ UNCHANGED <<it, last, len>>
            ELSE /\ \E i \in idx : it' = PrefixIdx[i] /\ last' = PrefixIdx[i + 1]
                 /\ len' = 1 /\ pc' = "narrow" /\ UNCHANGED <<valid, visited>>
    /\ UNCHANGED <<table, word>>

EnterRange ==
    /\ pc = "enter" /\ len > 0
    /\ pc' = "narrow"
    /\ UNCHANGED <<table, word, it, last, len, valid, visited>>

\* Mutant: the end of the word is tested before the entry.
Narrow_WordFirst ==
    /\ pc = "narrow"
    /\ IF it = last \/ len = Len(word)
       THEN Invalidate /\ UNCHANGED <<it, last, len>>
       ELSE IF Len(table[it]) = len
       THEN Stop /\ UNCHANGED <<it, last, len>>
       ELSE LET r == EqualRange(word[len + 1]) IN
            /\ it' = r.it /\ last' = r.last /\ len' = len + 1
            /\ UNCHANGED <<valid, pc, visited>>
    /\ UNCHANGED <<table, word>>

\* One round of the for loop of advance().
Narrow ==
    /\ pc = "narrow"
    /\ IF it # last /\ Len(table[it]) = len
       THEN Stop /\ UNCHANGED <<it, last, len>>
       ELSE IF it = last \/ len = Len(word)
       THEN Invalidate /\ UNCHANGED <<it, last, len>>
       ELSE LET r == EqualRange(word[len + 1]) IN
            /\ it' = r.it /\ last' = r.last /\ len' = len + 1
            /\ UNCHANGED <<valid, pc, visited>>
    /\ UNCHANGED <<table, word>>

\* operator++
Increment ==
    /\ pc = "at" /\ valid
    /\ it' = it + 1 /\ pc' = "enter"
    /\ UNCHANGED <<table, word, last, len, valid, visited>>

Next == Sort \/ EnterTable \/ EnterRange \/ Narrow \/ Increment
Spec == Init /\ [][Next]_vars
Done == pc = "at" /\ ~valid

-----------------------------------------------------------------------------
TypeOK ==
    /\ it \in 1..Len(table) + 1 /\ last \in it..Len(table) + 1
    /\ len \in 0..Len(word) /\ valid \in BOOLEAN
    /\ pc \in {"sort", "enter", "narrow", "at"}
    /\ \A i \in DOMAIN visited : visited[i] \in DOMAIN table

\* When equal_range compares the letters after the first len, every key of
\* the range has one more, and they all begin as the word does: the letter
\* that the comparison reads is there (Comparator::operator()).
RangeIsComparable ==
    pc = "narrow" /\ it # last /\ Len(table[it]) # len =>
        \A i \in it..last - 1 : Len(table[i]) > len
                                /\ SubSeq(table[i], 1, len) = SubSeq(word, 1, len)

\* The iterator never stops at an entry that does not fit, never skips one
\* that does and never comes back: at every stop it has visited exactly the
\* fitting entries up to that place, in the order of the table, and when it
\* becomes invalid it has visited all of them.
Fitting == {i \in DOMAIN table : IsPrefix(table[i], word)}
VisitsWhatFits ==
    pc = "at" =>
        visited = SetToSortSeq({i \in Fitting : valid => i <= it}, <)
=============================================================================
