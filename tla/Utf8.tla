-------------------------------- MODULE Utf8 --------------------------------
(***************************************************************************)
(* The functions of unicode.hxx on valid UTF-8, which change a string of   *)
(* bytes in place by letters of different widths.  A string is a sequence  *)
(* of bytes; places count from 0 as in the code.  How many bytes a lead    *)
(* byte announces is a parameter, as are the bytes that never begin a      *)
(* letter.                                                                 *)
(***************************************************************************)
EXTENDS Integers, Sequences, SequencesExt

CONSTANTS
    Byte,   \* what strings are made of
    Wide,   \* lead bytes with the width of their letters; others are one wide
    Trail   \* bytes that continue a letter
ASSUME WideAssumption == Wide \in [DOMAIN Wide -> Nat \ {0}]

\* Where letters start, and the end.  In a text each is as long as it says.
Starts(str) == {0, Len(str)} \cup {i \in 0..Len(str) - 1 : str[i + 1] \notin Trail}
WidthAt(str, i) == IF str[i + 1] \in DOMAIN Wide THEN Wide[str[i + 1]] ELSE 1
IsLetterAt(str, i) ==
    /\ str[i + 1] \notin Trail
    /\ i + WidthAt(str, i) \in Starts(str)
    /\ \A j \in i + 1..i + WidthAt(str, i) - 1 : j < Len(str) /\ str[j + 1] \in Trail
WellFormed(str) == \A i \in Starts(str) \ {Len(str)} : IsLetterAt(str, i)
Text == {str \in Seq(Byte) : WellFormed(str)}
Letter == {str \in Text \ {<<>>} : Starts(str) = {0, Len(str)}}

\* U8_FWD_1_UNSAFE, U8_BACK_1_UNSAFE
Advance(str, i) == i + WidthAt(str, i)
Reverse1(str, i) ==
    CHOOSE k \in 0..i - 1 :
        /\ str[k + 1] \notin Trail
        /\ \A m \in k + 1..i - 1 : str[m + 1] \in Trail

\* The letters of a string, one after the other.
Letters(str) ==
    LET from[i \in Starts(str)] ==
            IF i = Len(str) THEN <<>>
            ELSE <<SubSeq(str, i + 1, Advance(str, i))>> \o from[Advance(str, i)]
    IN  from[0]

\* std::string: a part from place i to before place j, replace, compare.
Part(str, i, j) == SubSeq(str, i + 1, j)
Spliced(str, i, n, with) == Part(str, 0, i) \o with \o Part(str, i + n, Len(str))
IsAt(str, i, text) == i + Len(text) <= Len(str) /\ Part(str, i, i + Len(text)) = text

\* U8_Encoded_CP::copy_to()
CopyTo(str, i, cp) == Spliced(str, i, Len(cp), cp)

\* u8_swap_adjacent_cp(): the string, and where the second letter now begins.
\* Mutant: the place between the letters stays where it was.
SwapAdjacent_OldPlace(str, i1, i2, i3) ==
    [str |-> CopyTo(CopyTo(str, i1 + i3 - i2, Part(str, i1, i2)), i1, Part(str, i2, i3)),
     i2 |-> i2]
SwapAdjacent(str, i1, i2, i3) ==
    LET new_i2 == i1 + (i3 - i2)
    IN  [str |-> CopyTo(CopyTo(str, new_i2, Part(str, i1, i2)), i1, Part(str, i2, i3)),
         i2 |-> new_i2]

\* u8_swap_cp(): what is between the letters moves first.
\* Mutant: it does not move.
SwapCp_NoMove(str, i1, i2, j1, j2) ==
    [str |-> CopyTo(CopyTo(str, i1, Part(str, j1, j2)), j2 - (i2 - i1), Part(str, i1, i2)),
     i2 |-> i1 + (j2 - j1), j1 |-> j2 - (i2 - i1)]
SwapCp(str, i1, i2, j1, j2) ==
    LET new_i2 == i1 + (j2 - j1)
        new_j1 == j2 - (i2 - i1)
        moved == CopyTo(str, new_i2, Part(str, i2, j1))
    IN  [str |-> CopyTo(CopyTo(moved, i1, Part(str, j1, j2)), new_j1, Part(str, i1, i2)),
         i2 |-> new_i2, j1 |-> new_j1]

\* std::rotate(): the part from m to before l goes before that from f to m.
Rotate(str, f, m, l) ==
    Part(str, 0, f) \o Part(str, m, l) \o Part(str, f, m) \o Part(str, l, Len(str))
=============================================================================
