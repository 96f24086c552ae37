------------------------------ MODULE Casing ------------------------------
(***************************************************************************)
(* Capitals: how a word is classified and changed (utils.cxx).  A word is  *)
(* a sequence of characters, of which those of UpperOf and their capitals  *)
(* are letters with case and the others are neutral.  What ICU does with a *)
(* letter is taken from UpperOf.                                           *)
(***************************************************************************)
EXTENDS Integers, Sequences, FiniteSets

CONSTANT UpperOf    \* small letter -> its capital

Lowers == DOMAIN UpperOf
Uppers == {UpperOf[c] : c \in Lowers}

CharToLower(x) == IF x \in Uppers THEN CHOOSE c \in Lowers : UpperOf[c] = x ELSE x
CharToUpper(x) == IF x \in Lowers THEN UpperOf[x] ELSE x
ToLower(w) == [i \in DOMAIN w |-> CharToLower(w[i])]
ToUpper(w) == [i \in DOMAIN w |-> CharToUpper(w[i])]
ToLowerCharAt(w, i) == [w EXCEPT ![i] = CharToLower(@)]
ToTitleCharAt(w, i) == [w EXCEPT ![i] = CharToUpper(@)]

\* U_TITLECASE_WHOLE_STRING: the first letter is capital, the others small.
ToTitle(w) ==
    LET l == ToLower(w)
        cased == {i \in DOMAIN w : l[i] \in Lowers}
    IN  [i \in DOMAIN w |->
            IF i \in cased /\ \A j \in cased : i <= j THEN UpperOf[l[i]] ELSE l[i]]

ClassifyCasing(w) ==
    LET up == Cardinality({i \in DOMAIN w : w[i] \in Uppers})
        low == Cardinality({i \in DOMAIN w : w[i] \in Lowers})
        first == w # <<>> /\ w[1] \in Uppers
    IN  CASE up = 0 -> "small"
          [] up = 1 /\ first -> "init_capital"
          [] up > 0 /\ low = 0 /\ ~(up = 1 /\ first) -> "all_capital"
          [] up > 0 /\ low > 0 /\ ~(up = 1 /\ first) ->
                IF first THEN "pascal" ELSE "camel"
=============================================================================
