--------------------------- MODULE MCSuggestEdits ---------------------------
(* Words of letters of one, two and three bytes, all that are short.       *)
EXTENDS SuggestEdits

MCWide == [b \in {"C3", "E1"} |-> IF b = "C3" THEN 2 ELSE 3]
MCTrail == {"A0", "BA"}
MCByte == {"a", "b", "A", " ", "-", "|"} \cup MCTrail \cup DOMAIN MCWide
a == <<"a">>
e == <<"C3", "A0">>
o == <<"E1", "BA", "A0">>
A == <<"A">>
b == <<"b">>
MCUpper == [x \in {a, b} |-> IF x = a THEN A ELSE e]

\* All words of up to three letters, of four and five out of two, and one
\* that doubles two letters.
MCWords == UNION {[1..n -> {a, e, o}] : n \in 1..3} \cup
           UNION {[1..n -> {a, e}] : n \in 4..5} \cup {<<b, o, b, o, b, a>>}
Bytes(n) == {FlattenSeq(w) : w \in UNION {[1..m -> {a, e, o}] : m \in 1..n}}
Bytes2 == Bytes(2)
Bytes3 == Bytes(3)

\* Groups that share a letter, with strings longer and shorter than what they
\* stand for; replacements of each kind, with spaces; a keyboard of two rows.
Sims == <<[chars |-> <<a, e>>, strings |-> <<a \o a, o \o b>>],
          [chars |-> <<o, a>>, strings |-> <<>>]>>
Reps == <<<<<<a, e \o <<" ">> \o b>>>>,
          <<<<a \o e, o>>, <<e, <<>>>>>>,
          <<<<e, a \o <<" ">> \o a \o <<" ">> \o o>>>>,
          <<<<a, a \o <<" ">> \o A \o <<" ">> \o o>>, <<a \o a, e>>, <<e \o a, b \o <<" ">> \o o>>>>>>
None == <<<<>>, <<>>, <<>>, <<>>>>
MCSettings ==
    <<[try_chars |-> <<a, e>>, keyboard |-> <<o, a, e, <<"|">>, e, a>>,
      similarities |-> Sims, reps |-> Reps, ok |-> Bytes2, known |-> Bytes2 \cup {b},
      simple |-> Bytes3, earlier |-> <<>>],
     [try_chars |-> <<<<"-">>, o>>, keyboard |-> <<a, <<"|">>, b>>, similarities |-> <<Sims[2]>>,
      reps |-> None, ok |-> {}, known |-> Bytes3, simple |-> Bytes3,
      earlier |-> <<a \o e \o <<" ">> \o o>>],
     [try_chars |-> <<>>, keyboard |-> <<>>, similarities |-> <<>>, reps |-> None,
      ok |-> {}, known |-> {}, simple |-> {}, earlier |-> <<>>]>>
=============================================================================
