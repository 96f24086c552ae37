--------------------------- MODULE MCLeafSearches ---------------------------
(* Small inputs for each of the searches, whole families of them.          *)
EXTENDS LeafSearches, SequencesExt

\* Tables of up to four keys, of up to three letters out of two, assigned in
\* descending order (the order matters only to the sort), and short words.
Less(x, y) ==
    \/ IsStrictPrefix(x, y)
    \/ \E m \in DOMAIN x \cap DOMAIN y :
          x[m] < y[m] /\ \A n \in 1..m - 1 : x[n] = y[n]
Keys(n) == UNION {[1..k -> 1..2] : k \in 0..n}
Ordered(n, k) ==
    {t \in [1..n -> Keys(k)] : \A m \in 1..n - 1 : ~Less(t[m], t[m + 1])}
MCTables == {Reverse(t) : t \in UNION {Ordered(n, 3) : n \in 0..3} \cup Ordered(4, 2)}
MCIndexedWords == Keys(3)

\* Conditions of up to three elements over one letter of one byte and two
\* that share their first byte, and malformed ones; words of up to three.
MCLeadBytes == {"C3"}
a == <<"a">>
e == <<"C3", "A9">>
f == <<"C3", "A8">>
Letters == {a, e, f}
Element(text, set) == [text |-> text, set |-> set]
Elements ==
    {Element(x, {x}) : x \in Letters} \cup {Element(<<".">>, Letters)} \cup
    {Element(<<"[">> \o x \o y \o <<"]">>, {x, y}) : x \in {a, e}, y \in {a, f}} \cup
    {Element(<<"[", "^">> \o x \o <<"]">>, Letters \ {x}) : x \in Letters}
Good(es) == [text |-> FlattenSeq([k \in DOMAIN es |-> es[k].text]),
             elements |-> [k \in DOMAIN es |-> es[k].set], malformed |-> FALSE]
Bad(text) == [text |-> text, elements |-> <<>>, malformed |-> TRUE]
MCConditions ==
    {Good(es) : es \in UNION {[1..n -> Elements] : n \in 0..2}} \cup
    {Good(es) : es \in [1..3 -> {x \in Elements : Len(x.text) < 3}]} \cup
    {Bad(e \o <<"[">>), Bad(<<"]">>), Bad(<<"a", "]">>), Bad(<<"[", "]">>),
     Bad(<<".", "[", "^", "]">>), Bad(<<"[", "^">>), Bad(<<"[", "a">>),
     Bad(<<"[", "a", "]", "]">>), Bad(<<"[", "^", "a", ".">>)}
MCConditionedWords == UNION {[1..n -> Letters] : n \in 0..3}

\* Rules of up to three flags with every choice of marks, and compounds of
\* up to three words with one flag or both.
Marked == {<<x>> : x \in {"A", "B"}} \cup
          {<<x, m>> : x \in {"A", "B"}, m \in {"?", "*"}}
MCRules == UNION {{FlattenSeq(r) : r \in [1..n -> Marked]} : n \in 0..3}
MCCompounds == UNION {[1..n -> {{"A"}, {"B"}, {"A", "B"}}] : n \in 0..3}

\* The words of up to nine bytes over "s" and another letter: more "ss" than
\* MaxSharps.
MCBases == UNION {[1..n -> {"s", "x"}] : n \in 0..9}
SS == <<"s", "s">>
SharpS == <<"C3", "9F">>
MCLists == {{}, {SharpS \o <<"s">>, SharpS \o SS},
            {<<"x">> \o SharpS, <<"s", "s", "x">> \o SharpS, SS},
            {<<"s">> \o SharpS, SharpS \o <<"x">> \o SharpS}}

\* Numbers with an ordinal ending, like those of en_US, and words over two
\* letters: all inputs of up to five and eight letters.
Stem(x, flags) == [stem |-> x, flags |-> flags]
Numbers == [min |-> 1,
    words |-> <<Stem(<<"1">>, {"n", "1"}), Stem(<<"0">>, {"n", "m"}),
                Stem(<<"t">>, {"t", "force"}), Stem(<<"0", "t">>, {"p"}),
                Stem(<<"1", "t">>, {"needaffix", "p"}), Stem(<<"1", "t">>, {"p", "t"})>>,
    rules |-> {<<"n", "*", "1", "t">>, <<"n", "*", "m", "p">>}]
Twos == [min |-> 2,
    words |-> <<Stem(<<"0", "1">>, {"a"}), Stem(<<"1", "0">>, {"b", "force"}),
                Stem(<<"0", "1", "1">>, {"a", "b"}), Stem(<<"1", "1">>, {"c"}),
                Stem(<<"0", "0">>, {"needaffix", "b"})>>,
    rules |-> {<<"a", "?", "b", "b", "*">>, <<"a", "b", "?", "a">>}]
Threes == [Twos EXCEPT !.min = 0, !.words = @ \o <<Stem(<<"1", "1", "0">>, {"b"})>>]
MCLanguages == [numbers |-> Numbers, twos |-> Twos, threes |-> Threes]
Over(letters, n) == UNION {[1..k -> letters] : k \in 0..n}
MCRuledWords == [numbers |-> Over({"0", "1", "t"}, 5), twos |-> Over({"0", "1"}, 8),
                 threes |-> Over({"0", "1"}, 8)]

\* Keys that are prefixes of each other, one that sorts between a key and a
\* string it is a prefix of, and the empty one.  The replacements are shorter
\* and longer than the keys and contain some of them.
MCReplacedKeys == {<<>>, <<1>>, <<1, 2>>, <<1, 2, 2>>, <<2>>}
MCReplacements == {<<>>, <<2, 1>>}

\* Files that are empty or hold one byte, a zero: what the reader makes of
\* bytes that are not there.
MCContents == {<<>>, <<0>>}
MCName == <<7>>
=============================================================================
