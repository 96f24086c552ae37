---------------------------- MODULE MCSuggester ----------------------------
(* Words over two letters with case, a dash and a period, and dictionaries *)
(* that accept and suggest words with each of these.  The words with n are suggested as    *)
(* similar ones only.                                                      *)
EXTENDS Suggester, TLC

MCUpperOf == ("a" :> "A") @@ ("b" :> "B")
MCInputs == UNION {[1..n -> {"a", "A", "-", "."}] : n \in 0..4} \cup
            {<<"B", "-", "i">>, <<"a", "-", "A", "-", "i">>, <<"i", "-", "A", "a", "-", "b">>,
             <<"a", "A", ".", "B">>, <<"b", "b">>, <<"A", "A", ".", "B", "a">>}

a == <<"a">>  A == <<"A">>  b == <<"b">>  B == <<"B">>
aa == <<"a", "a">>  Aa == <<"A", "a">>  ab == <<"a", "b">>  aaa == <<"a", "a", "a">>
phrase == <<"a", " ", "b">>  same == <<"b", " ", "A">>  abbr == <<"a", "b", ".">>
n == <<"n">>  nb == <<"n", "b">>
Good(sugs) == [sugs |-> sugs, hq |-> TRUE]
Bad(sugs) == [sugs |-> sugs, hq |-> FALSE]

Rich == [spelled |-> {b, n, ab, Aa, <<"B", "B">>, abbr}, forbidden |-> {<<"b", "-", "a">>},
         low |-> (a :> Bad(<<b, B>>)) @@ (aa :> Good(<<ab, phrase, ab>>)) @@
                 (A :> Bad(<<abbr>>)) @@ (Aa :> Bad(<<same, aaa, phrase>>)) @@
                 (<<"a", "A">> :> Bad(<<same, phrase, <<"b", " ", "b">>, B>>)),
         near |-> (aa :> <<n, nb>>) @@ (a :> <<nb, n>>) @@ (aaa :> <<nb>>),
         keepcase |-> FALSE, forbids |-> TRUE, force |-> {<<"b", "b">>}, ngrams |-> TRUE,
         iconv |-> ("i" :> a), oconv |-> ("B" :> b)]
MCDictionaries ==
    <<Rich,
      [Rich EXCEPT !.keepcase = TRUE, !.forbids = FALSE, !.spelled = {a, aa, B, <<"B", "B", ".">>},
                   !.ngrams = FALSE],
      [Rich EXCEPT !.forbids = FALSE, !.spelled = {}, !.force = {}]>>
=============================================================================
