-------------------------- MODULE MCCompoundCheck --------------------------
(* Small dictionaries for CompoundCheck, one per way of joining parts, and *)
(* all words of up to three to seven of their letters.                     *)
EXTENDS CompoundReadings, TLC

Word(s, f) == [stem |-> s, flags |-> f]
NoAffix == [appending |-> <<>>, flag |-> "none", modifies |-> FALSE]
Affix(app, flag) == [appending |-> app, flag |-> flag, modifies |-> app # <<>>]
Reading(kind, form, modes, entry, prefix, suffix) ==
    [kind |-> kind, form |-> form, modes |-> modes, entry |-> entry,
     prefix |-> prefix, suffix |-> suffix]
CompoundPattern(first, second, replacement, f1, f2, unaffixed) ==
    [first |-> first, second |-> second, replacement |-> replacement,
     flag1 |-> f1, flag2 |-> f2, unaffixed |-> unaffixed]

Language(words) ==
    [words |-> words, readings |-> {}, patterns |-> <<>>, min |-> 1,
     maxWords |-> 0, syllableMax |-> 0, syllableNum |-> FALSE, vowels |-> {},
     enabled |-> TRUE, triple |-> FALSE, upper |-> FALSE, simplified |-> FALSE,
     duplicate |-> FALSE, rep |-> FALSE, reps |-> {}, simple |-> {},
     byRules |-> <<>>]

AnyPlace == {"compound"}
MCCapitals == {"A"}
MCAlphabetic == {"a", "b", "i", "A"}

\* Plain compounds of one- and two-letter words, at their places.
Places == Language(<<Word(<<"a">>, AnyPlace), Word(<<"a", "b">>, {"begin"}),
                     Word(<<"b", "a">>, {"end", "forbidden"}),
                     Word(<<"b">>, {"needaffix", "compound"}),
                     Word(<<"b">>, {"middle", "A"}),
                     Word(<<"b", "b">>, {"end", "force"}),
                     Word(<<"a", "a">>, {"compound", "hidden"})>>)
Counted == [Places EXCEPT !.maxWords = 3, !.duplicate = TRUE]
Letters3 == [Places EXCEPT !.triple = TRUE, !.upper = TRUE,
              !.words = @ \o <<Word(<<"A">>, {"middle"}), Word(<<"-">>, AnyPlace)>>]

\* Words that end or begin with a double letter.
Doubles == [Language(<<Word(<<"a", "b", "b">>, AnyPlace), Word(<<"b", "b">>, {"begin", "B"}),
                       Word(<<"b", "a">>, {"end"}), Word(<<"b", "a", "a">>, {"middle"}),
                       Word(<<"a", "b">>, {"end", "force"})>>)
            EXCEPT !.min = 2, !.simplified = TRUE]
DoublesCounted == [Doubles EXCEPT !.maxWords = 2, !.triple = TRUE]

\* Patterns that only forbid, and patterns with a replacement.
Forbids == [Places EXCEPT !.patterns =
    <<CompoundPattern(<<"a">>, <<"b">>, <<>>, "none", "A", FALSE),
      CompoundPattern(<<"b">>, <<"b">>, <<>>, "A", "none", TRUE)>>]
Rewrites ==
    <<CompoundPattern(<<"b">>, <<"b">>, <<"a">>, "A", "none", FALSE),
      CompoundPattern(<<"a">>, <<"b">>, <<"b">>, "none", "B", FALSE),
      CompoundPattern(<<"b">>, <<"a">>, <<>>, "none", "none", FALSE)>>
Replaces == [Language(<<Word(<<"a", "b">>, {"compound", "A"}), Word(<<"b", "a">>, AnyPlace),
                        Word(<<"b", "b">>, {"end", "B"}), Word(<<"b">>, {"middle", "A", "B"}),
                        Word(<<"a", "a">>, {"compound", "forbidden"})>>)
             EXCEPT !.duplicate = TRUE, !.triple = TRUE, !.patterns = Rewrites]
Replaces3 == [Language(<<Word(<<"a", "b", "b">>, {"compound", "A"}), Word(<<"b", "b", "a">>, AnyPlace),
                         Word(<<"b", "b">>, {"compound", "B"}), Word(<<"a", "a">>, {"end", "force"}),
                         Word(<<"b", "b", "b">>, {"middle", "A"})>>)
              EXCEPT !.min = 2, !.simplified = TRUE, !.maxWords = 3, !.patterns = Rewrites]

\* CHECKCOMPOUNDREP.
Reps == [Places EXCEPT !.rep = TRUE, !.simple = {<<"a", "b">>, <<"b", "b">>, <<"a">>},
          !.reps = {[kind |-> "whole", from |-> <<"a", "a">>, to |-> <<"a">>],
                    [kind |-> "start", from |-> <<"b">>, to |-> <<"a">>],
                    [kind |-> "end", from |-> <<"b", "b">>, to |-> <<"b">>],
                    [kind |-> "any", from |-> <<"a", "b", "a">>, to |-> <<"a">>]}]
RepsReplaces == [Replaces3 EXCEPT !.rep = TRUE, !.simple = Reps.simple, !.reps = Reps.reps]

\* The Hungarian counts, with affixes.
Kar == Word(<<"a", "b">>, {"J", "compound"})
Hungarian3 ==
    [Language(<<Word(<<"a">>, {"I", "compound"}), Kar, Word(<<"b">>, {"root", "compound"})>>)
     EXCEPT !.maxWords = 2, !.syllableMax = 2, !.syllableNum = TRUE, !.vowels = {"a", "i"},
            !.readings =
    {Reading("suffix", <<"a", "b", "i">>, {"end"}, Kar, NoAffix, Affix(<<"i">>, "I")),
     Reading("suffix", <<"b", "b", "i">>, {"end"}, Word(<<"b">>, {"A"}), NoAffix, Affix(<<"b", "i">>, "J")),
     Reading("prefix", <<"i", "i", "b">>, {"begin", "middle"}, Word(<<"b">>, {"A"}),
             Affix(<<"i", "i">>, "P"), NoAffix),
     Reading("both", <<"i", "b", "a">>, Modes, Word(<<"b">>, {"A"}),
             Affix(<<"i">>, "P"), Affix(<<"a">>, "c"))}]
\* No compound flag, or no compound of words; COMPOUNDRULE decides.
RulesOnly == [Places EXCEPT !.enabled = FALSE,
               !.byRules = (<<"a", "a", "a">> :> Result(Word(<<"a">>, AnyPlace), 0, 0, FALSE))]
RulesToo == [Places EXCEPT !.min = 0,
              !.byRules = (<<"b", "a", "a">> :> Result(Word(<<"a">>, AnyPlace), 0, 0, FALSE))]

\* One letter is a part, and a dropped one is put back as the rest begins:
\* the rest of "llx" is "lx", for ever.
Growing == [Language(<<Word(<<"l">>, AnyPlace)>>) EXCEPT !.simplified = TRUE]

MCLanguages ==
    [places |-> Places, counted |-> Counted, letters |-> Letters3,
     doubles |-> Doubles, doublesCounted |-> DoublesCounted, forbids |-> Forbids,
     replaces |-> Replaces, replaces3 |-> Replaces3, reps |-> Reps,
     repsReplaces |-> RepsReplaces, hungarian |-> Hungarian3,
     rulesOnly |-> RulesOnly, rulesToo |-> RulesToo, growing |-> Growing]
MCGrowing == [growing |-> Growing]

Over(letters, n) == UNION {[1..k -> letters] : k \in 0..n}
MCInputs ==
    [x \in DOMAIN MCLanguages |->
        CASE x = "letters" -> Over({"a", "b", "A", "-"}, 4)
          [] x = "hungarian" -> Over({"a", "b", "i"}, 5)
          [] x \in {"doubles", "doublesCounted"} -> Over({"a", "b"}, 7)
          [] x \in {"rulesOnly", "rulesToo"} -> Over({"a", "b"}, 3)
          \* The chains of other words, lll say, have no end.
          [] x = "growing" -> {<<"l">>, <<"l", "l">>, <<"l", "l", "x">>}
          [] OTHER -> Over({"a", "b"}, 7)]
=============================================================================
