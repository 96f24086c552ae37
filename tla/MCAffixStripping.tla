-------------------------- MODULE MCAffixStripping --------------------------
(* Small dictionaries for AffixStripping.  There is a prefix "a" (flag P), *)
(* and two suffixes: "b" (flag S) and one that turns a final "a" into "bb" *)
(* after a letter (flag T); the mirrored dictionaries have two prefixes    *)
(* and complex_prefixes.  The continuation flags and the flags of the      *)
(* entries range over the combinations that the searches tell apart.  The  *)
(* parts of a compound have dictionaries of their own, with affixes and    *)
(* entries that are permitted at some places only.                         *)
EXTENDS AffixStripping

MCLetters == {"a", "b"}
Aff(side, flag, strip, app, cond, cross, cont) ==
    [side |-> side, flag |-> flag, cross |-> cross, stripping |-> strip,
     appending |-> app, condition |-> cond, cont |-> cont]

ContP == {{}, {"S"}, {"T"}, {Circumfix}, {NeedAffix}}
ContS == {{}, {"P"}, {"T"}, {NeedAffix}, {Circumfix}, {OnlyIn}}
ContT == {{}, {"S"}, {"S", "P"}, {"S", Circumfix}, {"S", NeedAffix}}

Entry(w, c) == [str |-> w, cont |-> c]
RootFlags == {{"S"}, {"T"}, {"S", "P"}, {"P", "T"}, {"P", "T", NeedAffix},
              {"S", OnlyIn}, {"P", "T", Hidden}}
WordLists ==
    {<<Entry(<<"b", "a">>, c)>> : c \in RootFlags}
      \cup {<<Entry(<<"b">>, {NeedAffix}), Entry(<<"b">>, {"S", "T"})>>,
             <<Entry(<<"a">>, {"T"})>>}

Simple(p, s, t, ws, cross) ==
    [complex |-> FALSE, words |-> ws,
     prefixes |-> <<Aff("prefix", "P", <<>>, <<"a">>, <<{"b"}>>, TRUE, p)>>,
     suffixes |-> <<Aff("suffix", "S", <<>>, <<"b">>, <<>>, cross, s),
                    Aff("suffix", "T", <<"a">>, <<"b", "b">>,
                        <<MCLetters, {"a"}>>, TRUE, t)>>]

\* The mirror image: two prefixes, one suffix, COMPLEXPREFIXES.
Complex(p, s, t, ws) ==
    [complex |-> TRUE, words |-> ws,
     prefixes |-> <<Aff("prefix", "S", <<>>, <<"b">>, <<>>, TRUE, s),
                    Aff("prefix", "T", <<"b">>, <<"b", "b">>,
                        <<{"b"}, MCLetters>>, TRUE, t)>>,
     suffixes |-> <<Aff("suffix", "P", <<>>, <<"a">>, <<{"a", "b"}>>, TRUE, p)>>]

\* The parts of a compound.
PartP == {{Permit}, {Forbid, Permit}, {"end"}, {Permit, "middle"}}
PartS == {{}, {Permit}, {Permit, "begin"}, {OnlyIn}, {Permit, NeedAffix}}
PartLists ==
    {<<Entry(<<"b">>, c), Entry(<<"b">>, d)>> :
        c \in {{"P"}, {"S", Compound, Hidden}, {Compound, NeedAffix}},
        d \in {{"P", "S"}, {"begin", "S"}, {"S", "middle"}, {"S", "P", "end"}}}
Parts(p, s, ws) ==
    [complex |-> FALSE, words |-> ws,
     prefixes |-> <<Aff("prefix", "P", <<>>, <<"a">>, <<>>, TRUE, p)>>,
     suffixes |-> <<Aff("suffix", "S", <<>>, <<>>, <<>>, TRUE, s),
                    Aff("suffix", "S", <<>>, <<"a">>, <<{"b"}>>, TRUE, s)>>]

\* Of the three affixes at most two are out of the ordinary.
Conts == {c \in ContP \X ContS \X ContT : c[1] = {} \/ c[2] = {} \/ c[3] = {"S"}}
Names == ({"simple"} \X Conts \X WordLists \X BOOLEAN)
    \cup ({"complex"} \X Conts \X WordLists)
    \cup ({"parts"} \X PartP \X PartS \X PartLists)
MCLanguages ==
    [l \in Names |->
        CASE l[1] = "simple"  -> Simple(l[2][1], l[2][2], l[2][3], l[3], l[4])
          [] l[1] = "complex" -> Complex(l[2][1], l[2][2], l[2][3], l[3])
          [] l[1] = "parts"   -> Parts(l[2], l[3], l[4])]

SimpleInputs == {<<"b">>, <<"b", "b">>, <<"a", "b", "a">>, <<"b", "b", "b">>,
                 <<"b", "a", "b">>, <<"a", "b", "b", "b">>, <<"a", "b", "b">>,
                 <<"b", "b", "b", "b">>, <<"a", "b", "b", "b", "b">>}
ComplexInputs == {<<"b", "b", "a">>, <<"b", "b", "b", "a">>, <<"b", "a", "a">>,
                  <<"b", "b", "b", "a", "a">>, <<"b", "a">>, <<"b", "b">>}
PartInputs == {<<"b">>, <<"a", "b">>, <<"b", "a">>, <<"a", "b", "a">>}
MCInputs == SimpleInputs \cup ComplexInputs \cup PartInputs
MCModes == {"full", "begin", "middle", "end"}

\* Bound of the model: the words that are worth a dictionary's time, whole in
\* the first two families, a part in the third.  No step changes them.
Bounded ==
    CASE lang[1] = "simple"  -> mode = "full" /\ input \in SimpleInputs
      [] lang[1] = "complex" -> mode = "full" /\ input \in ComplexInputs
      [] lang[1] = "parts"   -> mode # "full" /\ input \in PartInputs
=============================================================================
