---------------------------- MODULE MCSpellWord ----------------------------
(* Small dictionaries and break tables for SpellWord, and the words of up  *)
(* to four characters over a small and a capital letter, a dash, a period  *)
(* and an apostrophe.                                                      *)
EXTENDS SpellWord, TLC

MCUpperOf == ("a" :> "A") @@ ("b" :> "B")

Flags == {{}, {Forbidden}, {KeepCase}, {Warn}, {Hidden}}
A == <<"a">>  AA == <<"A">>  B == <<"A", "a">>  C == <<"a", "-", "a">>
D == <<"A", "'", "A", "a">>  E == <<"a", ".">>

MCWordLists ==
    {(A :> f) @@ (C :> g) : f \in Flags, g \in {{}, {Forbidden}, {Warn}}}
      \cup {(B :> f) @@ (D :> g) : f \in Flags, g \in Flags}
      \cup {(A :> {Forbidden}) @@ (E :> {}), (A :> {KeepCase}) @@ (AA :> {Hidden})}

MCBreaks ==
    {<<>>, <<<<"-">>>>, <<<<"^", "-">>, <<"-", "$">>, <<"-">>>>,
     <<<<>>, <<"^">>, <<"$">>, <<"^", "a">>, <<"-", "a">>>>,
     <<<<"a", "-", "a", "a", "-">>, <<"-", "-">>, <<"a", "$">>>>}

MCDictionaries ==
    [words \in MCWordLists, table \in MCBreaks, warn \in BOOLEAN |->
        [words |-> words, breaks |-> table, forbid_warn |-> warn]]

MCChars == {"a", "A", "-", "."}
MCInputs ==
    UNION {[1..n -> MCChars] : n \in 0..3}
      \cup {<<"a", "-", "a", "-", "a">>, <<"a", "-", "-", "a">>,
            <<"-", "a", "-", "a", "-">>, <<"A", "'", "A", "A">>,
            <<"-", "-", "x", "-", "-", ".">>, <<"1", "a">>, <<"1", ".", "1">>, <<"i", "a", "i">>}
MCDigits == {"1"}
MCIgnored == {"i"}
=============================================================================
