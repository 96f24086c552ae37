---------------------------- MODULE MCAffParser ----------------------------
(* .aff files of up to four lines about one kind of command each, correct  *)
(* and wrong, and six that set what matters to a .dic file, with .dic      *)
(* files of every short line for these.                                    *)
EXTENDS AffParser, TLC

MCLowers == {"a", "f", "None"}
MCCapitals == {"A", "None"}
MCInvalid == {"?"}
MCMaxDigits == 2
MCMaxShort == 65535
MCValue == ("0" :> 0) @@ ("1" :> 1) @@ ("2" :> 2) @@ ("3" :> 12) @@ ("4" :> 65536)
MCMalformed == {<<"[">>, <<"[", "a">>}

-----------------------------------------------------------------------------
Lines(tokens, max) == UNION {[1..k -> tokens] : k \in 0..max}
Dic(ls) == [has_count |-> TRUE, lines |-> ls, breaks |-> Len(ls) + 1]
One(ls) == {Dic(<<l>>) : l \in ls}
AfterSlash(ws, fs) == {w \o <<"/">> \o f : w \in ws, f \in fs}
Few == {<<"a">>, <<"A", "A", "/", "f">>, <<"A", "a", "A", "/", "?">>, <<"/", "a", "/">>,
        <<"a", "/", "a", "f", "a", "\r">>, <<"?">>, <<>>, <<"a", "/", "1", "x">>}
Texts == One(Lines({"a", "A", "/", "\\", " ", "\t", ":"}, 4)) \cup
         One(Lines({"a", "/", "\\", " "}, 5)) \cup
         One({<<"a">> \o l : l \in Lines({" ", "a", ":"}, 5)})
Flagged == One(AfterSlash({<<"A", "A">>, <<"A", "a", "A">>, <<"a", "A">>},
                          Lines({"f", "1", ",", "?", " "}, 4) \cup {<<"None">>, <<"\r">>}))
Broken == {[has_count |-> c, lines |-> ls, breaks |-> b] :
              c \in BOOLEAN, ls \in UNION {[1..k -> Few] : k \in 2..3}, b \in {1, 4}}
Short == {Dic(<<<<"A", "A", "/", "f">>>>)}

MCDicFiles(dics) ==
    CASE dics = "short" -> Short
      [] dics = "all" -> Texts \cup Flagged \cup Broken
      [] dics = "texts" -> Texts \cup Broken
      [] dics = "flagged" -> Flagged \cup Broken

-----------------------------------------------------------------------------
L(toks) == [toks |-> toks, tail |-> FALSE]
Ended(toks) == [toks |-> toks, tail |-> TRUE]
a == <<"a">>  b == <<"b">>  ff == <<"f", "f">>  q == <<"?">>  zero == <<"0">>
one == <<"1">>  two == <<"2">>  cond == <<"[", "a">>
Of(c, rows) == {L(<<<<c>>>> \o r) : r \in rows}

Arrays == Of("REP", {<<two>>, <<a, <<"_", "b">>>>, <<a>>}) \cup
          Of("BREAK", {<<one>>, <<b>>, <<q>>}) \cup Of("MAP", {<<one>>, <<<<"a", "b">>>>})
SuffixLines == Of("SFX", {<<a, <<"Y">>, one>>, <<a, <<"N", "2">>>>, <<a, zero, <<"b", "a", "/", "f">>, cond>>,
                       <<a, b, zero>>, <<a, b>>, <<b, <<"Y">>, two>>, <<b, zero, b, a>>}) \cup
            {Ended(<<<<"SFX">>, a, zero, b, cond>>), L(<<<<"SFX">>, <<"a", "x">>, zero, b, q>>)} \cup Of("IGNORE", {<<b>>})
FlagLines == Of("FLAG", {<<<<"long">>>>, <<<<"num">>>>, <<a>>}) \cup Of("AF", {<<one>>, <<ff>>}) \cup
             Of("COMPOUNDRULE", {<<two>>, <<<<"(", "f", "f", ")", "*", "(", "f", "f", ")">>>>,
                                 <<<<"(", "1", ")", "?">>>>}) \cup
             Of("PFX", {<<ff, <<"Y">>, one>>, <<ff, zero, <<"a", "/", "1">>>>})
Patterns == Of("CHECKCOMPOUNDPATTERN", {<<two>>, <<<<"a", "/", "f">>, b>>, <<a, b, q>>,
                                        <<<<"a", "/">>, b>>}) \cup
            {Ended(<<<<"CHECKCOMPOUNDPATTERN">>, a, b, q>>), L(<<<<"#">>>>), L(<<>>)}
Options == Of("TRY", {<<a>>, <<q>>}) \cup Of("SET", {<<a>>, <<q>>}) \cup Of("FULLSTRIP", {<<>>}) \cup
           Of("MAXDIFF", {<<<<"3">>>>, <<a>>, <<>>}) \cup Of("COMPOUNDMIN", {<<zero>>, <<<<"4">>>>}) \cup
           Of("FORBIDDENWORD", {<<a>>, <<>>}) \cup Of("UNKNOWN", {<<a>>}) \cup
           Of("ICONV", {<<<<"x">>>>, <<a, b>>})

Aff(ls, dics) == [lines |-> ls, breaks |-> 9, dics |-> dics]
Files(pool, max) == {Aff(ls, "short") : ls \in UNION {[1..k -> pool] : k \in 0..max}}
Forbidding(f) == L(<<<<"FORBIDDENWORD">>, f>>)
FlagIs(t) == L(<<<<"FLAG">>, <<t>>>>)
MCOptionFiles == Files(Options, 2)
MCAffFiles ==
    Files(Arrays, 4) \cup Files(SuffixLines, 4) \cup Files(FlagLines, 4) \cup
    Files(Patterns, 3) \cup MCOptionFiles \cup
    {[lines |-> <<L(<<<<"FULLSTRIP">>>>), L(<<<<"TRY">>, a>>)>>, breaks |-> 1, dics |-> "short"],
     Aff(<<Forbidding(<<"f">>)>>, "all"),
     Aff(<<Forbidding(<<"f">>), L(<<<<"IGNORE">>, <<":">>>>)>>, "texts"),
     Aff(<<FlagIs("long"), Forbidding(ff)>>, "flagged"),
     Aff(<<FlagIs("num"), Forbidding(<<"1", "1">>)>>, "flagged"),
     Aff(<<FlagIs("utf8"), Forbidding(<<"f">>)>>, "flagged"),
     Aff(<<L(<<<<"AF">>, one>>), L(<<<<"AF">>, <<"a", "f">>>>), Forbidding(<<"f">>)>>, "flagged")}
=============================================================================
