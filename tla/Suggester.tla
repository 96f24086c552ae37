----------------------------- MODULE Suggester -----------------------------
(***************************************************************************)
(* Suggester::suggest_priv(): which spellings of a misspelled word the     *)
(* stages of suggest_low() are asked about, by its casing, and what is     *)
(* made of all they return: some go first, the parts between dashes are    *)
(* suggested for by recursion, some are refused, duplicates are removed.   *)
(*                                                                         *)
(* A call is a record with the steps it has yet to take.  What suggest_low *)
(* (SuggestEdits), ngram_suggest and the checker (SpellWord) say of a word *)
(* are functions of a dictionary; so are the conversions, which ICONV and  *)
(* OCONV give letter by letter here.  Input conversion is taken to leave   *)
(* something of a word and to add no dash: without the first the code      *)
(* reads the last byte of an empty string, without the second the          *)
(* recursion need not end.                                                 *)
(***************************************************************************)
EXTENDS Casing, SequencesExt

CONSTANTS Inputs, Dictionaries

VARIABLES
    dic,
    input,      \* the word of the caller
    calls,      \* the calls that have not returned, outermost first
    lists       \* lists[k] is out of calls[k], and sugs_tmp of calls[k - 1]
vars == <<dic, input, calls, lists>>

dict == Dictionaries[dic]
Has(c, w) == c \in ToSet(w)

-----------------------------------------------------------------------------
(* The checker. *)

Convert(table, w) ==
    FlattenSeq([i \in DOMAIN w |-> IF w[i] \in DOMAIN table THEN table[w[i]]
                                   ELSE <<w[i]>>])
TrimPeriods(w) ==
    LET others == {i \in DOMAIN w : w[i] # "."}
    IN  IF others = {} THEN <<>>
        ELSE SubSeq(w, 1, CHOOSE i \in others : \A j \in others : j <= i)

\* spell_priv(), which leaves its argument converted and without the periods
\* at its end, or with one of them when it is the shorter word that is wrong.
Spell(w) ==
    LET c == Convert(dict.iconv, w)
        t == TrimPeriods(c)
    IN  CASE t = <<>> \/ t \in dict.spelled -> [ok |-> TRUE, left |-> t]
          [] t # <<>> /\ t \notin dict.spelled /\ t = c -> [ok |-> FALSE, left |-> t]
          [] t # <<>> /\ t \notin dict.spelled /\ t # c ->
                [ok |-> Append(t, ".") \in dict.spelled, left |-> Append(t, ".")]
Low(w) == IF w \in DOMAIN dict.low THEN dict.low[w] ELSE [sugs |-> <<>>, hq |-> FALSE]
Near(w) == IF w \in DOMAIN dict.near THEN dict.near[w] ELSE <<>>

-----------------------------------------------------------------------------
(* Calls. *)

Step(name, w) == [do |-> name, of |-> w]
Loop(name) == [do |-> name, at |-> 1]
AfterDot(w) ==
    IF Has(".", w) THEN SubSeq(w, SelectInSeq(w, LAMBDA c : c = ".") + 1, Len(w)) ELSE <<>>

\* What is asked for a word of each casing.
Spellings(w, casing) ==
    LET l == ToLower(w)  t == ToTitle(w)  u == ToLowerCharAt(w, 1)
        dot == IF ClassifyCasing(AfterDot(w)) # "init_capital" THEN <<>>
               ELSE <<Step("first", SubSeq(w, 1, Len(w) - Len(AfterDot(w))) \o
                                    <<" ">> \o AfterDot(w))>>
    IN  CASE casing = "small"        -> <<Step("low", w)>>
          [] casing = "init_capital" -> <<Step("low", w), Step("low", l)>>
          [] casing = "camel"        ->
                <<Step("low", w)>> \o dot \o <<Step("spell", l), Loop("phrases")>>
          [] casing = "pascal"       ->
                <<Step("low", w)>> \o dot \o
                <<Step("spell", u), Step("spell", l), Step("spell", t), Loop("phrases")>>
          [] casing = "all_capital"  ->
                <<Step(IF dict.keepcase THEN "spell" ELSE "low", l), Step("low", t),
                  Step("capitals", w)>>

Script(w) ==
    LET casing == ClassifyCasing(w)
    IN  IF casing = "small" /\ w \in dict.force THEN <<Step("last", ToTitle(w))>>
        ELSE Spellings(w, casing) \o <<Step("ngram", ToLower(w)), Step("dashes", w)>> \o
             (IF casing \in {"init_capital", "pascal"} THEN <<Step("titles", w)>> ELSE <<>>) \o
             (IF casing \in {"init_capital", "all_capital"} /\ (dict.keepcase \/ dict.forbids)
              THEN <<Loop("filter")>> ELSE <<>>) \o
             <<Step("unique", w), Step("convert", w)>>

\* A call, or none when nothing is left of the word.  asked and found record
\* what suggest_low was asked and what was suggested.
Opened(w) ==
    LET t == TrimPeriods(Convert(dict.iconv, w))
    IN  IF t = <<>> THEN <<>>
        ELSE <<[word |-> t, todo |-> Script(t), hq |-> FALSE, asked |-> {}, found |-> {}]>>

\* Dictionary::suggest() clears the list.
Init ==
    /\ dic \in DOMAIN Dictionaries /\ input \in Inputs
    /\ calls = Opened(input) /\ lists = <<<<>>>>

depth == Len(calls)
call == calls[depth]
word == call.word
results == lists[depth]
Doing(name) == calls # <<>> /\ call.todo # <<>> /\ call.todo[1].do = name
Argument == call.todo[1].of
Casing == ClassifyCasing(word)

\* The step is over; these go into the list of results.
Done(c, list) ==
    /\ \E top \in {[c EXCEPT !.todo = Tail(@)]} : calls' = [calls EXCEPT ![depth] = top]
    /\ \E out \in {list} : lists' = [lists EXCEPT ![depth] = out]
    /\ UNCHANGED <<dic, input>>
Noting(c, sugs) == [c EXCEPT !.found = @ \cup {ToLower(sugs[i]) : i \in DOMAIN sugs}]

\* Mutant: what the stages said of the last spelling is what counts
AskedLow_Overwritten(c, w) ==
    [Noting(c, Low(w).sugs) EXCEPT !.hq = Low(w).hq, !.asked = @ \cup {w}]
AskedLow(c, w) ==
    [Noting(c, Low(w).sugs) EXCEPT !.hq = @ \/ Low(w).hq, !.asked = @ \cup {w}]

AskLow == Doing("low") /\ Done(AskedLow(call, Argument), results \o Low(Argument).sugs)
InsertFirst ==
    /\ Doing("first")
    /\ Done(Noting(call, <<Argument>>), <<Argument>> \o results)

\* The spelling itself goes first when it is accepted.
SpellThenLow ==
    /\ Doing("spell")
    /\ \E sp \in {Spell(Argument)} :
        LET firsts == IF sp.ok THEN <<sp.left>> ELSE <<>>
        IN  Done(AskedLow(Noting(call, firsts), sp.left),
                 firsts \o results \o Low(sp.left).sugs)

\* The suggestions with a space whose end is not that of the word have a
\* capital after the space and go first, each before those that went there.
Space(s) == SelectInSeq(s, LAMBDA c : c = " ")
EndsAsWord(s) ==
    LET len == Len(s) - Space(s)
    IN  len > Len(word) \/ SubSeq(s, Space(s) + 1, Len(s)) = SubSeq(word, Len(word) - len + 1, Len(word))
IsMoved(s) == Has(" ", s) /\ ~EndsAsWord(s)
Titled(s) == ToTitleCharAt(s, Space(s) + 1)
\* rotate(begin, it, it + 1): the result at k goes first, those before it move
\* up by one.
\* Mutant: the one that was first is written over
ToFront_Over(list, k) ==
    IF k = 1 THEN list
    ELSE <<Titled(list[k])>> \o SubSeq(list, 2, k - 1) \o SubSeq(list, k + 1, Len(list))
ToFront(list, k) ==
    <<Titled(list[k])>> \o SubSeq(list, 1, k - 1) \o SubSeq(list, k + 1, Len(list))
\* The loop goes on behind the place the result was taken from.
TitlePhrase ==
    /\ Doing("phrases") /\ call.todo[1].at <= Len(results)
    /\ \E k \in {call.todo[1].at} :
        /\ lists' = IF IsMoved(results[k]) THEN [lists EXCEPT ![depth] = ToFront(@, k)] ELSE lists
        /\ calls' = [calls EXCEPT ![depth].todo[1].at = k + 1]
    /\ UNCHANGED <<dic, input>>
PhrasesTitled == Doing("phrases") /\ call.todo[1].at > Len(results) /\ Done(call, results)

Capitals ==
    Doing("capitals") /\ Done(call, [i \in DOMAIN results |-> ToUpper(results[i])])

NGrams ==
    /\ Doing("ngram")
    /\ LET near == IF call.hq \/ ~dict.ngrams THEN <<>> ELSE Near(Argument)
       IN  Done(Noting(call, near),
                results \o [i \in DOMAIN near |->
                               IF Casing = "all_capital" THEN ToUpper(near[i]) ELSE near[i]])

-----------------------------------------------------------------------------
(* The parts between dashes. *)

PartFrom(i) == [do |-> "part", from |-> i]
DashFrom(i) ==
    LET dashes == {j \in i..Len(word) : word[j] = "-"}
    IN  IF dashes = {} THEN Len(word) + 1 ELSE CHOOSE j \in dashes : \A k \in dashes : j <= k
Instead(step) == [call EXCEPT !.todo = <<step>> \o Tail(@)]

StartDashes ==
    /\ Doing("dashes")
    /\ IF Has("-", word) /\ \A i \in DOMAIN results : ~Has("-", results[i])
       THEN /\ calls' = [calls EXCEPT ![depth] = Instead(PartFrom(1))]
            /\ lists' = SubSeq(lists, 1, depth) \o <<<<>>>>
       ELSE /\ calls' = [calls EXCEPT ![depth] = [@ EXCEPT !.todo = Tail(@)]]
            /\ UNCHANGED lists
    /\ UNCHANGED <<dic, input>>

\* A part that is wrong is suggested for, into the list of the parts before it.
\* Mutant: the loop does not pass the dash
NextPart_Same(j) ==
    IF j > Len(word) THEN [call EXCEPT !.todo = Tail(@)] ELSE Instead(PartFrom(j))
NextPart(j) ==
    IF j > Len(word) THEN [call EXCEPT !.todo = Tail(@)] ELSE Instead(PartFrom(j + 1))
CheckPart ==
    /\ Doing("part")
    /\ \E i \in {call.todo[1].from} : \E j \in {DashFrom(i)} :
       \E sp \in {Spell(SubSeq(word, i, j - 1))} :
        calls' = IF sp.ok THEN [calls EXCEPT ![depth] = NextPart(j)]
                 ELSE [calls EXCEPT ![depth] = Instead([do |-> "replace", from |-> i, to |-> j])]
                      \o Opened(sp.left)
    /\ UNCHANGED <<dic, input, lists>>

\* Each is put in the place of the part.
\* Mutant: buffer is set to the word once, before the loops
Candidates_Kept(i, j) ==
    LET tmp == lists[depth + 1]
        buffer == IF results # <<>> /\ Has("-", Last(results)) THEN Last(results) ELSE word
    IN  [k \in DOMAIN tmp |-> SubSeq(buffer, 1, i - 1) \o tmp[k] \o SubSeq(buffer, j, Len(buffer))]
Candidates(i, j) ==
    LET tmp == lists[depth + 1]
    IN  [k \in DOMAIN tmp |-> SubSeq(word, 1, i - 1) \o tmp[k] \o SubSeq(word, j, Len(word))]
ReplacePart ==
    /\ Doing("replace")
    /\ \E sugs \in {SelectSeq(Candidates(call.todo[1].from, call.todo[1].to),
                              LAMBDA s : s \notin dict.forbidden)} :
        /\ calls' = [calls EXCEPT ![depth] = Noting(NextPart(call.todo[1].to), sugs)]
        /\ lists' = [lists EXCEPT ![depth] = @ \o sugs]
    /\ UNCHANGED <<dic, input>>

-----------------------------------------------------------------------------
(* What is done to all results, those of the caller included. *)

Titles ==
    Doing("titles") /\ Done(call, [i \in DOMAIN results |-> ToTitleCharAt(results[i], 1)])

\* is_ok, which changes its argument: of the three spellings that spell_priv
\* is asked about, each is made of what it left of the one before.
\* Mutant: only the spelling it has is tried
IsOk_AsIs(sp, sl, st) == IF sp.ok THEN sp ELSE [st EXCEPT !.ok = FALSE]
IsOk(sp, sl, st) == IF sp.ok THEN sp ELSE IF sl.ok THEN sl ELSE st
\* Mutant: the one after a refused one is not tested
Following_SkipOne(k, ok) == k + 1
Following(k, ok) == IF ok THEN k + 1 ELSE k
FilterNext(k, r) ==
    /\ lists' = [lists EXCEPT ![depth] = IF r.ok THEN [@ EXCEPT ![k] = r.left] ELSE RemoveAt(@, k)]
    /\ calls' = [calls EXCEPT ![depth].todo[1].at = Following(k, r.ok)]
    /\ UNCHANGED <<dic, input>>
FilterOne ==
    /\ Doing("filter") /\ call.todo[1].at <= Len(results)
    /\ \E k \in {call.todo[1].at} :
        IF Has(" ", results[k]) THEN FilterNext(k, [ok |-> TRUE, left |-> results[k]])
        ELSE \E sp \in {Spell(results[k])} : \E l \in {ToLower(sp.left)} :
             \E sl \in {Spell(l)} : \E t \in {ToTitle(sl.left)} :
             \E st \in {Spell(t)} : FilterNext(k, IsOk(sp, sl, st))
Filtered == Doing("filter") /\ call.todo[1].at > Len(results) /\ Done(call, results)

\* Each removes what equals it from the rest.
\* Mutant: only what follows at once is compared
IsRepeated_Neighbour(i) == i > 1 /\ results[i - 1] = results[i]
IsRepeated(i) == \E j \in 1..i - 1 : results[j] = results[i]
Unique ==
    /\ Doing("unique")
    /\ \E firsts \in {SelectSeq([i \in DOMAIN results |-> i], LAMBDA i : ~IsRepeated(i))} :
        Done(call, [k \in DOMAIN firsts |-> results[firsts[k]]])

ConvertOut ==
    /\ Doing("convert")
    /\ Done(call, [i \in DOMAIN results |-> Convert(dict.oconv, results[i])])

\* compound_force_uppercase: the word with a capital, and nothing else.
ForceUppercase == Doing("last") /\ Done(call, Append(results, Argument))

Return ==
    /\ calls # <<>> /\ call.todo = <<>>
    /\ calls' = Front(calls) /\ lists' = SubSeq(lists, 1, depth)
    /\ UNCHANGED <<dic, input>>

Next ==
    \/ AskLow \/ InsertFirst \/ SpellThenLow \/ TitlePhrase \/ PhrasesTitled \/ Capitals
    \/ NGrams \/ StartDashes \/ CheckPart \/ ReplacePart
    \/ Titles \/ FilterOne \/ Filtered \/ Unique \/ ConvertOut \/ ForceUppercase \/ Return

Spec == Init /\ [][Next]_vars
\* A call runs on its caller's thread until it returns.
FairSpec == Spec /\ WF_vars(Next)

-----------------------------------------------------------------------------
IsFiltered == Casing \in {"init_capital", "all_capital"} /\ (dict.keepcase \/ dict.forbids)
Collected == depth = 1 /\ Doing("convert")
Plain(w) == ToLower(TrimPeriods(w))

\* What was suggested by any step is among the results before they are
\* converted, but for its capitals and periods, unless the results are filtered
\* and no spelling of it is accepted: moving results to the front, the loop
\* over parts and the filter (suggester.cxx:107-122, 178-206) lose nothing.
NothingLost ==
    Collected =>
        \A w \in call.found :
            (IsFiltered => Has(" ", w) \/ Spell(w).ok \/ Spell(ToTitle(w)).ok) =>
                \E i \in DOMAIN results : Plain(results[i]) = Plain(w)

\* Before they are converted no two results are equal and, when capitals were
\* given and spellings can be forbidden or bound to their case, each is accepted
\* or is several words (suggester.cxx:178-215).
ResultsAreUsable ==
    Collected =>
        /\ IsInjective(results)
        /\ IsFiltered => \A i \in DOMAIN results : Has(" ", results[i]) \/ Spell(results[i]).ok

\* Similar words are a last resort: none is suggested when the stages had a good
\* suggestion for any spelling they were asked about (suggester.cxx:135-147).
NGramsAreLastResort ==
    Collected =>
        \A w \in call.asked : Low(w).hq =>
            \A v \in DOMAIN dict.near : \A k \in DOMAIN dict.near[v] :
                \A i \in DOMAIN results : ToLower(results[i]) # ToLower(dict.near[v][k])

\* The loop over the parts of the word is over and nothing was done since.
AfterDashes ==
    /\ calls # <<>> /\ Len(lists) > depth
    /\ LET script == Script(word)
       IN  call.todo = SubSeq(script, SelectInSeq(script, LAMBDA s : s.do = "dashes") + 1,
                              Len(script))

\* What is suggested between dashes, for the last part too, differs from the
\* word in one of the parts that are wrong, and is not forbidden
\* (suggester.cxx:149-176): replacements of two parts are never combined.
\* (What a part is replaced by may be a suggestion for a part before it:
\* sugs_tmp is not emptied in between.)
OnePartReplaced ==
    Doing("part") \/ Doing("replace") \/ AfterDashes =>
        \A k \in DOMAIN results : Has("-", results[k]) =>
            /\ results[k] \notin dict.forbidden
            /\ \E i \in 1..Len(word) + 1 : \E j \in {DashFrom(i)} :
                /\ i = 1 \/ word[i - 1] = "-"
                /\ ~Spell(SubSeq(word, i, j - 1)).ok
                /\ IsPrefix(SubSeq(word, 1, i - 1), results[k])
                /\ IsSuffix(SubSeq(word, j, Len(word)), results[k])
                /\ Len(results[k]) >= Len(word) - (j - i)

\* Every call returns, those for the parts between dashes too.
Terminates == <>(calls = <<>>)
=============================================================================
