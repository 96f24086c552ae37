--------------------------- MODULE AffixStripping ---------------------------
(***************************************************************************)
(* How nuspell::Checker finds the root of one word: Checker::check_simple_ *)
(* word and check_word_in_compound, with the strip_... searches they call. *)
(*                                                                         *)
(* There is one buffer.  Every search walks a table of affixes with an     *)
(* iterator that holds a pointer to that buffer; To_Root_Unroot_RAII takes *)
(* the affix off in place, the next loop walks the shortened buffer, and   *)
(* the destructor puts the affix back, on every path out of the loop body. *)
(*                                                                         *)
(* A word is a sequence of letters.  An affix is a record of its side,     *)
(* flag, cross_product, stripping, appending, cont_flags ("cont") and      *)
(* condition (a sequence of sets of letters).  An entry of the word list   *)
(* has a string and flags ("cont" too).  The special flags of aff_data are *)
(* the strings below.                                                      *)
(***************************************************************************)
EXTENDS Integers, Sequences, SequencesExt, FiniteSets

CONSTANTS
    Letters,    \* what words are made of
    Languages,  \* a function to dictionaries [complex, prefixes, suffixes, words]
    Inputs,     \* words that are checked
    Modes       \* of "full", "begin", "middle", "end" (Affixing_Mode)

VARIABLES
    lang,       \* which dictionary is loaded, never written afterwards
    mode,       \* template argument m of the searches
    skip,       \* skip_hidden_homonym
    input,      \* the buffer as the caller passed it
    word,       \* the buffer
    turn,       \* index in Searches of the search that runs; 0: none yet
    loops,      \* the open loops of the search, outermost first
    pc,         \* "whole", "next", "root", "undo", "done"
    result      \* the affixes found, outermost first, and the root's entry
vars == <<lang, mode, skip, input, word, turn, loops, pc, result>>

Dic == Languages[lang]

NeedAffix == "need_affix"          OnlyIn == "compound_onlyin"
Circumfix == "circumfix"           Hidden == "HIDDEN_HOMONYM"
Permit    == "compound_permit"     Forbid == "compound_forbid"
Compound  == "compound"

\* The parts of the dictionaries and the inputs that the searches take apart
\* and put together are words.
ASSUME InputAssumption == Inputs \subseteq Seq(Letters)
ASSUME TableAssumption ==
    \A l \in DOMAIN Languages :
        /\ \A side \in {"prefix", "suffix"} :
            LET t == IF side = "prefix" THEN Languages[l].prefixes
                                        ELSE Languages[l].suffixes
            IN  /\ Len(t) \in Nat
                /\ \A i \in 1..Len(t) : /\ t[i].side = side
                                         /\ t[i].appending \in Seq(Letters)
                                         /\ t[i].stripping \in Seq(Letters)
        /\ DOMAIN Languages[l].words \subseteq Nat

NoResult == [search |-> "none", affixes |-> <<>>, root |-> <<>>]

-----------------------------------------------------------------------------
(* Affixes on words. *)

\* iterate_prefixes_of, iterate_suffixes_of visit the affixes that fit.
Fits(e, w) == IF e.side = "prefix" THEN IsPrefix(e.appending, w)
                                   ELSE IsSuffix(e.appending, w)

\* The first n letters of w replaced by x, and the last n.
AtFront(w, n, x) == x \o SubSeq(w, n + 1, Len(w))
AtBack(w, n, x)  == SubSeq(w, 1, Len(w) - n) \o x

ToRoot(e, w) == IF e.side = "prefix"
                THEN AtFront(w, Len(e.appending), e.stripping)
                ELSE AtBack(w, Len(e.appending), e.stripping)
\* Mutant: what was stripped from the root stays in the word.
ToDerived_OverRoot(e, w) == IF e.side = "prefix" THEN e.appending \o w
                                                 ELSE w \o e.appending
ToDerived(e, w) == IF e.side = "prefix"
                   THEN AtFront(w, Len(e.stripping), e.appending)
                   ELSE AtBack(w, Len(e.stripping), e.appending)

CheckCondition(e, w) ==
    LET n == Len(e.condition)
        at == IF e.side = "prefix" THEN 0 ELSE Len(w) - n
    IN  n <= Len(w) /\ \A i \in 1..n : w[at + i] \in e.condition[i]

-----------------------------------------------------------------------------
(* Flags. *)

NotValid(e) ==
    \/ mode = "full" /\ OnlyIn \in e.cont
    \/ mode = (IF e.side = "prefix" THEN "end" ELSE "begin")
         /\ Permit \notin e.cont
    \/ mode # "full" /\ Forbid \in e.cont
OuterNotValid(e) == NotValid(e) \/ NeedAffix \in e.cont
IsCircumfix(e) == Circumfix \in e.cont

\* cross_valid_inner_outer
Licenses(inner, outer) == outer.flag \in inner.cont

\* is_valid_inside_compound; the part flags are named after their modes.
ValidInside(x) == mode = "full" \/ Compound \in x.cont \/ mode \in x.cont

ContinuationFlags(t) == UNION {t[i].cont : i \in DOMAIN t}

-----------------------------------------------------------------------------
(* The searches.  A search is named by the sides it strips, outermost      *)
(* first: "ps" is strip_prefix_then_suffix_commutative, "sps" is           *)
(* strip_suffix_prefix_suffix.                                             *)

Sides == [s   |-> <<"suffix">>,             p   |-> <<"prefix">>,
          ps  |-> <<"prefix", "suffix">>,   ss  |-> <<"suffix", "suffix">>,
          pss |-> <<"prefix", "suffix", "suffix">>,
          sps |-> <<"suffix", "prefix", "suffix">>,
          pp  |-> <<"prefix", "prefix">>,
          spp |-> <<"suffix", "prefix", "prefix">>,
          psp |-> <<"prefix", "suffix", "prefix">>]

Searches ==
    <<"s", "p", "ps">> \o
        IF mode # "full" THEN <<>>
        ELSE IF Dic.complex THEN <<"pp", "spp", "psp">>
        ELSE <<"ss", "pss", "sps">>

Table(side) == IF side = "prefix" THEN Dic.prefixes ELSE Dic.suffixes
Search  == Searches[turn]
Level   == Len(loops)
Here    == Table(Sides[Search][Level])
Affix(k) == Table(Sides[Search][k])[loops[k].at]

\* The affixes whose loop bodies are open around loop k.
Outer(k) == [i \in 1..k-1 |-> Affix(i)]

\* "The following check is purely for performance": is a doubled side tried?
Tried(search) ==
    LET on(side) == ContinuationFlags(Table(side)) # {} IN
    CASE search \in {"s", "p", "ps"}   -> TRUE
      [] search \in {"ss", "pss"}      -> on("suffix")
      [] search \in {"pp", "spp"}      -> on("prefix")
      [] search \in {"sps", "psp"}     -> on("suffix") \/ on("prefix")

\* The guards of the loop bodies before the affix is taken off; out is the
\* sequence of affixes already off, outermost first.
\* Mutants: the guard on suffixes at the end of a compound is missing, or
\* is applied everywhere in the compound.
MayStripOne_AtAnyEnd(e) == ~OuterNotValid(e) /\ ~IsCircumfix(e)
MayStripOne_EndOrNot(e) ==
    /\ ~OuterNotValid(e) /\ ~IsCircumfix(e)
    /\ ~(e.side = "suffix" /\ e.appending # <<>> /\ OnlyIn \in e.cont)
MayStripOne(e) ==
    /\ ~OuterNotValid(e) /\ ~IsCircumfix(e)
    /\ ~(e.side = "suffix" /\ e.appending # <<>> /\ mode = "end"
           /\ OnlyIn \in e.cont)

MayStripCommutative(e, out) ==
    /\ e.cross /\ ~NotValid(e)
    /\ out # <<>> => /\ ~(NeedAffix \in e.cont /\ NeedAffix \in out[1].cont)
                     /\ IsCircumfix(e) = IsCircumfix(out[1])

\* Mutant: the outer affix gets the test of an inner one.
MayStripTwo_InnerTest(e, out) ==
    /\ ~IsCircumfix(e) /\ ~NotValid(e)
    /\ IF out = <<>> THEN e.flag \in ContinuationFlags(Table(e.side))
                     ELSE Licenses(e, out[1])
MayStripTwo(e, out) ==
    /\ ~IsCircumfix(e)
    /\ IF out = <<>>
       THEN e.flag \in ContinuationFlags(Table(e.side)) /\ ~OuterNotValid(e)
       ELSE Licenses(e, out[1]) /\ ~NotValid(e)

MayStripOneThenTwo(e, out) ==
    CASE Len(out) = 0 -> e.cross /\ ~OuterNotValid(e)
      [] Len(out) = 1 -> /\ e.flag \in ContinuationFlags(Table(e.side))
                         /\ e.cross /\ ~NotValid(e)
                         /\ IsCircumfix(e) = IsCircumfix(out[1])
      [] Len(out) = 2 -> Licenses(e, out[2]) /\ ~NotValid(e) /\ ~IsCircumfix(e)

\* Mutant: the performance test looks only at the affix's own table.
MayStripAround_OwnTable(e, out) ==
    /\ e.cross
    /\ CASE Len(out) = 0 -> /\ e.flag \in ContinuationFlags(Table(e.side))
                            /\ ~OuterNotValid(e)
         [] Len(out) = 1 -> ~NotValid(e)
         [] Len(out) = 2 ->
              /\ Licenses(e, out[1]) \/ Licenses(out[2], out[1])
              /\ ~NotValid(e)
              /\ \/ IsCircumfix(out[2]) = IsCircumfix(out[1]) /\ ~IsCircumfix(e)
                 \/ IsCircumfix(out[2]) = IsCircumfix(e) /\ ~IsCircumfix(out[1])
MayStripAround(e, out) ==
    /\ e.cross
    /\ CASE Len(out) = 0 ->
              /\ e.flag \in ContinuationFlags(Dic.prefixes)
                              \cup ContinuationFlags(Dic.suffixes)
              /\ ~OuterNotValid(e)
         [] Len(out) = 1 -> ~NotValid(e)
         [] Len(out) = 2 ->
              /\ Licenses(e, out[1]) \/ Licenses(out[2], out[1])
              /\ ~NotValid(e)
              /\ \/ IsCircumfix(out[2]) = IsCircumfix(out[1]) /\ ~IsCircumfix(e)
                 \/ IsCircumfix(out[2]) = IsCircumfix(e) /\ ~IsCircumfix(out[1])

MayStrip(e, out) ==
    CASE Search \in {"s", "p"}     -> MayStripOne(e)
      [] Search = "ps"             -> MayStripCommutative(e, out)
      [] Search \in {"ss", "pp"}   -> MayStripTwo(e, out)
      [] Search \in {"pss", "spp"} -> MayStripOneThenTwo(e, out)
      [] Search \in {"sps", "psp"} -> MayStripAround(e, out)

\* The guards on an entry of the word list under all loops of a search.
MayEndCommutative(we, pe, se) ==
    \/ /\ NeedAffix \notin pe.cont /\ Licenses(we, se)
       /\ Licenses(se, pe) \/ Licenses(we, pe)
    \/ /\ NeedAffix \notin se.cont /\ Licenses(we, pe)
       /\ Licenses(pe, se) \/ Licenses(we, se)

MayEndThree(we, lone, inner) ==
    Licenses(inner, lone) \/ Licenses(we, lone)

MayEnd(we, out) ==
    /\ CASE Search = "ps"             -> MayEndCommutative(we, out[1], out[2])
         [] Search \in {"pss", "spp"} -> /\ MayEndThree(we, out[1], out[2])
                                         /\ Licenses(we, out[3])
         [] Search \in {"sps", "psp"} -> /\ MayEndThree(we, out[2], out[3])
                                         /\ Licenses(we, out[3])
         [] Search \in {"s", "p", "ss", "pp"} -> Licenses(we, out[Len(out)])
    /\ ~(mode = "full" /\ OnlyIn \in we.cont)
    /\ ~(skip /\ Hidden \in we.cont)
    /\ Search \in {"s", "p", "ps"} =>
           ValidInside(we) \/ \E i \in DOMAIN out : ValidInside(out[i])

\* The guards on an entry for the word as it stands.
MayStandAlone(we) ==
    /\ NeedAffix \notin we.cont
    /\ IF mode = "full" THEN OnlyIn \notin we.cont ELSE ValidInside(we)
    /\ ~(skip /\ Hidden \in we.cont)

\* The places of the entries that pass, and the one that is seen first.
Entries(w, Test(_)) ==
    {i \in DOMAIN Dic.words : Dic.words[i].str = w /\ Test(Dic.words[i])}
FirstOf(places) == Dic.words[CHOOSE i \in places : \A j \in places : i <= j]

-----------------------------------------------------------------------------
(* The run of one check.                                                   *)

\* seen: the buffer when the loop's iterator was made (history, not read).
OpenLoop == [at |-> 0, seen |-> word]

Init ==
    /\ lang \in DOMAIN Languages /\ input \in Inputs /\ mode \in Modes
    /\ skip \in (IF mode = "full" THEN BOOLEAN ELSE {TRUE})
    /\ word = input /\ turn = 0 /\ loops = <<>>
    /\ pc = "whole" /\ result = NoResult

StartSearch(t) ==
    /\ turn' = t
    /\ IF t > Len(Searches) THEN pc' = "done" /\ loops' = <<>>
       ELSE pc' = "next" /\ loops' = IF Tried(Searches[t]) THEN <<OpenLoop>>
                                                           ELSE <<>>

\* The loop over equal_range(s) that opens both callers.
CheckWhole ==
    /\ pc = "whole"
    /\ LET found == Entries(word, MayStandAlone) IN
       IF found # {}
       THEN /\ result' = [search |-> "whole", affixes |-> <<>>, root |-> FirstOf(found)]
            /\ pc' = "done" /\ UNCHANGED <<turn, loops>>
       ELSE StartSearch(1) /\ UNCHANGED result
    /\ UNCHANGED <<lang, mode, skip, input, word>>

\* The search ended, or was not tried: the next one is called.
NextSearch ==
    /\ pc = "next" /\ loops = <<>>
    /\ StartSearch(turn + 1)
    /\ UNCHANGED <<lang, mode, skip, input, word, result>>

\* ++it: the affixes are visited in the order of the table, and whether one
\* fits is read from the buffer as it is now.
Following == {q \in loops[Level].at + 1 .. Len(Here) : Fits(Here[q], word)}

\* The innermost loop is over; its caller's loop body ends.
EndLoop ==
    /\ pc = "next" /\ loops # <<>> /\ Following = {}
    /\ loops' = Front(loops)
    /\ pc' = IF Level = 1 THEN "next" ELSE "undo"
    /\ UNCHANGED <<lang, mode, skip, input, word, turn, result>>

\* The next affix is refused by its flags, or taken off.
VisitAffix ==
    /\ pc = "next" /\ loops # <<>> /\ Following # {}
    /\ LET q == CHOOSE i \in Following : \A j \in Following : i <= j
           e == Here[q]
       IN  /\ loops' = [loops EXCEPT ![Level].at = q]
           /\ IF MayStrip(e, Outer(Level)) THEN word' = ToRoot(e, word) /\ pc' = "root"
                                           ELSE UNCHANGED <<word, pc>>
    /\ UNCHANGED <<lang, mode, skip, input, turn, result>>

\* Mutant: the condition is not checked.
CheckRoot_NoCondition ==
    /\ pc = "root"
    /\ LET out == Outer(Level + 1)
           found == Entries(word, LAMBDA we : MayEnd(we, out))
       IN  IF Level < Len(Sides[Search])
           THEN pc' = "next" /\ loops' = Append(loops, OpenLoop)
                  /\ UNCHANGED result
           ELSE /\ pc' = "undo" /\ UNCHANGED loops
                /\ result' = IF found = {} THEN result
                             ELSE [search |-> Search, affixes |-> out,
                                   root |-> FirstOf(found)]
    /\ UNCHANGED <<lang, mode, skip, input, word, turn>>
\* The shortened buffer fails the condition, is searched further, or is
\* looked up.
CheckRoot ==
    /\ pc = "root"
    /\ LET out == Outer(Level + 1)
           found == Entries(word, LAMBDA we : MayEnd(we, out))
       IN  IF ~CheckCondition(Affix(Level), word)
           THEN pc' = "undo" /\ UNCHANGED <<loops, result>>
           ELSE IF Level < Len(Sides[Search])
           THEN pc' = "next" /\ loops' = Append(loops, OpenLoop)
                  /\ UNCHANGED result
           ELSE /\ pc' = "undo" /\ UNCHANGED loops
                /\ result' = IF found = {} THEN result
                             ELSE [search |-> Search, affixes |-> out,
                                   root |-> FirstOf(found)]
    /\ UNCHANGED <<lang, mode, skip, input, word, turn>>

\* Mutant: the affixes are put back only at the end of the loop bodies.
PutBack_NotOnReturn ==
    /\ pc = "undo"
    /\ IF result = NoResult
       THEN word' = ToDerived(Affix(Level), word) /\ pc' = "next" /\ UNCHANGED loops
       ELSE pc' = "done" /\ loops' = <<>> /\ UNCHANGED word
    /\ UNCHANGED <<lang, mode, skip, input, turn, result>>

\* ~To_Root_Unroot_RAII, at the end of the loop body or on the way out of
\* the search with a result.
PutBack ==
    /\ pc = "undo"
    /\ word' = ToDerived(Affix(Level), word)
    /\ IF result = NoResult THEN pc' = "next" /\ UNCHANGED loops
       ELSE loops' = Front(loops) /\ pc' = IF Level = 1 THEN "done" ELSE "undo"
    /\ UNCHANGED <<lang, mode, skip, input, turn, result>>

Next == CheckWhole \/ NextSearch \/ EndLoop \/ VisitAffix \/ CheckRoot \/ PutBack

Spec == Init /\ [][Next]_vars

-----------------------------------------------------------------------------
(* What a dictionary means, read forwards: an entry takes affixes from the *)
(* inside out, each under its condition, and each licensed.                *)

\* chain is outermost first.  Built[k] is the word above affixes k, k+1, ...
Builds(root, chain, w) ==
    LET n == Len(chain)
        Built[k \in 1..n + 1] ==
            IF k = n + 1 THEN root ELSE ToDerived(chain[k], Built[k + 1])
        takes(e, stem) ==
            /\ CheckCondition(e, stem)
            /\ IF e.side = "prefix" THEN IsPrefix(e.stripping, stem)
                                    ELSE IsSuffix(e.stripping, stem)
    IN  Built[1] = w /\ \A k \in 1..n : takes(chain[k], Built[k + 1])

\* An affix is licensed by the affix next to it on the inside, by the next
\* one inside on its own side, or, if it is the first on its side, by the root.
Licensed(we, chain, k) ==
    LET inside == {j \in k + 1 .. Len(chain) : chain[j].side = chain[k].side}
    IN  \/ k < Len(chain) /\ Licenses(chain[k + 1], chain[k])
        \/ \E j \in inside : /\ \A i \in inside : j <= i
                             /\ Licenses(chain[j], chain[k])
        \/ inside = {} /\ Licenses(we, chain[k])

\* Circumfixes come in one pair of neighbours on opposite sides.
Paired(chain) ==
    LET circ == {k \in DOMAIN chain : IsCircumfix(chain[k])}
    IN  circ = {} \/ \E k \in 1..Len(chain) - 1 :
                        circ = {k, k + 1} /\ chain[k].side # chain[k + 1].side

\* Neighbours on opposite sides both allow the cross product.
Crossed(chain) ==
    \A k \in 1..Len(chain) - 1 :
        chain[k].side # chain[k + 1].side => chain[k].cross /\ chain[k + 1].cross

Licit(we, chain) ==
    /\ NeedAffix \notin chain[1].cont
    /\ \A k \in DOMAIN chain : ~NotValid(chain[k]) /\ Licensed(we, chain, k)
    /\ Paired(chain) /\ Crossed(chain)
    /\ ValidInside(we) \/ \E k \in DOMAIN chain : ValidInside(chain[k])
    /\ ~(/\ Len(chain) = 1 /\ mode = "end" /\ chain[1].side = "suffix"
         /\ chain[1].appending # <<>> /\ OnlyIn \in chain[1].cont)

Chains(search) ==
    LET sides == Sides[search]
        Of(side) == {Table(side)[i] : i \in DOMAIN Table(side)}
    IN  {c \in [DOMAIN sides -> Of("prefix") \cup Of("suffix")] :
            \A k \in DOMAIN sides : c[k].side = sides[k]}

\* A prefix and a suffix may be licensed in either order; the prefix is
\* taken off first.
Readings(chain) ==
    IF Len(chain) = 2 /\ chain[1].side # chain[2].side
    THEN {chain, <<chain[2], chain[1]>>} ELSE {chain}

RootAllowed(we) ==
    ~(mode = "full" /\ OnlyIn \in we.cont) /\ ~(skip /\ Hidden \in we.cont)

Derives(we, chain, w) ==
    /\ RootAllowed(we) /\ Builds(we.str, chain, w)
    /\ \E reading \in Readings(chain) : Licit(we, reading)

Stands(we, w) ==
    /\ we.str = w /\ RootAllowed(we) /\ NeedAffix \notin we.cont
    /\ ValidInside(we)

WordList == ToSet(Dic.words)

Accepted(w) ==
    \E we \in WordList :
        \/ Stands(we, w)
        \/ \E n \in DOMAIN Searches :
               \E chain \in Chains(Searches[n]) : Derives(we, chain, w)

-----------------------------------------------------------------------------
(* Properties. *)

\* The state stays in the sets the code keeps it in: the loops are never
\* deeper than the search has sides, and their places are in their tables.
TypeOK ==
    /\ input \in Inputs /\ mode \in Modes /\ skip \in BOOLEAN
    /\ turn \in 0..Len(Searches) + 1
    /\ turn \in DOMAIN Searches => Len(loops) <= Len(Sides[Search])
    /\ \A k \in DOMAIN loops : loops[k].at \in 0..Len(Table(Sides[Search][k]))
    /\ pc \in {"whole", "next", "root", "undo", "done"}
    /\ result.search \in {"none", "whole"} \cup ToSet(Searches)

\* Every iterator that goes on finds in the buffer the word it was made for,
\* whatever the loops inside it did: the buffer under the open loops is the
\* input with exactly the affixes of those loops off
\* (checker.cxx, To_Root_Unroot_RAII; Iter_Prefixes_Of::search_key).
IteratorsSeeTheirWord ==
    /\ loops # <<>> => loops[1].seen = input
    /\ \A k \in 1..Level - 1 : ToRoot(Affix(k), loops[k].seen) = loops[k + 1].seen
    /\ loops # <<>> =>
          word = IF pc = "next" THEN loops[Level].seen
                                ELSE ToRoot(Affix(Level), loops[Level].seen)
    /\ loops = <<>> => word = input

\* What is returned is a reading of the word: the root is in the word list,
\* the affixes rebuild the word from it, each under its condition and
\* licensed, and no flag forbids any of them.
FoundIsDerived ==
    result # NoResult =>
        /\ result.root \in WordList
        /\ IF result.affixes = <<>> THEN Stands(result.root, input)
                                    ELSE Derives(result.root, result.affixes, input)

\* When the searches give up, the word has no reading at all: the iterators,
\* the tests that are there "purely for performance" and the order of the
\* searches lose nothing.
NothingMissed == pc = "done" /\ result = NoResult => ~Accepted(input)

\* The buffer is handed back as it came, whatever was found, the assertion
\* of spell_priv, and nothing stays open.
HandedBack == pc = "done" => word = input /\ loops = <<>>
=============================================================================
