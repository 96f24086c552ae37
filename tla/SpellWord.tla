----------------------------- MODULE SpellWord -----------------------------
(***************************************************************************)
(* What nuspell answers about one word, around the look-up of its root:    *)
(* Checker::spell_priv (trailing periods, numbers, ignored characters),    *)
(* spell_break (the recursion over the BREAK patterns, limited in depth),  *)
(* and spell_casing with its two variants.  Break_Table::order_entries     *)
(* prepares the patterns.                                                  *)
(*                                                                         *)
(* check_word is taken from outside: a dictionary is a function from the   *)
(* words it accepts to their flags (AffixStripping models how it finds     *)
(* them).  CHECKSHARPS is off here; Sharps models that search.  A word is  *)
(* a sequence of letters; std::string indices are unsigned and wrap.       *)
(***************************************************************************)
EXTENDS Casing, SequencesExt

CONSTANTS
    Dictionaries,   \* a function to [words, breaks, forbid_warn]
    Inputs,         \* words after input conversion
    Digits, Ignored,\* digits; characters of IGNORE
    DepthLimit,     \* 9 in the code
    Width           \* one more than the largest size_t

ASSUME DepthAssumption == DepthLimit \in Nat
ASSUME WidthAssumption == Width \in Nat \ {0}
ASSUME PeriodAssumption == "." \in STRING    \* the provers know no literal's type
\* Words and patterns are sequences of letters; a word fits in memory.
ASSUME TextAssumption ==
    /\ \A w \in Inputs : w \in Seq(STRING) /\ Len(w) < Width
    /\ \A d \in DOMAIN Dictionaries : Dictionaries[d].breaks \in Seq(Seq(STRING))

VARIABLES
    dic,        \* which dictionary is loaded
    breaks,     \* its table of break patterns, in order
    input,      \* the word of the caller
    s,          \* the buffer of spell_priv
    period,     \* "abbreviation": periods were trimmed, and not yet put back
    calls,      \* the stack of spell_break, outermost first
    ret,        \* "none", or the value being returned: "yes", "no"
    pc          \* "start", "breaks", "done"
vars == <<dic, breaks, input, s, period, calls, ret, pc>>

Words == Dictionaries[dic].words
Forbidden == "forbiddenword"  Warn == "warn"
KeepCase == "keepcase"        Hidden == "HIDDEN_HOMONYM"

-----------------------------------------------------------------------------
Nothing == {"not found"}
CheckWord(w) == IF w \in DOMAIN Words THEN Words[w] ELSE Nothing
Found(f) == f # Nothing

\* The first of the candidates (sets of flags) that is something.
FirstFound(fs) ==
    LET hits == {i \in DOMAIN fs : Found(fs[i])}
    IN  IF hits = {} THEN Nothing
        ELSE fs[CHOOSE i \in hits : \A j \in hits : i <= j]
UnlessKeepCase(f) == IF KeepCase \in f THEN Nothing ELSE f

SpellCasingUpper(w) ==
    LET apos == {i \in DOMAIN w : w[i] = "'"}
        a == CHOOSE i \in apos : \A j \in apos : i <= j
        part1 == ToLower(SubSeq(w, 1, a))
        part2 == ToTitle(SubSeq(w, a + 1, Len(w)))
        split == IF apos = {} \/ a = Len(w) THEN <<>>
                 ELSE <<CheckWord(part1 \o part2),
                        CheckWord(ToTitle(part1) \o part2)>>
    IN  FirstFound(<<CheckWord(w)>> \o split \o
                   <<UnlessKeepCase(CheckWord(ToTitle(w))),
                     UnlessKeepCase(CheckWord(ToLower(w)))>>)

SpellCasingTitle(w) ==
    LET exact == CheckWord(w)
    IN  FirstFound(<<IF Hidden \in exact THEN Nothing ELSE exact,
                     UnlessKeepCase(CheckWord(ToLower(w)))>>)

SpellCasing(w) ==
    CASE ClassifyCasing(w) = "all_capital"  -> SpellCasingUpper(w)
      [] ClassifyCasing(w) = "init_capital" -> SpellCasingTitle(w)
      [] OTHER                              -> CheckWord(w)

-----------------------------------------------------------------------------
\* The elements of q that are in keep: SelectSeq, for a test by membership.
Select(q, keep) ==
    LET of[i \in 0..Len(q)] ==
            IF i = 0 THEN <<>>
            ELSE IF q[i] \in keep THEN Append(of[i - 1], q[i]) ELSE of[i - 1]
    IN  of[Len(q)]

(* The table of break patterns. *)

Kept(p) == p # <<>> /\ ~(Len(p) = 1 /\ p[1] \in {"^", "$"})

KindOf(p) == CASE p[1] = "^" -> "start"
               [] p[1] # "^" /\ Last(p) = "$" -> "end"
               [] OTHER -> "middle"

\* The patterns ps of one kind, without their anchors.
Entries(kind, ps) ==
    [i \in DOMAIN ps |->
        [kind |-> kind, pat |-> CASE kind = "start"  -> Tail(ps[i])
                                  [] kind = "end"    -> Front(ps[i])
                                  [] kind = "middle" -> ps[i]]]

\* order_entries; within a part the order is that of std::partition, and
\* does not matter to the answer.
OrderEntries(table) ==
    LET of(kind) == Entries(kind, Select(table, {p \in ToSet(table) :
                                                    Kept(p) /\ KindOf(p) = kind}))
    IN  of("start") \o of("end") \o of("middle")

\* size_t arithmetic, and std::string::find with its npos.
Sub(a, b) == (a - b) % Width
NPos == Width - 1
FindFirst(w, p) ==
    LET at == {i \in 0..Len(w) - Len(p) : SubSeq(w, i + 1, i + Len(p)) = p}
    IN  IF at = {} THEN NPos ELSE CHOOSE i \in at : \A j \in at : i <= j

\* Mutant: the middle break may be the last thing in the word.
Applies_AtEnd(b, w) ==
    CASE b.kind = "start"  -> IsPrefix(b.pat, w)
      [] b.kind = "end"    -> IsSuffix(b.pat, w)
      [] b.kind = "middle" -> LET i == FindFirst(w, b.pat)
                              IN  i > 0 /\ i <= Sub(Len(w), Len(b.pat))

\* Whether the break applies to w, and the parts it leaves.
Applies(b, w) ==
    CASE b.kind = "start"  -> IsPrefix(b.pat, w)
      [] b.kind = "end"    -> IsSuffix(b.pat, w)
      [] b.kind = "middle" -> LET i == FindFirst(w, b.pat)
                              IN  i > 0 /\ i < Sub(Len(w), Len(b.pat))

\* std::string::substr.
From(w, i) == SubSeq(w, i + 1, Len(w))
Parts(b, w) ==
    CASE b.kind = "start"  -> <<From(w, Len(b.pat))>>
      [] b.kind = "end"    -> <<SubSeq(w, 1, Len(w) - Len(b.pat))>>
      [] b.kind = "middle" ->
           LET i == FindFirst(w, b.pat)
           IN  <<SubSeq(w, 1, IF i < Len(w) THEN i ELSE Len(w)),
                 From(w, (i + Len(b.pat)) % Width)>>

Rejected(f) ==
    \/ Forbidden \in f
    \/ Dictionaries[dic].forbid_warn /\ Warn \in f

-----------------------------------------------------------------------------
(* spell_priv and the recursion of spell_break. *)

\* brk: the break being tried, 0 before the casing test; part: the part of
\* the word that is being checked.
Call(w) == [w |-> w, brk |-> 0, part |-> 0]

LastNot(w, c) ==
    LET others == {i \in DOMAIN w : w[i] # c}
    IN  IF others = {} THEN 0 ELSE CHOOSE i \in others : \A j \in others : j <= i

\* Digits with single separators between them, after an optional dash.
IsNumber(w) ==
    LET Sep == {".", ",", "-"}
        body == IF w # <<>> /\ w[1] = "-" THEN Tail(w) ELSE w
    IN  /\ body # <<>> /\ \A i \in DOMAIN body : body[i] \in Digits \cup Sep
        /\ body[1] \in Digits /\ Last(body) \in Digits
        /\ \A i \in 1..Len(body) - 1 : body[i] \in Digits \/ body[i + 1] \in Digits

EraseIgnored(w) == Select(w, ToSet(w) \ Ignored)

Init ==
    /\ dic \in DOMAIN Dictionaries /\ input \in Inputs
    /\ breaks = OrderEntries(Dictionaries[dic].breaks)
    /\ s = input /\ period = FALSE
    /\ calls = <<>> /\ ret = "none" /\ pc = "start"

\* spell_priv up to the first spell_break.
Start ==
    /\ pc = "start"
    /\ LET dot == s # <<>> /\ Last(s) = "."
           t == IF dot THEN SubSeq(s, 1, LastNot(s, ".")) ELSE s
       IN  IF t = <<>> \/ IsNumber(t)
           THEN /\ s' = t /\ ret' = "yes" /\ pc' = "done"
                /\ UNCHANGED <<period, calls>>
           ELSE /\ s' = EraseIgnored(t) /\ period' = dot
                /\ calls' = <<Call(s')>> /\ pc' = "breaks" /\ UNCHANGED ret
    /\ UNCHANGED <<dic, breaks, input>>

Depth == Len(calls)
Top == calls[Depth]

Return(value) == ret' = value /\ calls' = Front(calls)
\* Mutant: the same pattern is tried again.
NextBreak_Same == calls' = [calls EXCEPT ![Depth].brk = IF @ = 0 THEN 1 ELSE @,
                                        ![Depth].part = 0]
NextBreak == calls' = [calls EXCEPT ![Depth].brk = @ + 1, ![Depth].part = 0]

\* Mutants: a forbidden word may still break; the depth is not limited.
TestCasing_BreakForbidden ==
    /\ pc = "breaks" /\ calls # <<>> /\ ret = "none" /\ Top.brk = 0
    /\ LET f == SpellCasing(Top.w) IN
       IF Found(f) /\ ~Rejected(f) THEN Return("yes")
       ELSE IF Depth = DepthLimit + 1 THEN Return("no")
       ELSE NextBreak /\ UNCHANGED ret
    /\ UNCHANGED <<dic, breaks, input, s, period, pc>>
TestCasing_NoLimit ==
    /\ pc = "breaks" /\ calls # <<>> /\ ret = "none" /\ Top.brk = 0
    /\ LET f == SpellCasing(Top.w) IN
       IF Found(f) THEN Return(IF Rejected(f) THEN "no" ELSE "yes")
       ELSE NextBreak /\ UNCHANGED ret
    /\ UNCHANGED <<dic, breaks, input, s, period, pc>>

\* The casing test that opens spell_break.
TestCasing ==
    /\ pc = "breaks" /\ calls # <<>> /\ ret = "none" /\ Top.brk = 0
    /\ LET f == SpellCasing(Top.w) IN
       IF Found(f) THEN Return(IF Rejected(f) THEN "no" ELSE "yes")
       ELSE IF Depth = DepthLimit + 1 THEN Return("no")
       ELSE NextBreak /\ UNCHANGED ret
    /\ UNCHANGED <<dic, breaks, input, s, period, pc>>

\* The next pattern applies and its first part is checked, or does not.
TryBreak ==
    /\ pc = "breaks" /\ calls # <<>> /\ ret = "none"
    /\ Top.brk \in DOMAIN breaks /\ Top.part = 0
    /\ LET b == breaks[Top.brk] IN
       IF Applies(b, Top.w)
       THEN calls' = Append([calls EXCEPT ![Depth].part = 1],
                            Call(Parts(b, Top.w)[1]))
       ELSE NextBreak
    /\ UNCHANGED <<dic, breaks, input, s, period, ret, pc>>

\* No pattern is left.
OutOfBreaks ==
    /\ pc = "breaks" /\ calls # <<>> /\ ret = "none"
    /\ Top.brk > Len(breaks)
    /\ Return("no")
    /\ UNCHANGED <<dic, breaks, input, s, period, pc>>

\* Mutant: a bad part ends the search, whatever patterns are left.
PartJudged_GiveUp ==
    /\ pc = "breaks" /\ calls # <<>> /\ ret # "none"
    /\ LET parts == Parts(breaks[Top.brk], Top.w) IN
       IF ret = "no" \/ Top.part = Len(parts) THEN Return(ret)
       ELSE /\ calls' = Append([calls EXCEPT ![Depth].part = @ + 1],
                               Call(parts[Top.part + 1]))
            /\ ret' = "none"
    /\ UNCHANGED <<dic, breaks, input, s, period, pc>>

\* A part was judged: the other part follows, the word is accepted, or the
\* next pattern is tried.
PartJudged ==
    /\ pc = "breaks" /\ calls # <<>> /\ ret # "none"
    /\ LET parts == Parts(breaks[Top.brk], Top.w) IN
       IF ret = "no" THEN NextBreak /\ ret' = "none"
       ELSE IF Top.part = Len(parts) THEN Return("yes")
       ELSE /\ calls' = Append([calls EXCEPT ![Depth].part = @ + 1],
                               Call(parts[Top.part + 1]))
            /\ ret' = "none"
    /\ UNCHANGED <<dic, breaks, input, s, period, pc>>

\* Back in spell_priv: a refused word is tried again with one period.
WordJudged ==
    /\ pc = "breaks" /\ calls = <<>>
    /\ IF ret = "no" /\ period
       THEN /\ s' = Append(s, ".") /\ period' = FALSE
            /\ calls' = <<Call(s')>> /\ ret' = "none" /\ UNCHANGED pc
       ELSE pc' = "done" /\ UNCHANGED <<s, period, calls, ret>>
    /\ UNCHANGED <<dic, breaks, input>>

Next == Start \/ TestCasing \/ TryBreak \/ OutOfBreaks \/ PartJudged \/ WordJudged

Spec == Init /\ [][Next]_vars
\* spell is called and runs on.
FairSpec == Spec /\ WF_vars(Next)
-----------------------------------------------------------------------------
(* What the answer means: a word is good if the dictionary accepts it in   *)
(* one of its casings, and does not forbid it; an unknown word is good if  *)
(* it breaks, at most DepthLimit times in depth, into good parts.          *)

Pattern(kind) == {breaks[i].pat : i \in {j \in DOMAIN breaks : breaks[j].kind = kind}}

\* w is p \o pat \o q, both parts have letters and no other pat comes before.
SplitsAt(w, pat, i) ==
    /\ SubSeq(w, i + 1, i + Len(pat)) = pat
    /\ \A j \in 0..i - 1 : SubSeq(w, j + 1, j + Len(pat)) # pat

Good[x \in (0..DepthLimit) \X Seq(STRING)] ==
    LET d == x[1]
        w == x[2]
        f == SpellCasing(w)
    IN  IF Found(f) THEN ~Rejected(f)
        ELSE /\ d < DepthLimit
             /\ \/ \E p \in Pattern("start") :
                      \E n \in 0..Len(w) : p \o From(w, n) = w /\ Good[<<d + 1, From(w, n)>>]
                \/ \E p \in Pattern("end") :
                      \E n \in 0..Len(w) :
                          SubSeq(w, 1, n) \o p = w /\ Good[<<d + 1, SubSeq(w, 1, n)>>]
                \/ \E p \in Pattern("middle") :
                      \E i \in 1..Len(w) - Len(p) - 1 :
                          /\ SplitsAt(w, p, i)
                          /\ Good[<<d + 1, SubSeq(w, 1, i)>>]
                          /\ Good[<<d + 1, From(w, i + Len(p))>>]

ShouldAccept(w) ==
    LET t == SubSeq(w, 1, LastNot(w, "."))
        e == EraseIgnored(t)
    IN  \/ t = <<>> \/ IsNumber(t) \/ Good[<<0, e>>]
        \/ t # w /\ Good[<<0, Append(e, ".")>>]

-----------------------------------------------------------------------------
(* Properties. *)

\* The recursion stays within its limit and the places of the calls within
\* the table of breaks.
TypeOK ==
    /\ s \in Seq(STRING) /\ period \in BOOLEAN
    /\ Len(calls) <= DepthLimit + 1
    /\ \A k \in DOMAIN calls :
          /\ calls[k].brk \in 0..Len(breaks) + 1
          /\ calls[k].part \in (IF k < Len(calls) THEN 1..2 ELSE 0..2)
    /\ ret \in {"none", "yes", "no"}
    /\ pc \in {"start", "breaks", "done"}

\* Every word on the stack is what its pattern leaves of the word above it:
\* a proper part, cut at a place where the pattern really is, although the
\* test of a middle break compares npos with an unsigned difference that may
\* have wrapped (checker.cxx, spell_break, the middle breaks).
PartsAreOfTheWord ==
    /\ TypeOK
    /\ calls # <<>> => calls[1].w = s
    /\ \A k \in 1..Len(calls) - 1 :
          LET up == calls[k]
              b == breaks[up.brk]
              w == calls[k + 1].w
          IN  /\ Len(w) < Len(up.w)
              /\ up.w \in {b.pat \o w, w \o b.pat} \cup
                    {w \o b.pat \o From(up.w, i) : i \in 0..Len(up.w)} \cup
                    {SubSeq(up.w, 1, i) \o b.pat \o w : i \in 0..Len(up.w)}

\* A word that the dictionary forbids is refused even when it breaks into
\* good parts ("handle forbidden words", checker.cxx, spell_break).
ForbiddenIsRefused ==
    (/\ pc = "done" /\ input # <<>>
     /\ input \in DOMAIN Words /\ Forbidden \in Words[input]
     /\ Hidden \notin Words[input] /\ ~IsNumber(input)
     /\ \A i \in DOMAIN input : input[i] \notin Ignored \cup {"."})
    => ret = "no"

\* The loops answer exactly what the recursion over the parts means: no
\* pattern, part, casing or level is lost and nothing else is accepted, a
\* forbidden word that breaks into good parts least of all.
AnswerIsMeaning ==
    /\ pc = "done" => (ret = "yes" <=> ShouldAccept(input))
    /\ ForbiddenIsRefused

\* Every word is answered.
Terminates == <>(pc = "done")
=============================================================================
