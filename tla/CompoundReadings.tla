-------------------------- MODULE CompoundReadings --------------------------
(***************************************************************************)
(* What it means to be a compound, without a buffer, a stack or a running  *)
(* count.  A chain is a way to cut a word into parts that the dictionary   *)
(* allows at their places; a chain is legal if all its parts, its joints   *)
(* and its length are.  The search of CompoundCheck is compared with this. *)
(***************************************************************************)
EXTENDS CompoundCheck

\* The first parts that text may be cut into, after the text before it, and
\* what each leaves to be read: with the joint written out, and with the last
\* letter of the part once more if a double letter ends it.
Cuts(before, text, mode) ==
    LET cut(k, p, double) ==
            LET head == SubSeq(text, 1, k) \o p.first
            IN  [text |-> text, left |-> before \o head, pattern |-> p,
                 double |-> double, part |-> CheckWord(mode, head), head |-> head,
                 right |-> (IF double THEN <<Last(before \o head)>> ELSE <<>>)
                              \o p.second \o From(text, k + Len(p.replacement))]
        fits(k, p) == p = Plain \/ (p.replacement # <<>> /\ HasAt(text, k, p.replacement))
        ends(left) == Len(left) >= 2 /\ left[Len(left)] = left[Len(left) - 1]
        all == {cut(k, p, double) :
                   double \in (IF L.simplified THEN BOOLEAN ELSE {FALSE}),
                   <<k, p>> \in {<<k, p>> \in (MinLetters..Len(text) - MinLetters)
                                     \X ({Plain} \cup ToSet(L.patterns)) : fits(k, p)}}
    IN  {c \in all : c.part # NoWord /\ (c.double => ends(c.left))}

\* The last part of a chain.
End(text) == [text |-> text, left |-> <<>>, pattern |-> Plain, double |-> FALSE,
              part |-> CheckWord("end", text), head |-> text, right |-> <<>>]

RECURSIVE Chains(_, _, _)
Chains(before, text, mode) ==
    UNION {{<<c>> \o tail :
              tail \in {<<e>> : e \in {x \in {End(c.right)} : x.part # NoWord}}
                         \cup Chains(c.left, c.right, "middle")} :
           c \in Cuts(before, text, mode)}

\* The letters, capitals and flags where cut c is followed by part.
JointLegal(c, part) ==
    LET at == Len(c.left)
        plainly == c.pattern = Plain
        rest == IF c.double THEN Tail(c.right) ELSE c.right
    IN  /\ L.triple => ~ThreeEqual(c.left \o rest, at)
        /\ plainly /\ L.upper => ~UppercaseAtBoundary(c.left \o rest, at)
        /\ c.pattern.flag1 \in {"none"} \cup Flags(c.part)
        /\ c.pattern.flag2 \in {"none"} \cup Flags(part)
        /\ plainly => ~ForbiddenByPatterns(c.left \o c.right, at, c.part, part)

\* CHECKCOMPOUNDREP: the text from c on, and its first two parts.
NoRepSimilar(c, part, isLast) ==
    /\ ~RepSimilar(c.text)
    /\ HasAt(c.right, 0, part.entry.stem) /\ ~isLast =>
          ~RepSimilar(c.head \o (IF c.double THEN Tail(part.entry.stem)
                                             ELSE part.entry.stem))

\* COMPOUNDWORDMAX, or COMPOUNDSYLLABLE instead for Hungarian.
ShortEnough(chain) ==
    LET n == Len(chain)
        c == chain[n - 1]
    IN  \/ L.maxWords = 0 \/ n <= L.maxWords
        \/ /\ Hungarian /\ c.pattern = Plain /\ ~c.double
           /\ CountSyllables(c.left \o c.right) + chain[n].part.syllables
                 <= L.syllableMax

Legal(chain) ==
    LET n == Len(chain)
    IN  /\ \A k \in 1..n : "forbidden" \notin Flags(chain[k].part)
        /\ \A k \in 1..n - 1 : JointLegal(chain[k], chain[k + 1].part)
        /\ L.rep => \A k \in 1..n - 1 :
                       NoRepSimilar(chain[k], chain[k + 1].part, k + 1 = n)
        /\ L.duplicate => chain[n - 1].part.entry # chain[n].part.entry
        /\ allowForce \/ "force" \notin Flags(chain[n].part)
        /\ ShortEnough(chain)

LegalChains == {chain \in Chains(<<>>, input, "begin") : Legal(chain)}

\* Dictionaries in which it does not matter which reading of the rest is
\* found first: no check of a joint looks at the part that follows, and words
\* are counted by parts.
Independent ==
    L.patterns = <<>> /\ ~L.rep /\ ~Hungarian
       /\ \A e \in ToSet(L.words) : "root" \notin e.flags

\* What the search accepts is a compound within all the limits, and what it
\* returns is the entry of its first part (checker.cxx, check_compound).
OnlyCompounds ==
    Done /\ word \notin DOMAIN L.byRules /\ result # NoWord =>
        \E chain \in LegalChains : chain[1].part = result

\* Where it does not matter which reading of the rest is found first, every
\* compound is accepted (checker.cxx, check_compound_classic).
CompoundsFound ==
    Done /\ Independent /\ L.enabled /\ LegalChains # {} => result # NoWord
=============================================================================
