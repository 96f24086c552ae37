---------------------------- MODULE SimpleRegex ----------------------------
(***************************************************************************)
(* match_simple_regex: does a COMPOUNDRULE, a pattern of flags with ? and  *)
(* *, match the flags of the words of a compound, from the first to the    *)
(* last?  The search keeps a stack of the ways not yet tried.  It gives up *)
(* at once when a way has used up the pattern and words are left, without  *)
(* trying the others.                                                      *)
(*                                                                         *)
(* Places in data and in the pattern count from 1; one past the end is     *)
(* where the iterators of the code are at the end.                         *)
(***************************************************************************)
EXTENDS Integers, Sequences, SequencesExt

CONSTANTS
    Rules,      \* patterns: sequences of flags, "?" and "*"
    Words       \* words_data: sequences of sets of flags

VARIABLES
    pattern, data,
    stack,      \* pairs of places in data and pattern, the top last
    verdict     \* "running", "true", "false"
vars == <<pattern, data, stack, verdict>>

Init ==
    /\ pattern \in Rules /\ data \in Words
    /\ stack = <<[data |-> 1, pattern |-> 1]>> /\ verdict = "running"

Top == Last(stack)
At(d, p) == [data |-> d, pattern |-> p]

\* The flag at the place is marked by the character after it, or by none.
NodeType(p) ==
    IF p + 1 \in DOMAIN pattern /\ pattern[p + 1] \in {"?", "*"}
    THEN pattern[p + 1] ELSE "one"

\* A word is left and has the flag.
Fits(at) == at.data \in DOMAIN data /\ pattern[at.pattern] \in data[at.data]

\* Mutants: the way that leaves out the flag is tried first; * is never left.
Ways_SkipFirst(at) ==
    LET skip == At(at.data, at.pattern + 2)
    IN  CASE NodeType(at.pattern) = "?" ->
                (IF Fits(at) THEN <<At(at.data + 1, at.pattern + 2)>> ELSE <<>>) \o <<skip>>
          [] NodeType(at.pattern) = "*" ->
                <<skip>> \o (IF Fits(at) THEN <<At(at.data + 1, at.pattern)>> ELSE <<>>)
          [] NodeType(at.pattern) = "one" ->
                IF Fits(at) THEN <<At(at.data + 1, at.pattern + 1)>> ELSE <<>>
Ways_StarKept(at) ==
    LET skip == At(at.data, at.pattern + 2)
    IN  CASE NodeType(at.pattern) = "?" ->
                <<skip>> \o (IF Fits(at) THEN <<At(at.data + 1, at.pattern + 2)>> ELSE <<>>)
          [] NodeType(at.pattern) = "*" ->
                <<at>> \o (IF Fits(at) THEN <<At(at.data + 1, at.pattern)>> ELSE <<>>)
          [] NodeType(at.pattern) = "one" ->
                IF Fits(at) THEN <<At(at.data + 1, at.pattern + 1)>> ELSE <<>>

\* What is pushed for a place: the way that takes the word comes last, and
\* is tried first.
Ways(at) ==
    LET skip == At(at.data, at.pattern + 2)
    IN  CASE NodeType(at.pattern) = "?" ->
                <<skip>> \o (IF Fits(at) THEN <<At(at.data + 1, at.pattern + 2)>> ELSE <<>>)
          [] NodeType(at.pattern) = "*" ->
                <<skip>> \o (IF Fits(at) THEN <<At(at.data + 1, at.pattern)>> ELSE <<>>)
          [] NodeType(at.pattern) = "one" ->
                IF Fits(at) THEN <<At(at.data + 1, at.pattern + 1)>> ELSE <<>>

Try ==
    /\ verdict = "running" /\ stack # <<>> /\ Top.pattern <= Len(pattern)
    /\ stack' = Front(stack) \o Ways(Top)
    /\ UNCHANGED <<pattern, data, verdict>>

\* The pattern is used up: that settles it.
EndOfPattern ==
    /\ verdict = "running" /\ stack # <<>> /\ Top.pattern > Len(pattern)
    /\ stack' = Front(stack)
    /\ verdict' = IF Top.data > Len(data) THEN "true" ELSE "false"
    /\ UNCHANGED <<pattern, data>>

NoWayLeft ==
    /\ verdict = "running" /\ stack = <<>>
    /\ verdict' = "false"
    /\ UNCHANGED <<pattern, data, stack>>

Next == Try \/ EndOfPattern \/ NoWayLeft
Spec == Init /\ [][Next]_vars
Done == verdict # "running"

-----------------------------------------------------------------------------
\* The flags of a pattern with their marks, and how many words each may take.
Parts(p) ==
    LET isMark == [k \in DOMAIN p |-> k > 1 /\ p[k] \in {"?", "*"}]
    IN  SelectSeq([k \in DOMAIN p |->
                     [flag |-> p[k], skip |-> isMark[k],
                      mark |-> IF k < Len(p) /\ isMark[k + 1] THEN p[k + 1] ELSE "one"]],
                  LAMBDA e : ~e.skip)
Takes(mark, most) ==
    CASE mark = "one" -> {1} [] mark = "?" -> {0, 1} [] mark = "*" -> 0..most

\* Pattern p matches words d: the words can be shared out among its parts,
\* in their order, each part taking as many as it may.
Matches(p, d) ==
    LET parts == Parts(p)
    IN  \E ends \in [0..Len(parts) -> 0..Len(d)] :
            /\ ends[0] = 0 /\ ends[Len(parts)] = Len(d)
            /\ \A k \in DOMAIN parts :
                  /\ ends[k] - ends[k - 1] \in Takes(parts[k].mark, Len(d))
                  /\ \A j \in ends[k - 1] + 1..ends[k] : parts[k].flag \in d[j]

\* The places on the stack are in data and in the pattern, or one past their
\* ends, so that no iterator is moved beyond.
TypeOK ==
    /\ verdict \in {"running", "true", "false"}
    /\ \A k \in DOMAIN stack : /\ stack[k].data \in 1..Len(data) + 1
                               /\ stack[k].pattern \in 1..Len(pattern) + 1

\* Although the search stops at the first way that uses up the pattern, it
\* answers as if it tried them all (structures.hxx, match_simple_regex: the
\* return false inside the loop).
VerdictIsMeaning ==
    verdict # "running" => (verdict = "true" <=> Matches(pattern, data))
=============================================================================
