------------------------------- MODULE Sharps -------------------------------
(***************************************************************************)
(* Checker::spell_sharps: a German word that was written in capitals is    *)
(* tried with its "ss" turned into sharp s, in every combination.  The     *)
(* recursion writes sharp s into the one buffer, in place, and must take   *)
(* it out again before it tries the next combination.                      *)
(*                                                                         *)
(* The buffer is a sequence of bytes: sharp s is two of them in UTF-8, as  *)
(* many as "ss", and the search goes on from the second one.               *)
(***************************************************************************)
EXTENDS Integers, Sequences, SequencesExt, FiniteSets

CONSTANTS
    Bases,      \* words in small letters, as sequences of bytes
    Lists,      \* sets of words that check_word accepts
    MaxSharps   \* MAX_SHARPS, 5 in the code

MaxSharpsAssumption == MaxSharps \in Nat

SS == <<"s", "s">>
SharpS == <<"C3", "9F">>

VARIABLES
    input,  \* the word as it came
    list,   \* the words that are accepted
    base,   \* the buffer
    calls,  \* the stack of spell_sharps, outermost first
    ret,    \* "none", or the value being returned: "found", "null"
    looks   \* the words that were looked up, in order (history)
vars == <<input, list, base, calls, ret, looks>>

\* branch: 0 before the first recursive call, then the call that is running.
\* pos is where "ss" was found, once branch is not 0.
Call(pos, n, rep) == [pos |-> pos, n |-> n, rep |-> rep, branch |-> 0]
Depth == Len(calls)
Top == calls[Depth]

\* std::string::find, with indices from 0, and replace by as many bytes.
Occurrences(w, pos) == {i \in pos..Len(w) - 2 : SubSeq(w, i + 1, i + 2) = SS}
Overwrite(w, i, x) == SubSeq(w, 1, i) \o x \o SubSeq(w, i + Len(x) + 1, Len(w))

Init ==
    /\ input \in Bases /\ list \in Lists /\ base = input
    /\ calls = <<Call(0, 0, 0)>> /\ ret = "none" /\ looks = <<>>

Return(value) == ret' = value /\ calls' = Front(calls)
Recurse(branch, at, call) ==
    calls' = Append([calls EXCEPT ![Depth].branch = branch, ![Depth].pos = at], call)

\* An "ss" is found: the word is tried with a sharp s there.
TrySharp ==
    /\ calls # <<>> /\ ret = "none" /\ Top.branch = 0
    /\ Occurrences(base, Top.pos) # {} /\ Top.n < MaxSharps
    /\ LET at == CHOOSE i \in Occurrences(base, Top.pos) :
                     \A j \in Occurrences(base, Top.pos) : i <= j
       IN  /\ base' = Overwrite(base, at, SharpS)
           /\ Recurse(1, at, Call(at + 1, Top.n + 1, Top.rep + 1))
    /\ UNCHANGED <<input, list, ret, looks>>

\* Mutant: the word as it came is looked up too.
LookUp_Plain ==
    /\ calls # <<>> /\ ret = "none" /\ Top.branch = 0
    /\ Occurrences(base, Top.pos) = {} \/ Top.n >= MaxSharps
    /\ Return(IF base \in list THEN "found" ELSE "null")
    /\ looks' = Append(looks, base)
    /\ UNCHANGED <<input, list, base>>

\* No "ss" is left, or the limit is met: the word is looked up if it holds
\* a sharp s.
LookUp ==
    /\ calls # <<>> /\ ret = "none" /\ Top.branch = 0
    /\ Occurrences(base, Top.pos) = {} \/ Top.n >= MaxSharps
    /\ IF Top.rep > 0
       THEN Return(IF base \in list THEN "found" ELSE "null")
              /\ looks' = Append(looks, base)
       ELSE Return("null") /\ UNCHANGED looks
    /\ UNCHANGED <<input, list, base>>

\* Mutant: the sharp s is left in the buffer for the second call.
TryKept_StillSharp ==
    /\ calls # <<>> /\ ret # "none" /\ Top.branch = 1
    /\ IF ret = "found" THEN Return("found")
       ELSE Recurse(2, Top.pos, Call(Top.pos + 2, Top.n + 1, Top.rep)) /\ ret' = "none"
    /\ UNCHANGED <<input, list, base, looks>>

\* The first call is back: "ss" is written again, and kept in the second.
TryKept ==
    /\ calls # <<>> /\ ret # "none" /\ Top.branch = 1
    /\ base' = Overwrite(base, Top.pos, SS)
    /\ IF ret = "found" THEN Return("found")
       ELSE Recurse(2, Top.pos, Call(Top.pos + 2, Top.n + 1, Top.rep)) /\ ret' = "none"
    /\ UNCHANGED <<input, list, looks>>

\* The second call is back.
BothTried ==
    /\ calls # <<>> /\ ret # "none" /\ Top.branch = 2
    /\ Return(ret)
    /\ UNCHANGED <<input, list, base, looks>>

Next == TrySharp \/ LookUp \/ TryKept \/ BothTried
Spec == Init /\ [][Next]_vars
Done == calls = <<>>

-----------------------------------------------------------------------------
(* What is tried: the "ss" of a word, read from the left without overlaps, *)
(* are the ones with an even number of s just before them; of the first    *)
(* MaxSharps, any but none become sharp s.                                 *)

SsBefore(w, i) ==
    Cardinality({j \in 0..i - 1 : \A k \in j + 1..i : w[k] = "s"})
Pairs(w) == {i \in Occurrences(w, 0) : SsBefore(w, i) % 2 = 0}
FirstPairs(w) == {i \in Pairs(w) : Cardinality({j \in Pairs(w) : j < i}) < MaxSharps}

\* w with sharp s at the places of S.
Sharpened(w, S) ==
    [k \in DOMAIN w |-> IF k - 1 \in S THEN SharpS[1]
                        ELSE IF k - 2 \in S THEN SharpS[2] ELSE w[k]]
Variants(w) == {Sharpened(w, S) : S \in SUBSET FirstPairs(w) \ {{}}}

\* The calls are within the limit and their places within the word.
TypeOK ==
    /\ Len(calls) <= MaxSharps + 1 /\ Len(base) = Len(input)
    /\ \A k \in DOMAIN calls :
          /\ calls[k].n = k - 1 /\ calls[k].rep \in 0..k - 1
          /\ calls[k].pos \in 0..Len(input)
          /\ calls[k].branch \in (IF k < Len(calls) THEN {1, 2} ELSE 0..2)
    /\ ret \in {"none", "found", "null"}

\* The buffer holds a sharp s exactly where a call that is still open put
\* one, and the word as it came everywhere else; so it is handed back as it
\* came (checker.cxx, spell_sharps: the two calls of base.replace).
SharpsAreOpenCalls ==
    base = Sharpened(input, {calls[k].pos : k \in {j \in DOMAIN calls :
                                                     calls[j].branch = 1}})

\* Every combination is looked up once and no other word is, so that nothing
\* is missed and at most 2^MaxSharps - 1 words are looked up.
EveryVariantOnce ==
    /\ \A i, j \in DOMAIN looks : i # j => looks[i] # looks[j]
    /\ \A i \in DOMAIN looks : looks[i] \in Variants(input)
    /\ Done /\ ret = "null" => Cardinality(Variants(input)) = Len(looks)
    /\ Done => (ret = "found" <=> Variants(input) \cap list # {})
=============================================================================
