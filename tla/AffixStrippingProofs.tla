------------------------ MODULE AffixStrippingProofs ------------------------
(***************************************************************************)
(* For every dictionary and every word, the searches of AffixStripping     *)
(* find in the buffer the word they were started on, and hand it back.     *)
(*                                                                         *)
(* The argument: an affix that fits a word is put back exactly where it    *)
(* was taken off (RootThenDerived).  So it is enough to know, at every     *)
(* step, that the affix of each open loop fits the word its iterator was   *)
(* made for, and that the next loop was started on that word without it.   *)
(***************************************************************************)
EXTENDS AffixStripping, InductionLemmas

WordParts(e) == e.appending \in Seq(Letters) /\ e.stripping \in Seq(Letters)

-----------------------------------------------------------------------------
(* Taking letters off a sequence and putting them back. *)

\* The last n letters of a sequence that is taken off its first letters.
LEMMA FrontOff ==
  ASSUME NEW S, NEW w \in Seq(S), NEW a \in Seq(S), NEW x \in Seq(S),
         IsPrefix(a, w)
  PROVE  /\ AtFront(w, Len(a), x) \in Seq(S)
         /\ AtFront(AtFront(w, Len(a), x), Len(x), a) = w
<1> DEFINE rest == SubSeq(w, Len(a) + 1, Len(w))
<1>1. /\ Len(a) <= Len(w)
      /\ \A i \in 1..Len(a) : a[i] = w[i]
  <2>1. Len(a) <= Len(w) /\ SubSeq(a, 1, Len(a)) = SubSeq(w, 1, Len(a))
    BY DEF IsPrefix
  <2>2. \A i \in 1..Len(a) : SubSeq(a, 1, Len(a))[i] = a[i]
    BY SubSeqProperties
  <2>3. \A i \in 1..Len(a) : SubSeq(w, 1, Len(a))[i] = w[i]
    BY <2>1, SubSeqProperties
  <2> QED
    BY <2>1, <2>2, <2>3
<1>2. /\ rest \in Seq(S) /\ Len(rest) = Len(w) - Len(a)
      /\ \A i \in 1..Len(w) - Len(a) : rest[i] = w[Len(a) + i]
  BY <1>1, SubSeqProperties
<1> HIDE DEF rest
<1>3. /\ x \o rest \in Seq(S) /\ Len(x \o rest) = Len(x) + Len(rest)
      /\ \A i \in 1..Len(rest) : (x \o rest)[Len(x) + i] = rest[i]
  <2>1. /\ x \o rest \in Seq(S) /\ Len(x \o rest) = Len(x) + Len(rest)
        /\ \A i \in 1..Len(x) + Len(rest) :
              (x \o rest)[i] = IF i <= Len(x) THEN x[i] ELSE rest[i - Len(x)]
    BY <1>2, ConcatProperties
  <2>2. \A i \in 1..Len(rest) : /\ Len(x) + i \in 1..Len(x) + Len(rest)
                                /\ ~(Len(x) + i <= Len(x))
                                /\ (Len(x) + i) - Len(x) = i
    BY <1>2
  <2> QED
    BY <2>1, <2>2
<1> DEFINE back == SubSeq(x \o rest, Len(x) + 1, Len(x \o rest))
<1>4. back = rest
  <2>1. /\ back \in Seq(S) /\ Len(back) = Len(rest)
        /\ \A i \in 1..Len(rest) : back[i] = (x \o rest)[Len(x) + i]
    BY <1>2, <1>3, SubSeqProperties
  <2> QED
    BY <1>2, <1>3, <2>1, SeqEqual
<1>5. a \o rest = w
  <2>1. /\ a \o rest \in Seq(S) /\ Len(a \o rest) = Len(w)
        /\ \A i \in 1..Len(w) : (a \o rest)[i] = IF i <= Len(a) THEN a[i]
                                                ELSE rest[i - Len(a)]
    BY <1>1, <1>2, ConcatProperties
  <2>2. \A i \in 1..Len(w) : (a \o rest)[i] = w[i]
    BY <1>1, <1>2, <2>1
  <2> QED
    BY <2>1, <2>2, SeqEqual
<1>6. AtFront(w, Len(a), x) = x \o rest
  BY DEF AtFront, rest
<1>7. AtFront(x \o rest, Len(x), a) = a \o back
  BY DEF AtFront
<1> QED
  BY <1>3, <1>4, <1>5, <1>6, <1>7

\* The same at the end of a sequence.
LEMMA BackOff ==
  ASSUME NEW S, NEW w \in Seq(S), NEW a \in Seq(S), NEW x \in Seq(S),
         IsSuffix(a, w)
  PROVE  /\ AtBack(w, Len(a), x) \in Seq(S)
         /\ AtBack(AtBack(w, Len(a), x), Len(x), a) = w
<1> DEFINE rest == SubSeq(w, 1, Len(w) - Len(a))
<1>1. /\ Len(a) <= Len(w)
      /\ \A i \in 1..Len(a) : a[i] = w[Len(w) - Len(a) + i]
  <2>1. /\ Reverse(a) \in Seq(S) /\ Len(Reverse(a)) = Len(a)
        /\ \A i \in 1..Len(a) : Reverse(a)[i] = a[Len(a) - i + 1]
    BY DEF Reverse
  <2>2. /\ Reverse(w) \in Seq(S) /\ Len(Reverse(w)) = Len(w)
        /\ \A i \in 1..Len(w) : Reverse(w)[i] = w[Len(w) - i + 1]
    BY DEF Reverse
  <2>3. /\ Len(a) <= Len(w)
        /\ SubSeq(Reverse(a), 1, Len(a)) = SubSeq(Reverse(w), 1, Len(a))
    BY <2>1, <2>2 DEF IsSuffix, IsPrefix
  <2>4. \A i \in 1..Len(a) : SubSeq(Reverse(a), 1, Len(a))[i] = Reverse(a)[i]
    BY <2>1, SubSeqProperties
  <2>5. \A i \in 1..Len(a) : SubSeq(Reverse(w), 1, Len(a))[i] = Reverse(w)[i]
    BY <2>2, <2>3, SubSeqProperties
  <2>6. \A i \in 1..Len(a) : a[Len(a) - i + 1] = w[Len(w) - i + 1]
    BY <2>1, <2>2, <2>3, <2>4, <2>5
  <2>7. ASSUME NEW i \in 1..Len(a) PROVE a[i] = w[Len(w) - Len(a) + i]
    <3> DEFINE j == Len(a) - i + 1
    <3>1. j \in 1..Len(a) /\ Len(a) - j + 1 = i
          /\ Len(w) - j + 1 = Len(w) - Len(a) + i
      OBVIOUS
    <3>2. a[Len(a) - j + 1] = w[Len(w) - j + 1]
      BY <3>1, <2>6
    <3> QED
      BY <3>1, <3>2
  <2> QED
    BY <2>3, <2>7
<1>2. /\ rest \in Seq(S) /\ Len(rest) = Len(w) - Len(a)
      /\ \A i \in 1..Len(w) - Len(a) : rest[i] = w[i]
  BY <1>1, SubSeqProperties
<1> HIDE DEF rest
<1>3. /\ rest \o x \in Seq(S) /\ Len(rest \o x) = Len(rest) + Len(x)
      /\ \A i \in 1..Len(rest) : (rest \o x)[i] = rest[i]
  <2>1. /\ rest \o x \in Seq(S) /\ Len(rest \o x) = Len(rest) + Len(x)
        /\ \A i \in 1..Len(rest) + Len(x) :
              (rest \o x)[i] = IF i <= Len(rest) THEN rest[i] ELSE x[i - Len(rest)]
    BY <1>2, ConcatProperties
  <2> QED
    BY <1>2, <2>1
<1> DEFINE back == SubSeq(rest \o x, 1, Len(rest \o x) - Len(x))
<1>4. back = rest
  <2>1. /\ back \in Seq(S) /\ Len(back) = Len(rest)
        /\ \A i \in 1..Len(rest) : back[i] = (rest \o x)[i]
    BY <1>2, <1>3, SubSeqProperties
  <2> QED
    BY <1>2, <1>3, <2>1, SeqEqual
<1>5. rest \o a = w
  <2>1. /\ rest \o a \in Seq(S) /\ Len(rest \o a) = Len(w)
        /\ \A i \in 1..Len(w) : (rest \o a)[i] = IF i <= Len(rest) THEN rest[i]
                                                ELSE a[i - Len(rest)]
    BY <1>1, <1>2, ConcatProperties
  <2>2. ASSUME NEW i \in 1..Len(w), i <= Len(rest) PROVE (rest \o a)[i] = w[i]
    BY <1>1, <1>2, <2>1, <2>2
  <2>3. ASSUME NEW i \in 1..Len(w), ~(i <= Len(rest)) PROVE (rest \o a)[i] = w[i]
    <3>1. i - Len(rest) \in 1..Len(a) /\ Len(w) - Len(a) + (i - Len(rest)) = i
      BY <1>1, <1>2, <2>3
    <3> QED
      BY <1>1, <2>1, <2>3, <3>1
  <2> QED
    BY <2>1, <2>2, <2>3, SeqEqual
<1>6. AtBack(w, Len(a), x) = rest \o x
  BY DEF AtBack, rest
<1>7. AtBack(rest \o x, Len(x), a) = back \o a
  BY DEF AtBack
<1> QED
  BY <1>3, <1>4, <1>5, <1>6, <1>7

\* ~To_Root_Unroot_RAII undoes its constructor, whenever the affix fits.
LEMMA RootThenDerived ==
  ASSUME NEW w \in Seq(Letters), NEW e, WordParts(e), Fits(e, w)
  PROVE  /\ ToRoot(e, w) \in Seq(Letters)
         /\ ToDerived(e, ToRoot(e, w)) = w
<1>1. CASE e.side = "prefix"
  BY <1>1, FrontOff DEF WordParts, Fits, ToRoot, ToDerived
<1>2. CASE e.side # "prefix"
  BY <1>2, BackOff DEF WordParts, Fits, ToRoot, ToDerived
<1> QED
  BY <1>1, <1>2

\* The affixes of the tables are made of letters.
LEMMA TableLength ==
  ASSUME lang \in DOMAIN Languages, NEW side
  PROVE  Len(Table(side)) \in Nat
BY TableAssumption DEF Table, Dic

LEMMA TableFacts ==
  ASSUME lang \in DOMAIN Languages, NEW side, NEW i \in 1..Len(Table(side))
  PROVE  /\ WordParts(Table(side)[i])
         /\ side \in {"prefix", "suffix"} => Table(side)[i].side = side
BY TableAssumption DEF Table, Dic, WordParts

-----------------------------------------------------------------------------
(* The inductive invariant. *)

Loop == [at : Nat, seen : Seq(Letters)]

\* The affix of loop k is off the buffer.
Off(k) == k < Len(loops) \/ pc \in {"root", "undo"}

\* What is off was found in its table, on the word of its loop.
OffFits ==
    \A k \in 1..Len(loops) :
        Off(k) => /\ loops[k].at \in 1..Len(Table(Sides[Search][k]))
                  /\ Fits(Affix(k), loops[k].seen)

IInv ==
    /\ lang \in DOMAIN Languages
    /\ input \in Seq(Letters) /\ word \in Seq(Letters)
    /\ loops \in Seq(Loop)
    /\ pc \in {"whole", "next", "root", "undo", "done"}
    /\ pc \in {"root", "undo"} => loops # <<>>
    /\ pc \in {"whole", "done"} => loops = <<>>
    /\ OffFits
    /\ IteratorsSeeTheirWord

LEMMA InitIInv == Init => IInv
BY InputAssumption DEF Init, IInv, OffFits, Off, IteratorsSeeTheirWord, Level

\* A search is started with the buffer as it came and at most one loop.
LEMMA StartSearchIInv ==
  ASSUME IInv, loops = <<>>, NEW t, StartSearch(t),
         UNCHANGED <<lang, mode, skip, input, word>>
  PROVE  IInv'
<1>1. word = input
  BY DEF IInv, IteratorsSeeTheirWord
<1>2. OpenLoop \in Loop /\ OpenLoop.seen = input
  BY <1>1 DEF IInv, OpenLoop, Loop
<1>3. CASE loops' = <<>>
  <2>1. pc' \in {"next", "done"}
    BY DEF StartSearch
  <2> QED
    BY <1>1, <1>3, <2>1 DEF IInv, OffFits, Off, IteratorsSeeTheirWord, Level
<1>4. CASE loops' = <<OpenLoop>> /\ pc' = "next"
  <2>1. loops' \in Seq(Loop) /\ Len(loops') = 1 /\ loops'[1].seen = input
    BY <1>2, <1>4
  <2>2. OffFits'
    BY <1>4, <2>1 DEF OffFits, Off
  <2>3. IteratorsSeeTheirWord'
    BY <1>1, <1>4, <2>1 DEF IteratorsSeeTheirWord, Level
  <2> QED
    BY <1>4, <2>1, <2>2, <2>3 DEF IInv
<1> QED
  BY <1>3, <1>4 DEF StartSearch

\* While a search runs, an affix is known by the place of its loop.
LEMMA AffixSame ==
  ASSUME UNCHANGED <<lang, mode, turn>>
  PROVE  /\ \A k : loops'[k].at = loops[k].at => Affix(k)' = Affix(k)
         /\ \A k : Table(Sides[Search][k])' = Table(Sides[Search][k])
BY DEF Affix, Table, Search, Searches, Dic

LEMMA CheckWholeIInv == IInv /\ CheckWhole => IInv'
<1> SUFFICES ASSUME IInv, CheckWhole PROVE IInv'
  OBVIOUS
<1>1. loops = <<>> /\ UNCHANGED <<lang, mode, skip, input, word>>
  BY DEF CheckWhole, IInv
<1>2. \/ StartSearch(1)
      \/ pc' = "done" /\ UNCHANGED <<turn, loops>>
  BY DEF CheckWhole
<1>3. CASE pc' = "done" /\ UNCHANGED <<turn, loops>>
  BY <1>1, <1>3 DEF IInv, OffFits, Off, IteratorsSeeTheirWord, Level
<1> QED
  BY <1>1, <1>2, <1>3, StartSearchIInv

LEMMA NextSearchIInv == IInv /\ NextSearch => IInv'
BY StartSearchIInv DEF NextSearch

\* The open loops but the innermost.
LEMMA FrontLoops ==
  ASSUME loops \in Seq(Loop), loops # <<>>
  PROVE  /\ Len(loops) \in Nat \ {0}
         /\ \A k \in 1..Len(loops) : loops[k] \in Loop
         /\ Front(loops) \in Seq(Loop)
         /\ Len(Front(loops)) = Len(loops) - 1
         /\ \A k \in 1..Len(loops) - 1 : Front(loops)[k] = loops[k]
<1>1. Len(loops) \in Nat \ {0} /\ \A k \in 1..Len(loops) : loops[k] \in Loop
  OBVIOUS
<1>2. PICK n \in Nat : Len(loops) = n + 1
  BY <1>1
<1>3. \A k \in 1..n : loops[k] \in Loop
  BY <1>1, <1>2
<1>4. /\ SubSeq(loops, 1, n) \in Seq(Loop) /\ Len(SubSeq(loops, 1, n)) = n
      /\ \A k \in 1..n : SubSeq(loops, 1, n)[k] = loops[k]
  <2>1. n - 1 + 1 = n /\ (IF 1 <= n THEN n - 1 + 1 ELSE 0) = n
        /\ \A k \in 1..n : 1 + k - 1 = k
    BY <1>2
  <2> QED
    BY <1>3, <2>1, SubSeqProperties
<1>5. Len(loops) - 1 = n
  BY <1>2
<1> QED
  BY <1>1, <1>4, <1>5 DEF Front

\* The innermost loop is left, with the buffer as its iterator saw it.
LEMMA LeaveLoop ==
  ASSUME IInv, loops # <<>>, loops' = Front(loops),
         UNCHANGED <<lang, mode, turn, input>>,
         word' = loops[Level].seen,
         pc' \in {"next", "undo", "done"},
         Level = 1 => pc' \in {"next", "done"},
         Level # 1 => pc' = "undo"
  PROVE  IInv'
<1>1. /\ Level \in Nat \ {0} /\ Level = Len(loops)
      /\ \A k \in 1..Level : loops[k] \in Loop
      /\ loops' \in Seq(Loop) /\ Len(loops') = Level - 1
      /\ \A k \in 1..Level - 1 : loops'[k] = loops[k]
  BY FrontLoops DEF IInv, Level
<1>2. word' \in Seq(Letters)
  BY <1>1 DEF Loop
<1>3. CASE Level = 1
  <2>1. loops' = <<>>
    BY <1>1, <1>3
  <2>2. word' = input
    BY <1>1, <1>3 DEF IInv, IteratorsSeeTheirWord
  <2> QED
    BY <1>2, <1>3, <2>1, <2>2
       DEF IInv, OffFits, Off, IteratorsSeeTheirWord, Level
<1>4. CASE Level # 1
  <2>1. /\ loops' # <<>> /\ Level - 1 \in 1..Level /\ Level' = Level - 1
        /\ 1 \in 1..Level - 1
    BY <1>1, <1>4 DEF Level
  <2>2. \A k \in 1..Level - 1 : /\ Affix(k)' = Affix(k)
                                /\ Table(Sides[Search][k])' = Table(Sides[Search][k])
    BY <1>1, AffixSame
  <2>3. OffFits'
    <3>1. \A k \in 1..Level - 1 : /\ loops[k].at \in 1..Len(Table(Sides[Search][k]))
                                  /\ Fits(Affix(k), loops[k].seen)
      BY <1>1 DEF IInv, OffFits, Off
    <3> QED
      BY <1>1, <2>2, <3>1 DEF OffFits
  <2>4. IteratorsSeeTheirWord'
    <3>1. PICK n \in Nat \ {0} : Level = n + 1
      <4>1. Level - 1 \in Nat \ {0} /\ Level = (Level - 1) + 1
        BY <1>1, <1>4
      <4> QED
        BY <4>1
    <3>2. \A k \in 1..n : ToRoot(Affix(k), loops[k].seen) = loops[k + 1].seen
      BY <3>1 DEF IInv, IteratorsSeeTheirWord
    <3>3. loops'[1].seen = input'
      BY <1>1, <2>1 DEF IInv, IteratorsSeeTheirWord
    <3>4. \A k \in 1..n : /\ Affix(k)' = Affix(k) /\ loops'[k] = loops[k]
      BY <1>1, <2>2, <3>1
    <3>5. Level' = n
      BY <1>1, <2>1, <3>1
    <3>6. \A k \in 1..n - 1 : ToRoot(Affix(k)', loops'[k].seen) = loops'[k + 1].seen
      BY <3>1, <3>2, <3>4
    <3>7. word' = ToRoot(Affix(n)', loops'[n].seen)
      BY <3>1, <3>2, <3>4
    <3>8. Affix(Level)' = Affix(n)'
      BY <3>5 DEF Affix
    <3> QED
      BY <1>4, <2>1, <3>3, <3>5, <3>6, <3>7, <3>8 DEF IteratorsSeeTheirWord
  <2> QED
    BY <1>1, <1>2, <1>4, <2>1, <2>3, <2>4 DEF IInv
<1> QED
  BY <1>3, <1>4

LEMMA EndLoopIInv == IInv /\ EndLoop => IInv'
<1> SUFFICES ASSUME IInv, EndLoop PROVE IInv'
  OBVIOUS
<1>1. word' = loops[Level].seen
  BY DEF EndLoop, IInv, IteratorsSeeTheirWord
<1> QED
  BY <1>1, LeaveLoop DEF EndLoop

\* The buffer gets back what its iterator saw.
LEMMA PutBackRestores ==
  ASSUME IInv, pc \in {"root", "undo"}
  PROVE  /\ Level \in 1..Len(loops)
         /\ loops[Level] \in Loop
         /\ ToDerived(Affix(Level), word) = loops[Level].seen
<1>1. Level \in 1..Len(loops) /\ loops[Level] \in Loop
  BY FrontLoops DEF IInv, Level
<1>2. /\ loops[Level].at \in 1..Len(Table(Sides[Search][Level]))
      /\ Fits(Affix(Level), loops[Level].seen)
  BY <1>1 DEF IInv, OffFits, Off
<1>3. WordParts(Affix(Level))
  BY <1>2, TableFacts DEF IInv, Affix
<1>4. word = ToRoot(Affix(Level), loops[Level].seen)
  BY DEF IInv, IteratorsSeeTheirWord
<1>5. loops[Level].seen \in Seq(Letters)
  BY <1>1 DEF Loop
<1> QED
  BY <1>1, <1>2, <1>3, <1>4, <1>5, RootThenDerived

LEMMA PutBackIInv == IInv /\ PutBack => IInv'
<1> SUFFICES ASSUME IInv, PutBack PROVE IInv'
  OBVIOUS
<1>1. /\ word' = loops[Level].seen /\ loops # <<>>
      /\ UNCHANGED <<lang, mode, turn, input>>
  BY PutBackRestores DEF PutBack, IInv
<1>2. CASE pc' = "next" /\ UNCHANGED loops
  <2>1. \A k : /\ Affix(k)' = Affix(k)
               /\ Table(Sides[Search][k])' = Table(Sides[Search][k])
    BY <1>1, <1>2, AffixSame
  <2>2. OffFits'
    BY <1>2, <2>1 DEF IInv, OffFits, Off
  <2>3. IteratorsSeeTheirWord'
    BY <1>1, <1>2, <2>1 DEF IInv, IteratorsSeeTheirWord, Level
  <2>4. word' \in Seq(Letters)
    BY <1>1, PutBackRestores DEF PutBack, Loop
  <2> QED
    BY <1>1, <1>2, <2>2, <2>3, <2>4 DEF IInv
<1>3. CASE loops' = Front(loops) /\ pc' = IF Level = 1 THEN "done" ELSE "undo"
  BY <1>1, <1>3, LeaveLoop
<1> QED
  BY <1>2, <1>3 DEF PutBack

\* The iterator moves on to the first affix that still fits.
LEMMA FirstFollowing ==
  ASSUME IInv, loops # <<>>, Following # {},
         NEW q, q = CHOOSE i \in Following : \A j \in Following : i <= j
  PROVE  q \in 1..Len(Here) /\ q \in Nat /\ Fits(Here[q], word)
<1>1. Level \in 1..Len(loops) /\ loops[Level].at \in Nat
  BY FrontLoops DEF IInv, Level, Loop
<1>2. Len(Here) \in Nat
  BY TableLength DEF IInv, Here
<1>3. Following \in SUBSET Nat
  BY <1>1, <1>2 DEF Following
<1>4. \E i \in Following : \A j \in Following : i <= j
  BY <1>3, LeastNatural
<1>5. q \in Following
  BY <1>4
<1> QED
  BY <1>1, <1>2, <1>5 DEF Following

\* What a visit to the next affix changes, in the innermost loop n.
LEMMA VisitFacts ==
  ASSUME IInv, VisitAffix
  PROVE  \E n \in Nat \ {0}, q \in 1..Len(Here) :
            /\ n = Level /\ n = Len(loops) /\ Fits(Here[q], word)
            /\ loops' \in Seq(Loop) /\ Len(loops') = n
            /\ loops'[n].at = q /\ loops'[n].seen = loops[n].seen
            /\ \A k \in 1..n - 1 : loops'[k] = loops[k]
            /\ Affix(n)' = Here[q] /\ Here = Table(Sides[Search][n])
            /\ \/ /\ MayStrip(Here[q], Outer(n))
                  /\ word' = ToRoot(Here[q], word) /\ pc' = "root"
               \/ UNCHANGED <<word, pc>>
<1>1. /\ Level \in 1..Len(loops) /\ Level = Len(loops) /\ Level \in Nat \ {0}
      /\ \A k \in 1..Level : loops[k] \in Loop
  BY FrontLoops DEF VisitAffix, IInv, Level
<1>2. PICK n \in Nat \ {0} : n = Level
  BY <1>1
<1>3. PICK q : q = CHOOSE i \in Following : \A j \in Following : i <= j
  OBVIOUS
<1>4. q \in 1..Len(Here) /\ q \in Nat /\ Fits(Here[q], word)
  BY <1>3, FirstFollowing DEF VisitAffix
<1>5. /\ UNCHANGED <<lang, mode, turn>>
      /\ loops' = [loops EXCEPT ![n].at = q]
      /\ \/ /\ MayStrip(Here[q], Outer(n))
            /\ word' = ToRoot(Here[q], word) /\ pc' = "root"
         \/ UNCHANGED <<word, pc>>
  BY <1>2, <1>3 DEF VisitAffix
<1>6. /\ loops' \in Seq(Loop) /\ Len(loops') = n
      /\ loops'[n].at = q /\ loops'[n].seen = loops[n].seen
      /\ \A k \in 1..n - 1 : loops'[k] = loops[k]
  <2>1. loops \in Seq(Loop) /\ n \in 1..Len(loops) /\ Len(loops) = n
    BY <1>1, <1>2 DEF IInv
  <2>2. [at |-> q, seen |-> loops[n].seen] \in Loop
    BY <1>1, <1>2, <1>4 DEF Loop
  <2>3. loops' = [loops EXCEPT ![n] = [at |-> q, seen |-> loops[n].seen]]
    <3>1. loops[n] \in [at : Nat, seen : Seq(Letters)]
      BY <1>1, <1>2 DEF Loop
    <3>2. [loops[n] EXCEPT !.at = q] = [at |-> q, seen |-> loops[n].seen]
      BY <3>1
    <3> QED
      BY <1>5, <3>2
  <2> HIDE DEF Loop
  <2> QED
    BY <2>1, <2>2, <2>3
<1>7. Affix(n)' = Here[q] /\ Here = Table(Sides[Search][n])
  BY <1>2, <1>5, <1>6 DEF Affix, Here, Table, Search, Searches, Dic
<1> QED
  BY <1>1, <1>2, <1>4, <1>5, <1>6, <1>7

LEMMA VisitAffixIInv == IInv /\ VisitAffix => IInv'
<1> SUFFICES ASSUME IInv, VisitAffix PROVE IInv'
  OBVIOUS
<1>1. PICK n \in Nat \ {0}, q \in 1..Len(Here) :
            /\ n = Level /\ n = Len(loops) /\ Fits(Here[q], word)
            /\ loops' \in Seq(Loop) /\ Len(loops') = n
            /\ loops'[n].at = q /\ loops'[n].seen = loops[n].seen
            /\ \A k \in 1..n - 1 : loops'[k] = loops[k]
            /\ Affix(n)' = Here[q] /\ Here = Table(Sides[Search][n])
            /\ \/ /\ MayStrip(Here[q], Outer(n))
                  /\ word' = ToRoot(Here[q], word) /\ pc' = "root"
               \/ UNCHANGED <<word, pc>>
  BY VisitFacts
<1>2. /\ pc = "next" /\ UNCHANGED <<lang, mode, turn, input>>
      /\ \/ word' = ToRoot(Here[q], word) /\ pc' = "root"
         \/ UNCHANGED <<word, pc>>
  BY <1>1 DEF VisitAffix
<1>3. \A k : /\ loops'[k].at = loops[k].at => Affix(k)' = Affix(k)
             /\ Table(Sides[Search][k])' = Table(Sides[Search][k])
  BY <1>2, AffixSame
<1>4. word = loops[n].seen
  BY <1>1, <1>2 DEF IInv, IteratorsSeeTheirWord, VisitAffix
<1>5. \A k \in 1..n - 1 : Affix(k)' = Affix(k)
  BY <1>1, <1>3
<1>6. OffFits'
  <2>1. ASSUME NEW k \in 1..n - 1
        PROVE  /\ loops'[k].at \in 1..Len(Table(Sides[Search][k])')
               /\ Fits(Affix(k)', loops'[k].seen)
    <3>1. k \in 1..Len(loops) /\ k < Len(loops)
      BY <1>1
    <3> QED
      BY <1>1, <1>3, <1>5, <3>1 DEF IInv, OffFits, Off
  <2>2. /\ loops'[n].at \in 1..Len(Table(Sides[Search][n])')
        /\ Fits(Affix(n)', loops'[n].seen)
    BY <1>1, <1>3, <1>4
  <2>3. \A k \in 1..n : k \in 1..n - 1 \/ k = n
    OBVIOUS
  <2> QED
    BY <1>1, <2>1, <2>2, <2>3 DEF OffFits
<1>7. IteratorsSeeTheirWord'
  <2>1. Level' = n
    BY <1>1 DEF Level
  <2>2. loops'[1].seen = input'
    <3>1. loops[1].seen = input
      BY DEF IInv, IteratorsSeeTheirWord, VisitAffix
    <3>2. 1 \in 1..n - 1 \/ 1 = n
      OBVIOUS
    <3> QED
      BY <1>1, <1>2, <3>1, <3>2
  <2>3. \A k \in 1..n - 1 : ToRoot(Affix(k)', loops'[k].seen) = loops'[k + 1].seen
    <3>1. \A k \in 1..n - 1 : ToRoot(Affix(k), loops[k].seen) = loops[k + 1].seen
      BY <1>1 DEF IInv, IteratorsSeeTheirWord
    <3>2. \A k \in 1..n - 1 : k + 1 \in 1..n - 1 \/ k + 1 = n
      OBVIOUS
    <3>3. \A k \in 1..n - 1 : loops'[k + 1].seen = loops[k + 1].seen
      BY <1>1, <3>2
    <3> QED
      BY <1>1, <1>5, <3>1, <3>3
  <2>4. word' = IF pc' = "next" THEN loops'[n].seen
                                ELSE ToRoot(Affix(n)', loops'[n].seen)
    BY <1>1, <1>2, <1>4
  <2>5. Affix(Level)' = Affix(n)'
    BY <2>1 DEF Affix
  <2>6. loops' # <<>>
    BY <1>1
  <2> QED
    BY <2>1, <2>2, <2>3, <2>4, <2>5, <2>6 DEF IteratorsSeeTheirWord
<1>8. word' \in Seq(Letters)
  <2>1. WordParts(Here[q])
    BY <1>1, TableFacts DEF IInv, Here
  <2> QED
    BY <1>1, <1>2, <2>1, RootThenDerived DEF IInv
<1> QED
  BY <1>1, <1>2, <1>6, <1>7, <1>8 DEF IInv

LEMMA CheckRootIInv == IInv /\ CheckRoot => IInv'
<1> SUFFICES ASSUME IInv, CheckRoot PROVE IInv'
  OBVIOUS
<1>1. /\ pc = "root" /\ UNCHANGED <<lang, mode, skip, input, word, turn>>
      /\ \/ pc' = "undo" /\ UNCHANGED loops
         \/ pc' = "next" /\ loops' = Append(loops, OpenLoop)
  BY DEF CheckRoot
<1>2. \A k : /\ loops'[k].at = loops[k].at => Affix(k)' = Affix(k)
             /\ Table(Sides[Search][k])' = Table(Sides[Search][k])
  BY <1>1, AffixSame
<1>3. /\ Level = Len(loops) /\ Level \in Nat \ {0} /\ loops # <<>>
      /\ \A k \in 1..Level : loops[k] \in Loop
  BY <1>1, FrontLoops DEF IInv, Level
<1>4. CASE pc' = "undo" /\ UNCHANGED loops
  <2>1. OffFits'
    BY <1>1, <1>2, <1>4 DEF IInv, OffFits, Off
  <2>2. IteratorsSeeTheirWord'
    BY <1>1, <1>2, <1>4 DEF IInv, IteratorsSeeTheirWord, Level
  <2> QED
    BY <1>1, <1>3, <1>4, <2>1, <2>2 DEF IInv
<1>5. CASE pc' = "next" /\ loops' = Append(loops, OpenLoop)
  <2>1. PICK n \in Nat \ {0} : n = Level
    BY <1>3
  <2>2. OpenLoop \in Loop /\ OpenLoop.seen = word
    BY DEF IInv, OpenLoop, Loop
  <2>3. /\ loops' \in Seq(Loop) /\ Len(loops') = n + 1
        /\ loops'[n + 1] = OpenLoop
        /\ \A k \in 1..n : loops'[k] = loops[k]
    BY <1>3, <1>5, <2>1, <2>2, AppendProperties DEF IInv
  <2>4. \A k \in 1..n : Affix(k)' = Affix(k)
    BY <1>2, <2>3
  <2>5. OffFits'
    <3>1. \A k \in 1..n : /\ loops[k].at \in 1..Len(Table(Sides[Search][k]))
                          /\ Fits(Affix(k), loops[k].seen)
      BY <1>1, <1>3, <2>1 DEF IInv, OffFits, Off
    <3>2. \A k \in 1..n + 1 : Off(k)' => k \in 1..n
      BY <1>5, <2>3 DEF Off
    <3> QED
      BY <1>2, <2>3, <2>4, <3>1, <3>2 DEF OffFits
  <2>6. IteratorsSeeTheirWord'
    <3>1. /\ loops[1].seen = input
          /\ \A k \in 1..n - 1 : ToRoot(Affix(k), loops[k].seen) = loops[k + 1].seen
      BY <1>3, <2>1 DEF IInv, IteratorsSeeTheirWord
    <3>2. ToRoot(Affix(n), loops[n].seen) = word
      BY <1>1, <1>3, <2>1 DEF IInv, IteratorsSeeTheirWord
    <3>3. \A k \in 1..n : ToRoot(Affix(k)', loops'[k].seen) = loops'[k + 1].seen
      <4>1. \A k \in 1..n : (k \in 1..n - 1 /\ k + 1 \in 1..n) \/ k = n
        OBVIOUS
      <4> QED
        BY <2>2, <2>3, <2>4, <3>1, <3>2, <4>1
    <3>4. Level' = n + 1 /\ loops' # <<>> /\ (n + 1) - 1 = n
      BY <2>3 DEF Level
    <3>5. word' = loops'[n + 1].seen /\ loops'[1].seen = input'
      BY <1>1, <2>2, <2>3, <3>1
    <3> QED
      BY <1>5, <3>3, <3>4, <3>5 DEF IteratorsSeeTheirWord
  <2> QED
    BY <1>1, <1>5, <2>3, <2>5, <2>6 DEF IInv
<1> QED
  BY <1>1, <1>4, <1>5

-----------------------------------------------------------------------------
(* The theorems. *)

\* The invariant holds of every check of every word.
THEOREM AffixStrippingIInv == Spec => []IInv
<1>1. IInv /\ [Next]_vars => IInv'
  <2> SUFFICES ASSUME IInv, [Next]_vars PROVE IInv'
    OBVIOUS
  <2>1. CASE UNCHANGED vars
    <3>1. \A k : /\ Affix(k)' = Affix(k)
                 /\ Table(Sides[Search][k])' = Table(Sides[Search][k])
      BY <2>1, AffixSame DEF vars
    <3>2. OffFits'
      BY <2>1, <3>1 DEF IInv, OffFits, Off, vars
    <3>3. IteratorsSeeTheirWord'
      BY <2>1, <3>1 DEF IInv, IteratorsSeeTheirWord, Level, vars
    <3> QED
      BY <2>1, <3>2, <3>3 DEF IInv, vars
  <2> QED
    BY <2>1, CheckWholeIInv, NextSearchIInv, EndLoopIInv, VisitAffixIInv,
       CheckRootIInv, PutBackIInv DEF Next
<1> QED
  BY <1>1, InitIInv, PTL DEF Spec

\* Every iterator that goes on finds in the buffer the word it was made for
\* (To_Root_Unroot_RAII against Iter_Prefixes_Of::search_key).
THEOREM AffixStrippingIteratorsSeeTheirWord == Spec => []IteratorsSeeTheirWord
<1>1. IInv => IteratorsSeeTheirWord
  BY DEF IInv
<1> QED
  BY <1>1, AffixStrippingIInv, PTL

\* The buffer is handed back as it came, whatever the searches found.
THEOREM AffixStrippingHandedBack == Spec => []HandedBack
<1>1. IInv => HandedBack
  BY DEF IInv, IteratorsSeeTheirWord, HandedBack
<1> QED
  BY <1>1, AffixStrippingIInv, PTL
-----------------------------------------------------------------------------
(***************************************************************************)
(* For every dictionary and every word, what the searches of               *)
(* AffixStripping return is a licit reading of the word.                   *)
(*                                                                         *)
(* The argument: while a search goes down, every affix that is off has     *)
(* passed the guards of its loop, and all but the last their conditions    *)
(* on the words that are left (Sound).  When an entry is found, the words  *)
(* that the open loops have seen, from the last to the first, are what the *)
(* affixes make of the entry (BuildsInput); and for each of the nine       *)
(* searches the guards together say that the affixes are licensed          *)
(* (LicitReading).  That every search ends among those of its mode, with   *)
(* its places in their tables, follows (Typed).                            *)
(***************************************************************************)

(* The guards of each search make a licit chain. *)

\* strip_suffix_only, strip_prefix_only.
LEMMA LicitOne ==
  ASSUME NEW e, NEW we, MayStripOne(e), Licenses(we, e),
         ValidInside(we) \/ ValidInside(e)
  PROVE  Licit(we, <<e>>)
<1> DEFINE chain == <<e>>
<1>1. Len(chain) = 1 /\ DOMAIN chain = {1} /\ chain[1] = e
  OBVIOUS
<1>2. NeedAffix \notin e.cont /\ ~NotValid(e) /\ ~IsCircumfix(e)
  BY DEF MayStripOne, OuterNotValid
<1> HIDE DEF chain
<1>3. Licensed(we, chain, 1)
  BY <1>1 DEF Licensed
<1>4. Paired(chain)
  BY <1>1, <1>2 DEF Paired
<1>5. Crossed(chain)
  BY <1>1 DEF Crossed
<1>6. Licit(we, chain)
  BY <1>1, <1>2, <1>3, <1>4, <1>5 DEF Licit, MayStripOne
<1> QED
  BY <1>6 DEF chain

\* strip_prefix_then_suffix_commutative: the two may be licensed either way.
LEMMA LicitCommutative ==
  ASSUME NEW pe, NEW se, NEW we, pe.side = "prefix", se.side = "suffix",
         MayStripCommutative(pe, <<>>), MayStripCommutative(se, <<pe>>),
         MayEndCommutative(we, pe, se),
         ValidInside(we) \/ ValidInside(pe) \/ ValidInside(se)
  PROVE  Licit(we, <<pe, se>>) \/ Licit(we, <<se, pe>>)
<1>1. /\ pe.cross /\ se.cross /\ ~NotValid(pe) /\ ~NotValid(se)
      /\ IsCircumfix(se) = IsCircumfix(pe)
  BY DEF MayStripCommutative
<1>2. ASSUME NEW e, NEW f, e.side # f.side, e.cross, f.cross,
             ~NotValid(e), ~NotValid(f), IsCircumfix(e) = IsCircumfix(f),
             NeedAffix \notin e.cont, Licenses(we, f),
             Licenses(f, e) \/ Licenses(we, e),
             ValidInside(we) \/ ValidInside(e) \/ ValidInside(f)
      PROVE  Licit(we, <<e, f>>)
  <2> DEFINE chain == <<e, f>>
  <2>1. /\ Len(chain) = 2 /\ DOMAIN chain = {1, 2}
        /\ chain[1] = e /\ chain[2] = f
    OBVIOUS
  <2> HIDE DEF chain
  <2>2. Licensed(we, chain, 1)
    BY <1>2, <2>1 DEF Licensed
  <2>3. Licensed(we, chain, 2)
    BY <1>2, <2>1 DEF Licensed
  <2>4. Paired(chain)
    BY <1>2, <2>1 DEF Paired
  <2>5. Crossed(chain)
    BY <1>2, <2>1 DEF Crossed
  <2>6. Licit(we, chain)
    BY <1>2, <2>1, <2>2, <2>3, <2>4, <2>5 DEF Licit
  <2> QED
    BY <2>6 DEF chain
<1> QED
  BY <1>1, <1>2 DEF MayEndCommutative

\* strip_suffix_then_suffix, strip_prefix_then_prefix.
LEMMA LicitTwo ==
  ASSUME NEW e, NEW f, NEW we, mode = "full", e.side = f.side,
         MayStripTwo(e, <<>>), MayStripTwo(f, <<e>>), Licenses(we, f)
  PROVE  Licit(we, <<e, f>>)
<1> DEFINE chain == <<e, f>>
<1>1. /\ Len(chain) = 2 /\ DOMAIN chain = {1, 2}
      /\ chain[1] = e /\ chain[2] = f
  OBVIOUS
<1>2. /\ ~IsCircumfix(e) /\ ~IsCircumfix(f) /\ Licenses(f, e)
      /\ NeedAffix \notin e.cont /\ ~NotValid(e) /\ ~NotValid(f)
  BY DEF MayStripTwo, OuterNotValid
<1> HIDE DEF chain
<1>3. Licensed(we, chain, 1)
  BY <1>1, <1>2 DEF Licensed
<1>4. Licensed(we, chain, 2)
  BY <1>1, <1>2 DEF Licensed
<1>5. Paired(chain)
  BY <1>1, <1>2 DEF Paired
<1>6. Crossed(chain)
  BY <1>1 DEF Crossed
<1>7. Licit(we, chain)
  BY <1>1, <1>2, <1>3, <1>4, <1>5, <1>6 DEF Licit, ValidInside
<1> QED
  BY <1>7 DEF chain

\* strip_prefix_then_2_suffixes, strip_suffix_then_2_prefixes.
LEMMA LicitOneThenTwo ==
  ASSUME NEW e, NEW f, NEW g, NEW we, mode = "full",
         e.side # f.side, f.side = g.side,
         MayStripOneThenTwo(e, <<>>), MayStripOneThenTwo(f, <<e>>),
         MayStripOneThenTwo(g, <<e, f>>),
         MayEndThree(we, e, f), Licenses(we, g)
  PROVE  Licit(we, <<e, f, g>>)
<1> DEFINE chain == <<e, f, g>>
<1>1. /\ Len(chain) = 3 /\ DOMAIN chain = {1, 2, 3}
      /\ chain[1] = e /\ chain[2] = f /\ chain[3] = g
  OBVIOUS
<1>2. e.cross /\ NeedAffix \notin e.cont /\ ~NotValid(e)
  BY DEF MayStripOneThenTwo, OuterNotValid
<1>3. f.cross /\ ~NotValid(f) /\ IsCircumfix(f) = IsCircumfix(e)
  BY DEF MayStripOneThenTwo
<1>4. Licenses(g, f) /\ ~NotValid(g) /\ ~IsCircumfix(g)
  BY DEF MayStripOneThenTwo
<1> HIDE DEF chain
<1>5. Licensed(we, chain, 1)
  BY <1>1 DEF Licensed, MayEndThree
<1>6. Licensed(we, chain, 2)
  BY <1>1, <1>4 DEF Licensed
<1>7. Licensed(we, chain, 3)
  BY <1>1 DEF Licensed
<1>8. Paired(chain)
  BY <1>1, <1>3, <1>4 DEF Paired
<1>9. Crossed(chain)
  BY <1>1, <1>2, <1>3 DEF Crossed
<1>10. Licit(we, chain)
  BY <1>1, <1>2, <1>3, <1>4, <1>5, <1>6, <1>7, <1>8, <1>9 DEF Licit, ValidInside
<1> QED
  BY <1>10 DEF chain

\* strip_suffix_prefix_suffix, strip_prefix_suffix_prefix.
LEMMA LicitAround ==
  ASSUME NEW e, NEW f, NEW g, NEW we, mode = "full",
         e.side # f.side, e.side = g.side,
         MayStripAround(e, <<>>), MayStripAround(f, <<e>>),
         MayStripAround(g, <<e, f>>),
         MayEndThree(we, f, g), Licenses(we, g)
  PROVE  Licit(we, <<e, f, g>>)
<1> DEFINE chain == <<e, f, g>>
<1>1. /\ Len(chain) = 3 /\ DOMAIN chain = {1, 2, 3}
      /\ chain[1] = e /\ chain[2] = f /\ chain[3] = g
  OBVIOUS
<1>2. e.cross /\ NeedAffix \notin e.cont /\ ~NotValid(e)
  BY DEF MayStripAround, OuterNotValid
<1>3. f.cross /\ ~NotValid(f)
  BY DEF MayStripAround
<1>4. /\ g.cross /\ ~NotValid(g)
      /\ Licenses(g, e) \/ Licenses(f, e)
      /\ \/ IsCircumfix(f) = IsCircumfix(e) /\ ~IsCircumfix(g)
         \/ IsCircumfix(f) = IsCircumfix(g) /\ ~IsCircumfix(e)
  BY DEF MayStripAround
<1> HIDE DEF chain
<1>5. Licensed(we, chain, 1)
  BY <1>1, <1>4 DEF Licensed
<1>6. Licensed(we, chain, 2)
  BY <1>1 DEF Licensed, MayEndThree
<1>7. Licensed(we, chain, 3)
  BY <1>1 DEF Licensed
<1>8. Paired(chain)
  BY <1>1, <1>4 DEF Paired
<1>9. Crossed(chain)
  BY <1>1, <1>2, <1>3, <1>4 DEF Crossed
<1>10. Licit(we, chain)
  BY <1>1, <1>2, <1>3, <1>4, <1>5, <1>6, <1>7, <1>8, <1>9 DEF Licit, ValidInside
<1> QED
  BY <1>10 DEF chain
-----------------------------------------------------------------------------
(* The words that the loops have seen are built from the root. *)

\* What is stripped by an affix begins, or ends, the word that is left.
LEMMA StrippingFits ==
  ASSUME NEW w \in Seq(Letters), NEW e, WordParts(e), Fits(e, w)
  PROVE  IF e.side = "prefix" THEN IsPrefix(e.stripping, ToRoot(e, w))
                              ELSE IsSuffix(e.stripping, ToRoot(e, w))
<1>1. ASSUME NEW x \in Seq(Letters), NEW y \in Seq(Letters)
      PROVE  IsPrefix(x, x \o y)
  <2>1. /\ x \o y \in Seq(Letters) /\ Len(x \o y) = Len(x) + Len(y)
        /\ \A i \in 1..Len(x) : (x \o y)[i] = x[i]
    BY ConcatProperties
  <2>2. /\ SubSeq(x \o y, 1, Len(x)) \in Seq(Letters)
        /\ Len(SubSeq(x \o y, 1, Len(x))) = Len(x)
        /\ \A i \in 1..Len(x) : SubSeq(x \o y, 1, Len(x))[i] = (x \o y)[i]
    BY <2>1, SubSeqProperties
  <2>3. /\ SubSeq(x, 1, Len(x)) \in Seq(Letters)
        /\ Len(SubSeq(x, 1, Len(x))) = Len(x)
        /\ \A i \in 1..Len(x) : SubSeq(x, 1, Len(x))[i] = x[i]
    BY SubSeqProperties
  <2>4. SubSeq(x, 1, Len(x)) = SubSeq(x \o y, 1, Len(x))
    BY <2>1, <2>2, <2>3, SeqEqual
  <2> QED
    BY <2>1, <2>4 DEF IsPrefix
<1>2. ASSUME NEW x \in Seq(Letters)
      PROVE  /\ Reverse(x) \in Seq(Letters) /\ Len(Reverse(x)) = Len(x)
             /\ \A i \in 1..Len(x) : Reverse(x)[i] = x[Len(x) - i + 1]
  BY DEF Reverse
<1>3. ASSUME NEW x \in Seq(Letters), NEW y \in Seq(Letters)
      PROVE  Reverse(y \o x) = Reverse(x) \o Reverse(y)
  <2>1. /\ y \o x \in Seq(Letters) /\ Len(y \o x) = Len(y) + Len(x)
        /\ \A i \in 1..Len(y) + Len(x) :
              (y \o x)[i] = IF i <= Len(y) THEN y[i] ELSE x[i - Len(y)]
    BY ConcatProperties
  <2>2. /\ Reverse(x) \o Reverse(y) \in Seq(Letters)
        /\ Len(Reverse(x) \o Reverse(y)) = Len(x) + Len(y)
        /\ \A i \in 1..Len(x) + Len(y) :
              (Reverse(x) \o Reverse(y))[i] =
                 IF i <= Len(x) THEN Reverse(x)[i] ELSE Reverse(y)[i - Len(x)]
    <3>1. /\ Reverse(x) \in Seq(Letters) /\ Len(Reverse(x)) = Len(x)
          /\ Reverse(y) \in Seq(Letters) /\ Len(Reverse(y)) = Len(y)
      BY <1>2
    <3>2. ASSUME NEW a \in Seq(Letters), NEW b \in Seq(Letters),
                 Len(a) = Len(x), Len(b) = Len(y)
          PROVE  /\ a \o b \in Seq(Letters) /\ Len(a \o b) = Len(x) + Len(y)
                 /\ \A i \in 1..Len(x) + Len(y) :
                       (a \o b)[i] = IF i <= Len(x) THEN a[i] ELSE b[i - Len(x)]
      <4>1. /\ a \o b \in Seq(Letters) /\ Len(a \o b) = Len(a) + Len(b)
            /\ \A i \in 1..Len(a) + Len(b) :
                  (a \o b)[i] = IF i <= Len(a) THEN a[i] ELSE b[i - Len(a)]
        BY ConcatProperties
      <4> QED
        BY <3>2, <4>1
    <3> QED
      BY <3>1, <3>2
  <2>3. /\ Reverse(y \o x) \in Seq(Letters) /\ Len(Reverse(y \o x)) = Len(y) + Len(x)
        /\ \A i \in 1..Len(y) + Len(x) :
              Reverse(y \o x)[i] = (y \o x)[Len(y) + Len(x) - i + 1]
    <3>1. ASSUME NEW z \in Seq(Letters), Len(z) = Len(y) + Len(x)
          PROVE  /\ Reverse(z) \in Seq(Letters) /\ Len(Reverse(z)) = Len(y) + Len(x)
                 /\ \A i \in 1..Len(y) + Len(x) :
                       Reverse(z)[i] = z[Len(y) + Len(x) - i + 1]
      BY <1>2, <3>1
    <3> QED
      BY <2>1, <3>1
  <2>4. ASSUME NEW i \in 1..Len(x) + Len(y)
        PROVE  Reverse(y \o x)[i] = (Reverse(x) \o Reverse(y))[i]
    <3> DEFINE j == Len(y) + Len(x) - i + 1
    <3>1. j \in 1..Len(y) + Len(x) /\ Reverse(y \o x)[i] = (y \o x)[j]
      BY <2>3
    <3>2. CASE i <= Len(x)
      <4>1. /\ ~(j <= Len(y)) /\ j - Len(y) = Len(x) - i + 1 /\ i \in 1..Len(x)
        BY <3>2
      <4> QED
        BY <1>2, <2>1, <2>2, <3>1, <3>2, <4>1
    <3>3. CASE ~(i <= Len(x))
      <4>1. /\ j <= Len(y) /\ i - Len(x) \in 1..Len(y)
            /\ Len(y) - (i - Len(x)) + 1 = j
        BY <3>3
      <4>2. Reverse(y)[i - Len(x)] = y[j]
        BY <1>2, <4>1
      <4> QED
        BY <2>1, <2>2, <3>1, <3>3, <4>1, <4>2
    <3> QED
      BY <3>2, <3>3
  <2> QED
    BY <2>2, <2>3, <2>4, SeqEqual
<1>4. CASE e.side = "prefix"
  <2>1. SubSeq(w, Len(e.appending) + 1, Len(w)) \in Seq(Letters)
    BY SubSeqProperties DEF WordParts
  <2> QED
    BY <1>1, <1>4, <2>1 DEF ToRoot, AtFront, WordParts
<1>5. CASE e.side # "prefix"
  <2> DEFINE rest == SubSeq(w, 1, Len(w) - Len(e.appending))
  <2>1. rest \in Seq(Letters)
    BY SubSeqProperties DEF WordParts
  <2>2. IsPrefix(Reverse(e.stripping), Reverse(rest \o e.stripping))
    <3> HIDE DEF rest
    <3> QED
      BY <1>1, <1>2, <1>3, <2>1 DEF WordParts
  <2> QED
    BY <1>5, <2>2 DEF ToRoot, AtBack, IsSuffix
<1> QED
  BY <1>4, <1>5

\* The words above the affixes of a chain are determined by the root.
LEMMA BuiltIs ==
  ASSUME NEW n \in Nat, NEW root, NEW chain, NEW f, NEW g,
         f[n + 1] = root, g[n + 1] = root,
         \A k \in 1..n : f[k] = ToDerived(chain[k], f[k + 1]),
         \A k \in 1..n : g[k] = ToDerived(chain[k], g[k + 1])
  PROVE  \A k \in 1..n + 1 : f[k] = g[k]
<1> DEFINE S == {d \in Nat : d <= n => f[n + 1 - d] = g[n + 1 - d]}
<1>1. 0 \in S
  BY n + 1 - 0 = n + 1
<1>2. ASSUME NEW d \in Nat, d \in S PROVE d + 1 \in S
  <2> SUFFICES ASSUME d + 1 <= n PROVE f[n + 1 - (d + 1)] = g[n + 1 - (d + 1)]
    OBVIOUS
  <2> DEFINE k == n - d
  <2>1. k \in 1..n /\ n + 1 - (d + 1) = k /\ n + 1 - d = k + 1 /\ d <= n
    OBVIOUS
  <2>2. f[k + 1] = g[k + 1]
    BY <1>2, <2>1
  <2>3. f[k] = ToDerived(chain[k], f[k + 1]) /\ g[k] = ToDerived(chain[k], g[k + 1])
    BY <2>1
  <2> QED
    BY <2>1, <2>2, <2>3
<1>3. Nat \subseteq S
  <2> HIDE DEF S
  <2> QED
    BY <1>1, <1>2, SetInduction
<1>4. ASSUME NEW k \in 1..n + 1 PROVE f[k] = g[k]
  <2>1. n + 1 - k \in Nat /\ n + 1 - k <= n /\ n + 1 - (n + 1 - k) = k
    OBVIOUS
  <2>2. n + 1 - k \in S
    BY <1>3, <2>1
  <2> QED
    BY <2>1, <2>2
<1> QED
  BY <1>4

-----------------------------------------------------------------------------
(* The inductive invariant. *)

\* A search with open loops is one of the mode, and no deeper than its sides.
InSearch ==
    loops # <<>> => turn \in 1..Len(Searches) /\ Len(loops) <= Len(Sides[Search])

\* What is off passed the guards of its loop.
StrippedAllowed == \A k \in 1..Len(loops) : Off(k) => MayStrip(Affix(k), Outer(k))

\* What other loops were opened under met its condition.
ConditionsHold ==
    \A k \in 1..Len(loops) - 1 : CheckCondition(Affix(k), loops[k + 1].seen)

Sound ==
    /\ IInv /\ turn \in Nat
    /\ InSearch /\ StrippedAllowed /\ ConditionsHold
    /\ FoundIsDerived

ThreeSearches == {"s", "p", "ps"}
SixSearches == {"ss", "pss", "sps", "pp", "spp", "psp"}

LEMMA SearchFacts ==
  /\ Len(Searches) \in Nat
  /\ \A t \in 1..Len(Searches) :
        \/ Searches[t] \in ThreeSearches
        \/ mode = "full" /\ Searches[t] \in SixSearches
<1>1. CASE mode # "full"
  <2>1. Searches = <<"s", "p", "ps">>
    BY <1>1 DEF Searches
  <2> QED
    BY <2>1 DEF ThreeSearches
<1>2. ASSUME NEW x, NEW y, NEW z, {x, y, z} \subseteq SixSearches,
             mode = "full", Searches = <<"s", "p", "ps">> \o <<x, y, z>>
      PROVE  /\ Len(Searches) \in Nat
             /\ \A t \in 1..Len(Searches) :
                   \/ Searches[t] \in ThreeSearches
                   \/ mode = "full" /\ Searches[t] \in SixSearches
  <2> DEFINE S == {"s", "p", "ps", x, y, z}
             a == <<"s", "p", "ps">>
             b == <<x, y, z>>
  <2>1. /\ a \in Seq(S) /\ Len(a) = 3 /\ b \in Seq(S) /\ Len(b) = 3
        /\ \A t \in 1..3 : a[t] \in S /\ b[t] \in S
    OBVIOUS
  <2>2. Len(Searches) = 6 /\ Searches \in Seq(S)
    <3> HIDE DEF a, b, S
    <3>1. a \o b \in Seq(S) /\ Len(a \o b) = Len(a) + Len(b)
      BY <2>1, ConcatProperties
    <3>2. Searches = a \o b
      BY <1>2 DEF a, b
    <3> QED
      BY <2>1, <3>1, <3>2
  <2>3. \A t \in 1..6 : Searches[t] \in {"s", "p", "ps", x, y, z}
    <3> HIDE DEF S
    <3>1. \A t \in 1..6 : Searches[t] \in S
      BY <2>2, ElementOfSeq
    <3> QED
      BY <3>1 DEF S
  <2> QED
    BY <1>2, <2>2, <2>3 DEF ThreeSearches
<1>3. CASE mode = "full" /\ Dic.complex
  BY <1>2, <1>3 DEF Searches, SixSearches
<1>4. CASE mode = "full" /\ ~Dic.complex
  BY <1>2, <1>4 DEF Searches, SixSearches
<1> QED
  BY <1>1, <1>3, <1>4

\* The dictionary and the mode are those of the check.
LEMMA SameSearches ==
  ASSUME UNCHANGED <<lang, mode>>
  PROVE  Searches' = Searches /\ Dic' = Dic
BY DEF Searches, Dic

LEMMA SameGuards ==
  ASSUME UNCHANGED <<lang, mode, turn>>, NEW e, NEW out
  PROVE  MayStrip(e, out)' = MayStrip(e, out)
BY DEF MayStrip, MayStripOne, MayStripCommutative, MayStripTwo, MayStripOneThenTwo,
       MayStripAround, OuterNotValid, NotValid, ContinuationFlags, Table, Dic,
       Search, Searches

\* A reading is judged by what does not change.
LEMMA SameMeaning ==
  ASSUME UNCHANGED <<lang, mode, skip>>
  PROVE  /\ WordList' = WordList
         /\ \A we, w : Stands(we, w)' = Stands(we, w)
         /\ \A we, chain, w : Derives(we, chain, w)' = Derives(we, chain, w)
<1>1. \A e : NotValid(e)' = NotValid(e) /\ ValidInside(e)' = ValidInside(e)
  BY DEF NotValid, ValidInside
<1>2. \A we, chain : Licit(we, chain)' = Licit(we, chain)
  BY <1>1 DEF Licit, Licensed, Paired, Crossed
<1>3. \A we : RootAllowed(we)' = RootAllowed(we)
  BY DEF RootAllowed
<1>4. \A we, w : Stands(we, w)' = Stands(we, w)
  BY <1>1, <1>3 DEF Stands
<1>5. \A we, chain, w : Derives(we, chain, w)' = Derives(we, chain, w)
  BY <1>2, <1>3 DEF Derives
<1>6. WordList' = WordList
  BY DEF WordList, Dic
<1> QED
  BY <1>4, <1>5, <1>6

LEMMA SameFound ==
  ASSUME UNCHANGED <<lang, mode, skip, input, result>>, FoundIsDerived
  PROVE  FoundIsDerived'
BY SameMeaning DEF FoundIsDerived

\* The loops that are still open have the affixes that they had.
LEMMA SameAffixes ==
  ASSUME UNCHANGED <<lang, mode, turn>>, NEW n \in Nat,
         \A k \in 1..n : loops'[k].at = loops[k].at
  PROVE  /\ \A k \in 1..n : Affix(k)' = Affix(k)
         /\ \A k \in 1..n + 1 : Outer(k)' = Outer(k)
         /\ \A k \in 1..n : MayStrip(Affix(k), Outer(k))' = MayStrip(Affix(k), Outer(k))
<1>1. \A k \in 1..n : Affix(k)' = Affix(k)
  BY AffixSame
<1>2. ASSUME NEW k \in 1..n + 1 PROVE Outer(k)' = Outer(k)
  <2>1. \A i \in 1..k - 1 : Affix(i)' = Affix(i)
    BY <1>1
  <2> QED
    BY <2>1 DEF Outer
<1>3. \A e, out : MayStrip(e, out)' = MayStrip(e, out)
  BY SameGuards
<1>4. ASSUME NEW k \in 1..n
      PROVE  MayStrip(Affix(k), Outer(k))' = MayStrip(Affix(k), Outer(k))
  <2>1. Affix(k)' = Affix(k) /\ Outer(k)' = Outer(k)
    BY <1>1, <1>2
  <2> QED
    BY <1>3, <2>1
<1> QED
  BY <1>1, <1>2, <1>4

-----------------------------------------------------------------------------
(* An entry that is found under all loops of a search. *)

\* The affixes that are off are of the sides of the search.
LEMMA AffixSides ==
  ASSUME IInv, InSearch, pc = "root"
  PROVE  /\ Search \in ThreeSearches \/ (mode = "full" /\ Search \in SixSearches)
         /\ \A k \in 1..Level : Sides[Search][k] \in {"prefix", "suffix"} =>
                                  Affix(k).side = Sides[Search][k]
<1>1. loops # <<>>
  BY DEF IInv
<1>2. turn \in 1..Len(Searches)
  BY <1>1 DEF InSearch
<1>3. Search \in ThreeSearches \/ (mode = "full" /\ Search \in SixSearches)
  BY <1>2, SearchFacts DEF Search
<1>4. ASSUME NEW k \in 1..Level, Sides[Search][k] \in {"prefix", "suffix"}
      PROVE  Affix(k).side = Sides[Search][k]
  <2>1. loops[k].at \in 1..Len(Table(Sides[Search][k]))
    BY DEF IInv, OffFits, Off, Level
  <2> QED
    BY <1>4, <2>1, TableFacts DEF IInv, Affix
<1> QED
  BY <1>3, <1>4

\* The affixes make the word that was checked of the entry.
LEMMA BuildsInput ==
  ASSUME IInv, StrippedAllowed, ConditionsHold, pc = "root",
         CheckCondition(Affix(Level), word)
  PROVE  Builds(word, Outer(Level + 1), input)
<1>1. PICK n \in Nat \ {0} : n = Level /\ n = Len(loops)
  BY FrontLoops DEF IInv, Level
<1> DEFINE chain == Outer(n + 1)
           seen == [k \in 1..n + 1 |-> IF k = n + 1 THEN word ELSE loops[k].seen]
           Built == CHOOSE f : f = [k \in 1..Len(chain) + 1 |->
                        IF k = Len(chain) + 1 THEN word ELSE ToDerived(chain[k], f[k + 1])]
<1>2. /\ chain = [k \in 1..n |-> Affix(k)] /\ Len(chain) = n
      /\ \A k \in 1..n : chain[k] = Affix(k)
  <2>1. n + 1 - 1 = n
    OBVIOUS
  <2> QED
    BY <2>1 DEF Outer
<1> HIDE DEF chain
<1>3. /\ \A k \in 1..n : seen[k] = loops[k].seen
      /\ seen[n + 1] = word
      /\ \A k \in 1..n : k \in 1..n + 1 /\ k + 1 \in 1..n + 1 /\ k # n + 1
  OBVIOUS
<1>4. ASSUME NEW k \in 1..n
      PROVE  /\ loops[k].seen \in Seq(Letters) /\ WordParts(Affix(k))
             /\ Fits(Affix(k), loops[k].seen)
             /\ seen[k + 1] = ToRoot(Affix(k), loops[k].seen)
             /\ CheckCondition(Affix(k), seen[k + 1])
  <2>1. loops[k].at \in 1..Len(Table(Sides[Search][k])) /\ Fits(Affix(k), loops[k].seen)
    BY <1>1 DEF IInv, OffFits, Off
  <2>2. WordParts(Affix(k))
    BY <2>1, TableFacts DEF IInv, Affix
  <2>3. loops[k].seen \in Seq(Letters)
    BY <1>1, FrontLoops DEF IInv, Loop
  <2>4. CASE k = n
    BY <1>1, <1>3, <2>1, <2>2, <2>3, <2>4 DEF IInv, IteratorsSeeTheirWord
  <2>5. CASE k # n
    <3>1. k \in 1..n - 1 /\ k + 1 \in 1..n
      BY <2>5
    <3>2. seen[k + 1] = loops[k + 1].seen
      BY <1>3, <3>1
    <3>3. ToRoot(Affix(k), loops[k].seen) = loops[k + 1].seen
      BY <1>1, <3>1 DEF IInv, IteratorsSeeTheirWord
    <3>4. CheckCondition(Affix(k), loops[k + 1].seen)
      BY <1>1, <3>1 DEF ConditionsHold
    <3> QED
      BY <2>1, <2>2, <2>3, <3>2, <3>3, <3>4
  <2> QED
    BY <2>4, <2>5
<1>5. seen = [k \in 1..n + 1 |->
                  IF k = n + 1 THEN word ELSE ToDerived(chain[k], seen[k + 1])]
  <2>1. ASSUME NEW k \in 1..n PROVE seen[k] = ToDerived(chain[k], seen[k + 1])
    BY <1>2, <1>3, <1>4, RootThenDerived
  <2>2. ASSUME NEW k \in 1..n + 1
        PROVE  seen[k] = IF k = n + 1 THEN word ELSE ToDerived(chain[k], seen[k + 1])
    <3>1. k # n + 1 => k \in 1..n
      OBVIOUS
    <3> QED
      BY <1>3, <2>1, <3>1
  <2>3. seen = [k \in 1..n + 1 |-> seen[k]]
    OBVIOUS
  <2> HIDE DEF seen
  <2> QED
    BY <2>2, <2>3
<1> HIDE DEF seen
<1>6. \A k \in 1..n + 1 : Built[k] = seen[k]
  <2> DEFINE Fixed(f) ==
               f = [k \in 1..Len(chain) + 1 |->
                      IF k = Len(chain) + 1 THEN word ELSE ToDerived(chain[k], f[k + 1])]
  <2>1. Len(chain) = n
    BY <1>2
  <2>2. Fixed(seen)
    BY <1>5, <2>1
  <2>3. Fixed(Built)
    <3>1. Built = CHOOSE f : Fixed(f)
      OBVIOUS
    <3> HIDE DEF Built, Fixed
    <3> QED
      BY <2>2, <3>1
  <2> HIDE DEF Built
  <2>4. ASSUME NEW f, Fixed(f)
        PROVE  /\ f[n + 1] = word
               /\ \A k \in 1..n : f[k] = ToDerived(chain[k], f[k + 1])
    <3>1. f = [k \in 1..n + 1 |->
                 IF k = n + 1 THEN word ELSE ToDerived(chain[k], f[k + 1])]
      BY <2>1, <2>4
    <3>2. n + 1 \in 1..n + 1 /\ \A k \in 1..n : k \in 1..n + 1 /\ k # n + 1
      OBVIOUS
    <3>3. \A k \in 1..n + 1 :
             f[k] = IF k = n + 1 THEN word ELSE ToDerived(chain[k], f[k + 1])
      BY <3>1, Zenon
    <3> QED
      BY <3>2, <3>3
  <2> HIDE DEF Fixed
  <2>5. /\ Built[n + 1] = word /\ seen[n + 1] = word
        /\ \A k \in 1..n : Built[k] = ToDerived(chain[k], Built[k + 1])
        /\ \A k \in 1..n : seen[k] = ToDerived(chain[k], seen[k + 1])
    BY <2>2, <2>3, <2>4
  <2>6. n \in Nat
    OBVIOUS
  <2> QED
    BY <2>5, <2>6, BuiltIs
<1>7. seen[1] = input
  <2>1. loops[1].seen = input /\ 1 \in 1..n
    BY <1>1 DEF IInv, IteratorsSeeTheirWord
  <2> QED
    BY <1>3, <2>1
<1>8. ASSUME NEW k \in 1..n
      PROVE  /\ CheckCondition(chain[k], seen[k + 1])
             /\ IF chain[k].side = "prefix" THEN IsPrefix(chain[k].stripping, seen[k + 1])
                                            ELSE IsSuffix(chain[k].stripping, seen[k + 1])
  BY <1>2, <1>4, StrippingFits
<1>9. /\ Built[1] = input
      /\ \A k \in 1..Len(chain) :
            /\ CheckCondition(chain[k], Built[k + 1])
            /\ IF chain[k].side = "prefix" THEN IsPrefix(chain[k].stripping, Built[k + 1])
                                           ELSE IsSuffix(chain[k].stripping, Built[k + 1])
  <2> HIDE DEF Built
  <2>1. 1 \in 1..n + 1 /\ \A k \in 1..n : Built[k + 1] = seen[k + 1]
    BY <1>3, <1>6
  <2> QED
    BY <1>2, <1>6, <1>7, <1>8, <2>1
<1>10. Builds(word, chain, input)
  BY <1>9 DEF Builds
<1> QED
  BY <1>1, <1>10 DEF chain

\* The affixes that are off, as a sequence, one to three of them.
LEMMA OuterIs ==
  /\ Outer(1) = <<>>
  /\ Outer(2) = <<Affix(1)>>
  /\ Outer(3) = <<Affix(1), Affix(2)>>
  /\ Outer(4) = <<Affix(1), Affix(2), Affix(3)>>
BY DEF Outer

\* The guards that an entry has passed, with those of the loops, license the
\* affixes that are off.
LEMMA LicitReading ==
  ASSUME IInv, InSearch, StrippedAllowed, pc = "root",
         Level = Len(Sides[Search]), NEW we, MayEnd(we, Outer(Level + 1))
  PROVE  /\ Outer(Level + 1) # <<>>
         /\ \E reading \in Readings(Outer(Level + 1)) : Licit(we, reading)
<1> DEFINE Goal(out) == /\ out # <<>>
                        /\ \E reading \in Readings(out) : Licit(we, reading)
<1>1. Level = Len(loops) /\ \A k \in 1..Level : MayStrip(Affix(k), Outer(k))
  BY DEF StrippedAllowed, Off, Level
<1>2. /\ \A k \in 1..Level : Sides[Search][k] \in {"prefix", "suffix"} =>
                               Affix(k).side = Sides[Search][k]
      /\ Search \in ThreeSearches \/ (mode = "full" /\ Search \in SixSearches)
  BY AffixSides
<1>3. CASE Search \in {"s", "p"}
  <2>1. Level = 1
    BY <1>3 DEF Sides
  <2>2. Outer(Level + 1) = <<Affix(1)>> /\ Level + 1 = 2
    BY <2>1, OuterIs
  <2>3. PICK e : e = Affix(1)
    OBVIOUS
  <2>4. MayStripOne(e)
    <3>1. MayStrip(e, <<>>)
      BY <1>1, <2>1, <2>3, OuterIs
    <3> QED
      BY <1>3, <3>1 DEF MayStrip
  <2>5. MayEnd(we, <<e>>)
    BY <2>2, <2>3
  <2>6. Licenses(we, e) /\ (ValidInside(we) \/ ValidInside(e))
    <3> DEFINE out == <<e>>
    <3>1. Len(out) = 1 /\ out[1] = e /\ DOMAIN out = {1} /\ MayEnd(we, out)
      BY <2>5
    <3> HIDE DEF out
    <3>2. Search \notin {"ps", "pss", "spp", "sps", "psp"}
      BY <1>3
    <3> QED
      BY <1>3, <3>1, <3>2 DEF MayEnd
  <2>7. Licit(we, <<e>>)
    BY <2>4, <2>6, LicitOne
  <2>8. Readings(<<e>>) = {<<e>>}
    BY DEF Readings
  <2>9. Goal(<<e>>)
    BY <2>7, <2>8
  <2> QED
    BY <2>2, <2>3, <2>9
<1>4. CASE Search = "ps"
  <2>1. Level = 2 /\ Sides[Search][1] = "prefix" /\ Sides[Search][2] = "suffix"
    BY <1>4 DEF Sides
  <2>2. Outer(Level + 1) = <<Affix(1), Affix(2)>>
    BY <2>1, OuterIs
  <2>3. PICK e, f : e = Affix(1) /\ f = Affix(2)
    OBVIOUS
  <2>4. e.side = "prefix" /\ f.side = "suffix"
    BY <1>2, <2>1, <2>3
  <2>5. MayStripCommutative(e, <<>>) /\ MayStripCommutative(f, <<e>>)
    BY <1>1, <1>4, <2>1, <2>3, OuterIs DEF MayStrip
  <2>6. MayEnd(we, <<e, f>>)
    BY <2>2, <2>3
  <2>7. /\ MayEndCommutative(we, e, f)
        /\ ValidInside(we) \/ ValidInside(e) \/ ValidInside(f)
    BY <1>4, <2>6 DEF MayEnd
  <2>8. Licit(we, <<e, f>>) \/ Licit(we, <<f, e>>)
    BY <2>4, <2>5, <2>7, LicitCommutative
  <2>9. Readings(<<e, f>>) = {<<e, f>>, <<f, e>>}
    BY <2>4 DEF Readings
  <2>10. Goal(<<e, f>>)
    BY <2>8, <2>9
  <2> QED
    BY <2>2, <2>3, <2>10
<1>5. CASE Search \in {"ss", "pp"}
  <2>1. /\ Level = 2 /\ mode = "full" /\ Sides[Search][1] = Sides[Search][2]
        /\ \A k \in 1..2 : Sides[Search][k] \in {"prefix", "suffix"}
    BY <1>2, <1>5 DEF Sides, ThreeSearches
  <2>2. Outer(Level + 1) = <<Affix(1), Affix(2)>>
    BY <2>1, OuterIs
  <2>3. PICK e, f : e = Affix(1) /\ f = Affix(2)
    OBVIOUS
  <2>4. e.side = f.side
    BY <1>2, <2>1, <2>3
  <2>5. MayStripTwo(e, <<>>) /\ MayStripTwo(f, <<e>>)
    <3>1. MayStrip(e, <<>>) /\ MayStrip(f, <<e>>)
      BY <1>1, <2>1, <2>3, OuterIs
    <3> QED
      BY <1>5, <3>1 DEF MayStrip
  <2>6. MayEnd(we, <<e, f>>)
    BY <2>2, <2>3
  <2>7. Licenses(we, f)
    BY <1>5, <2>6 DEF MayEnd
  <2>8. Licit(we, <<e, f>>)
    BY <2>1, <2>4, <2>5, <2>7, LicitTwo
  <2>9. Readings(<<e, f>>) = {<<e, f>>}
    BY <2>4 DEF Readings
  <2>10. Goal(<<e, f>>)
    BY <2>8, <2>9
  <2> QED
    BY <2>2, <2>3, <2>10
<1>6. CASE Search \in {"pss", "spp", "sps", "psp"}
  <2>1. /\ Level = 3 /\ mode = "full" /\ Sides[Search][1] # Sides[Search][2]
        /\ \A k \in 1..3 : Sides[Search][k] \in {"prefix", "suffix"}
        /\ Search \in {"pss", "spp"} => Sides[Search][2] = Sides[Search][3]
        /\ Search \in {"sps", "psp"} => Sides[Search][1] = Sides[Search][3]
    BY <1>2, <1>6 DEF Sides, ThreeSearches
  <2>2. Outer(Level + 1) = <<Affix(1), Affix(2), Affix(3)>>
    BY <2>1, OuterIs
  <2>3. PICK e, f, g : e = Affix(1) /\ f = Affix(2) /\ g = Affix(3)
    OBVIOUS
  <2>4. /\ e.side # f.side
        /\ Search \in {"pss", "spp"} => f.side = g.side
        /\ Search \in {"sps", "psp"} => e.side = g.side
    BY <1>2, <2>1, <2>3
  <2>5. /\ MayStrip(e, <<>>) /\ MayStrip(f, <<e>>) /\ MayStrip(g, <<e, f>>)
        /\ MayEnd(we, <<e, f, g>>)
    BY <1>1, <2>1, <2>2, <2>3, OuterIs
  <2>6. ASSUME Search \in {"pss", "spp"} PROVE Licit(we, <<e, f, g>>)
    <3>1. /\ MayStripOneThenTwo(e, <<>>) /\ MayStripOneThenTwo(f, <<e>>)
          /\ MayStripOneThenTwo(g, <<e, f>>)
      BY <2>5, <2>6 DEF MayStrip
    <3>2. MayEndThree(we, e, f) /\ Licenses(we, g)
      BY <2>5, <2>6 DEF MayEnd
    <3> QED
      BY <2>1, <2>4, <2>6, <3>1, <3>2, LicitOneThenTwo
  <2>7. ASSUME Search \in {"sps", "psp"} PROVE Licit(we, <<e, f, g>>)
    <3>1. /\ MayStripAround(e, <<>>) /\ MayStripAround(f, <<e>>)
          /\ MayStripAround(g, <<e, f>>)
      BY <2>5, <2>7 DEF MayStrip
    <3>2. MayEndThree(we, f, g) /\ Licenses(we, g)
      BY <2>5, <2>7 DEF MayEnd
    <3> QED
      BY <2>1, <2>4, <2>7, <3>1, <3>2, LicitAround
  <2>8. Licit(we, <<e, f, g>>)
    BY <1>6, <2>6, <2>7
  <2>9. Readings(<<e, f, g>>) = {<<e, f, g>>}
    BY DEF Readings
  <2>10. Goal(<<e, f, g>>)
    BY <2>8, <2>9
  <2> QED
    BY <2>2, <2>3, <2>10
<1> QED
  BY <1>2, <1>3, <1>4, <1>5, <1>6 DEF ThreeSearches, SixSearches

\* The entry that is seen first is one of those that pass.
LEMMA FirstIs ==
  ASSUME lang \in DOMAIN Languages, NEW places \in SUBSET DOMAIN Dic.words,
         places # {}
  PROVE  \E i \in places : FirstOf(places) = Dic.words[i]
<1>1. places \in SUBSET Nat
  BY TableAssumption DEF Dic
<1>2. \E i \in places : \A j \in places : i <= j
  BY <1>1, LeastNatural
<1> QED
  BY <1>2 DEF FirstOf

\* What the innermost loop body returns is a reading of the word.
LEMMA RootFound ==
  ASSUME IInv, InSearch, StrippedAllowed, ConditionsHold, pc = "root",
         CheckCondition(Affix(Level), word), Level = Len(Sides[Search]),
         NEW places, places = Entries(word, LAMBDA we : MayEnd(we, Outer(Level + 1))),
         places # {}
  PROVE  /\ FirstOf(places) \in WordList
         /\ Outer(Level + 1) # <<>>
         /\ Derives(FirstOf(places), Outer(Level + 1), input)
<1> DEFINE out == Outer(Level + 1)
<1>1. places = {i \in DOMAIN Dic.words : /\ Dic.words[i].str = word
                                         /\ MayEnd(Dic.words[i], out)}
  BY DEF Entries
<1>2. places \in SUBSET DOMAIN Dic.words
  BY <1>1
<1>3. PICK i \in places : FirstOf(places) = Dic.words[i]
  BY <1>2, FirstIs DEF IInv
<1>4. PICK we : we = Dic.words[i]
  OBVIOUS
<1>5. /\ i \in DOMAIN Dic.words /\ we.str = word /\ MayEnd(we, out)
  BY <1>1, <1>4
<1>6. we \in WordList
  BY <1>4, <1>5 DEF WordList, ToSet
<1>7. Builds(we.str, out, input)
  BY <1>5, BuildsInput
<1>8. out # <<>> /\ \E reading \in Readings(out) : Licit(we, reading)
  BY <1>5, LicitReading
<1>9. RootAllowed(we)
  BY <1>5 DEF MayEnd, RootAllowed
<1> QED
  BY <1>3, <1>4, <1>6, <1>7, <1>8, <1>9 DEF Derives

\* So is the word itself, when it is an entry.
LEMMA WholeFound ==
  ASSUME lang \in DOMAIN Languages, NEW places,
         places = Entries(word, MayStandAlone), places # {}
  PROVE  FirstOf(places) \in WordList /\ Stands(FirstOf(places), word)
<1>1. places = {i \in DOMAIN Dic.words : /\ Dic.words[i].str = word
                                         /\ MayStandAlone(Dic.words[i])}
  BY DEF Entries
<1>2. places \in SUBSET DOMAIN Dic.words
  BY <1>1
<1>3. PICK i \in places : FirstOf(places) = Dic.words[i]
  BY <1>2, FirstIs
<1>4. PICK we : we = Dic.words[i]
  OBVIOUS
<1>5. i \in DOMAIN Dic.words /\ we.str = word /\ MayStandAlone(we)
  BY <1>1, <1>4
<1>6. we \in WordList
  BY <1>4, <1>5 DEF WordList, ToSet
<1>7. Stands(we, word)
  BY <1>5 DEF Stands, MayStandAlone, RootAllowed, ValidInside
<1> QED
  BY <1>3, <1>4, <1>6, <1>7

-----------------------------------------------------------------------------
(* Every step keeps the invariant. *)

\* The affixes that are off after a step were off before it, at their places.
LEMMA StillAllowed ==
  ASSUME StrippedAllowed, UNCHANGED <<lang, mode, turn>>,
         NEW n \in Nat, n <= Len(loops), Len(loops) \in Nat, Len(loops') \in Nat,
         \A k \in 1..n : Off(k) /\ loops'[k].at = loops[k].at,
         \A k \in 1..Len(loops') : Off(k)' => k \in 1..n
  PROVE  StrippedAllowed'
<1>1. \A k \in 1..n : MayStrip(Affix(k), Outer(k))
  BY DEF StrippedAllowed
<1>2. \A k \in 1..n : MayStrip(Affix(k), Outer(k))' = MayStrip(Affix(k), Outer(k))
  BY SameAffixes
<1>3. \A k \in 1..n : MayStrip(Affix(k), Outer(k))'
  BY <1>1, <1>2
<1> QED
  BY <1>3 DEF StrippedAllowed

\* The loops that stay open were opened under the conditions of those around.
LEMMA StillMet ==
  ASSUME ConditionsHold, UNCHANGED <<lang, mode, turn>>,
         Len(loops) \in Nat, Len(loops') \in Nat, Len(loops') <= Len(loops),
         \A k \in 1..Len(loops') - 1 : /\ loops'[k].at = loops[k].at
                                       /\ loops'[k + 1].seen = loops[k + 1].seen
  PROVE  ConditionsHold'
<1> SUFFICES ASSUME NEW k \in 1..Len(loops') - 1
             PROVE  CheckCondition(Affix(k)', loops'[k + 1].seen)
  BY DEF ConditionsHold
<1>1. Affix(k)' = Affix(k)
  BY AffixSame
<1>2. CheckCondition(Affix(k), loops[k + 1].seen)
  BY DEF ConditionsHold
<1> QED
  BY <1>1, <1>2

\* A search has one to three sides.
LEMMA SidesLength ==
  \A x \in ThreeSearches \cup SixSearches : Len(Sides[x]) \in 1..3
BY DEF ThreeSearches, SixSearches, Sides

LEMMA InitSound == Init => Sound
<1> SUFFICES ASSUME Init PROVE Sound
  OBVIOUS
<1>1. loops = <<>> /\ Len(loops) = 0 /\ turn = 0 /\ result = NoResult
  BY DEF Init
<1> QED
  BY <1>1, InitIInv
     DEF Sound, InSearch, StrippedAllowed, ConditionsHold, FoundIsDerived

LEMMA StartSearchSound ==
  ASSUME Sound, loops = <<>>, NEW t \in Nat \ {0}, StartSearch(t),
         UNCHANGED <<lang, mode, skip, input, word, result>>
  PROVE  Sound'
<1>1. IInv' /\ turn' = t
  BY StartSearchIInv DEF Sound, StartSearch
<1>2. FoundIsDerived'
  BY SameFound DEF Sound
<1>3. Searches' = Searches /\ Len(Searches) \in Nat
  BY SameSearches, SearchFacts
<1>4. CASE loops' = <<>>
  <2>1. Len(loops') = 0
    BY <1>4
  <2> QED
    BY <1>1, <1>2, <1>4, <2>1 DEF Sound, InSearch, StrippedAllowed, ConditionsHold
<1>5. CASE loops' = <<OpenLoop>> /\ pc' = "next" /\ t <= Len(Searches)
  <2>1. Len(loops') = 1
    BY <1>5
  <2>2. t \in 1..Len(Searches)
    BY <1>3, <1>5
  <2>3. Len(Sides[Searches[t]]) \in 1..3
    BY <2>2, SearchFacts, SidesLength
  <2>4. Search' = Searches[t]
    BY <1>1, <1>3 DEF Search
  <2>5. InSearch'
    BY <1>1, <1>3, <2>1, <2>2, <2>3, <2>4 DEF InSearch
  <2>6. StrippedAllowed' /\ ConditionsHold'
    BY <1>5, <2>1 DEF StrippedAllowed, ConditionsHold, Off
  <2> QED
    BY <1>1, <1>2, <2>5, <2>6 DEF Sound
<1>6. \/ loops' = <<>>
      \/ loops' = <<OpenLoop>> /\ pc' = "next" /\ t <= Len(Searches)
  BY <1>3 DEF StartSearch
<1> QED
  BY <1>4, <1>5, <1>6

LEMMA CheckWholeSound == Sound /\ CheckWhole => Sound'
<1> SUFFICES ASSUME Sound, CheckWhole PROVE Sound'
  OBVIOUS
<1> DEFINE found == Entries(word, MayStandAlone)
<1>1. /\ loops = <<>> /\ word = input /\ lang \in DOMAIN Languages
      /\ UNCHANGED <<lang, mode, skip, input, word>>
  BY DEF CheckWhole, Sound, IInv, IteratorsSeeTheirWord
<1>2. CASE found # {}
  <2>1. /\ result' = [search |-> "whole", affixes |-> <<>>, root |-> FirstOf(found)]
        /\ UNCHANGED <<turn, loops>>
    BY <1>2 DEF CheckWhole
  <2>2. FirstOf(found) \in WordList /\ Stands(FirstOf(found), input)
    BY <1>1, <1>2, WholeFound
  <2>3. FoundIsDerived'
    <3>1. PICK r, i : r = FirstOf(found) /\ i = input
      OBVIOUS
    <3>2. result'.root = r /\ result'.affixes = <<>> /\ input' = i
      BY <1>1, <2>1, <3>1
    <3>3. r \in WordList' /\ Stands(r, i)'
      BY <1>1, <2>2, <3>1, SameMeaning
    <3>4. (Stands(result.root, input))'
      BY <3>2, <3>3
    <3> QED
      BY <3>2, <3>3, <3>4 DEF FoundIsDerived
  <2>4. IInv'
    BY CheckWholeIInv DEF Sound
  <2>5. Len(loops') = 0 /\ loops' = <<>>
    BY <1>1, <2>1
  <2> QED
    BY <2>1, <2>3, <2>4, <2>5 DEF Sound, InSearch, StrippedAllowed, ConditionsHold
<1>3. CASE found = {}
  BY <1>1, <1>3, StartSearchSound DEF CheckWhole
<1> QED
  BY <1>2, <1>3

LEMMA NextSearchSound == Sound /\ NextSearch => Sound'
<1> SUFFICES ASSUME Sound, NextSearch PROVE Sound'
  OBVIOUS
<1>1. turn + 1 \in Nat \ {0}
  BY DEF Sound
<1> QED
  BY <1>1, StartSearchSound DEF NextSearch

\* Leaving the innermost loop leaves the others as they are.
LEMMA LeaveLoopSound ==
  ASSUME Sound, IInv', loops # <<>>, loops' = Front(loops), FoundIsDerived',
         UNCHANGED <<lang, mode, turn>>
  PROVE  Sound'
<1>1. /\ Len(loops) \in Nat \ {0} /\ Len(loops') = Len(loops) - 1
      /\ \A k \in 1..Len(loops) - 1 : loops'[k] = loops[k]
  BY FrontLoops DEF Sound, IInv
<1>2. PICK n \in Nat : Len(loops) = n + 1 /\ Len(loops') = n
  BY <1>1
<1>3. \A k \in 1..n : loops'[k] = loops[k] /\ Off(k)
  BY <1>1, <1>2 DEF Off
<1>4. StrippedAllowed'
  <2>1. n <= Len(loops) /\ n + 1 \in Nat
    BY <1>2
  <2> QED
    BY <1>2, <1>3, <2>1, StillAllowed DEF Sound
<1>5. \A k \in 1..n - 1 : k \in 1..n /\ k + 1 \in 1..n
  BY <1>2
<1>6. ConditionsHold'
  BY <1>2, <1>3, <1>5, StillMet DEF Sound
<1>7. InSearch'
  <2>1. Searches' = Searches /\ Search' = Search
    BY SameSearches DEF Search
  <2>2. turn \in 1..Len(Searches) /\ Len(loops) <= Len(Sides[Search])
    BY DEF Sound, InSearch
  <2>3. Len(Sides[Search]) \in 1..3
    BY <2>2, SearchFacts, SidesLength DEF Search
  <2> QED
    BY <1>2, <2>1, <2>2, <2>3 DEF InSearch
<1> QED
  BY <1>4, <1>6, <1>7 DEF Sound

LEMMA EndLoopSound == Sound /\ EndLoop => Sound'
<1> SUFFICES ASSUME Sound, EndLoop PROVE Sound'
  OBVIOUS
<1>1. IInv'
  BY EndLoopIInv DEF Sound
<1>2. FoundIsDerived'
  BY SameFound DEF Sound, EndLoop
<1> QED
  BY <1>1, <1>2, LeaveLoopSound DEF EndLoop

\* A step that keeps the open loops, and takes nothing more off.
LEMMA KeepLoopsSound ==
  ASSUME Sound, IInv', FoundIsDerived', UNCHANGED <<lang, mode, turn, loops>>,
         \A k \in 1..Len(loops) : Off(k)' => Off(k)
  PROVE  Sound'
<1>1. Len(loops) \in Nat
  BY DEF Sound, IInv
<1>2. \A k \in 1..Len(loops) : MayStrip(Affix(k), Outer(k))' = MayStrip(Affix(k), Outer(k))
  BY <1>1, SameAffixes
<1>3. StrippedAllowed'
  BY <1>2 DEF Sound, StrippedAllowed
<1>4. ConditionsHold'
  BY <1>1, StillMet DEF Sound
<1>5. InSearch'
  BY SameSearches DEF Sound, InSearch, Search
<1> QED
  BY <1>3, <1>4, <1>5 DEF Sound

LEMMA PutBackSound == Sound /\ PutBack => Sound'
<1> SUFFICES ASSUME Sound, PutBack PROVE Sound'
  OBVIOUS
<1>1. IInv' /\ loops # <<>>
  BY PutBackIInv DEF Sound, IInv, PutBack
<1>2. FoundIsDerived'
  BY SameFound DEF Sound, PutBack
<1>3. CASE UNCHANGED loops
  <2>1. \A k \in 1..Len(loops) : Off(k)
    BY DEF Off, PutBack
  <2> QED
    BY <1>1, <1>2, <1>3, <2>1, KeepLoopsSound DEF PutBack
<1>4. CASE loops' = Front(loops)
  BY <1>1, <1>2, <1>4, LeaveLoopSound DEF PutBack
<1> QED
  BY <1>3, <1>4 DEF PutBack

LEMMA VisitAffixSound == Sound /\ VisitAffix => Sound'
<1> SUFFICES ASSUME Sound, VisitAffix PROVE Sound'
  OBVIOUS
<1>1. IInv'
  BY VisitAffixIInv DEF Sound
<1>2. FoundIsDerived'
  BY SameFound DEF Sound, VisitAffix
<1>3. PICK n \in Nat \ {0}, q \in 1..Len(Here) :
            /\ n = Level /\ n = Len(loops)
            /\ Len(loops') = n
            /\ loops'[n].at = q /\ loops'[n].seen = loops[n].seen
            /\ \A k \in 1..n - 1 : loops'[k] = loops[k]
            /\ Affix(n)' = Here[q]
            /\ \/ MayStrip(Here[q], Outer(n)) /\ pc' = "root"
               \/ UNCHANGED pc
  BY VisitFacts DEF Sound
<1>4. pc = "next" /\ loops # <<>> /\ UNCHANGED <<lang, mode, turn>>
  BY DEF VisitAffix
<1>5. PICK m \in Nat : n = m + 1 /\ m = n - 1
  <2>1. n - 1 \in Nat /\ n = (n - 1) + 1
    OBVIOUS
  <2> QED
    BY <2>1
<1>6. \A k \in 1..m : /\ MayStrip(Affix(k), Outer(k))
                      /\ loops'[k].at = loops[k].at
  BY <1>3, <1>5 DEF Sound, StrippedAllowed, Off
<1>7. /\ \A k \in 1..m : MayStrip(Affix(k), Outer(k))' = MayStrip(Affix(k), Outer(k))
      /\ Outer(n)' = Outer(n)
  <2>1. n \in 1..m + 1
    BY <1>5
  <2> QED
    BY <1>4, <1>6, <2>1, SameAffixes
<1>8. StrippedAllowed'
  <2>1. ASSUME NEW k \in 1..n, Off(k)' PROVE MayStrip(Affix(k), Outer(k))'
    <3>1. CASE k \in 1..m
      BY <1>6, <1>7, <3>1
    <3>2. CASE k = n
      <4>1. MayStrip(Here[q], Outer(n))
        BY <1>3, <1>4, <2>1, <3>2 DEF Off
      <4>2. PICK e, out : e = Here[q] /\ out = Outer(n)
        OBVIOUS
      <4>3. MayStrip(e, out)'
        BY <1>4, <4>1, <4>2, SameGuards
      <4>4. Affix(k)' = e /\ Outer(k)' = out
        BY <1>3, <1>7, <3>2, <4>2
      <4> QED
        BY <4>3, <4>4
    <3> QED
      BY <1>5, <3>1, <3>2
  <2> QED
    BY <1>3, <2>1 DEF StrippedAllowed
<1>9. ConditionsHold'
  <2>1. \A k \in 1..n - 1 : /\ loops'[k].at = loops[k].at
                            /\ k + 1 \in 1..n - 1 \/ k + 1 = n
    BY <1>3
  <2>2. \A k \in 1..n - 1 : loops'[k + 1].seen = loops[k + 1].seen
    BY <1>3, <2>1
  <2>3. n \in Nat /\ n <= n
    OBVIOUS
  <2> QED
    BY <1>3, <1>4, <2>1, <2>2, <2>3, StillMet DEF Sound
<1>10. InSearch'
  BY <1>3, <1>4, SameSearches DEF Sound, InSearch, Search
<1> QED
  BY <1>1, <1>2, <1>4, <1>8, <1>9, <1>10 DEF Sound

LEMMA CheckRootSound == Sound /\ CheckRoot => Sound'
<1> SUFFICES ASSUME Sound, CheckRoot PROVE Sound'
  OBVIOUS
<1> DEFINE out == Outer(Level + 1)
           found == Entries(word, LAMBDA we : MayEnd(we, out))
<1>1. /\ pc = "root" /\ UNCHANGED <<lang, mode, skip, input, word, turn>>
      /\ IInv' /\ Level = Len(loops) /\ loops # <<>> /\ Len(loops) \in Nat \ {0}
  BY CheckRootIInv, FrontLoops DEF Sound, IInv, CheckRoot, Level
<1>2. /\ turn \in 1..Len(Searches) /\ Level <= Len(Sides[Search])
      /\ Len(Sides[Search]) \in 1..3
  BY <1>1, SearchFacts, SidesLength DEF Sound, InSearch, Search
<1>3. CASE UNCHANGED <<loops, result>>
  <2>1. FoundIsDerived'
    BY <1>1, <1>3, SameFound DEF Sound
  <2>2. \A k \in 1..Len(loops) : Off(k)
    BY <1>1 DEF Off
  <2> QED
    BY <1>1, <1>3, <2>1, <2>2, KeepLoopsSound
<1>4. CASE /\ CheckCondition(Affix(Level), word) /\ Level = Len(Sides[Search])
           /\ found # {} /\ UNCHANGED loops
           /\ result' = [search |-> Search, affixes |-> out, root |-> FirstOf(found)]
  <2>1. /\ FirstOf(found) \in WordList /\ out # <<>>
        /\ Derives(FirstOf(found), out, input)
    BY <1>1, <1>4, RootFound DEF Sound
  <2>2. FoundIsDerived'
    <3>1. PICK r, c, i : r = FirstOf(found) /\ c = out /\ i = input
      OBVIOUS
    <3>2. result'.root = r /\ result'.affixes = c /\ input' = i /\ c # <<>>
      BY <1>1, <1>4, <2>1, <3>1
    <3>3. r \in WordList' /\ Derives(r, c, i)'
      BY <1>1, <2>1, <3>1, SameMeaning
    <3>4. (Derives(result.root, result.affixes, input))'
      BY <3>2, <3>3
    <3> QED
      BY <3>2, <3>3, <3>4 DEF FoundIsDerived
  <2>3. \A k \in 1..Len(loops) : Off(k)
    BY <1>1 DEF Off
  <2> QED
    BY <1>1, <1>4, <2>2, <2>3, KeepLoopsSound
<1>5. CASE /\ CheckCondition(Affix(Level), word) /\ Level < Len(Sides[Search])
           /\ pc' = "next" /\ loops' = Append(loops, OpenLoop) /\ UNCHANGED result
  <2>1. PICK n \in Nat \ {0} : n = Len(loops) /\ n = Level
    BY <1>1
  <2>2. /\ Len(loops') = n + 1 /\ loops'[n + 1].seen = word
        /\ \A k \in 1..n : loops'[k] = loops[k]
    <3>1. OpenLoop \in Loop /\ OpenLoop.seen = word /\ loops \in Seq(Loop)
      BY DEF Sound, IInv, OpenLoop, Loop
    <3> HIDE DEF Loop
    <3>2. /\ Len(Append(loops, OpenLoop)) = Len(loops) + 1
          /\ Append(loops, OpenLoop)[Len(loops) + 1] = OpenLoop
          /\ \A k \in 1..Len(loops) : Append(loops, OpenLoop)[k] = loops[k]
      BY <3>1, AppendProperties
    <3> QED
      BY <1>5, <2>1, <3>1, <3>2
  <2>3. FoundIsDerived'
    BY <1>1, <1>5, SameFound DEF Sound
  <2>4. StrippedAllowed'
    <3>1. \A k \in 1..n : Off(k) /\ loops'[k].at = loops[k].at
      BY <1>1, <2>2 DEF Off
    <3>2. \A k \in 1..Len(loops') : Off(k)' => k \in 1..n
      BY <1>5, <2>2 DEF Off
    <3>3. n \in Nat /\ n <= n /\ n + 1 \in Nat
      OBVIOUS
    <3> QED
      BY <1>1, <2>1, <2>2, <3>1, <3>2, <3>3, StillAllowed DEF Sound
  <2>5. ConditionsHold'
    <3>1. \A k \in 1..n : Affix(k)' = Affix(k)
      BY <1>1, <2>2, AffixSame
    <3>2. ASSUME NEW k \in 1..n PROVE CheckCondition(Affix(k)', loops'[k + 1].seen)
      <4>1. CASE k = n
        BY <1>5, <2>1, <2>2, <3>1, <4>1
      <4>2. CASE k # n
        <5>1. k \in 1..n - 1 /\ k + 1 \in 1..n
          BY <4>2
        <5>2. CheckCondition(Affix(k), loops[k + 1].seen)
          BY <2>1, <5>1 DEF Sound, ConditionsHold
        <5> QED
          BY <2>2, <3>1, <5>1, <5>2
      <4> QED
        BY <4>1, <4>2
    <3>3. Len(loops') - 1 = n
      BY <2>2
    <3> QED
      BY <3>2, <3>3 DEF ConditionsHold
  <2>6. InSearch'
    <3>1. Searches' = Searches /\ Search' = Search
      BY <1>1, SameSearches DEF Search
    <3>2. n + 1 <= Len(Sides[Search])
      BY <1>2, <1>5, <2>1
    <3> QED
      BY <1>1, <1>2, <2>2, <3>1, <3>2 DEF InSearch
  <2> QED
    BY <1>1, <2>3, <2>4, <2>5, <2>6 DEF Sound
<1>6. \/ UNCHANGED <<loops, result>>
      \/ /\ CheckCondition(Affix(Level), word) /\ Level = Len(Sides[Search])
         /\ found # {} /\ UNCHANGED loops
         /\ result' = [search |-> Search, affixes |-> out, root |-> FirstOf(found)]
      \/ /\ CheckCondition(Affix(Level), word) /\ Level < Len(Sides[Search])
         /\ pc' = "next" /\ loops' = Append(loops, OpenLoop) /\ UNCHANGED result
  <2>1. ~(Level < Len(Sides[Search])) => Level = Len(Sides[Search])
    BY <1>1, <1>2
  <2> QED
    BY <2>1 DEF CheckRoot
<1> QED
  BY <1>3, <1>4, <1>5, <1>6

-----------------------------------------------------------------------------
(* The state stays in the sets the code keeps it in. *)

\* A search that runs is one of the mode.
Typed == TypeOK /\ (pc \notin {"whole", "done"} => turn \in 1..Len(Searches))

LEMMA SearchesDomain == DOMAIN Searches = 1..Len(Searches)
<1>1. \E S : Searches \in Seq(S)
  <2> DEFINE S == {"s", "p", "ps"} \cup SixSearches
             a == <<"s", "p", "ps">>
             b == IF mode # "full" THEN <<>>
                  ELSE IF Dic.complex THEN <<"pp", "spp", "psp">>
                  ELSE <<"ss", "pss", "sps">>
  <2>1. a \in Seq(S)
    OBVIOUS
  <2>2. b \in Seq(S)
    <3>1. {"ss", "pss", "sps", "pp", "spp", "psp"} \subseteq S
      BY DEF SixSearches
    <3> HIDE DEF S
    <3>2. /\ <<>> \in Seq(S) /\ <<"pp", "spp", "psp">> \in Seq(S)
          /\ <<"ss", "pss", "sps">> \in Seq(S)
      BY <3>1
    <3> QED
      BY <3>2
  <2>3. Searches = a \o b
    BY DEF Searches
  <2> HIDE DEF S, a, b
  <2>4. a \o b \in Seq(S)
    BY <2>1, <2>2, ConcatProperties
  <2> QED
    BY <2>3, <2>4
<1> QED
  BY <1>1

LEMMA InitTyped == Init => Typed
<1> SUFFICES ASSUME Init PROVE Typed
  OBVIOUS
<1>1. /\ loops = <<>> /\ turn = 0 /\ result.search = "none"
      /\ skip \in BOOLEAN
  BY DEF Init, NoResult
<1>2. turn \notin DOMAIN Searches /\ turn \in 0..Len(Searches) + 1
  BY <1>1, SearchesDomain, SearchFacts
<1>3. DOMAIN loops = {}
  BY <1>1
<1> QED
  BY <1>1, <1>2, <1>3 DEF Init, Typed, TypeOK

\* No action writes what a check is given, and each leaves a search that runs
\* in the list of the mode.
LEMMA TurnTyped ==
  ASSUME Typed, Next
  PROVE  /\ UNCHANGED <<lang, mode, skip, input>>
         /\ turn' \in 0..Len(Searches) + 1
         /\ pc' \notin {"whole", "done"} => turn' \in 1..Len(Searches)
<1>1. Len(Searches) \in Nat /\ turn \in 0..Len(Searches) + 1
  BY SearchFacts DEF Typed, TypeOK
<1>2. ASSUME NEW t \in 1..Len(Searches) + 1, StartSearch(t)
      PROVE  /\ turn' \in 0..Len(Searches) + 1
             /\ pc' \notin {"whole", "done"} => turn' \in 1..Len(Searches)
  BY <1>1, <1>2 DEF StartSearch
<1>3. CASE CheckWhole
  <2>1. 1 \in 1..Len(Searches) + 1
    BY <1>1
  <2> QED
    BY <1>1, <1>2, <1>3, <2>1 DEF CheckWhole
<1>4. CASE NextSearch
  <2>1. turn + 1 \in 1..Len(Searches) + 1
    BY <1>1, <1>4 DEF NextSearch, Typed
  <2> QED
    BY <1>2, <1>4, <2>1 DEF NextSearch
<1>5. CASE EndLoop \/ VisitAffix \/ CheckRoot \/ PutBack
  <2>1. /\ UNCHANGED <<lang, mode, skip, input, turn>>
        /\ pc \notin {"whole", "done"}
    BY <1>5 DEF EndLoop, VisitAffix, CheckRoot, PutBack
  <2> QED
    BY <1>1, <2>1 DEF Typed
<1> QED
  BY <1>3, <1>4, <1>5 DEF Next

\* The place of a loop whose affix is not off is the first, or where the
\* loop was before.
LEMMA PlacesTyped ==
  ASSUME Sound, Sound', Typed, Next
  PROVE  \A k \in 1..Len(loops') :
            loops'[k].at \in 0..Len(Table(Sides[Search][k])')
<1> SUFFICES ASSUME NEW k \in 1..Len(loops')
             PROVE  loops'[k].at \in 0..Len(Table(Sides[Search][k])')
  OBVIOUS
<1> DEFINE side == Sides[Search][k]
<1>1. CASE Off(k)'
  <2>1. loops'[k].at \in 1..Len(Table(side)')
    BY <1>1 DEF Sound, IInv, OffFits
  <2> QED
    BY <2>1
<1>2. CASE ~Off(k)'
  <2>1. Len(Table(side)') \in Nat
    <3>1. \A x : lang \in DOMAIN Languages => Len(Table(x)) \in Nat
      BY TableLength
    <3>2. lang \in DOMAIN Languages /\ lang' = lang
      BY TurnTyped DEF Sound, IInv
    <3>3. \A x : Table(x)' = Table(x)
      BY <3>2 DEF Table, Dic
    <3>4. (Table(side))' = Table(side')
      BY <3>2 DEF Table, Dic
    <3> QED
      BY <3>1, <3>2, <3>4
  <2>2. CASE loops'[k].at = 0
    BY <2>1, <2>2
  <2>3. CASE loops'[k].at # 0
    <3> USE <1>2, <2>3
    <3>1. (PutBack /\ UNCHANGED loops) \/ VisitAffix
      <4>1. ~CheckWhole /\ ~NextSearch
        <5>1. ASSUME NEW t, StartSearch(t) PROVE FALSE
          <6>1. loops' = <<OpenLoop>> /\ k = 1
            BY <5>1 DEF StartSearch
          <6> QED
            BY <6>1 DEF OpenLoop
        <5>2. CheckWhole => StartSearch(1) \/ (loops' = loops /\ loops = <<>>)
          BY DEF CheckWhole, Sound, IInv
        <5> QED
          BY <5>1, <5>2 DEF NextSearch
      <4>2. ~CheckRoot
        <5>1. SUFFICES ASSUME CheckRoot PROVE FALSE
          OBVIOUS
        <5>2. pc' = "undo" \/ loops' = Append(loops, OpenLoop)
          BY <5>1 DEF CheckRoot
        <5>3. loops' = Append(loops, OpenLoop) /\ ~(k < Len(loops'))
          BY <5>2 DEF Off
        <5>4. loops'[k] = OpenLoop
          <6>1. loops \in Seq(Loop) /\ OpenLoop \in Loop
            BY DEF Sound, IInv, OpenLoop, Loop
          <6> HIDE DEF Loop
          <6>2. Len(loops') = Len(loops) + 1 /\ loops'[Len(loops) + 1] = OpenLoop
            BY <5>3, <6>1, AppendProperties
          <6> QED
            BY <5>3, <6>1, <6>2
        <5> QED
          BY <5>4 DEF OpenLoop
      <4>3. ASSUME loops' = Front(loops), loops # <<>>,
                   Level = 1 \/ pc' = "undo" PROVE FALSE
        BY <4>3, FrontLoops DEF Sound, IInv, Off, Level
      <4> QED
        BY <4>1, <4>2, <4>3 DEF Next, EndLoop, PutBack, Sound, IInv
    <3>2. CASE PutBack /\ UNCHANGED loops
      <4>1. Off(k) /\ k \in 1..Len(loops) /\ UNCHANGED <<lang, mode, turn>>
        BY <3>2 DEF Off, PutBack
      <4>2. loops[k].at \in 1..Len(Table(side))
        BY <4>1 DEF Sound, IInv, OffFits
      <4>3. Table(side)' = Table(side)
        BY <4>1, AffixSame
      <4> QED
        BY <3>2, <4>2, <4>3
    <3>3. CASE VisitAffix
      <4>1. PICK n \in Nat \ {0}, q \in 1..Len(Here) :
               /\ Len(loops') = n /\ loops'[n].at = q
               /\ Here = Table(Sides[Search][n])
        BY <3>3, VisitFacts DEF Sound
      <4>2. k = n
        BY <4>1 DEF Off
      <4>3. Table(side)' = Table(side)
        BY <3>3, AffixSame DEF VisitAffix
      <4> QED
        BY <4>1, <4>2, <4>3
    <3> QED
      BY <3>1, <3>2, <3>3
  <2> QED
    BY <2>2, <2>3
<1> QED
  BY <1>1, <1>2

LEMMA NextTyped == Sound /\ Sound' /\ Typed /\ Next => Typed'
<1> SUFFICES ASSUME Sound, Sound', Typed, Next PROVE Typed'
  OBVIOUS
<1>1. /\ UNCHANGED <<lang, mode, skip, input>>
      /\ turn' \in 0..Len(Searches) + 1
      /\ pc' \notin {"whole", "done"} => turn' \in 1..Len(Searches)
  BY TurnTyped
<1>2. Searches' = Searches
  BY <1>1, SameSearches
<1>3. turn' \in DOMAIN Searches' => Len(loops') <= Len(Sides[Search]')
  <2>1. ASSUME turn' \in 1..Len(Searches) PROVE Len(Sides[Search]') \in 1..3
    <3>1. Searches[turn'] \in ThreeSearches \cup SixSearches
      BY <2>1, SearchFacts
    <3>2. Search' = Searches[turn']
      BY <1>2 DEF Search
    <3> QED
      BY <3>1, <3>2, SidesLength
  <2>2. CASE loops' = <<>>
    <3>1. Len(loops') = 0
      BY <2>2
    <3> QED
      BY <1>2, <2>1, <3>1, SearchesDomain
  <2>3. CASE loops' # <<>>
    BY <2>3 DEF Sound, InSearch
  <2> QED
    BY <2>2, <2>3
<1>4. \A k \in DOMAIN loops' : loops'[k].at \in 0..Len(Table(Sides[Search][k])')
  <2>1. DOMAIN loops' = 1..Len(loops')
    BY DEF Sound, IInv
  <2> QED
    BY <2>1, PlacesTyped
<1>5. result'.search \in {"none", "whole"} \cup ToSet(Searches)
  <2>1. CASE result' = result
    BY <2>1 DEF Typed, TypeOK
  <2>2. CASE result' # result
    <3>1. CASE CheckWhole
      <4>1. result'.search = "whole"
        BY <2>2, <3>1 DEF CheckWhole
      <4> QED
        BY <4>1
    <3>2. CASE CheckRoot
      <4>1. result'.search = Search /\ pc = "root"
        <5>1. \E c, r : result' = [search |-> Search, affixes |-> c, root |-> r]
          BY <2>2, <3>2 DEF CheckRoot
        <5> QED
          BY <3>2, <5>1 DEF CheckRoot
      <4>2. turn \in DOMAIN Searches
        BY <4>1, SearchesDomain DEF Typed
      <4> QED
        BY <4>1, <4>2 DEF Search, ToSet
    <3> QED
      BY <2>2, <3>1, <3>2 DEF Next, NextSearch, EndLoop, VisitAffix, PutBack
  <2> QED
    BY <2>1, <2>2
<1>6. pc' \in {"whole", "next", "root", "undo", "done"}
  BY DEF Sound, IInv
<1> QED
  BY <1>1, <1>2, <1>3, <1>4, <1>5, <1>6 DEF Typed, TypeOK

-----------------------------------------------------------------------------
(* The theorems. *)

THEOREM AffixStrippingSound == Spec => []Sound
<1>1. Sound /\ [Next]_vars => Sound'
  <2> SUFFICES ASSUME Sound, [Next]_vars PROVE Sound'
    OBVIOUS
  <2>1. CASE UNCHANGED vars
    <3>1. UNCHANGED <<lang, mode, skip, input, word, turn, loops, pc, result>>
      BY <2>1 DEF vars
    <3>2. IInv'
      <4>1. \A k : /\ Affix(k)' = Affix(k)
                   /\ Table(Sides[Search][k])' = Table(Sides[Search][k])
        BY <3>1, AffixSame
      <4>2. OffFits'
        BY <3>1, <4>1 DEF Sound, IInv, OffFits, Off
      <4>3. IteratorsSeeTheirWord'
        BY <3>1, <4>1 DEF Sound, IInv, IteratorsSeeTheirWord, Level
      <4> QED
        BY <3>1, <4>2, <4>3 DEF Sound, IInv
    <3>3. FoundIsDerived'
      BY <3>1, SameFound DEF Sound
    <3>4. \A k \in 1..Len(loops) : Off(k)' => Off(k)
      BY <3>1 DEF Off
    <3> QED
      BY <3>1, <3>2, <3>3, <3>4, KeepLoopsSound
  <2> QED
    BY <2>1, CheckWholeSound, NextSearchSound, EndLoopSound, VisitAffixSound,
       CheckRootSound, PutBackSound DEF Next
<1> QED
  BY <1>1, InitSound, PTL DEF Spec

\* What the searches return is a licit reading of the word: the entry is in
\* the word list, the affixes make the word of it, each under its condition
\* and licensed, and no flag forbids any of them (the nine strip_ searches
\* of checker.cxx with the guards of their loops).
THEOREM AffixStrippingFoundIsDerived == Spec => []FoundIsDerived
<1>1. Sound => FoundIsDerived
  BY DEF Sound
<1> QED
  BY <1>1, AffixStrippingSound, PTL

\* The loops of a search are never deeper than its sides, their places are in
\* their tables, and what is found names a search of the mode.
THEOREM AffixStrippingTypeOK == Spec => []TypeOK
<1>1. Sound /\ Sound' /\ Typed /\ [Next]_vars => Typed'
  <2> SUFFICES ASSUME Sound, Sound', Typed, [Next]_vars PROVE Typed'
    OBVIOUS
  <2>1. CASE UNCHANGED vars
    BY <2>1 DEF vars, Typed, TypeOK, Search, Searches, Table, Dic
  <2> QED
    BY <2>1, NextTyped
<1>2. Typed => TypeOK
  BY DEF Typed
<1> QED
  BY <1>1, <1>2, InitTyped, AffixStrippingSound, PTL DEF Spec
=============================================================================
