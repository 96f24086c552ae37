--------------------------- MODULE SpellWordProofs ---------------------------
(***************************************************************************)
(* What spell_break looks at is always a part of the word that it came     *)
(* from, for any dictionary, any table of break patterns, any word and any *)
(* limit of depth; and a forbidden word is refused.                        *)
(*                                                                         *)
(* The argument: a pattern is taken only where it applies, and then the    *)
(* unsigned differences have not wrapped, npos is never less than one of   *)
(* them, and the parts with the pattern make up the word.  The call that   *)
(* waits is at a pattern that applies; the deepest call never gets to the  *)
(* patterns.                                                               *)
(***************************************************************************)
EXTENDS SpellWord, InductionLemmas

Kinds == {"start", "end", "middle"}
BreakType == [kind : Kinds, pat : Seq(STRING) \ {<< >>}]
CallType == [w : Seq(STRING), brk : Nat, part : Nat]

-------------------------------------------------------------------------------
(* Select keeps some of the elements, in their order. *)

SelectStep(q, keep, f, i) ==
  IF i = 0 THEN << >>
  ELSE IF q[i] \in keep THEN Append(f[i - 1], q[i]) ELSE f[i - 1]

(* The function that Select is defined by exists. *)
LEMMA SelectExists ==
  ASSUME NEW S, NEW q \in Seq(S), NEW keep
  PROVE  \E f : f = [i \in 0 .. Len(q) |-> SelectStep(q, keep, f, i)]
<1> DEFINE Up(n) == \E f : f = [i \in 0 .. n |-> SelectStep(q, keep, f, i)]
           T == {n \in Nat : Up(n)}
<1>1. 0 \in T
  <2>1. PICK f : f = [i \in 0 .. 0 |-> << >>]
    OBVIOUS
  <2>2. f = [i \in 0 .. 0 |-> SelectStep(q, keep, f, i)]
    BY <2>1 DEF SelectStep
  <2>3. QED
    BY <2>2
<1>2. ASSUME NEW n \in Nat, n \in T PROVE n + 1 \in T
  <2>1. PICK f : f = [i \in 0 .. n |-> SelectStep(q, keep, f, i)]
    BY <1>2
  <2>2. PICK e : e = SelectStep(q, keep, f, n + 1)
    OBVIOUS
  <2>3. PICK g : g = [i \in 0 .. n + 1 |-> IF i = n + 1 THEN e ELSE f[i]]
    OBVIOUS
  <2>4. ASSUME NEW i \in 0 .. n + 1
        PROVE  g[i] = SelectStep(q, keep, g, i)
    <3>1. CASE i = n + 1
      <4>1. g[i] = e /\ g[n] = f[n] /\ (n + 1) - 1 = n /\ n + 1 # 0
        BY <2>3, <3>1
      <4>2. QED
        BY <2>2, <3>1, <4>1 DEF SelectStep
    <3>2. CASE i # n + 1 /\ i # 0
      <4>1. i \in 0 .. n /\ i - 1 \in 0 .. n
        BY <3>2
      <4>2. g[i] = f[i] /\ g[i - 1] = f[i - 1]
        BY <2>3, <4>1
      <4>3. f[i] = SelectStep(q, keep, f, i)
        BY <2>1, <4>1
      <4>4. QED
        BY <3>2, <4>2, <4>3 DEF SelectStep
    <3>3. CASE i = 0
      <4>1. g[0] = f[0] /\ f[0] = << >>
        BY <2>1, <2>3 DEF SelectStep
      <4>2. QED
        BY <3>3, <4>1 DEF SelectStep
    <3>4. QED
      BY <3>1, <3>2, <3>3
  <2>5. g = [i \in 0 .. n + 1 |-> SelectStep(q, keep, g, i)]
    BY <2>3, <2>4
  <2>6. Up(n + 1)
    BY <2>5
  <2>7. QED
    BY <2>6
<1> HIDE DEF T
<1>3. Nat \subseteq T
  BY <1>1, <1>2, SetInduction
<1>4. Len(q) \in T
  BY <1>3
<1>5. QED
  BY <1>4 DEF T

LEMMA SelectFacts ==
  ASSUME NEW S, NEW q \in Seq(S), NEW keep
  PROVE  /\ Select(q, keep) \in Seq(S \cap keep)
         /\ Len(Select(q, keep)) <= Len(q)
         /\ (\A i \in 1 .. Len(q) : q[i] \in keep) => Select(q, keep) = q
<1> DEFINE of == CHOOSE f : f = [i \in 0 .. Len(q) |-> SelectStep(q, keep, f, i)]
<1>1. Select(q, keep) = of[Len(q)]
  BY DEF Select, SelectStep
<1>2. of = [i \in 0 .. Len(q) |-> SelectStep(q, keep, of, i)]
  BY SelectExists
<1> HIDE DEF of
<1>len. Len(q) \in Nat
  OBVIOUS
<1> DEFINE T == {i \in Nat : i <= Len(q) =>
                   /\ of[i] \in Seq(S \cap keep)
                   /\ Len(of[i]) <= i
                   /\ (\A j \in 1 .. Len(q) : q[j] \in keep) => of[i] = SubSeq(q, 1, i)}
<1>3. 0 \in T
  <2>1. of[0] = << >>
    BY <1>2, <1>len DEF SelectStep
  <2>2. << >> \in Seq(S \cap keep) /\ Len(<< >>) = 0 /\ SubSeq(q, 1, 0) = << >>
    OBVIOUS
  <2>3. /\ of[0] \in Seq(S \cap keep)
        /\ Len(of[0]) <= 0
        /\ (\A j \in 1 .. Len(q) : q[j] \in keep) => of[0] = SubSeq(q, 1, 0)
    BY <2>1, <2>2
  <2>4. QED
    BY <2>3
<1>4. ASSUME NEW i \in Nat, i \in T, i + 1 <= Len(q) PROVE i + 1 \in T
  <2>1. /\ of[i] \in Seq(S \cap keep)
        /\ Len(of[i]) <= i
        /\ (\A j \in 1 .. Len(q) : q[j] \in keep) => of[i] = SubSeq(q, 1, i)
    BY <1>4, <1>len
  <2>2. of[i + 1] = IF q[i + 1] \in keep THEN Append(of[i], q[i + 1]) ELSE of[i]
    <3>1. i + 1 \in 0 .. Len(q) /\ i + 1 # 0 /\ (i + 1) - 1 = i
      BY <1>4, <1>len
    <3>2. QED
      BY <1>2, <3>1 DEF SelectStep
  <2>3. q[i + 1] \in S
    BY <1>4, <1>len
  <2>4. PICK p \in Seq(S \cap keep) : p = of[i]
    BY <2>1
  <2>5. CASE q[i + 1] \in keep
    <3>1. of[i + 1] = Append(p, q[i + 1]) /\ q[i + 1] \in S \cap keep
      BY <2>2, <2>3, <2>4, <2>5
    <3>2. of[i + 1] \in Seq(S \cap keep) /\ Len(of[i + 1]) = Len(p) + 1
      BY <3>1
    <3>3. ASSUME \A j \in 1 .. Len(q) : q[j] \in keep
          PROVE  of[i + 1] = SubSeq(q, 1, i + 1)
      <4>1. of[i + 1] = Append(SubSeq(q, 1, i), q[i + 1])
        BY <2>1, <2>4, <3>1, <3>3
      <4>2. SubSeq(q, 1, i + 1) = Append(SubSeq(q, 1, i), q[i + 1])
        BY <1>4, <1>len
      <4>3. QED
        BY <4>1, <4>2
    <3>4. Len(of[i + 1]) <= i + 1
      BY <2>1, <2>4, <3>2
    <3>5. QED
      BY <3>2, <3>3, <3>4
  <2>6. CASE q[i + 1] \notin keep
    <3>1. of[i + 1] = p
      BY <2>2, <2>4, <2>6
    <3>2. i + 1 \in 1 .. Len(q)
      BY <1>4, <1>len
    <3>3. Len(p) \in Nat /\ Len(p) <= i
      BY <2>1, <2>4
    <3>4. QED
      BY <2>6, <3>1, <3>2, <3>3
  <2>7. QED
    BY <2>5, <2>6
<1>5. \A i \in Nat : i \in T => i + 1 \in T
  BY <1>4, <1>len
<1> HIDE DEF T
<1>6. Nat \subseteq T
  BY <1>3, <1>5, SetInduction
<1>7. SubSeq(q, 1, Len(q)) = q
  OBVIOUS
<1>8. QED
  BY <1>1, <1>6, <1>7, <1>len DEF T

-------------------------------------------------------------------------------
(* The table of break patterns. *)

LEMMA EntriesTyped ==
  ASSUME NEW kind \in Kinds,
         NEW ps \in Seq({p \in Seq(STRING) : Kept(p) /\ KindOf(p) = kind})
  PROVE  Entries(kind, ps) \in Seq(BreakType)
<1> DEFINE entry(p) == [kind |-> kind, pat |-> CASE kind = "start"  -> Tail(p)
                                                 [] kind = "end"    -> Front(p)
                                                 [] kind = "middle" -> p]
<1>1. ASSUME NEW p \in Seq(STRING), Kept(p), KindOf(p) = kind
      PROVE  entry(p) \in BreakType
  <2>1. Len(p) \in Nat \ {0} /\ p # << >>
    BY <1>1 DEF Kept
  <2>2. PICK n \in Nat \ {0} : n = Len(p)
    BY <2>1
  <2>3. CASE kind = "start"
    <3>1. p[1] = "^"
      BY <1>1, <2>3 DEF KindOf
    <3>2. n # 1
      BY <1>1, <2>2, <3>1 DEF Kept
    <3>3. Tail(p) \in Seq(STRING) /\ Len(Tail(p)) = Len(p) - 1
      BY <2>1, HeadTailProperties
    <3>4. PICK q \in Seq(STRING) : q = Tail(p) /\ Len(q) = n - 1
      BY <2>2, <3>3
    <3>5. Tail(p) \in Seq(STRING) /\ Tail(p) # << >>
      BY <2>2, <3>2, <3>4
    <3>6. QED
      BY <2>3, <3>5 DEF BreakType, Kinds
  <2>4. CASE kind = "end"
    <3>1. p[n] = "$"
      BY <1>1, <2>2, <2>4 DEF KindOf, Last
    <3>2. n # 1
      BY <1>1, <2>2, <3>1 DEF Kept
    <3>3. Front(p) \in Seq(STRING) /\ Len(Front(p)) = Len(p) - 1
      BY <2>1, FrontFacts
    <3>4. Front(p) # << >>
      BY <2>2, <3>2, <3>3
    <3>5. QED
      BY <2>4, <3>3, <3>4 DEF BreakType, Kinds
  <2>5. CASE kind = "middle"
    BY <1>1, <2>1, <2>5 DEF BreakType, Kinds
  <2>6. QED
    BY <2>3, <2>4, <2>5 DEF Kinds
<1>2. Entries(kind, ps) = [i \in 1 .. Len(ps) |-> entry(ps[i])]
  <2>1. DOMAIN ps = 1 .. Len(ps)
    OBVIOUS
  <2>2. QED
    BY <2>1 DEF Entries
<1> HIDE DEF entry
<1>3. ASSUME NEW i \in 1 .. Len(ps) PROVE entry(ps[i]) \in BreakType
  <2>1. ps[i] \in {p \in Seq(STRING) : Kept(p) /\ KindOf(p) = kind}
    OBVIOUS
  <2>2. QED
    BY <1>1, <2>1
<1>4. QED
  BY <1>2, <1>3

LEMMA BreaksTyped ==
  ASSUME NEW table \in Seq(Seq(STRING))
  PROVE  OrderEntries(table) \in Seq(BreakType)
<1> DEFINE keep(kind) == {p \in ToSet(table) : Kept(p) /\ KindOf(p) = kind}
           of(kind) == Entries(kind, Select(table, keep(kind)))
<1>1. ASSUME NEW kind \in Kinds PROVE of(kind) \in Seq(BreakType)
  <2>1. Select(table, keep(kind)) \in Seq(Seq(STRING) \cap keep(kind))
    BY SelectFacts
  <2>2. Seq(STRING) \cap keep(kind)
           \subseteq {p \in Seq(STRING) : Kept(p) /\ KindOf(p) = kind}
    OBVIOUS
  <2>3. Select(table, keep(kind))
           \in Seq({p \in Seq(STRING) : Kept(p) /\ KindOf(p) = kind})
    BY <2>1, <2>2
  <2>4. QED
    BY <2>3, EntriesTyped
<1>2. OrderEntries(table) = of("start") \o of("end") \o of("middle")
  BY DEF OrderEntries
<1>3. of("start") \in Seq(BreakType) /\ of("end") \in Seq(BreakType)
        /\ of("middle") \in Seq(BreakType)
  BY <1>1 DEF Kinds
<1> HIDE DEF of
<1>4. QED
  BY <1>2, <1>3

-------------------------------------------------------------------------------
(* What a pattern that applies leaves of a word. *)

(* A place that FindFirst returns holds the pattern, unless it is npos. *)
LEMMA FindFirstFacts ==
  ASSUME NEW w \in Seq(STRING), NEW p \in Seq(STRING)
  PROVE  \/ FindFirst(w, p) = NPos
         \/ /\ FindFirst(w, p) \in 0 .. Len(w) - Len(p)
            /\ SubSeq(w, FindFirst(w, p) + 1, FindFirst(w, p) + Len(p)) = p
<1> DEFINE at == {i \in 0 .. Len(w) - Len(p) : SubSeq(w, i + 1, i + Len(p)) = p}
<1>1. CASE at = {}
  BY <1>1 DEF FindFirst
<1>2. CASE at # {}
  <2>1. at \in SUBSET Nat
    OBVIOUS
  <2>2. \E i \in at : \A j \in at : i <= j
    BY <1>2, <2>1, LeastNatural
  <2>3. FindFirst(w, p) = CHOOSE i \in at : \A j \in at : i <= j
    BY <1>2 DEF FindFirst
  <2>4. FindFirst(w, p) \in at
    BY <2>2, <2>3
  <2>5. QED
    BY <2>4
<1>3. QED
  BY <1>1, <1>2

(* A middle break that applies is in the word, with letters on both sides: *)
(* npos is not less than any difference, and a difference that wrapped     *)
(* belongs to a pattern that is not found.                                 *)
LEMMA MiddleApplies ==
  ASSUME NEW w \in Seq(STRING), Len(w) < Width, NEW b \in BreakType,
         b.kind = "middle", Applies(b, w)
  PROVE  /\ FindFirst(w, b.pat) \in 1 .. Len(w) - Len(b.pat) - 1
         /\ SubSeq(w, FindFirst(w, b.pat) + 1, FindFirst(w, b.pat) + Len(b.pat)) = b.pat
<1>0. Width \in Nat \ {0} /\ b.pat \in Seq(STRING)
  BY WidthAssumption DEF BreakType
<1>1. PICK i : i = FindFirst(w, b.pat)
  OBVIOUS
<1>2. PICK n \in Nat, m \in Nat : n = Len(w) /\ m = Len(b.pat)
  BY <1>0
<1>3. i > 0 /\ i < Sub(n, m)
  BY <1>1, <1>2 DEF Applies
<1>4. Sub(n, m) \in 0 .. Width - 1
  BY <1>0 DEF Sub
<1>5. i # NPos
  BY <1>0, <1>3, <1>4 DEF NPos
<1>6. i \in 0 .. n - m /\ SubSeq(w, i + 1, i + m) = b.pat
  BY <1>0, <1>1, <1>2, <1>5, FindFirstFacts
<1>7. Sub(n, m) = n - m
  <2>1. n - m \in 0 .. Width - 1
    BY <1>0, <1>2, <1>6
  <2>2. QED
    BY <1>0, <2>1 DEF Sub
<1>8. i \in 1 .. n - m - 1
  BY <1>2, <1>3, <1>6, <1>7
<1>9. QED
  BY <1>1, <1>2, <1>6, <1>8

(* The part q is a proper part of w: what is left without the pattern.     *)
PartOf(b, w, q) ==
  /\ q \in Seq(STRING) /\ Len(q) < Len(w)
  /\ w \in {b.pat \o q, q \o b.pat} \cup
        {q \o b.pat \o From(w, i) : i \in 0 .. Len(w)} \cup
        {SubSeq(w, 1, i) \o b.pat \o q : i \in 0 .. Len(w)}

LEMMA Adjacent ==
  ASSUME NEW S, NEW w \in Seq(S), NEW j \in 0 .. Len(w), NEW i \in 0 .. j
  PROVE  SubSeq(w, 1, i) \o SubSeq(w, i + 1, j) = SubSeq(w, 1, j)
<1>1. Len(w) \in Nat
  OBVIOUS
<1>2. 1 \in 1 .. Len(w) + 1 /\ i \in 1 - 1 .. Len(w) /\ j \in i .. Len(w)
  BY <1>1
<1>3. QED
  BY <1>2, ConcatAdjacentSubSeq

LEMMA ReverseFacts ==
  ASSUME NEW S, NEW w \in Seq(S)
  PROVE  /\ Reverse(w) \in Seq(S) /\ Len(Reverse(w)) = Len(w)
         /\ \A i \in 1 .. Len(w) : Reverse(w)[i] = w[(Len(w) - i) + 1]
<1>1. PICK n \in Nat : n = Len(w)
  OBVIOUS
<1>2. \A i \in 1 .. n : (n - i) + 1 \in 1 .. n
  BY <1>1
<1>3. \A i \in 1 .. n : w[(n - i) + 1] \in S
  BY <1>1, <1>2
<1>4. Reverse(w) = [i \in 1 .. n |-> w[(n - i) + 1]]
  BY <1>1 DEF Reverse
<1>5. QED
  BY <1>1, <1>3, <1>4

LEMMA StartPart ==
  ASSUME NEW w \in Seq(STRING), NEW p \in Seq(STRING), p # << >>, IsPrefix(p, w)
  PROVE  /\ From(w, Len(p)) \in Seq(STRING) /\ Len(From(w, Len(p))) < Len(w)
         /\ w = p \o From(w, Len(p))
<1>1. PICK n \in Nat, m \in Nat : n = Len(w) /\ m = Len(p)
  OBVIOUS
<1>2. m <= n /\ SubSeq(p, 1, m) = SubSeq(w, 1, m) /\ m # 0
  BY <1>1 DEF IsPrefix
<1>3. SubSeq(p, 1, m) = p
  BY <1>1, SubSeqFull
<1>4. SubSeq(w, 1, m) \o SubSeq(w, m + 1, n) = SubSeq(w, 1, n)
  <2>1. n \in 0 .. Len(w) /\ m \in 0 .. n
    BY <1>1, <1>2
  <2>2. QED
    BY <2>1, Adjacent
<1>5. SubSeq(w, 1, n) = w
  BY <1>1, SubSeqFull
<1>6. SubSeq(w, m + 1, n) \in Seq(STRING) /\ Len(SubSeq(w, m + 1, n)) = n - m
  BY <1>1, <1>2
<1>7. QED
  BY <1>1, <1>2, <1>3, <1>4, <1>5, <1>6 DEF From

LEMMA EndPart ==
  ASSUME NEW w \in Seq(STRING), NEW p \in Seq(STRING), p # << >>, IsSuffix(p, w),
         NEW q, q = SubSeq(w, 1, Len(w) - Len(p))
  PROVE  q \in Seq(STRING) /\ Len(q) < Len(w) /\ w = q \o p
<1>1. PICK n \in Nat, m \in Nat : n = Len(w) /\ m = Len(p)
  OBVIOUS
<1>2. PICK u \in Seq(STRING) : u = Reverse(w) /\ Len(u) = n
        /\ \A i \in 1 .. n : u[i] = w[n - i + 1]
  BY <1>1, ReverseFacts
<1>3. PICK v \in Seq(STRING) : v = Reverse(p) /\ Len(v) = m
        /\ \A i \in 1 .. m : v[i] = p[m - i + 1]
  BY <1>1, ReverseFacts
<1>4. m <= n /\ SubSeq(v, 1, m) = SubSeq(u, 1, m) /\ m # 0
  BY <1>1, <1>2, <1>3 DEF IsSuffix, IsPrefix
<1>5. ASSUME NEW i \in 1 .. m PROVE v[i] = u[i]
  BY <1>2, <1>3, <1>4
<1>6. PICK t : t = SubSeq(w, n - m + 1, n)
  OBVIOUS
<1>7. t \in Seq(STRING) /\ Len(t) = m /\ \A i \in 1 .. m : t[i] = w[n - m + i]
  BY <1>1, <1>4, <1>6
<1>8. ASSUME NEW i \in 1 .. m PROVE t[i] = p[i]
  <2>1. m - i + 1 \in 1 .. m /\ m - (m - i + 1) + 1 = i /\ n - (m - i + 1) + 1 = n - m + i
    BY <1>1
  <2>2. v[m - i + 1] = p[i] /\ u[m - i + 1] = w[n - m + i]
    BY <1>2, <1>3, <1>4, <2>1
  <2>3. QED
    BY <1>5, <1>7, <2>1, <2>2
<1>9. t = p
  BY <1>1, <1>7, <1>8, SeqEqual
<1>10. SubSeq(w, 1, n - m) \o SubSeq(w, n - m + 1, n) = SubSeq(w, 1, n)
  <2>1. n \in 0 .. Len(w) /\ n - m \in 0 .. n
    BY <1>1, <1>4
  <2>2. QED
    BY <2>1, Adjacent
<1>11. SubSeq(w, 1, n) = w
  BY <1>1, SubSeqFull
<1>12. q = SubSeq(w, 1, n - m) /\ q \in Seq(STRING) /\ Len(q) = n - m
  BY <1>1, <1>4
<1>13. w = q \o p
  BY <1>6, <1>9, <1>10, <1>11, <1>12
<1>14. Len(q) < Len(w)
  BY <1>1, <1>4, <1>12
<1>15. QED
  BY <1>12, <1>13, <1>14

LEMMA MiddleParts ==
  ASSUME NEW w \in Seq(STRING), NEW p \in Seq(STRING),
         NEW i \in 1 .. Len(w) - Len(p) - 1, SubSeq(w, i + 1, i + Len(p)) = p
  PROVE  /\ SubSeq(w, 1, i) \in Seq(STRING) /\ Len(SubSeq(w, 1, i)) < Len(w)
         /\ From(w, i + Len(p)) \in Seq(STRING) /\ Len(From(w, i + Len(p))) < Len(w)
         /\ w = SubSeq(w, 1, i) \o p \o From(w, i + Len(p))
<1>0. Len(w) \in Nat /\ Len(p) \in Nat
  OBVIOUS
<1>1. PICK n \in Nat, m \in Nat : n = Len(w) /\ m = Len(p)
  BY <1>0
<1>2. i \in Nat /\ 0 < i /\ i + m < n
  BY <1>1
<1>3. SubSeq(w, 1, i) \o SubSeq(w, i + 1, i + m) = SubSeq(w, 1, i + m)
  <2>1. i + m \in 0 .. Len(w) /\ i \in 0 .. i + m
    BY <1>1, <1>2
  <2>2. QED
    BY <2>1, Adjacent
<1>4. SubSeq(w, 1, i + m) \o SubSeq(w, i + m + 1, n) = SubSeq(w, 1, n)
  <2>1. n \in 0 .. Len(w) /\ i + m \in 0 .. n
    BY <1>1, <1>2
  <2>2. QED
    BY <2>1, Adjacent
<1>5. SubSeq(w, 1, n) = w
  BY <1>1, SubSeqFull
<1>6. SubSeq(w, i + m + 1, n) \in Seq(STRING) /\ Len(SubSeq(w, i + m + 1, n)) = n - (i + m)
  BY <1>1, <1>2
<1>7. SubSeq(w, 1, i) \in Seq(STRING) /\ Len(SubSeq(w, 1, i)) = i
  BY <1>1, <1>2
<1>8. w = (SubSeq(w, 1, i) \o p) \o SubSeq(w, i + m + 1, n)
  BY <1>1, <1>3, <1>4, <1>5
<1>9. From(w, i + Len(p)) = SubSeq(w, i + m + 1, n)
  BY <1>1 DEF From
<1>10. Len(SubSeq(w, 1, i)) < Len(w)
  BY <1>1, <1>2, <1>7
<1>11. Len(SubSeq(w, i + m + 1, n)) < Len(w)
  BY <1>1, <1>2, <1>6
<1>12. QED
  BY <1>6, <1>7, <1>8, <1>9, <1>10, <1>11

LEMMA PartsFacts ==
  ASSUME NEW b \in BreakType, NEW w \in Seq(STRING), Len(w) < Width, Applies(b, w)
  PROVE  /\ Parts(b, w) \in Seq(Seq(STRING)) /\ Len(Parts(b, w)) \in 1 .. 2
         /\ \A k \in 1 .. Len(Parts(b, w)) : PartOf(b, w, Parts(b, w)[k])
<1>0. Width \in Nat \ {0} /\ b.pat \in Seq(STRING) /\ b.pat # << >> /\ b.kind \in Kinds
  BY WidthAssumption DEF BreakType
<1>1. CASE b.kind = "start"
  <2>1. Parts(b, w) = <<From(w, Len(b.pat))>> /\ IsPrefix(b.pat, w)
    BY <1>1 DEF Parts, Applies
  <2>2. PartOf(b, w, From(w, Len(b.pat)))
    BY <1>0, <2>1, StartPart DEF PartOf
  <2>3. PICK q \in Seq(STRING) : q = From(w, Len(b.pat))
    BY <2>2 DEF PartOf
  <2>4. QED
    BY <2>1, <2>2, <2>3
<1>2. CASE b.kind = "end"
  <2>1. PICK q : q = SubSeq(w, 1, Len(w) - Len(b.pat))
    OBVIOUS
  <2>2. Parts(b, w) = <<q>> /\ IsSuffix(b.pat, w)
    BY <1>2, <2>1 DEF Parts, Applies
  <2>3. q \in Seq(STRING) /\ PartOf(b, w, q)
    BY <1>0, <2>1, <2>2, EndPart DEF PartOf
  <2>4. QED
    BY <2>2, <2>3
<1>3. CASE b.kind = "middle"
  <2>1. PICK i : i = FindFirst(w, b.pat)
    OBVIOUS
  <2>2. i \in 1 .. Len(w) - Len(b.pat) - 1 /\ SubSeq(w, i + 1, i + Len(b.pat)) = b.pat
    BY <1>3, <2>1, MiddleApplies
  <2>3. PICK n \in Nat, m \in Nat : n = Len(w) /\ m = Len(b.pat)
    BY <1>0
  <2>4. i \in Nat /\ i < n /\ i + m \in 0 .. n /\ i \in 0 .. n
    BY <2>2, <2>3
  <2>5. (i + m) % Width = i + m
    <3>1. i + m \in 0 .. Width - 1
      BY <1>0, <2>3, <2>4
    <3>2. QED
      BY <1>0, <3>1
  <2>6. PICK q, r : q = SubSeq(w, 1, i) /\ r = From(w, i + m)
    OBVIOUS
  <2>7. Parts(b, w) = <<q, r>>
    BY <1>3, <2>1, <2>3, <2>4, <2>5, <2>6 DEF Parts
  <2>8. /\ q \in Seq(STRING) /\ Len(q) < Len(w)
        /\ r \in Seq(STRING) /\ Len(r) < Len(w) /\ w = q \o b.pat \o r
    <3>1. r = From(w, i + Len(b.pat))
      BY <2>3, <2>6
    <3>2. /\ SubSeq(w, 1, i) \in Seq(STRING) /\ Len(SubSeq(w, 1, i)) < Len(w)
          /\ From(w, i + Len(b.pat)) \in Seq(STRING) /\ Len(From(w, i + Len(b.pat))) < Len(w)
          /\ w = SubSeq(w, 1, i) \o b.pat \o From(w, i + Len(b.pat))
      BY <1>0, <2>2, MiddleParts
    <3>3. QED
      BY <2>6, <3>1, <3>2
  <2>9. PartOf(b, w, q)
    <3>1. w \in {q \o b.pat \o From(w, j) : j \in 0 .. Len(w)}
      BY <2>3, <2>4, <2>6, <2>8
    <3>2. QED
      BY <2>8, <3>1 DEF PartOf
  <2>10. PartOf(b, w, r)
    <3>1. w \in {SubSeq(w, 1, j) \o b.pat \o r : j \in 0 .. Len(w)}
      BY <2>3, <2>4, <2>6, <2>8
    <3>2. QED
      BY <2>8, <3>1 DEF PartOf
  <2>11. QED
    BY <2>7, <2>8, <2>9, <2>10
<1>4. QED
  BY <1>0, <1>1, <1>2, <1>3 DEF Kinds

-------------------------------------------------------------------------------
(* The stack of spell_break. *)

(* The call c waits for what is said of one of its parts. *)
Judging(b, c) ==
  /\ c.brk \in 1 .. Len(b) /\ Applies(b[c.brk], c.w)
  /\ c.part \in 1 .. Len(Parts(b[c.brk], c.w))

Link(b, up, c) == Judging(b, up) /\ c.w = Parts(b[up.brk], up.w)[up.part]

(* The calls fit, and each but the first looks at a part of the word of    *)
(* the call above it.                                                      *)
Chain(b, st, text) ==
  /\ st \in Seq(CallType) /\ Len(st) <= DepthLimit + 1
  /\ \A k \in 1 .. Len(st) : Len(st[k].w) < Width /\ st[k].brk <= Len(b) + 1
  /\ st # << >> => st[1].w = text
  /\ \A k \in 1 .. Len(st) - 1 : Link(b, st[k], st[k + 1])

(* The deepest call: at the limit it never gets to the patterns. *)
TopFits(b, c, n, r) ==
  /\ IF r = "none" THEN c.part = 0 ELSE Judging(b, c)
  /\ n = DepthLimit + 1 => c.brk = 0

Stack(b, st, r, text) ==
  /\ Chain(b, st, text)
  /\ st # << >> => TopFits(b, st[Len(st)], Len(st), r)

LEMMA JudgingFacts ==
  ASSUME NEW b \in Seq(BreakType), NEW c \in CallType, Len(c.w) < Width, Judging(b, c),
         NEW q, q = Parts(b[c.brk], c.w)[c.part]
  PROVE  /\ c.brk \in 1 .. Len(b) /\ c.part \in 1 .. 2
         /\ PartOf(b[c.brk], c.w, q)
<1>1. c.w \in Seq(STRING) /\ c.brk \in 1 .. Len(b)
  BY DEF CallType, Judging
<1>2. PICK d \in BreakType : d = b[c.brk]
  BY <1>1
<1>3. Applies(d, c.w) /\ c.part \in 1 .. Len(Parts(d, c.w))
  BY <1>2 DEF Judging
<1>4. /\ Len(Parts(d, c.w)) \in 1 .. 2
      /\ \A k \in 1 .. Len(Parts(d, c.w)) : PartOf(d, c.w, Parts(d, c.w)[k])
  BY <1>1, <1>3, PartsFacts
<1>5. PartOf(d, c.w, Parts(d, c.w)[c.part])
  BY <1>3, <1>4
<1>6. c.part \in 1 .. 2
  BY <1>3, <1>4
<1>7. QED
  BY <1>1, <1>2, <1>5, <1>6

LEMMA ChainTop ==
  ASSUME NEW b, NEW st, NEW text, Chain(b, st, text), st # << >>
  PROVE  /\ Len(st) \in Nat \ {0} /\ Len(st) \in DOMAIN st
         /\ st[Len(st)] \in CallType /\ Len(st[Len(st)].w) < Width
         /\ st[Len(st)].brk <= Len(b) + 1
<1>1. st \in Seq(CallType)
  BY DEF Chain
<1>2. Len(st) \in Nat \ {0} /\ DOMAIN st = 1 .. Len(st)
  BY <1>1
<1>3. Len(st) \in 1 .. Len(st)
  BY <1>2
<1>4. QED
  BY <1>1, <1>2, <1>3 DEF Chain

(* Only the place of the deepest call changes. *)
MayChange(b, st, text, c) ==
  /\ Chain(b, st, text) /\ st # << >>
  /\ c \in CallType /\ c.w = st[Len(st)].w /\ c.brk <= Len(b) + 1

Changed(b, st, text, c, u) ==
  Chain(b, u, text) /\ u # << >> /\ Len(u) = Len(st) /\ u[Len(st)] = c

LEMMA ChainChange ==
  ASSUME NEW b, NEW st, NEW text, NEW c, MayChange(b, st, text, c)
  PROVE  Changed(b, st, text, c, [st EXCEPT ![Len(st)] = c])
<1>0. PICK u : u = [st EXCEPT ![Len(st)] = c]
  OBVIOUS
<1> USE DEF MayChange
<1>1. PICK n \in Nat \ {0} : n = Len(st)
  BY ChainTop
<1>2. st \in Seq(CallType) /\ n \in 1 .. n
  BY <1>1 DEF Chain
<1>3. /\ u \in Seq(CallType) /\ Len(u) = n
      /\ \A j \in 1 .. n : u[j] = IF j = n THEN c ELSE st[j]
  BY <1>0, <1>1, <1>2, ExceptSeq
<1>4. u # << >> /\ u[n] = c
  BY <1>1, <1>2, <1>3
<1>5. ASSUME NEW k \in 1 .. n PROVE Len(u[k].w) < Width /\ u[k].brk <= Len(b) + 1
  <2>1. Len(st[k].w) < Width /\ st[k].brk <= Len(b) + 1
    BY <1>1 DEF Chain
  <2>2. CASE k = n
    BY <1>1, <1>4, <2>1, <2>2
  <2>3. CASE k # n
    BY <1>3, <2>1, <2>3
  <2>4. QED
    BY <2>2, <2>3
<1>6. u[1].w = text
  <2>1. st[1].w = text
    BY DEF Chain
  <2>2. 1 \in 1 .. n
    BY <1>1
  <2>3. CASE n = 1
    BY <1>1, <1>4, <2>1, <2>3
  <2>4. CASE n # 1
    BY <1>3, <2>1, <2>2, <2>4
  <2>5. QED
    BY <2>3, <2>4
<1>7. ASSUME NEW k \in 1 .. n - 1 PROVE Link(b, u[k], u[k + 1])
  <2>1. Link(b, st[k], st[k + 1])
    BY <1>1 DEF Chain
  <2>2. k \in 1 .. n /\ k + 1 \in 1 .. n /\ k # n
    BY <1>1
  <2>3. u[k] = st[k]
    BY <1>3, <2>2
  <2>4. u[k + 1].w = st[k + 1].w
    <3>1. CASE k + 1 = n
      BY <1>1, <1>4, <3>1
    <3>2. CASE k + 1 # n
      BY <1>3, <2>2, <3>2
    <3>3. QED
      BY <3>1, <3>2
  <2>5. QED
    BY <2>1, <2>3, <2>4 DEF Link
<1>8. n <= DepthLimit + 1
  BY <1>1 DEF Chain
<1>9. Chain(b, u, text)
  BY <1>3, <1>5, <1>6, <1>7, <1>8 DEF Chain
<1>10. QED
  BY <1>0, <1>1, <1>3, <1>4, <1>9 DEF Changed

(* A part is checked by one more call. *)
LEMMA ChainPush ==
  ASSUME NEW b \in Seq(BreakType), NEW st, NEW text, Chain(b, st, text), st # << >>,
         Len(st) # DepthLimit + 1, Judging(b, st[Len(st)]),
         NEW q, q = Parts(b[st[Len(st)].brk], st[Len(st)].w)[st[Len(st)].part]
  PROVE  Stack(b, Append(st, Call(q)), "none", text)
<1>1. PICK n \in Nat \ {0} : n = Len(st)
  BY ChainTop
<1>2. PICK c \in CallType : c = st[n] /\ Len(c.w) < Width
  BY <1>1, ChainTop
<1>3. PartOf(b[c.brk], c.w, q)
  BY <1>1, <1>2, JudgingFacts
<1>4. q \in Seq(STRING) /\ Len(q) < Width
  <2>1. q \in Seq(STRING) /\ Len(q) < Len(c.w)
    BY <1>3 DEF PartOf
  <2>2. Len(q) \in Nat /\ Len(c.w) \in Nat /\ Width \in Nat
    BY <2>1, WidthAssumption DEF CallType
  <2>3. QED
    BY <1>2, <2>1, <2>2
<1>5. PICK e \in CallType : e = Call(q) /\ e.w = q /\ e.brk = 0 /\ e.part = 0
  <2>1. Call(q) \in CallType
    BY <1>4 DEF Call, CallType
  <2>2. Call(q).w = q /\ Call(q).brk = 0 /\ Call(q).part = 0
    BY DEF Call
  <2>3. QED
    BY <2>1, <2>2
<1>6. PICK u : u = Append(st, e)
  OBVIOUS
<1>7. /\ u \in Seq(CallType) /\ u # << >> /\ Len(u) = n + 1
      /\ \A j \in 1 .. n : u[j] = st[j]
      /\ u[n + 1] = e
  <2>1. st \in Seq(CallType)
    BY DEF Chain
  <2>2. QED
    BY <1>1, <1>6, <2>1, AppendProperties
<1>8. n + 1 <= DepthLimit + 1
  <2>1. n <= DepthLimit + 1 /\ n # DepthLimit + 1
    BY <1>1 DEF Chain
  <2>2. QED
    BY <2>1, DepthAssumption
<1>9. ASSUME NEW k \in 1 .. n + 1 PROVE Len(u[k].w) < Width /\ u[k].brk <= Len(b) + 1
  <2>1. CASE k = n + 1
    <3>1. Len(b) \in Nat
      OBVIOUS
    <3>2. QED
      BY <1>4, <1>5, <1>7, <2>1, <3>1
  <2>2. CASE k # n + 1
    <3>1. k \in 1 .. n
      BY <2>2
    <3>2. QED
      BY <1>1, <1>7, <3>1 DEF Chain
  <2>3. QED
    BY <2>1, <2>2
<1>10. u[1].w = text
  <2>1. 1 \in 1 .. n
    OBVIOUS
  <2>2. QED
    BY <1>7, <2>1 DEF Chain
<1>11. ASSUME NEW k \in 1 .. n PROVE Link(b, u[k], u[k + 1])
  <2>1. CASE k = n
    BY <1>1, <1>2, <1>5, <1>7, <2>1 DEF Link
  <2>2. CASE k # n
    <3>1. k \in 1 .. n - 1 /\ k + 1 \in 1 .. n
      BY <2>2
    <3>2. Link(b, st[k], st[k + 1])
      BY <1>1, <3>1 DEF Chain
    <3>3. QED
      BY <1>7, <3>1, <3>2
  <2>3. QED
    BY <2>1, <2>2
<1>12. Chain(b, u, text)
  <2>1. (n + 1) - 1 = n
    OBVIOUS
  <2>2. QED
    BY <1>7, <1>8, <1>9, <1>10, <1>11, <2>1 DEF Chain
<1>13. TopFits(b, e, n + 1, "none")
  BY <1>5 DEF TopFits
<1>14. QED
  BY <1>5, <1>6, <1>7, <1>12, <1>13 DEF Stack

(* The deepest call returns to the one that waits for it. *)
LEMMA ChainPop ==
  ASSUME NEW b \in Seq(BreakType), NEW st, NEW text, Chain(b, st, text), st # << >>,
         NEW r, r # "none"
  PROVE  Stack(b, Front(st), r, text)
<1>1. PICK n \in Nat \ {0} : n = Len(st)
  BY ChainTop
<1>2. st \in Seq(CallType)
  BY DEF Chain
<1>3. PICK u : u = Front(st)
  OBVIOUS
<1>4. /\ u \in Seq(CallType) /\ Len(u) = n - 1
      /\ \A k \in 1 .. n - 1 : u[k] = st[k]
  BY <1>1, <1>2, <1>3, FrontFacts
<1>5. n - 1 <= DepthLimit /\ n - 1 <= DepthLimit + 1 /\ n - 1 # DepthLimit + 1
  <2>1. n <= DepthLimit + 1
    BY <1>1 DEF Chain
  <2>2. QED
    BY <2>1, DepthAssumption
<1>6. ASSUME NEW k \in 1 .. n - 1 PROVE Len(u[k].w) < Width /\ u[k].brk <= Len(b) + 1
  BY <1>1, <1>4 DEF Chain
<1>7. u # << >> => u[1].w = text
  <2>1. HAVE u # << >>
  <2>2. n - 1 # 0
    BY <1>4, <2>1
  <2>3. 1 \in 1 .. n - 1
    BY <2>2
  <2>4. QED
    BY <1>4, <2>3 DEF Chain
<1>8. ASSUME NEW k \in 1 .. n - 1 - 1 PROVE Link(b, u[k], u[k + 1])
  <2>1. k \in 1 .. n - 1 /\ k + 1 \in 1 .. n - 1
    OBVIOUS
  <2>2. QED
    BY <1>1, <1>4, <2>1 DEF Chain
<1>9. Chain(b, u, text)
  BY <1>4, <1>5, <1>6, <1>7, <1>8 DEF Chain
<1>10. u # << >> => TopFits(b, u[Len(u)], Len(u), r)
  <2>1. HAVE u # << >>
  <2>2. n - 1 # 0
    BY <1>4, <2>1
  <2>3. n - 1 \in 1 .. n - 1
    BY <2>2
  <2>4. Link(b, st[n - 1], st[(n - 1) + 1])
    BY <1>1, <2>3 DEF Chain
  <2>5. Judging(b, u[n - 1])
    BY <1>4, <2>3, <2>4 DEF Link
  <2>6. QED
    BY <1>4, <1>5, <2>5 DEF TopFits
<1>11. QED
  BY <1>3, <1>9, <1>10 DEF Stack

-------------------------------------------------------------------------------
(* The invariant. *)

LEMMA LastNotFacts ==
  ASSUME NEW w \in Seq(STRING), NEW c, w # << >>, Last(w) = c
  PROVE  LastNot(w, c) \in 0 .. Len(w) - 1
<1> DEFINE others == {i \in DOMAIN w : w[i] # c}
<1>1. PICK n \in Nat \ {0} : n = Len(w)
  OBVIOUS
<1>2. others \in SUBSET (1 .. n - 1)
  BY <1>1 DEF Last
<1>3. CASE others = {}
  BY <1>1, <1>3 DEF LastNot
<1>4. CASE others # {}
  <2>1. n - 1 \in Nat
    OBVIOUS
  <2>2. \E i \in others : \A j \in others : j <= i
    BY <1>2, <1>4, <2>1, GreatestIndex
  <2>3. LastNot(w, c) = CHOOSE i \in others : \A j \in others : j <= i
    BY <1>4 DEF LastNot
  <2>4. LastNot(w, c) \in others
    BY <2>2, <2>3
  <2>5. QED
    BY <1>1, <1>2, <2>4
<1>5. QED
  BY <1>3, <1>4

(* The values of spell_priv; a period that was trimmed leaves room for it. *)
Plain ==
  /\ breaks \in Seq(BreakType) /\ input \in Inputs
  /\ s \in Seq(STRING) /\ Len(s) < Width
  /\ period \in BOOLEAN /\ (period => Len(s) + 1 < Width)
  /\ ret \in {"none", "yes", "no"} /\ pc \in {"start", "breaks", "done"}
  /\ pc = "start" => s = input /\ ~period /\ calls = << >> /\ ret = "none"

IInv == Plain /\ Stack(breaks, calls, ret, s)

LEMMA EmptyStack ==
  ASSUME NEW b, NEW r, NEW text
  PROVE  Stack(b, << >>, r, text)
<1>1. Len(<< >>) = 0 /\ << >> \in Seq(CallType) /\ 0 <= DepthLimit + 1
  BY DepthAssumption
<1>2. QED
  BY <1>1 DEF Stack, Chain

LEMMA FirstCall ==
  ASSUME NEW b \in Seq(BreakType), NEW text \in Seq(STRING), Len(text) < Width
  PROVE  Stack(b, <<Call(text)>>, "none", text)
<1>1. Call(text) \in CallType
  BY DEF Call, CallType
<1>2. PICK c \in CallType : c = Call(text) /\ c.w = text /\ c.brk = 0 /\ c.part = 0
  BY <1>1 DEF Call
<1>3. PICK u : u = <<c>>
  OBVIOUS
<1>4. u \in Seq(CallType) /\ Len(u) = 1 /\ u[1] = c
  BY <1>3
<1>5. 1 <= DepthLimit + 1 /\ 0 <= Len(b) + 1
  BY DepthAssumption
<1>6. Chain(b, u, text)
  <2>1. \A k \in 1 .. 1 : Len(u[k].w) < Width /\ u[k].brk <= Len(b) + 1
    BY <1>2, <1>4, <1>5
  <2>2. 1 .. 1 - 1 = {}
    OBVIOUS
  <2>3. QED
    BY <1>2, <1>4, <1>5, <2>1, <2>2 DEF Chain
<1>7. TopFits(b, c, 1, "none")
  BY <1>2 DEF TopFits
<1>8. QED
  BY <1>2, <1>3, <1>4, <1>6, <1>7 DEF Stack

LEMMA InitIInv == Init => IInv
<1>1. HAVE Init
<1>2. breaks \in Seq(BreakType)
  BY <1>1, TextAssumption, BreaksTyped DEF Init
<1>3. Stack(breaks, calls, ret, s)
  BY <1>1, EmptyStack DEF Init
<1>4. QED
  BY <1>1, <1>2, <1>3, TextAssumption DEF Init, IInv, Plain

LEMMA StartIInv == IInv /\ Start => IInv'
<1>1. HAVE IInv /\ Start
<1> DEFINE dot == s # << >> /\ Last(s) = "."
           t == IF dot THEN SubSeq(s, 1, LastNot(s, ".")) ELSE s
<1>2. /\ breaks' = breaks /\ input' = input /\ Plain /\ pc = "start"
      /\ breaks \in Seq(BreakType) /\ calls = << >> /\ ret = "none" /\ ~period
      /\ s \in Seq(STRING) /\ Len(s) < Width /\ period \in BOOLEAN
  BY <1>1 DEF IInv, Plain, Start
<1>3. PICK n \in Nat : n = Len(s)
  BY <1>2
<1>4. /\ t \in Seq(STRING) /\ Len(t) < Width
      /\ dot => Len(t) + 1 < Width
  <2>1. CASE dot
    <3>1. PICK m : m = LastNot(s, ".")
      OBVIOUS
    <3>2. m \in 0 .. n - 1
      BY <1>2, <1>3, <2>1, <3>1, LastNotFacts
    <3>3. SubSeq(s, 1, m) \in Seq(STRING) /\ Len(SubSeq(s, 1, m)) = m
      BY <1>2, <1>3, <3>2
    <3>4. t = SubSeq(s, 1, m)
      BY <2>1, <3>1
    <3>5. m < Width /\ m + 1 < Width
      BY <1>2, <1>3, <3>2, WidthAssumption
    <3>6. QED
      BY <3>3, <3>4, <3>5
  <2>2. CASE ~dot
    <3>1. t = s
      BY <2>2
    <3>2. QED
      BY <1>2, <2>2, <3>1
  <2>3. QED
    BY <2>1, <2>2
<1>5. PICK d \in BOOLEAN : d <=> dot
  OBVIOUS
<1>6. PICK w : w = t
  OBVIOUS
<1>7. \/ /\ s' = w /\ ret' = "yes" /\ pc' = "done" /\ period' = period /\ calls' = calls
      \/ /\ s' = EraseIgnored(w) /\ period' = dot /\ calls' = <<Call(s')>>
         /\ pc' = "breaks" /\ ret' = ret
  BY <1>1, <1>6 DEF Start
<1>8. w \in Seq(STRING) /\ Len(w) < Width /\ (dot => Len(w) + 1 < Width)
  BY <1>4, <1>6
<1> HIDE DEF dot, t
<1>9. CASE /\ s' = w /\ ret' = "yes" /\ pc' = "done" /\ period' = period /\ calls' = calls
  <2>1. Stack(breaks', calls', ret', s')
    BY <1>2, <1>9, EmptyStack
  <2>2. Plain'
    BY <1>2, <1>8, <1>9 DEF Plain
  <2>3. QED
    BY <2>1, <2>2 DEF IInv
<1>10. CASE /\ s' = EraseIgnored(w) /\ period' = dot /\ calls' = <<Call(s')>>
            /\ pc' = "breaks" /\ ret' = ret
  <2>1. s' \in Seq(STRING) /\ Len(s') <= Len(w)
    <3>1. /\ Select(w, ToSet(w) \ Ignored) \in Seq(STRING \cap (ToSet(w) \ Ignored))
          /\ Len(Select(w, ToSet(w) \ Ignored)) <= Len(w)
      BY <1>8, SelectFacts
    <3>2. QED
      BY <1>10, <3>1 DEF EraseIgnored
  <2>2. Len(s') < Width /\ (dot => Len(s') + 1 < Width)
    <3>1. Len(s') \in Nat /\ Len(w) \in Nat /\ Width \in Nat
      BY <1>8, <2>1, WidthAssumption
    <3>2. QED
      BY <1>8, <2>1, <3>1
  <2>3. Stack(breaks', calls', ret', s')
    BY <1>2, <1>10, <2>1, <2>2, FirstCall
  <2>4. period' \in BOOLEAN /\ (period' => Len(s') + 1 < Width)
    BY <1>5, <1>10, <2>2
  <2>5. Plain'
    BY <1>2, <1>10, <2>1, <2>2, <2>4 DEF Plain
  <2>6. QED
    BY <2>3, <2>5 DEF IInv
<1>11. QED
  BY <1>7, <1>9, <1>10

(* What every step of spell_break knows of the deepest call. *)
LEMMA TopKnown ==
  ASSUME IInv, pc = "breaks", calls # << >>
  PROVE  /\ breaks \in Seq(BreakType) /\ Chain(breaks, calls, s)
         /\ Depth \in Nat \ {0} /\ Depth \in DOMAIN calls
         /\ Top \in CallType /\ Len(Top.w) < Width /\ Top.brk <= Len(breaks) + 1
         /\ TopFits(breaks, Top, Depth, ret)
<1>1. breaks \in Seq(BreakType) /\ Stack(breaks, calls, ret, s)
  BY DEF IInv, Plain
<1>2. Chain(breaks, calls, s)
  BY <1>1 DEF Stack
<1>3. QED
  BY <1>1, <1>2, ChainTop DEF Stack, Top, Depth

(* A step of spell_break changes the stack and the value returned only. *)
LEMMA Frame ==
  ASSUME IInv, pc = "breaks", UNCHANGED <<dic, breaks, input, s, period, pc>>,
         ret' \in {"none", "yes", "no"}, Stack(breaks, calls', ret', s)
  PROVE  IInv'
<1>1. Plain'
  BY DEF IInv, Plain
<1>2. QED
  BY <1>1 DEF IInv

LEMMA ReturnIInv ==
  ASSUME IInv, pc = "breaks", calls # << >>, NEW value \in {"yes", "no"}, Return(value),
         UNCHANGED <<dic, breaks, input, s, period, pc>>
  PROVE  IInv'
<1>1. Stack(breaks, Front(calls), value, s)
  BY TopKnown, ChainPop
<1>2. calls' = Front(calls) /\ ret' = value
  BY DEF Return
<1>3. QED
  BY <1>1, <1>2, Frame

(* The next pattern is tried, after one that there was, or at the start.   *)
LEMMA NextBreakIInv ==
  ASSUME IInv, pc = "breaks", calls # << >>, Top.brk <= Len(breaks), Depth # DepthLimit + 1,
         NextBreak, ret' = "none", UNCHANGED <<dic, breaks, input, s, period, pc>>
  PROVE  IInv'
<1>1. /\ breaks \in Seq(BreakType) /\ Chain(breaks, calls, s)
      /\ Depth \in Nat \ {0} /\ Depth \in DOMAIN calls /\ Top \in CallType
  BY TopKnown
<1>2. PICK c : c = [Top EXCEPT !.brk = Top.brk + 1, !.part = 0]
  OBVIOUS
<1>3. c \in CallType /\ c.w = Top.w /\ c.brk = Top.brk + 1 /\ c.part = 0
  <2>1. PICK d : d = [Top EXCEPT !.brk = Top.brk + 1]
    OBVIOUS
  <2>2. Top.brk \in Nat /\ Top.brk + 1 \in Nat
    BY <1>1 DEF CallType
  <2>3. d \in CallType /\ d.w = Top.w /\ d.brk = Top.brk + 1
    BY <1>1, <2>1, <2>2 DEF CallType
  <2>4. c = [d EXCEPT !.part = 0]
    BY <1>2, <2>1
  <2>5. QED
    BY <2>3, <2>4 DEF CallType
<1>4. calls' = [calls EXCEPT ![Depth] = c]
  BY <1>1, <1>2 DEF NextBreak, Top
<1>5. c.brk <= Len(breaks) + 1
  BY <1>1, <1>3 DEF CallType
<1>6. /\ Chain(breaks, calls', s) /\ calls' # << >>
      /\ Len(calls') = Depth /\ calls'[Depth] = c
  <2>1. MayChange(breaks, calls, s, c)
    BY <1>1, <1>3, <1>5 DEF MayChange, Top, Depth
  <2>2. Changed(breaks, calls, s, c, calls')
    BY <1>4, <2>1, ChainChange DEF Depth
  <2>3. QED
    BY <2>2 DEF Changed, Depth
<1>7. TopFits(breaks, c, Depth, "none")
  BY <1>3 DEF TopFits
<1>8. Stack(breaks, calls', "none", s)
  BY <1>6, <1>7 DEF Stack
<1>9. QED
  BY <1>8, Frame

(* The part number n of the deepest call is checked by a call of its own. *)
LEMMA CheckPart ==
  ASSUME IInv, pc = "breaks", calls # << >>, Depth # DepthLimit + 1,
         Top.brk \in 1 .. Len(breaks), Applies(breaks[Top.brk], Top.w),
         NEW n \in 1 .. Len(Parts(breaks[Top.brk], Top.w)),
         calls' = Append([calls EXCEPT ![Depth].part = n],
                         Call(Parts(breaks[Top.brk], Top.w)[n])),
         ret' = "none", UNCHANGED <<dic, breaks, input, s, period, pc>>
  PROVE  IInv'
<1>1. /\ breaks \in Seq(BreakType) /\ Chain(breaks, calls, s)
      /\ Depth \in Nat \ {0} /\ Depth \in DOMAIN calls /\ Top \in CallType
      /\ Top.brk <= Len(breaks) + 1
  BY TopKnown
<1>2. PICK c : c = [Top EXCEPT !.part = n]
  OBVIOUS
<1>3. n \in Nat
  <2>1. Len(Top.w) < Width /\ Top.w \in Seq(STRING) /\ breaks[Top.brk] \in BreakType
    BY <1>1, TopKnown DEF CallType
  <2>2. Len(Parts(breaks[Top.brk], Top.w)) \in 1 .. 2
    BY <2>1, PartsFacts
  <2>3. QED
    BY <2>2
<1>4. c \in CallType /\ c.w = Top.w /\ c.brk = Top.brk /\ c.part = n
  <2>1. PICK m \in Nat : m = n
    BY <1>3
  <2>2. c = [Top EXCEPT !.part = m]
    BY <1>2, <2>1
  <2>3. c \in CallType /\ c.w = Top.w /\ c.brk = Top.brk /\ c.part = m
    BY <1>1, <2>2 DEF CallType
  <2>4. QED
    BY <2>1, <2>3
<1>5. PICK u : u = [calls EXCEPT ![Depth] = c]
  OBVIOUS
<1>6. u = [calls EXCEPT ![Depth].part = n]
  BY <1>1, <1>2, <1>5 DEF Top
<1>7. /\ Chain(breaks, u, s) /\ u # << >>
      /\ Len(u) = Depth /\ u[Depth] = c
  <2>1. MayChange(breaks, calls, s, c)
    BY <1>1, <1>4 DEF MayChange, Top, Depth
  <2>2. Changed(breaks, calls, s, c, u)
    BY <1>5, <2>1, ChainChange DEF Depth
  <2>3. QED
    BY <2>2 DEF Changed, Depth
<1>8. Judging(breaks, c)
  BY <1>4 DEF Judging
<1>9. PICK q : q = Parts(breaks[Top.brk], Top.w)[n]
  OBVIOUS
<1>10. Stack(breaks, Append(u, Call(q)), "none", s)
  <2>1. u[Len(u)] = c /\ Len(u) # DepthLimit + 1
    BY <1>7
  <2>2. q = Parts(breaks[u[Len(u)].brk], u[Len(u)].w)[u[Len(u)].part]
    BY <1>4, <1>9, <2>1
  <2>3. QED
    BY <1>1, <1>7, <1>8, <2>1, <2>2, ChainPush
<1>11. calls' = Append(u, Call(q))
  BY <1>6, <1>9
<1>12. QED
  BY <1>10, <1>11, Frame

LEMMA TestCasingIInv == IInv /\ TestCasing => IInv'
<1>1. SUFFICES ASSUME IInv, TestCasing PROVE IInv'
  OBVIOUS
<1>2. /\ pc = "breaks" /\ calls # << >> /\ ret = "none" /\ Top.brk = 0
      /\ UNCHANGED <<dic, breaks, input, s, period, pc>>
  BY <1>1 DEF TestCasing
<1>3. CASE \E value \in {"yes", "no"} : Return(value)
  BY <1>1, <1>2, <1>3, ReturnIInv
<1>4. CASE Depth # DepthLimit + 1 /\ NextBreak /\ ret' = ret
  <2>1. Top.brk <= Len(breaks)
    <3>1. Len(breaks) \in Nat
      BY <1>1, <1>2, TopKnown
    <3>2. QED
      BY <1>2, <3>1
  <2>2. QED
    BY <1>1, <1>2, <1>4, <2>1, NextBreakIInv
<1>5. QED
  BY <1>1, <1>3, <1>4 DEF TestCasing

LEMMA TryBreakIInv == IInv /\ TryBreak => IInv'
<1>1. SUFFICES ASSUME IInv, TryBreak PROVE IInv'
  OBVIOUS
<1>2. /\ pc = "breaks" /\ calls # << >> /\ ret = "none" /\ Top.brk \in DOMAIN breaks
      /\ UNCHANGED <<dic, breaks, input, s, period, pc>> /\ ret' = "none"
  BY <1>1 DEF TryBreak
<1>3. breaks \in Seq(BreakType) /\ TopFits(breaks, Top, Depth, ret)
  BY <1>1, <1>2, TopKnown
<1>4. Top.brk \in 1 .. Len(breaks) /\ Top.brk <= Len(breaks) /\ Top.brk # 0
  BY <1>2, <1>3
<1>5. Depth # DepthLimit + 1
  BY <1>3, <1>4 DEF TopFits
<1>6. CASE ~ Applies(breaks[Top.brk], Top.w)
  <2>1. NextBreak
    BY <1>1, <1>6 DEF TryBreak
  <2>2. QED
    BY <1>1, <1>2, <1>4, <1>5, <2>1, NextBreakIInv
<1>7. CASE Applies(breaks[Top.brk], Top.w)
  <2>1. calls' = Append([calls EXCEPT ![Depth].part = 1],
                        Call(Parts(breaks[Top.brk], Top.w)[1]))
    BY <1>1, <1>7 DEF TryBreak
  <2>2. 1 \in 1 .. Len(Parts(breaks[Top.brk], Top.w))
    <3>1. Len(Top.w) < Width /\ Top.w \in Seq(STRING) /\ breaks[Top.brk] \in BreakType
      BY <1>1, <1>2, <1>3, <1>4, TopKnown DEF CallType
    <3>2. Len(Parts(breaks[Top.brk], Top.w)) \in 1 .. 2
      BY <1>7, <3>1, PartsFacts
    <3>3. PICK l \in 1 .. 2 : l = Len(Parts(breaks[Top.brk], Top.w))
      BY <3>2
    <3>4. 1 \in 1 .. l
      OBVIOUS
    <3>5. QED
      BY <3>3, <3>4
  <2>3. QED
    BY <1>1, <1>2, <1>4, <1>5, <1>7, <2>1, <2>2, CheckPart
<1>8. QED
  BY <1>6, <1>7

LEMMA OutOfBreaksIInv == IInv /\ OutOfBreaks => IInv'
<1>1. SUFFICES ASSUME IInv, OutOfBreaks PROVE IInv'
  OBVIOUS
<1>2. QED
  BY <1>1, ReturnIInv DEF OutOfBreaks

LEMMA PartJudgedIInv == IInv /\ PartJudged => IInv'
<1>1. SUFFICES ASSUME IInv, PartJudged PROVE IInv'
  OBVIOUS
<1>2. /\ pc = "breaks" /\ calls # << >> /\ ret # "none"
      /\ UNCHANGED <<dic, breaks, input, s, period, pc>>
  BY <1>1 DEF PartJudged
<1>3. breaks \in Seq(BreakType) /\ TopFits(breaks, Top, Depth, ret)
        /\ Top \in CallType /\ Len(Top.w) < Width
  BY <1>1, <1>2, TopKnown
<1>4. Judging(breaks, Top)
  BY <1>2, <1>3 DEF TopFits
<1>5. /\ Top.brk \in 1 .. Len(breaks) /\ Applies(breaks[Top.brk], Top.w)
      /\ Top.part \in 1 .. Len(Parts(breaks[Top.brk], Top.w))
  BY <1>4 DEF Judging
<1>6. Top.brk # 0 /\ Top.brk <= Len(breaks)
  BY <1>3, <1>5
<1>7. Depth # DepthLimit + 1
  BY <1>3, <1>6 DEF TopFits
<1>8. CASE ret = "no"
  <2>1. NextBreak /\ ret' = "none"
    BY <1>1, <1>8 DEF PartJudged
  <2>2. QED
    BY <1>1, <1>2, <1>6, <1>7, <2>1, NextBreakIInv
<1>9. CASE ret # "no" /\ Top.part = Len(Parts(breaks[Top.brk], Top.w))
  <2>1. Return("yes")
    BY <1>1, <1>9 DEF PartJudged
  <2>2. QED
    BY <1>1, <1>2, <2>1, ReturnIInv
<1>10. CASE ret # "no" /\ Top.part # Len(Parts(breaks[Top.brk], Top.w))
  <2>1. PICK n : n = Top.part + 1
    OBVIOUS
  <2>2. /\ calls' = Append([calls EXCEPT ![Depth].part = n],
                           Call(Parts(breaks[Top.brk], Top.w)[n]))
        /\ ret' = "none"
    BY <1>1, <1>10, <2>1 DEF PartJudged, Top
  <2>3. n \in 1 .. Len(Parts(breaks[Top.brk], Top.w))
    <3>1. Top.w \in Seq(STRING) /\ breaks[Top.brk] \in BreakType
      BY <1>3, <1>5 DEF CallType
    <3>2. Len(Parts(breaks[Top.brk], Top.w)) \in 1 .. 2
      BY <1>3, <1>5, <3>1, PartsFacts
    <3>3. QED
      BY <1>5, <1>10, <2>1, <3>2
  <2>4. QED
    BY <1>1, <1>2, <1>5, <1>7, <2>2, <2>3, CheckPart
<1>11. QED
  BY <1>8, <1>9, <1>10

LEMMA WordJudgedIInv == IInv /\ WordJudged => IInv'
<1>1. SUFFICES ASSUME IInv, WordJudged PROVE IInv'
  OBVIOUS
<1>2. /\ pc = "breaks" /\ calls = << >> /\ UNCHANGED <<dic, breaks, input>>
      /\ Plain /\ breaks \in Seq(BreakType) /\ s \in Seq(STRING)
  BY <1>1 DEF WordJudged, IInv, Plain
<1>3. CASE ret = "no" /\ period
  <2>1. s' = Append(s, ".") /\ period' = FALSE /\ calls' = <<Call(s')>>
          /\ ret' = "none" /\ pc' = pc
    BY <1>1, <1>3 DEF WordJudged
  <2>2. s' \in Seq(STRING) /\ Len(s') = Len(s) + 1
    <3>1. PICK v \in Seq(STRING) : v = s
      BY <1>2
    <3>2. Append(v, ".") \in Seq(STRING) /\ Len(Append(v, ".")) = Len(v) + 1
      <4>1. "." \in STRING
        BY PeriodAssumption
      <4>2. QED
        BY <4>1, AppendProperties
    <3>3. QED
      BY <2>1, <3>1, <3>2
  <2>3. Len(s') < Width
    BY <1>2, <1>3, <2>2 DEF Plain
  <2>4. Stack(breaks', calls', ret', s')
    BY <1>2, <2>1, <2>2, <2>3, FirstCall
  <2>5. Plain'
    BY <1>2, <2>1, <2>2, <2>3 DEF Plain
  <2>6. QED
    BY <2>4, <2>5 DEF IInv
<1>4. CASE ~ (ret = "no" /\ period)
  <2>1. pc' = "done" /\ UNCHANGED <<s, period, calls, ret>>
    BY <1>1, <1>4 DEF WordJudged
  <2>2. Plain'
    BY <1>2, <2>1 DEF Plain
  <2>3. QED
    BY <1>1, <1>2, <2>1, <2>2 DEF IInv
<1>5. QED
  BY <1>3, <1>4

LEMMA NextIInv == IInv /\ [Next]_vars => IInv'
<1>1. HAVE IInv /\ [Next]_vars
<1>2. CASE UNCHANGED vars
  BY <1>1, <1>2 DEF IInv, Plain, vars
<1>3. CASE Next
  BY <1>1, <1>3, StartIInv, TestCasingIInv, TryBreakIInv, OutOfBreaksIInv,
     PartJudgedIInv, WordJudgedIInv DEF Next
<1>4. QED
  BY <1>1, <1>2, <1>3

(* The recursion of spell_break stays within its limit, its calls within   *)
(* the table of break patterns, and every call that waits is at a pattern  *)
(* that applies to its word.                                               *)
THEOREM SpellWordIInv == Spec => []IInv
<1>1. QED
  BY InitIInv, NextIInv, PTL DEF Spec

LEMMA IInvTypeOK == IInv => TypeOK
<1>1. HAVE IInv
<1>2. Plain /\ Chain(breaks, calls, s) /\ breaks \in Seq(BreakType)
  BY <1>1 DEF IInv, Plain, Stack
<1>3. calls \in Seq(CallType) /\ Len(calls) <= DepthLimit + 1
  BY <1>2 DEF Chain
<1>4. PICK n \in Nat : n = Len(calls)
  BY <1>3
<1>5. DOMAIN calls = 1 .. n
  BY <1>3, <1>4
<1>6. ASSUME NEW k \in 1 .. n
      PROVE  /\ calls[k].brk \in 0 .. Len(breaks) + 1
             /\ calls[k].part \in (IF k < n THEN 1 .. 2 ELSE 0 .. 2)
  <2>1. calls[k] \in CallType /\ Len(calls[k].w) < Width /\ calls[k].brk <= Len(breaks) + 1
    BY <1>2, <1>3, <1>4 DEF Chain
  <2>2. calls[k].brk \in 0 .. Len(breaks) + 1
    BY <1>2, <2>1 DEF CallType
  <2>3. Judging(breaks, calls[k]) => calls[k].part \in 1 .. 2
    BY <1>2, <2>1, JudgingFacts
  <2>4. CASE k < n
    <3>1. k \in 1 .. n - 1
      BY <2>4
    <3>2. Link(breaks, calls[k], calls[k + 1])
      BY <1>2, <1>4, <3>1 DEF Chain
    <3>3. QED
      BY <2>2, <2>3, <2>4, <3>2 DEF Link
  <2>5. CASE ~ (k < n)
    <3>1. k = n /\ calls # << >>
      BY <1>4, <2>5
    <3>2. TopFits(breaks, calls[n], n, ret)
      BY <1>1, <1>4, <3>1 DEF IInv, Stack
    <3>3. calls[k].part = 0 \/ Judging(breaks, calls[k])
      BY <3>1, <3>2 DEF TopFits
    <3>4. QED
      BY <2>2, <2>3, <2>5, <3>3
  <2>6. QED
    BY <2>4, <2>5
<1>7. QED
  BY <1>2, <1>3, <1>4, <1>5, <1>6 DEF TypeOK, Plain

LEMMA IInvParts == IInv => PartsAreOfTheWord
<1>1. HAVE IInv
<1>2. Chain(breaks, calls, s) /\ breaks \in Seq(BreakType)
  BY <1>1 DEF IInv, Plain, Stack
<1>3. calls \in Seq(CallType) /\ (calls # << >> => calls[1].w = s)
  BY <1>2 DEF Chain
<1>4. ASSUME NEW k \in 1 .. Len(calls) - 1
      PROVE  PartOf(breaks[calls[k].brk], calls[k].w, calls[k + 1].w)
  <2>1. Link(breaks, calls[k], calls[k + 1])
    BY <1>2 DEF Chain
  <2>2. k \in 1 .. Len(calls)
    BY <1>3
  <2>3. calls[k] \in CallType /\ Len(calls[k].w) < Width
    BY <1>2, <1>3, <2>2 DEF Chain
  <2>4. QED
    BY <1>2, <2>1, <2>3, JudgingFacts DEF Link
<1>5. TypeOK
  BY <1>1, IInvTypeOK
<1>6. QED
  BY <1>3, <1>4, <1>5 DEF PartsAreOfTheWord, PartOf

(* Every word that spell_break looks at is a proper part of the word it    *)
(* was asked about, cut where a pattern really is: the unsigned test of a  *)
(* middle break never takes npos for a place.                              *)
THEOREM SpellWordParts == Spec => []PartsAreOfTheWord
<1>1. QED
  BY SpellWordIInv, IInvParts, PTL

-------------------------------------------------------------------------------
(* A forbidden word. *)

(* The words that ForbiddenIsRefused speaks of. *)
ForbiddenInput ==
  /\ input # << >>
  /\ input \in DOMAIN Words /\ Forbidden \in Words[input]
  /\ Hidden \notin Words[input] /\ ~IsNumber(input)
  /\ \A i \in DOMAIN input : input[i] \notin Ignored \cup {"."}

(* One call, for the whole word, and then its answer: the word is refused  *)
(* before any pattern is tried, and it has no period to be tried again.    *)
Refusing ==
  ForbiddenInput =>
    /\ pc = "breaks" => /\ ~period
                        /\ \/ calls = <<Call(input)>> /\ ret = "none"
                           \/ calls = << >> /\ ret = "no"
    /\ pc = "done" => ret = "no"

(* The first candidate is taken, whatever the others are. *)
LEMMA FirstCandidate ==
  ASSUME NEW S, NEW fs \in Seq(S), fs # << >>, Found(fs[1])
  PROVE  FirstFound(fs) = fs[1]
<1> DEFINE hits == {i \in DOMAIN fs : Found(fs[i])}
<1>1. 1 \in hits /\ \A j \in hits : 1 <= j /\ j \in Nat
  OBVIOUS
<1>2. PICK a : a = CHOOSE i \in hits : \A j \in hits : i <= j
  OBVIOUS
<1>3. a \in hits /\ \A j \in hits : a <= j
  BY <1>1, <1>2
<1>4. a = 1
  BY <1>1, <1>3
<1>5. FirstFound(fs) = fs[a]
  BY <1>1, <1>2 DEF FirstFound
<1>6. QED
  BY <1>4, <1>5

LEMMA FirstOfThree ==
  ASSUME NEW f, NEW a, NEW b, NEW d, NEW e, NEW t, Found(f), t = << >> \/ t = <<a, b>>
  PROVE  FirstFound(<<f>> \o t \o <<d, e>>) = f
<1>1. PICK S : S = {f, a, b, d, e}
  OBVIOUS
<1>f. f \in S /\ a \in S /\ b \in S /\ d \in S /\ e \in S
  BY <1>1
<1>2. PICK x \in Seq(S) : x = <<f>> /\ Len(x) = 1 /\ x[1] = f
  <2>1. <<f>> \in Seq(S) /\ Len(<<f>>) = 1 /\ <<f>>[1] = f
    BY <1>f
  <2>2. QED
    BY <2>1
<1>3. PICK z \in Seq(S) : z = <<d, e>>
  <2>1. <<d, e>> \in Seq(S)
    BY <1>f
  <2>2. QED
    BY <2>1
<1>4. t \in Seq(S)
  <2>1. << >> \in Seq(S) /\ <<a, b>> \in Seq(S)
    BY <1>f
  <2>2. QED
    BY <2>1
<1>5. PICK y \in Seq(S) : y = x \o t /\ Len(y) >= 1 /\ y[1] = f
  <2>1. Len(t) \in Nat
    BY <1>4
  <2>2. x \o t \in Seq(S) /\ Len(x \o t) = 1 + Len(t) /\ (x \o t)[1] = f
    BY <1>2, <1>4, <2>1, ConcatProperties
  <2>3. Len(x \o t) >= 1
    BY <2>1, <2>2
  <2>4. QED
    BY <2>2, <2>3
<1>6. PICK fs \in Seq(S) : fs = y \o z /\ Len(fs) >= 1 /\ fs[1] = f
  <2>1. Len(y) \in Nat /\ Len(z) \in Nat
    OBVIOUS
  <2>2. y \o z \in Seq(S) /\ Len(y \o z) = Len(y) + Len(z) /\ (y \o z)[1] = y[1]
    BY <1>5, <2>1, ConcatProperties
  <2>3. Len(y \o z) >= 1
    BY <1>5, <2>1, <2>2
  <2>4. QED
    BY <1>5, <2>2, <2>3
<1>7. fs # << >>
  BY <1>6
<1>8. FirstFound(fs) = f
  BY <1>6, <1>7, FirstCandidate
<1>9. QED
  BY <1>2, <1>3, <1>5, <1>6, <1>8

(* What the dictionary says of the word as it is written comes first. *)
LEMMA ExactFirst ==
  ASSUME NEW w, Found(CheckWord(w)), Hidden \notin CheckWord(w)
  PROVE  SpellCasing(w) = CheckWord(w)
<1>1. SpellCasingUpper(w) = CheckWord(w)
  <2> DEFINE apos == {i \in DOMAIN w : w[i] = "'"}
             a == CHOOSE i \in apos : \A j \in apos : i <= j
             part1 == ToLower(SubSeq(w, 1, a))
             part2 == ToTitle(SubSeq(w, a + 1, Len(w)))
             x == CheckWord(part1 \o part2)
             y == CheckWord(ToTitle(part1) \o part2)
             split == IF apos = {} \/ a = Len(w) THEN << >> ELSE <<x, y>>
             d == UnlessKeepCase(CheckWord(ToTitle(w)))
             e == UnlessKeepCase(CheckWord(ToLower(w)))
  <2>1. SpellCasingUpper(w) = FirstFound(<<CheckWord(w)>> \o split \o <<d, e>>)
    BY DEF SpellCasingUpper
  <2>2. split = << >> \/ split = <<x, y>>
    OBVIOUS
  <2> HIDE DEF split, x, y, d, e
  <2>3. QED
    BY <2>1, <2>2, FirstOfThree
<1>2. SpellCasingTitle(w) = CheckWord(w)
  <2>1. PICK f, e : f = CheckWord(w) /\ e = UnlessKeepCase(CheckWord(ToLower(w)))
    OBVIOUS
  <2>2. SpellCasingTitle(w) = FirstFound(<<f, e>>)
    BY <2>1 DEF SpellCasingTitle
  <2>3. <<f, e>> \in Seq({f, e}) /\ <<f, e>> # << >> /\ <<f, e>>[1] = f
    OBVIOUS
  <2>4. QED
    BY <2>1, <2>2, <2>3, FirstCandidate
<1>3. QED
  BY <1>1, <1>2 DEF SpellCasing

LEMMA ForbiddenFound ==
  ASSUME ForbiddenInput
  PROVE  Found(SpellCasing(input)) /\ Rejected(SpellCasing(input))
<1>1. CheckWord(input) = Words[input] /\ Forbidden \in CheckWord(input)
        /\ Hidden \notin CheckWord(input)
  BY DEF ForbiddenInput, CheckWord
<1>2. Found(CheckWord(input))
  <2>1. Forbidden \notin Nothing
    BY DEF Forbidden, Nothing
  <2>2. QED
    BY <1>1, <2>1 DEF Found
<1>3. SpellCasing(input) = CheckWord(input)
  BY <1>1, <1>2, ExactFirst
<1>4. QED
  BY <1>1, <1>2, <1>3 DEF Rejected

LEMMA StartRefusing ==
  ASSUME IInv, Refusing, Start
  PROVE  Refusing'
<1>1. SUFFICES ASSUME ForbiddenInput
               PROVE  /\ pc' = "breaks" /\ ~period'
                      /\ calls' = <<Call(input)>> /\ ret' = "none"
  BY DEF Start, Refusing, ForbiddenInput, Words, IsNumber
<1>2. pc = "start" /\ s = input /\ input \in Seq(STRING) /\ ret = "none"
  BY DEF Start, IInv, Plain
<1>3. PICK n \in Nat \ {0} : n = Len(input)
  BY <1>1, <1>2 DEF ForbiddenInput
<1>4. ~ (s # << >> /\ Last(s) = ".")
  <2>1. n \in DOMAIN input
    BY <1>2, <1>3
  <2>2. input[n] # "."
    BY <1>1, <2>1 DEF ForbiddenInput
  <2>3. QED
    BY <1>2, <1>3, <2>2 DEF Last
<1>5. input # << >> /\ ~ IsNumber(input)
  BY <1>1 DEF ForbiddenInput
<1>6. s' = EraseIgnored(input) /\ period' = FALSE /\ calls' = <<Call(s')>>
        /\ pc' = "breaks" /\ ret' = ret
  BY <1>2, <1>4, <1>5 DEF Start
<1>7. EraseIgnored(input) = input
  <2>1. \A i \in 1 .. Len(input) : input[i] \in ToSet(input) \ Ignored
    BY <1>1, <1>2 DEF ForbiddenInput, ToSet
  <2>2. QED
    BY <1>2, <2>1, SelectFacts DEF EraseIgnored
<1>8. QED
  BY <1>2, <1>6, <1>7

LEMMA CasingRefusing ==
  ASSUME IInv, Refusing, TestCasing
  PROVE  Refusing'
<1>1. SUFFICES ASSUME ForbiddenInput
               PROVE  calls' = << >> /\ ret' = "no" /\ ~ period' /\ pc' = "breaks"
  BY DEF TestCasing, Refusing, ForbiddenInput, Words, IsNumber
<1>2. pc = "breaks" /\ ~period /\ calls = <<Call(input)>> /\ pc' = pc /\ period' = period
  BY <1>1 DEF TestCasing, Refusing
<1>3. Len(calls) = 1 /\ Front(calls) = << >> /\ calls[1] = Call(input)
  BY <1>2 DEF Front
<1>4. Top.w = input
  BY <1>3 DEF Top, Depth, Call
<1>5. Return("no")
  BY <1>1, <1>4, ForbiddenFound DEF TestCasing
<1>6. QED
  BY <1>2, <1>3, <1>5 DEF Return

(* No pattern is ever tried for a forbidden word. *)
LEMMA OthersRefusing ==
  ASSUME IInv, Refusing, TryBreak \/ OutOfBreaks \/ PartJudged
  PROVE  Refusing'
<1>1. SUFFICES ASSUME ForbiddenInput PROVE FALSE
  BY DEF TryBreak, OutOfBreaks, PartJudged, Refusing, ForbiddenInput, Words, IsNumber
<1>2. pc = "breaks" /\ calls # << >>
  BY DEF TryBreak, OutOfBreaks, PartJudged
<1>3. calls = <<Call(input)>> /\ ret = "none"
  BY <1>1, <1>2 DEF Refusing
<1>4. Len(calls) = 1 /\ calls[1] = Call(input)
  BY <1>3
<1>5. Top.brk = 0
  BY <1>4 DEF Top, Depth, Call
<1>6. breaks \in Seq(BreakType)
  BY DEF IInv, Plain
<1>7. 0 \notin DOMAIN breaks /\ ~ (0 > Len(breaks))
  BY <1>6
<1>8. QED
  BY <1>3, <1>5, <1>7 DEF TryBreak, OutOfBreaks, PartJudged

LEMMA WordRefusing ==
  ASSUME IInv, Refusing, WordJudged
  PROVE  Refusing'
<1>1. SUFFICES ASSUME ForbiddenInput PROVE pc' = "done" /\ ret' = "no"
  BY DEF WordJudged, Refusing, ForbiddenInput, Words, IsNumber
<1>2. pc = "breaks" /\ calls = << >>
  BY DEF WordJudged
<1>3. ~period /\ (calls = <<Call(input)>> \/ ret = "no")
  BY <1>1, <1>2 DEF Refusing
<1>4. calls # <<Call(input)>>
  BY <1>2
<1>5. QED
  BY <1>3, <1>4 DEF WordJudged

LEMMA NextRefusing == IInv /\ Refusing /\ [Next]_vars => Refusing'
<1>1. SUFFICES ASSUME IInv, Refusing, [Next]_vars PROVE Refusing'
  OBVIOUS
<1>2. CASE UNCHANGED vars
  BY <1>1, <1>2 DEF Refusing, ForbiddenInput, Words, IsNumber, vars
<1>3. CASE Next
  BY <1>1, <1>3, StartRefusing, CasingRefusing, OthersRefusing, WordRefusing DEF Next
<1>4. QED
  BY <1>1, <1>2, <1>3

(* A word that the dictionary forbids is refused, whatever patterns there  *)
(* are and however good the parts that they leave of it.                   *)
THEOREM SpellWordForbidden == Spec => []ForbiddenIsRefused
<1>1. Init => Refusing
  BY DEF Init, Refusing
<1>2. Refusing => ForbiddenIsRefused
  BY DEF Refusing, ForbiddenInput, ForbiddenIsRefused
<1>3. QED
  BY SpellWordIInv, NextRefusing, <1>1, <1>2, PTL DEF Spec
===============================================================================
