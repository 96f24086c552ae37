---------------------------- MODULE InductionLemmas ----------------------------
(***************************************************************************)
(* Facts about naturals and sequences used by the proofs of several        *)
(* components.  Induction is by least counterexample.                      *)
(***************************************************************************)
EXTENDS Integers, Sequences, SequencesExt, TLAPS,
        WellFoundedInduction, SequenceTheorems

NatLessThan == {p \in Nat \X Nat : p[1] < p[2]}

(* A non-empty set of naturals has a least element. *)
LEMMA LeastNatural ==
  ASSUME NEW S \in SUBSET Nat, S # {}
  PROVE  \E m \in S : \A n \in S : m <= n
<1>1. IsWellFoundedOn(NatLessThan, Nat)
  BY NatLessThanWellFounded DEF OpToRel, NatLessThan
<1>2. PICK m \in S : \A n \in S : <<n, m>> \notin NatLessThan
  BY <1>1, WFMin
<1>3. \A n \in S : ~ (n < m)
  BY <1>2 DEF NatLessThan
<1>4. QED
  BY <1>3

(* Induction over a set that contains 0 and the successors of its members. *)
LEMMA SetInduction ==
  ASSUME NEW S, 0 \in S, \A n \in Nat : n \in S => n + 1 \in S
  PROVE  Nat \subseteq S
<1> DEFINE C == {n \in Nat : n \notin S}
<1>1. SUFFICES ASSUME C # {} PROVE FALSE
  OBVIOUS
<1>2. PICK m \in C : \A n \in C : m <= n
  BY <1>1, LeastNatural
<1>3. m - 1 \in Nat /\ m - 1 \notin C
  BY <1>2
<1>4. QED
  BY <1>2, <1>3

(* The greatest index below a bound that has some property. *)
LEMMA GreatestIndex ==
  ASSUME NEW N \in Nat, NEW S \in SUBSET (1 .. N), S # {}
  PROVE  \E m \in S : \A n \in S : n <= m
<1> DEFINE T == {n \in Nat : N - n \in S}
<1>1. T # {}
  <2>1. PICK n \in S : TRUE
    OBVIOUS
  <2>2. N - n \in T
    BY <2>1
  <2>3. QED
    BY <2>2
<1>2. PICK t \in T : \A n \in T : t <= n
  <2>1. T \in SUBSET Nat
    OBVIOUS
  <2>2. QED
    BY <1>1, <2>1, LeastNatural
<1>3. N - t \in S
  BY <1>2
<1>4. ASSUME NEW n \in S PROVE n <= N - t
  <2>1. N - n \in T
    BY <1>4
  <2>2. QED
    BY <1>2, <2>1
<1>5. QED
  BY <1>3, <1>4

(* What InsertAt returns: the elements up to p, e, and the others after it. *)
LEMMA InsertAtProperties ==
  ASSUME NEW S, NEW s \in Seq(S), NEW p \in 0 .. Len(s), NEW e \in S
  PROVE  /\ InsertAt(s, p + 1, e) \in Seq(S)
         /\ Len(InsertAt(s, p + 1, e)) = Len(s) + 1
         /\ \A m \in 1 .. Len(s) + 1 :
              InsertAt(s, p + 1, e)[m] =
                IF m <= p THEN s[m] ELSE IF m = p + 1 THEN e ELSE s[m - 1]
<1> DEFINE a == SubSeq(s, 1, (p + 1) - 1)
           b == SubSeq(s, p + 1, Len(s))
           c == a \o <<e>>
           t == c \o b
<1>0. InsertAt(s, p + 1, e) = t
  BY DEF InsertAt
<1>len. Len(s) \in Nat /\ p \in Nat /\ p <= Len(s)
  OBVIOUS
<1>1. /\ a \in Seq(S)
      /\ Len(a) = p
      /\ \A m \in 1 .. p : a[m] = s[m]
  OBVIOUS
<1>2. /\ b \in Seq(S)
      /\ Len(b) = Len(s) - p
      /\ \A m \in 1 .. Len(s) - p : b[m] = s[p + m]
  OBVIOUS
<1> HIDE DEF a, b
<1>3. /\ c \in Seq(S)
      /\ Len(c) = p + 1
      /\ \A m \in 1 .. p : c[m] = s[m]
      /\ c[p + 1] = e
  BY <1>1, <1>len
<1> HIDE DEF c
<1>4. /\ t \in Seq(S)
      /\ Len(t) = Len(s) + 1
      /\ \A m \in 1 .. Len(s) + 1 :
           t[m] = IF m <= p + 1 THEN c[m] ELSE b[m - (p + 1)]
  BY <1>2, <1>3, <1>len, ConcatProperties
<1> HIDE DEF t
<1>5. ASSUME NEW m \in 1 .. Len(s) + 1
      PROVE  t[m] = IF m <= p THEN s[m] ELSE IF m = p + 1 THEN e ELSE s[m - 1]
  <2>1. CASE m <= p + 1
    BY <2>1, <1>3, <1>4, <1>len
  <2>2. CASE m > p + 1
    <3>1. t[m] = b[m - (p + 1)] /\ m - (p + 1) \in 1 .. Len(s) - p
      BY <2>2, <1>4, <1>len
    <3>2. b[m - (p + 1)] = s[p + (m - (p + 1))]
      BY <3>1, <1>2
    <3>3. QED
      BY <3>1, <3>2, <2>2, <1>len
  <2>3. QED
    BY <2>1, <2>2, <1>len
<1>6. QED
  BY <1>0, <1>4, <1>5

(* A sequence without its last element. *)
LEMMA FrontFacts ==
  ASSUME NEW S, NEW s \in Seq(S), s # << >>
  PROVE  /\ Front(s) \in Seq(S) /\ Len(Front(s)) = Len(s) - 1
         /\ \A k \in 1 .. Len(s) - 1 : Front(s)[k] = s[k]
<1>1. Len(s) \in Nat \ {0}
  OBVIOUS
<1>2. PICK m \in Nat : m = Len(s) - 1
  BY <1>1
<1>3. PICK f : f = SubSeq(s, 1, m)
  OBVIOUS
<1>4. f \in Seq(S) /\ Len(f) = m /\ \A k \in 1 .. m : f[k] = s[k]
  BY <1>1, <1>2, <1>3
<1>5. Front(s) = f
  BY <1>2, <1>3 DEF Front
<1>6. QED
  BY <1>2, <1>4, <1>5

(* Sequences one after the other are in a set that holds each of them and   *)
(* with any two also the one followed by the other.  FlattenSeq is a        *)
(* recursive function: there is one such function, by induction.            *)
LEMMA FlattenStays ==
  ASSUME NEW seqs, NEW n \in Nat \ {0}, Len(seqs) = n, NEW C,
         \A k \in 1 .. n : seqs[k] \in C, \A a, b \in C : a \o b \in C
  PROVE  FlattenSeq(seqs) \in C
<1> DEFINE Body(m, g) == [i \in 1 .. m |-> IF i = 1 THEN seqs[i] ELSE g[i - 1] \o seqs[i]]
           M == {m \in Nat : \E g : g = Body(m, g)}
<1>1. Nat \subseteq M
  <2>1. 0 \in M
    <3>1. PICK g : g = [i \in 1 .. 0 |-> {}]
      OBVIOUS
    <3>2. g = Body(0, g)
      BY <3>1
    <3>3. QED
      BY <3>2
  <2>2. ASSUME NEW m \in Nat, m \in M PROVE m + 1 \in M
    <3>1. PICK g : g = Body(m, g)
      BY <2>2
    <3>2. PICK h : h = [i \in 1 .. m + 1 |-> IF i <= m THEN g[i]
                                  ELSE IF i = 1 THEN seqs[i] ELSE g[i - 1] \o seqs[i]]
      OBVIOUS
    <3>3. ASSUME NEW i \in 1 .. m + 1
          PROVE  h[i] = IF i = 1 THEN seqs[i] ELSE h[i - 1] \o seqs[i]
      <4>1. CASE i <= m
        <5>0. \A x : Body(m, x)[i] = IF i = 1 THEN seqs[i] ELSE x[i - 1] \o seqs[i]
          BY <4>1
        <5>1. h[i] = g[i] /\ g[i] = IF i = 1 THEN seqs[i] ELSE g[i - 1] \o seqs[i]
          <6>1. h[i] = g[i]
            BY <3>2, <4>1
          <6>2. g[i] = Body(m, g)[i]
            BY <3>1
          <6> HIDE DEF Body
          <6>3. QED
            BY <5>0, <6>1, <6>2
        <5>2. i # 1 => h[i - 1] = g[i - 1]
          BY <3>2, <4>1
        <5>3. QED
          BY <5>1, <5>2
      <4>2. CASE ~(i <= m)
        <5>1. h[i] = IF i = 1 THEN seqs[i] ELSE g[i - 1] \o seqs[i]
          BY <3>2, <4>2
        <5>2. i # 1 => h[i - 1] = g[i - 1]
          BY <3>2, <4>2
        <5>3. QED
          BY <5>1, <5>2
      <4>3. QED
        BY <4>1, <4>2
    <3>4. h = Body(m + 1, h)
      BY <3>2, <3>3
    <3> HIDE DEF Body
    <3>5. QED
      BY <3>4
  <2>3. QED
    BY <2>1, <2>2, SetInduction
<1>2. PICK f : FlattenSeq(seqs) = f[n] /\ f = CHOOSE g : g = Body(n, g)
  BY DEF FlattenSeq
<1>3. f = Body(n, f)
  <2>1. \E g : g = Body(n, g)
    BY <1>1
  <2>2. QED
    BY <1>2, <2>1
<1> HIDE DEF Body
<1> DEFINE P == {m \in Nat : m \in 1 .. n => f[m] \in C}
<1>4. Nat \subseteq P
  <2>1. 0 \in P
    OBVIOUS
  <2>2. ASSUME NEW m \in Nat, m \in P PROVE m + 1 \in P
    <3>1. SUFFICES ASSUME m + 1 \in 1 .. n PROVE f[m + 1] \in C
      OBVIOUS
    <3>2. f[m + 1] = IF m + 1 = 1 THEN seqs[m + 1] ELSE f[m] \o seqs[m + 1]
      <4>1. f[m + 1] = IF m + 1 = 1 THEN seqs[m + 1] ELSE f[(m + 1) - 1] \o seqs[m + 1]
        BY <1>3, <3>1 DEF Body
      <4>2. (m + 1) - 1 = m
        OBVIOUS
      <4>3. QED
        BY <4>1, <4>2
    <3>3. seqs[m + 1] \in C
      BY <3>1
    <3>4. CASE m = 0
      BY <3>2, <3>3, <3>4
    <3>5. CASE m # 0
      <4>1. f[m] \in C
        BY <2>2, <3>1, <3>5
      <4>2. QED
        BY <3>2, <3>3, <3>5, <4>1
    <3>6. QED
      BY <3>4, <3>5
  <2>3. QED
    BY <2>1, <2>2, SetInduction
<1>5. QED
  BY <1>2, <1>4
================================================================================
