------------------------- MODULE CompoundCheckProofs -------------------------
(***************************************************************************)
(* The calls of check_compound that are open are sound, for any            *)
(* dictionary, any word and any answers of the affix searches: the shared  *)
(* buffer is the word with their edits, the text of each call is that of   *)
(* its caller less a part and with what the joint adds, and the word comes *)
(* back as it was.                                                         *)
(*                                                                         *)
(* The argument: to the stack of calls belongs a sequence of buffers, the  *)
(* one each call found.  A call that opens adds the buffer it was made on, *)
(* a call that returns takes its edits back, which gives the buffer it     *)
(* found, and drops it; so the buffers below it are never computed again.  *)
(***************************************************************************)
EXTENDS CompoundCheck, InductionLemmas

(* A sequence, whatever its elements are. *)
IsSequence(s) == s \in Seq({s[k] : k \in DOMAIN s})

(* A call; nothing is said of the entry of its first part. *)
IsCall(c) ==
  /\ c = [start |-> c.start, mode |-> c.mode, words |-> c.words, i |-> c.i,
          last |-> c.last, joint |-> c.joint, stage |-> c.stage,
          part1 |-> c.part1]
  /\ c.start \in Nat /\ c.words \in Nat /\ c.i \in Nat /\ c.last \in Int
  /\ c.joint \in 0 .. Len(L.patterns)
  /\ c.stage \in {"try", "tail", "tripled"}
  /\ c.part1.words \in Nat

(* A call that was made on buffer w. *)
CallFits(c, w) ==
  /\ IsCall(c)
  /\ c.last = Len(w) - MinLetters
  /\ c.i - c.start >= MinLetters
  /\ c.stage # "try" =>
       c.part1 # NoWord /\ c.i <= c.last /\ JointApplies(c, w)
  /\ c.stage = "tripled" => L.simplified

(* The buffers that belong to the calls in stack s, when the shared one is *)
(* w: found[k - 1] is what call k found.                                   *)
Found(s, w, found) ==
  /\ found \in [0 .. Len(s) -> Seq(Letter)]
  /\ found[0] = input
  /\ found[Len(s)] = w
  /\ \A k \in 1 .. Len(s) :
       /\ CallFits(s[k], found[k - 1])
       /\ found[k] = WithEdits(s[k], found[k - 1])

(* Where the calls of s stand to each other and to control state p. *)
Nested(s, p) ==
  /\ IsSequence(s)
  /\ p \in {"search", "last", "return", "rules", "done", "overflow"}
  /\ \A k \in 1 .. Len(s) :
       /\ s[k].mode = (IF k = 1 THEN "begin" ELSE "middle")
       /\ s[k].words >= k - 1
  /\ \A k \in 1 .. Len(s) - 1 :
       /\ s[k].stage # "try"
       /\ s[k + 1].start = At(s[k])
  /\ p \in {"search", "last"} => s # << >>
  /\ p = "search" => s[Len(s)].stage = "try"
  /\ p = "last" => s[Len(s)].stage # "try"
  /\ p = "overflow" =>
       s # << >> /\ s[Len(s)].stage # "try" /\ Len(s) >= StackSize

Sound(s, w, p) ==
  /\ lang \in DOMAIN Languages
  /\ Nested(s, p)
  /\ \E found \in [0 .. Len(s) -> Seq(Letter)] : Found(s, w, found)

IInv == Sound(calls, word, pc)

-------------------------------------------------------------------------------
(* Stacks: the last element replaced, removed, or one more. *)

LEMMA SequenceOf ==
  ASSUME NEW S, NEW s \in Seq(S)
  PROVE  IsSequence(s)
<1>1. Len(s) \in Nat /\ s \in [1 .. Len(s) -> S]
  OBVIOUS
<1>2. s \in [1 .. Len(s) -> {s[k] : k \in DOMAIN s}]
  BY <1>1
<1>3. QED
  BY <1>1, <1>2 DEF IsSequence

Replaces(t, s, c) ==
  /\ IsSequence(t) /\ Len(t) = Len(s) /\ Len(s) \in Nat \ {0}
  /\ t[Len(s)] = c
  /\ \A k \in 1 .. Len(s) - 1 : t[k] = s[k]

LEMMA StackTop ==
  ASSUME NEW s, IsSequence(s), s # << >>, NEW c
  PROVE  Replaces([s EXCEPT ![Len(s)] = c], s, c)
<1> DEFINE S == {s[k] : k \in DOMAIN s} \cup {c}
           t == [s EXCEPT ![Len(s)] = c]
<1>1. s \in Seq(S) /\ Len(s) \in Nat \ {0}
  BY DEF IsSequence
<1> HIDE DEF S
<1>2. c \in S
  BY DEF S
<1>3. t \in Seq(S) /\ Len(t) = Len(s)
  BY <1>1, <1>2
<1>4. IsSequence(t)
  BY <1>3, SequenceOf
<1>5. t[Len(s)] = c /\ \A k \in 1 .. Len(s) - 1 : t[k] = s[k]
  BY <1>1
<1>6. QED
  BY <1>1, <1>3, <1>4, <1>5 DEF Replaces

LEMMA StackPop ==
  ASSUME NEW s, IsSequence(s), s # << >>, NEW t, t = Front(s)
  PROVE  /\ IsSequence(t) /\ Len(t) = Len(s) - 1 /\ Len(s) \in Nat \ {0}
         /\ \A k \in 1 .. Len(s) - 1 : t[k] = s[k]
<1> DEFINE S == {s[k] : k \in DOMAIN s}
<1>1. s \in Seq(S) /\ Len(s) \in Nat \ {0}
  BY DEF IsSequence
<1> HIDE DEF S
<1>2. t \in Seq(S) /\ Len(t) = Len(s) - 1 /\ \A k \in 1 .. Len(s) - 1 : t[k] = s[k]
  BY <1>1, FrontFacts
<1>3. IsSequence(t)
  BY <1>2, SequenceOf
<1>4. QED
  BY <1>1, <1>2, <1>3

Extends(t, s, c, d) ==
  /\ IsSequence(t) /\ Len(t) = Len(s) + 1 /\ Len(s) \in Nat \ {0}
  /\ \A k \in 1 .. Len(s) - 1 : t[k] = s[k]
  /\ t[Len(s)] = c /\ t[Len(s) + 1] = d

LEMMA StackPush ==
  ASSUME NEW s, IsSequence(s), s # << >>, NEW c, NEW d
  PROVE  Extends(Append(Front(s), c) \o <<d>>, s, c, d)
<1>0. PICK t : t = Append(Front(s), c) \o <<d>>
  OBVIOUS
<1> DEFINE S == {s[k] : k \in DOMAIN s} \cup {c, d}
           f == Front(s)
           a == Append(f, c)
<1>1. s \in Seq(S) /\ Len(s) \in Nat \ {0}
  BY DEF IsSequence
<1>2. c \in S /\ d \in S
  OBVIOUS
<1> HIDE DEF S
<1>3. f \in Seq(S) /\ Len(f) = Len(s) - 1 /\ \A k \in 1 .. Len(s) - 1 : f[k] = s[k]
  BY <1>1, FrontFacts
<1> HIDE DEF f
<1>4. /\ a \in Seq(S) /\ Len(a) = Len(s) /\ a[Len(s)] = c
      /\ \A k \in 1 .. Len(s) - 1 : a[k] = s[k]
  BY <1>1, <1>2, <1>3
<1>5. t = a \o <<d>>
  BY <1>0 DEF f
<1> HIDE DEF a
<1>6. t = Append(a, d)
  BY <1>2, <1>4, <1>5
<1>7. /\ t \in Seq(S) /\ Len(t) = Len(s) + 1 /\ t[Len(s) + 1] = d
      /\ \A k \in 1 .. Len(s) : t[k] = a[k]
  <2>1. a \in Seq(S) /\ d \in S
    BY <1>2, <1>4
  <2>2. /\ Append(a, d) \in Seq(S) /\ Len(Append(a, d)) = Len(a) + 1
        /\ \A k \in 1 .. Len(a) : Append(a, d)[k] = a[k]
        /\ Append(a, d)[Len(a) + 1] = d
    BY <2>1
  <2>3. QED
    BY <2>2, <1>4, <1>6
<1>8. IsSequence(t)
  BY <1>7, SequenceOf
<1>9. Extends(t, s, c, d)
  BY <1>1, <1>4, <1>7, <1>8 DEF Extends
<1>10. QED
  BY <1>0, <1>9

-------------------------------------------------------------------------------
(* Edits of the buffer, and taking them back. *)

IsSplice(v, w, i, n, x) ==
  /\ v \in Seq(Letter)
  /\ Len(v) = Len(w) - n + Len(x)
  /\ \A k \in 1 .. Len(v) :
       v[k] = IF k <= i THEN w[k]
              ELSE IF k <= i + Len(x) THEN x[k - i]
              ELSE w[k - Len(x) + n]

LEMMA SpliceFacts ==
  ASSUME NEW w \in Seq(Letter), NEW i \in Nat, NEW n \in Nat, i + n <= Len(w),
         NEW x \in Seq(Letter)
  PROVE  IsSplice(Splice(w, i, n, x), w, i, n, x)
<1>0. PICK v : v = Splice(w, i, n, x)
  OBVIOUS
<1> DEFINE a == SubSeq(w, 1, i)
           b == SubSeq(w, i + n + 1, Len(w))
           ax == a \o x
<1>1. a \in Seq(Letter) /\ Len(a) = i /\ \A k \in 1 .. i : a[k] = w[k]
  OBVIOUS
<1>2. /\ b \in Seq(Letter) /\ Len(b) = Len(w) - (i + n)
      /\ \A k \in 1 .. Len(w) - (i + n) : b[k] = w[i + n + k]
  OBVIOUS
<1>3. v = ax \o b
  BY <1>0 DEF Splice
<1> HIDE DEF a, b
<1>4. /\ ax \in Seq(Letter) /\ Len(ax) = i + Len(x)
      /\ \A k \in 1 .. i : ax[k] = w[k]
      /\ \A k \in 1 .. i + Len(x) : k > i => ax[k] = x[k - i]
  BY <1>1
<1> HIDE DEF ax
<1>5. v \in Seq(Letter) /\ Len(v) = Len(w) - n + Len(x)
  <2>1. v \in Seq(Letter) /\ Len(v) = Len(ax) + Len(b)
    <3>1. ax \in Seq(Letter) /\ b \in Seq(Letter)
      BY <1>2, <1>4
    <3>2. QED
      BY <3>1, <1>3, ConcatProperties
  <2>2. Len(x) \in Nat /\ Len(w) \in Nat
    OBVIOUS
  <2>3. QED
    BY <2>1, <2>2, <1>2, <1>4
<1>6. ASSUME NEW k \in 1 .. Len(v), k <= i + Len(x) PROVE v[k] = ax[k]
  <2>1. k \in 1 .. Len(ax) /\ Len(ax) \in Nat
    BY <1>4, <1>5, <1>6
  <2>2. QED
    BY <2>1, <1>2, <1>3, <1>4, ConcatProperties
<1>7. ASSUME NEW k \in 1 .. Len(v), k > i + Len(x) PROVE v[k] = w[k - Len(x) + n]
  <2>1. v[k] = b[k - (i + Len(x))]
    BY <1>2, <1>3, <1>4, <1>5, <1>7
  <2>2. k - (i + Len(x)) \in 1 .. Len(w) - (i + n)
    BY <1>5, <1>7
  <2>3. b[k - (i + Len(x))] = w[i + n + (k - (i + Len(x)))]
    BY <1>2, <2>2
  <2>4. Len(x) \in Nat /\ k \in Int /\ i + n + (k - (i + Len(x))) = k - Len(x) + n
    OBVIOUS
  <2>5. QED
    BY <2>1, <2>3, <2>4
<1>8. IsSplice(v, w, i, n, x)
  BY <1>4, <1>5, <1>6, <1>7 DEF IsSplice
<1>9. QED
  BY <1>0, <1>8

LEMMA SpliceBack ==
  ASSUME NEW w \in Seq(Letter), NEW i \in Nat, NEW x \in Seq(Letter),
         HasAt(w, i, x), NEW y \in Seq(Letter)
  PROVE  Splice(Splice(w, i, Len(x), y), i, Len(y), x) = w
<1>1. PICK v : v = Splice(w, i, Len(x), y)
  OBVIOUS
<1>2. PICK u : u = Splice(v, i, Len(y), x)
  OBVIOUS
<1>3. i + Len(x) <= Len(w) /\ SubSeq(w, i + 1, i + Len(x)) = x
  BY DEF HasAt
<1>4. /\ v \in Seq(Letter)
      /\ Len(v) = Len(w) - Len(x) + Len(y)
      /\ \A k \in 1 .. Len(v) :
           v[k] = IF k <= i THEN w[k]
                  ELSE IF k <= i + Len(y) THEN y[k - i]
                  ELSE w[k - Len(y) + Len(x)]
  <2>1. PICK n \in Nat : n = Len(x)
    OBVIOUS
  <2>2. i + n <= Len(w) /\ v = Splice(w, i, n, y)
    BY <2>1, <1>1, <1>3
  <2>3. IsSplice(v, w, i, n, y)
    BY <2>1, <2>2, SpliceFacts
  <2>4. QED
    BY <2>1, <2>3 DEF IsSplice
<1>5. i + Len(y) <= Len(v)
  BY <1>3, <1>4
<1>6. /\ u \in Seq(Letter)
      /\ Len(u) = Len(v) - Len(y) + Len(x)
      /\ \A k \in 1 .. Len(u) :
           u[k] = IF k <= i THEN v[k]
                  ELSE IF k <= i + Len(x) THEN x[k - i]
                  ELSE v[k - Len(x) + Len(y)]
  <2>1. PICK n \in Nat : n = Len(y)
    OBVIOUS
  <2>2. i + n <= Len(v) /\ u = Splice(v, i, n, x)
    BY <2>1, <1>2, <1>5
  <2>3. IsSplice(u, v, i, n, x)
    BY <2>1, <2>2, <1>4, SpliceFacts
  <2>4. QED
    BY <2>1, <2>3 DEF IsSplice
<1>7. Len(u) = Len(w)
  BY <1>4, <1>6
<1>8. ASSUME NEW k \in 1 .. Len(w) PROVE u[k] = w[k]
  <2>1. CASE k <= i
    <3>1. k \in 1 .. Len(u) /\ k \in 1 .. Len(v)
      BY <2>1, <1>4, <1>5, <1>7
    <3>2. QED
      BY <2>1, <3>1, <1>4, <1>6
  <2>2. CASE k > i /\ k <= i + Len(x)
    <3>1. u[k] = x[k - i] /\ k - i \in 1 .. Len(x)
      BY <2>2, <1>6, <1>7
    <3>2. SubSeq(w, i + 1, i + Len(x))[k - i] = w[i + 1 + (k - i) - 1]
      BY <1>3, <3>1
    <3>3. i + 1 + (k - i) - 1 = k
      OBVIOUS
    <3>4. QED
      BY <1>3, <3>1, <3>2, <3>3
  <2>3. CASE k > i + Len(x)
    <3>1. PICK m : m = k - Len(x) + Len(y)
      OBVIOUS
    <3>2. m \in 1 .. Len(v) /\ m > i + Len(y) /\ m - Len(y) + Len(x) = k
      BY <2>3, <3>1, <1>4, <1>3
    <3>3. u[k] = v[m]
      <4>1. k \in 1 .. Len(u) /\ ~ (k <= i) /\ ~ (k <= i + Len(x))
        BY <2>3, <1>7
      <4>2. QED
        BY <4>1, <3>1, <1>6
    <3>4. v[m] = w[m - Len(y) + Len(x)]
      BY <3>2, <1>4
    <3>5. QED
      BY <3>2, <3>3, <3>4
  <2>4. QED
    BY <2>1, <2>2, <2>3
<1>9. u = w
  BY <1>6, <1>7, <1>8
<1>10. QED
  BY <1>1, <1>2, <1>9

LEMMA MinLettersType ==
  ASSUME lang \in DOMAIN Languages
  PROVE  MinLetters \in Nat \ {0}
BY TextAssumption DEF MinLetters, L

LEMMA PatternType ==
  ASSUME lang \in DOMAIN Languages, NEW c, c.joint \in 0 .. Len(L.patterns)
  PROVE  /\ Pattern(c).first \in Seq(Letter)
         /\ Pattern(c).second \in Seq(Letter)
         /\ Pattern(c).replacement \in Seq(Letter)
<1>1. CASE c.joint = 0
  <2>1. << >> \in Seq(Letter)
    OBVIOUS
  <2>2. QED
    BY <1>1, <2>1 DEF Pattern, Plain
<1>2. CASE c.joint # 0
  <2>1. c.joint \in 1 .. Len(L.patterns)
    BY <1>2, TextAssumption DEF L
  <2>2. L.patterns[c.joint] \in
          [first : Seq(Letter), second : Seq(Letter), replacement : Seq(Letter),
           flag1 : STRING, flag2 : STRING, unaffixed : BOOLEAN]
    <3>1. L.patterns \in
            Seq([first : Seq(Letter), second : Seq(Letter),
                 replacement : Seq(Letter), flag1 : STRING, flag2 : STRING,
                 unaffixed : BOOLEAN])
      BY TextAssumption DEF L
    <3>2. ASSUME NEW S, NEW q \in Seq(S), NEW k \in 1 .. Len(q) PROVE q[k] \in S
      OBVIOUS
    <3>3. QED
      BY <2>1, <3>1, <3>2
  <2>3. QED
    BY <1>2, <2>2 DEF Pattern
<1>3. QED
  BY <1>1, <1>2

(* Where the joint of a call can be written out. *)
Joinable(c, w) ==
  /\ IsCall(c)
  /\ c.i <= Len(w)
  /\ JointApplies(c, w)

LEMMA JointFits ==
  ASSUME lang \in DOMAIN Languages, NEW c, NEW w \in Seq(Letter), Joinable(c, w)
  PROVE  HasAt(w, c.i, Pattern(c).replacement)
<1>1. CASE c.joint # 0
  BY <1>1 DEF Joinable, JointApplies
<1>2. CASE c.joint = 0
  <2>1. Pattern(c).replacement = << >> /\ c.i \in Nat /\ Len(w) \in Nat /\ c.i <= Len(w)
    BY <1>2 DEF Pattern, Plain, Joinable, IsCall
  <2>2. Len(<< >>) = 0 /\ SubSeq(w, c.i + 1, c.i) = << >>
    BY <2>1
  <2>3. QED
    BY <2>1, <2>2 DEF HasAt
<1>3. QED
  BY <1>1, <1>2

LEMMA WrittenOutFacts ==
  ASSUME lang \in DOMAIN Languages, NEW c, NEW w \in Seq(Letter), Joinable(c, w)
  PROVE  /\ WrittenOut(c, w) \in Seq(Letter)
         /\ Len(WrittenOut(c, w)) = Len(w) - Len(Pattern(c).replacement)
                + Len(Pattern(c).first) + Len(Pattern(c).second)
         /\ TakenBack(c, WrittenOut(c, w)) = w
         /\ At(c) \in c.i .. Len(WrittenOut(c, w))
<1> DEFINE f == Pattern(c).first
           g == Pattern(c).second
           x == Pattern(c).replacement
           y == f \o g
           v == Splice(w, c.i, Len(x), y)
<1>1. c.i \in Nat /\ c.i <= Len(w) /\ c.joint \in 0 .. Len(L.patterns)
  BY DEF Joinable, IsCall
<1>2. f \in Seq(Letter) /\ g \in Seq(Letter) /\ x \in Seq(Letter)
  BY <1>1, PatternType
<1>3. HasAt(w, c.i, x)
  BY JointFits
<1>4. /\ v = WrittenOut(c, w)
      /\ At(c) = c.i + Len(f)
      /\ TakenBack(c, v) = Splice(v, c.i, Len(f) + Len(g), x)
  BY DEF WrittenOut, At, TakenBack
<1> HIDE DEF f, g, x
<1>5. y \in Seq(Letter) /\ Len(y) = Len(f) + Len(g)
  BY <1>2
<1> HIDE DEF y
<1>6. IsSplice(v, w, c.i, Len(x), y)
  <2>1. PICK i \in Nat : i = c.i
    BY <1>1
  <2>2. PICK n \in Nat : n = Len(x)
    BY <1>2
  <2>3. i + n <= Len(w)
    BY <2>1, <2>2, <1>3 DEF HasAt
  <2>4. IsSplice(Splice(w, i, n, y), w, i, n, y)
    BY <2>3, <1>5, SpliceFacts
  <2>5. QED
    BY <2>1, <2>2, <2>4
<1>7. Splice(v, c.i, Len(y), x) = w
  <2>1. PICK i \in Nat : i = c.i
    BY <1>1
  <2>2. Splice(Splice(w, i, Len(x), y), i, Len(y), x) = w
    BY <2>1, <1>2, <1>3, <1>5, SpliceBack
  <2>3. QED
    BY <2>1, <2>2
<1> HIDE DEF v
<1>8. v \in Seq(Letter) /\ Len(v) = Len(w) - Len(x) + Len(f) + Len(g)
  BY <1>2, <1>5, <1>6 DEF IsSplice
<1>9. c.i + Len(x) <= Len(w)
  BY <1>3 DEF HasAt
<1>10. Len(f) \in Nat /\ Len(g) \in Nat /\ Len(x) \in Nat /\ Len(w) \in Nat
  BY <1>2
<1>11. c.i + Len(f) \in c.i .. Len(v)
  BY <1>1, <1>8, <1>9, <1>10
<1>12. TakenBack(c, v) = w
  BY <1>4, <1>5, <1>7
<1>13. QED
  BY <1>4, <1>8, <1>11, <1>12 DEF f, g, x

LEMMA TripledFacts ==
  ASSUME NEW c, NEW w \in Seq(Letter), At(c) \in 1 .. Len(w)
  PROVE  /\ Tripled(c, w) \in Seq(Letter)
         /\ Len(Tripled(c, w)) = Len(w) + 1
         /\ Untripled(c, Tripled(c, w)) = w
<1>1. PICK i \in Nat : i = At(c)
  OBVIOUS
<1>2. PICK y : y = <<w[i]>>
  OBVIOUS
<1>3. y \in Seq(Letter) /\ Len(y) = 1
  BY <1>1, <1>2
<1>4. PICK x : x = << >>
  OBVIOUS
<1>5. x \in Seq(Letter) /\ Len(x) = 0
  BY <1>4
<1>6. HasAt(w, i, x)
  <2>1. SubSeq(w, i + 1, i) = << >> /\ i <= Len(w)
    BY <1>1
  <2>2. QED
    BY <2>1, <1>1, <1>4, <1>5 DEF HasAt
<1>7. Splice(Splice(w, i, Len(x), y), i, Len(y), x) = w
  BY <1>3, <1>5, <1>6, SpliceBack
<1>8. IsSplice(Splice(w, i, 0, y), w, i, 0, y)
  <2>1. i + 0 <= Len(w) /\ 0 \in Nat
    BY <1>1
  <2>2. QED
    BY <2>1, <1>3, SpliceFacts
<1>9. Tripled(c, w) = Splice(w, i, 0, y)
  BY <1>1, <1>2 DEF Tripled
<1>10. Untripled(c, Splice(w, i, 0, y)) = w
  BY <1>1, <1>3, <1>4, <1>5, <1>7 DEF Untripled
<1>11. Len(Splice(w, i, 0, y)) = Len(w) + 1 /\ Splice(w, i, 0, y) \in Seq(Letter)
  BY <1>3, <1>8 DEF IsSplice
<1>12. QED
  BY <1>9, <1>10, <1>11

(* A call that waits has made its edits; without them the buffer is what   *)
(* it found.                                                               *)
LEMMA EditsUndone ==
  ASSUME lang \in DOMAIN Languages, NEW c, NEW w \in Seq(Letter), CallFits(c, w)
  PROVE  /\ WithEdits(c, w) \in Seq(Letter)
         /\ WithoutEdits(c, c.stage, WithEdits(c, w)) = w
         /\ c.stage # "try" =>
              /\ At(c) \in c.i .. Len(WithEdits(c, w))
              /\ Len(WithEdits(c, w)) =
                   Len(w) - Len(Pattern(c).replacement) + Len(Pattern(c).first)
                     + Len(Pattern(c).second) + (IF c.stage = "tripled" THEN 1 ELSE 0)
<1>1. MinLetters \in Nat \ {0} /\ Len(w) \in Nat
  BY MinLettersType
<1>2. /\ IsCall(c) /\ c.last = Len(w) - MinLetters /\ c.i - c.start >= MinLetters
      /\ c.i \in Nat /\ c.start \in Nat /\ c.stage \in {"try", "tail", "tripled"}
  BY DEF CallFits, IsCall
<1>3. CASE c.stage = "try"
  BY <1>3 DEF WithEdits, WithoutEdits
<1>4. CASE c.stage # "try"
  <2>0. PICK v : v = WrittenOut(c, w)
    OBVIOUS
  <2>1. Joinable(c, w)
    BY <1>1, <1>2, <1>4 DEF CallFits, Joinable
  <2>2. /\ v \in Seq(Letter)
        /\ Len(v) = Len(w) - Len(Pattern(c).replacement)
               + Len(Pattern(c).first) + Len(Pattern(c).second)
        /\ TakenBack(c, v) = w
        /\ At(c) \in c.i .. Len(v)
    BY <2>0, <2>1, WrittenOutFacts
  <2>len. Len(v) \in Nat
    <3>1. v \in Seq(Letter)
      BY <2>2
    <3>2. QED
      BY <3>1
  <2>typ. /\ Len(Pattern(c).replacement) \in Nat /\ Len(Pattern(c).first) \in Nat
          /\ Len(Pattern(c).second) \in Nat
    BY <1>2, PatternType DEF IsCall
  <2>3. CASE c.stage = "tail"
    <3>1. WithEdits(c, w) = v /\ WithoutEdits(c, c.stage, v) = TakenBack(c, v)
      BY <2>0, <2>3 DEF WithEdits, WithoutEdits
    <3>2. Len(v) = Len(w) - Len(Pattern(c).replacement) + Len(Pattern(c).first)
            + Len(Pattern(c).second) + (IF c.stage = "tripled" THEN 1 ELSE 0)
      BY <2>2, <2>3, <2>typ, <1>1
    <3>3. QED
      BY <2>2, <3>1, <3>2
  <2>4. CASE c.stage = "tripled"
    <3>1. /\ WithEdits(c, w) = Tripled(c, v)
          /\ \A u : WithoutEdits(c, c.stage, u) = TakenBack(c, Untripled(c, u))
      BY <2>0, <2>4 DEF WithEdits, WithoutEdits
    <3>2. At(c) \in 1 .. Len(v)
      <4>1. c.i >= 1
        BY <1>1, <1>2
      <4>2. PICK n \in Nat : n = Len(v)
        BY <2>len
      <4>3. At(c) \in c.i .. n
        BY <4>2, <2>2
      <4>4. At(c) \in 1 .. n
        BY <4>1, <4>3, <1>2
      <4>5. QED
        BY <4>2, <4>4
    <3>3. /\ Tripled(c, v) \in Seq(Letter)
          /\ Len(Tripled(c, v)) = Len(v) + 1
          /\ Untripled(c, Tripled(c, v)) = v
      BY <2>2, <3>2, TripledFacts
    <3>4. At(c) \in c.i .. Len(Tripled(c, v))
      <4>1. PICK n \in Nat : n = Len(v)
        BY <2>len
      <4>2. At(c) \in c.i .. n /\ Len(Tripled(c, v)) = n + 1
        BY <4>1, <2>2, <3>3
      <4>3. QED
        BY <4>1, <4>2, <1>2
    <3>5. Len(Tripled(c, v)) =
            Len(w) - Len(Pattern(c).replacement) + Len(Pattern(c).first)
              + Len(Pattern(c).second) + (IF c.stage = "tripled" THEN 1 ELSE 0)
      BY <2>2, <2>4, <3>3
    <3>6. QED
      BY <2>2, <3>1, <3>3, <3>4, <3>5
  <2>5. QED
    BY <1>2, <1>4, <2>3, <2>4
<1>5. QED
  BY <1>3, <1>4

LEMMA CheckWordCounts ==
  ASSUME NEW m, NEW x
  PROVE  CheckWord(m, x).words \in Nat
BY DEF CheckWord, FromReading, Result, NoWord, PrefixWords

-------------------------------------------------------------------------------
(* What the actions do to the stack and to the buffer.                     *)

(* The call on top and the buffer it found. *)
LEMMA TopFits ==
  ASSUME NEW s, NEW w, NEW p, NEW found, lang \in DOMAIN Languages,
         Nested(s, p), Found(s, w, found), s # << >>
  PROVE  /\ Len(s) \in Nat \ {0}
         /\ found[Len(s) - 1] \in Seq(Letter)
         /\ CallFits(s[Len(s)], found[Len(s) - 1])
         /\ w = WithEdits(s[Len(s)], found[Len(s) - 1])
         /\ w \in Seq(Letter)
         /\ WithoutEdits(s[Len(s)], s[Len(s)].stage, w) = found[Len(s) - 1]
<1>1. Len(s) \in Nat \ {0}
  BY DEF Nested, IsSequence
<1>2. Len(s) \in 1 .. Len(s) /\ Len(s) - 1 \in 0 .. Len(s)
  BY <1>1
<1>3. /\ found[Len(s) - 1] \in Seq(Letter) /\ found[Len(s)] \in Seq(Letter)
      /\ found[Len(s)] = w
  BY <1>1, <1>2 DEF Found
<1>4. /\ CallFits(s[Len(s)], found[Len(s) - 1])
      /\ found[Len(s)] = WithEdits(s[Len(s)], found[Len(s) - 1])
  BY <1>2 DEF Found
<1>5. WithoutEdits(s[Len(s)], s[Len(s)].stage, w) = found[Len(s) - 1]
  <2>1. PICK c : c = s[Len(s)]
    OBVIOUS
  <2>2. PICK v : v = found[Len(s) - 1]
    OBVIOUS
  <2>3. WithoutEdits(c, c.stage, WithEdits(c, v)) = v
    BY <2>1, <2>2, <1>3, <1>4, EditsUndone
  <2>4. QED
    BY <2>1, <2>2, <2>3, <1>3, <1>4
<1>6. QED
  BY <1>1, <1>3, <1>4, <1>5

(* A call returns: its edits are taken back. *)
LEMMA PopSound ==
  ASSUME NEW s, NEW w, NEW p, Sound(s, w, p), s # << >>,
         NEW t, t = Front(s),
         NEW v, v = WithoutEdits(s[Len(s)], s[Len(s)].stage, w)
  PROVE  Sound(t, v, "return")
<1>1. lang \in DOMAIN Languages /\ Nested(s, p)
  BY DEF Sound
<1>2. PICK found : Found(s, w, found)
  BY DEF Sound
<1>3. v = found[Len(s) - 1]
  BY <1>1, <1>2, TopFits
<1>4. /\ IsSequence(t) /\ Len(t) = Len(s) - 1 /\ Len(s) \in Nat \ {0}
      /\ \A k \in 1 .. Len(s) - 1 : t[k] = s[k]
  BY <1>1, StackPop DEF Nested
<1>5. PICK n \in Nat : n = Len(t)
  BY <1>4
<1>6. n + 1 = Len(s) /\ \A k \in 1 .. n : t[k] = s[k]
  BY <1>4, <1>5
<1>7. Nested(t, "return")
  <2>1. ASSUME NEW k \in 1 .. n
        PROVE  /\ t[k].mode = (IF k = 1 THEN "begin" ELSE "middle")
               /\ t[k].words >= k - 1
    BY <1>1, <1>6 DEF Nested
  <2>2. ASSUME NEW k \in 1 .. n - 1
        PROVE  t[k].stage # "try" /\ t[k + 1].start = At(t[k])
    <3>1. k \in 1 .. Len(s) - 1 /\ k \in 1 .. n /\ k + 1 \in 1 .. n
      BY <1>6
    <3>2. QED
      BY <3>1, <1>1, <1>6 DEF Nested
  <2>3. QED
    BY <2>1, <2>2, <1>4, <1>5 DEF Nested
<1>8. PICK g : g = [k \in 0 .. n |-> found[k]]
  OBVIOUS
<1>9. \A k \in 0 .. n : g[k] = found[k] /\ found[k] \in Seq(Letter)
  BY <1>2, <1>6, <1>8 DEF Found
<1>10. Found(t, v, g)
  <2>1. g \in [0 .. n -> Seq(Letter)]
    BY <1>8, <1>9
  <2>2. g[0] = input /\ g[n] = v
    BY <1>2, <1>3, <1>6, <1>9 DEF Found
  <2>3. ASSUME NEW k \in 1 .. n
        PROVE  CallFits(t[k], g[k - 1]) /\ g[k] = WithEdits(t[k], g[k - 1])
    <3>1. k \in 1 .. Len(s) /\ k \in 0 .. n /\ k - 1 \in 0 .. n
      BY <1>6
    <3>2. CallFits(s[k], found[k - 1]) /\ found[k] = WithEdits(s[k], found[k - 1])
      BY <3>1, <1>2 DEF Found
    <3>3. QED
      BY <3>1, <3>2, <1>6, <1>9
  <2>4. QED
    BY <2>1, <2>2, <2>3, <1>5 DEF Found
<1>11. g \in [0 .. Len(t) -> Seq(Letter)]
  BY <1>10 DEF Found
<1>12. QED
  BY <1>1, <1>7, <1>10, <1>11 DEF Sound

(* The call on top is changed, and the buffer is what its edits make of    *)
(* the one it found.                                                       *)
LEMMA TopSound ==
  ASSUME NEW s, NEW w, NEW p, lang \in DOMAIN Languages, Nested(s, p),
         NEW found, Found(s, w, found), s # << >>,
         NEW c, CallFits(c, found[Len(s) - 1]),
         c.mode = s[Len(s)].mode, c.words = s[Len(s)].words,
         c.start = s[Len(s)].start,
         NEW q \in {"search", "last"}, q = "search" <=> c.stage = "try",
         NEW v, v = WithEdits(c, found[Len(s) - 1]),
         NEW t, t = [s EXCEPT ![Len(s)] = c]
  PROVE  Sound(t, v, q)
<1>1. /\ IsSequence(t) /\ Len(t) = Len(s) /\ Len(s) \in Nat \ {0}
      /\ t[Len(s)] = c
      /\ \A k \in 1 .. Len(s) - 1 : t[k] = s[k]
  <2>1. IsSequence(s)
    BY DEF Nested
  <2>2. Replaces(t, s, c)
    BY <2>1, StackTop
  <2>3. QED
    BY <2>2 DEF Replaces
<1>2. PICK n \in Nat \ {0} : n = Len(s)
  BY <1>1
<1>els. /\ \A k \in 1 .. n - 1 : t[k] = s[k]
        /\ t[n].mode = s[n].mode /\ t[n].words = s[n].words
        /\ t[n].start = s[n].start
  BY <1>1, <1>2
<1>3. found[n - 1] \in Seq(Letter)
  BY <1>2, TopFits
<1>4. v \in Seq(Letter)
  <2>1. PICK u \in Seq(Letter) : u = found[n - 1]
    BY <1>3
  <2>2. WithEdits(c, u) \in Seq(Letter)
    BY <2>1, <1>2, EditsUndone
  <2>3. QED
    BY <2>1, <2>2, <1>2
<1>5. Nested(t, q)
  <2>1. ASSUME NEW k \in 1 .. n
        PROVE  /\ t[k].mode = (IF k = 1 THEN "begin" ELSE "middle")
               /\ t[k].words >= k - 1
    <3>1. /\ s[k].mode = (IF k = 1 THEN "begin" ELSE "middle")
          /\ s[k].words >= k - 1
      BY <1>2 DEF Nested
    <3>2. t[k].mode = s[k].mode /\ t[k].words = s[k].words
      <4>1. k = n \/ k \in 1 .. n - 1
        OBVIOUS
      <4>2. QED
        BY <4>1, <1>els
    <3>3. QED
      BY <3>1, <3>2
  <2>2. ASSUME NEW k \in 1 .. n - 1
        PROVE  t[k].stage # "try" /\ t[k + 1].start = At(t[k])
    <3>1. t[k] = s[k] /\ t[k + 1].start = s[k + 1].start
      <4>1. k + 1 = n \/ k + 1 \in 1 .. n - 1
        OBVIOUS
      <4>2. QED
        BY <4>1, <1>els
    <3>2. QED
      BY <3>1, <1>2 DEF Nested
  <2>3. t # << >>
    BY <1>1
  <2>4. QED
    BY <2>1, <2>2, <2>3, <1>1, <1>2 DEF Nested
<1>6. PICK g : g = [found EXCEPT ![n] = v]
  OBVIOUS
<1>7. /\ g \in [0 .. n -> Seq(Letter)] /\ g[n] = v
      /\ \A k \in 0 .. n - 1 : g[k] = found[k]
  BY <1>2, <1>4, <1>6 DEF Found
<1>8. Found(t, v, g)
  <2>1. g[0] = input
    BY <1>2, <1>7 DEF Found
  <2>2. ASSUME NEW k \in 1 .. n
        PROVE  CallFits(t[k], g[k - 1]) /\ g[k] = WithEdits(t[k], g[k - 1])
    <3>1. g[k - 1] = found[k - 1]
      BY <1>7
    <3>2. CASE k = n
      BY <3>1, <3>2, <1>1, <1>2, <1>7
    <3>3. CASE k # n
      <4>1. t[k] = s[k] /\ g[k] = found[k]
        <5>1. k \in 1 .. n - 1 /\ k \in 0 .. n - 1
          BY <3>3
        <5>2. QED
          BY <5>1, <1>els, <1>7
      <4>2. QED
        BY <4>1, <3>1, <1>2 DEF Found
    <3>4. QED
      BY <3>2, <3>3
  <2>3. QED
    BY <2>1, <2>2, <1>1, <1>2, <1>7 DEF Found
<1>9. g \in [0 .. Len(t) -> Seq(Letter)]
  BY <1>8 DEF Found
<1>10. QED
  BY <1>5, <1>8, <1>9 DEF Sound

(* A call opens on the rest of the word. *)
LEMMA PushSound ==
  ASSUME NEW s, NEW w, NEW p, lang \in DOMAIN Languages, Nested(s, p),
         NEW found, Found(s, w, found), s # << >>,
         NEW c, c = s[Len(s)], c.stage # "try",
         NEW d, d = Call(w, At(c), "middle", WordsBefore(c) + 1),
         NEW t, t = Append(Front(s), c) \o <<d>>
  PROVE  Sound(t, w, "search")
<1>1. /\ IsSequence(t) /\ Len(t) = Len(s) + 1 /\ Len(s) \in Nat \ {0}
      /\ \A k \in 1 .. Len(s) - 1 : t[k] = s[k]
      /\ t[Len(s)] = c /\ t[Len(s) + 1] = d
  <2>1. IsSequence(s)
    BY DEF Nested
  <2>2. Extends(t, s, c, d)
    BY <2>1, StackPush
  <2>3. QED
    BY <2>2 DEF Extends
<1>2. PICK n \in Nat \ {0} : n = Len(s)
  BY <1>1
<1>els. /\ Len(t) = n + 1 /\ t[n + 1] = d
        /\ \A k \in 1 .. n : t[k] = s[k]
  <2>1. \A k \in 1 .. n : k = n \/ k \in 1 .. n - 1
    OBVIOUS
  <2>2. QED
    BY <2>1, <1>1, <1>2
<1>3. /\ found[n - 1] \in Seq(Letter)
      /\ CallFits(c, found[n - 1])
      /\ w = WithEdits(c, found[n - 1])
      /\ w \in Seq(Letter)
  BY <1>2, TopFits
<1>4. At(c) \in Nat
  <2>1. PICK u \in Seq(Letter) : u = found[n - 1]
    BY <1>3
  <2>2. At(c) \in c.i .. Len(WithEdits(c, u))
    BY <2>1, <1>3, EditsUndone
  <2>3. c.i \in Nat
    BY <1>3 DEF CallFits, IsCall
  <2>4. QED
    BY <2>1, <2>2, <2>3, <1>3
<1>5. /\ c.words \in Nat /\ c.words >= n - 1
      /\ WordsBefore(c) \in Nat /\ WordsBefore(c) >= c.words
  <2>1. c.words \in Nat /\ c.part1.words \in Nat
    BY <1>3 DEF CallFits, IsCall
  <2>2. c.words >= n - 1
    <3>1. n \in 1 .. Len(s)
      BY <1>2
    <3>2. QED
      BY <3>1, <1>2 DEF Nested
  <2>3. Adds(c.part1) \in Nat
    BY <2>1 DEF Adds
  <2>4. QED
    BY <2>1, <2>2, <2>3 DEF WordsBefore
<1>6. /\ d.start = At(c) /\ d.mode = "middle" /\ d.words = WordsBefore(c) + 1
      /\ d.stage = "try"
  BY DEF Call
<1>7. CallFits(d, w)
  <2>1. MinLetters \in Nat \ {0} /\ Len(w) \in Nat
    BY <1>3, MinLettersType
  <2>2. d = [start |-> At(c), mode |-> "middle", words |-> WordsBefore(c) + 1,
             i |-> At(c) + MinLetters, last |-> Len(w) - MinLetters,
             joint |-> 0, stage |-> "try", part1 |-> NoWord]
    BY DEF Call
  <2>3. NoWord.words \in Nat
    BY DEF NoWord, Result
  <2>4. Len(L.patterns) \in Nat
    BY TextAssumption DEF L
  <2>5. IsCall(d)
    <3>1. /\ d.start \in Nat /\ d.i \in Nat /\ d.words \in Nat
          /\ d.last \in Int
      BY <2>1, <2>2, <1>4, <1>5
    <3>2. /\ d.joint \in 0 .. Len(L.patterns)
          /\ d.stage \in {"try", "tail", "tripled"}
          /\ d.part1.words \in Nat
      BY <2>2, <2>3, <2>4
    <3>3. QED
      BY <2>2, <3>1, <3>2 DEF IsCall
  <2>6. QED
    BY <2>1, <2>2, <2>5, <1>4 DEF CallFits
<1>8. Nested(t, "search")
  <2>1. ASSUME NEW k \in 1 .. n + 1
        PROVE  /\ t[k].mode = (IF k = 1 THEN "begin" ELSE "middle")
               /\ t[k].words >= k - 1
    <3>1. CASE k = n + 1
      BY <3>1, <1>5, <1>6, <1>els
    <3>2. CASE k # n + 1
      <4>1. k \in 1 .. n
        BY <3>2
      <4>2. QED
        BY <4>1, <1>2, <1>els DEF Nested
    <3>3. QED
      BY <3>1, <3>2
  <2>2. ASSUME NEW k \in 1 .. n
        PROVE  t[k].stage # "try" /\ t[k + 1].start = At(t[k])
    <3>1. CASE k = n
      BY <3>1, <1>1, <1>2, <1>6
    <3>2. CASE k # n
      <4>1. k \in 1 .. n - 1 /\ k \in 1 .. n /\ k + 1 \in 1 .. n
        BY <3>2
      <4>2. QED
        BY <4>1, <1>2, <1>els DEF Nested
    <3>3. QED
      BY <3>1, <3>2
  <2>3. t # << >>
    BY <1>1
  <2>4. QED
    BY <2>1, <2>2, <2>3, <1>1, <1>2, <1>6 DEF Nested
<1>9. PICK g : g = [k \in 0 .. n + 1 |-> IF k = n + 1 THEN w ELSE found[k]]
  OBVIOUS
<1>10. /\ g \in [0 .. n + 1 -> Seq(Letter)] /\ g[n + 1] = w
       /\ \A k \in 0 .. n : g[k] = found[k]
  <2>1. \A k \in 0 .. n : found[k] \in Seq(Letter)
    BY <1>2 DEF Found
  <2>2. QED
    BY <2>1, <1>3, <1>9
<1>11. Found(t, w, g)
  <2>1. g[0] = input
    <3>1. 0 \in 0 .. n
      OBVIOUS
    <3>2. found[0] = input
      BY DEF Found
    <3>3. QED
      BY <1>10, <3>1, <3>2
  <2>2. ASSUME NEW k \in 1 .. n + 1
        PROVE  CallFits(t[k], g[k - 1]) /\ g[k] = WithEdits(t[k], g[k - 1])
    <3>1. CASE k = n + 1
      <4>1. g[k - 1] = w
        BY <3>1, <1>2, <1>10 DEF Found
      <4>2. WithEdits(d, w) = w
        BY <1>6 DEF WithEdits
      <4>3. QED
        BY <3>1, <4>1, <4>2, <1>7, <1>10, <1>els
    <3>2. CASE k # n + 1
      <4>1. k \in 1 .. n /\ k - 1 \in 0 .. n /\ k \in 0 .. n
        BY <3>2
      <4>2. CallFits(s[k], found[k - 1]) /\ found[k] = WithEdits(s[k], found[k - 1])
        BY <4>1, <1>2 DEF Found
      <4>3. QED
        BY <4>1, <4>2, <1>10, <1>els
    <3>3. QED
      BY <3>1, <3>2
  <2>3. QED
    BY <2>1, <2>2, <1>10, <1>els DEF Found
<1>12. g \in [0 .. Len(t) -> Seq(Letter)]
  BY <1>11 DEF Found
<1>13. QED
  BY <1>8, <1>11, <1>12 DEF Sound

LEMMA NextPlaceFits ==
  ASSUME lang \in DOMAIN Languages, NEW c, NEW w \in Seq(Letter), CallFits(c, w),
         NEW d, d = NextPlace(c)
  PROVE  /\ CallFits(d, w) /\ d.stage = "try"
         /\ d.mode = c.mode /\ d.words = c.words /\ d.start = c.start
<1>1. d = [start |-> c.start, mode |-> c.mode, words |-> c.words, i |-> c.i + 1,
           last |-> c.last, joint |-> 0, stage |-> "try", part1 |-> NoWord]
  BY DEF CallFits, IsCall, NextPlace
<1>2. NoWord.words \in Nat
  BY DEF NoWord, Result
<1>3. Len(L.patterns) \in Nat /\ MinLetters \in Nat
  BY TextAssumption, MinLettersType DEF L
<1>4. QED
  BY <1>1, <1>2, <1>3 DEF CallFits, IsCall

LEMMA NextJointFits ==
  ASSUME lang \in DOMAIN Languages, NEW c, NEW w \in Seq(Letter), CallFits(c, w),
         NEW d, d = NextJoint(c) \/ d = GiveUp(c)
  PROVE  /\ CallFits(d, w) /\ d.stage = "try"
         /\ d.mode = c.mode /\ d.words = c.words /\ d.start = c.start
<1>1. CASE d = NextPlace(c)
  BY <1>1, NextPlaceFits
<1>2. CASE c.joint < Len(L.patterns)
           /\ d = [c EXCEPT !.joint = @ + 1, !.stage = "try", !.part1 = NoWord]
  <2>1. d = [start |-> c.start, mode |-> c.mode, words |-> c.words, i |-> c.i,
             last |-> c.last, joint |-> c.joint + 1, stage |-> "try",
             part1 |-> NoWord]
    BY <1>2 DEF CallFits, IsCall
  <2>2. NoWord.words \in Nat
    BY DEF NoWord, Result
  <2>3. Len(L.patterns) \in Nat /\ MinLetters \in Nat
    BY TextAssumption, MinLettersType DEF L
  <2>4. QED
    <3>1. IsCall(c) /\ c.last = Len(w) - MinLetters /\ c.i - c.start >= MinLetters
      BY DEF CallFits
    <3>2. /\ d.start \in Nat /\ d.i \in Nat /\ d.words \in Nat
          /\ d.last \in Int
      BY <2>1, <3>1 DEF IsCall
    <3>3. d.joint \in 0 .. Len(L.patterns)
      <4>1. d.joint = c.joint + 1 /\ c.joint \in 0 .. Len(L.patterns)
        BY <2>1, <3>1 DEF IsCall
      <4>2. QED
        BY <4>1, <1>2, <2>3
    <3>4. d.part1.words \in Nat /\ d.stage = "try"
      BY <2>1, <2>2
    <3>5. IsCall(d)
      BY <2>1, <3>2, <3>3, <3>4 DEF IsCall
    <3>6. d.last = c.last /\ d.i = c.i /\ d.start = c.start
      BY <2>1
    <3>7. CallFits(d, w)
      BY <3>1, <3>4, <3>5, <3>6 DEF CallFits
    <3>8. QED
      BY <2>1, <3>7
<1>3. QED
  BY <1>1, <1>2 DEF NextJoint, GiveUp

-------------------------------------------------------------------------------
(* The invariant speaks of the dictionary and the input, which stay.       *)

LEMMA SameFits ==
  ASSUME UNCHANGED <<lang, input>>, NEW c, NEW w
  PROVE  /\ CallFits(c, w)' <=> CallFits(c, w)
         /\ WithEdits(c, w)' = WithEdits(c, w)
         /\ At(c)' = At(c)
<1>1. L' = L /\ MinLetters' = MinLetters
  BY DEF L, MinLetters
<1>2. Pattern(c)' = Pattern(c)
  BY <1>1 DEF Pattern
<1>3. At(c)' = At(c) /\ WrittenOut(c, w)' = WrittenOut(c, w)
  BY <1>2 DEF At, WrittenOut
<1>4. \A u : Tripled(c, u)' = Tripled(c, u)
  BY <1>3 DEF Tripled
<1>5. WithEdits(c, w)' = WithEdits(c, w)
  BY <1>3, <1>4 DEF WithEdits
<1>6. JointApplies(c, w)' <=> JointApplies(c, w)
  BY <1>2 DEF JointApplies
<1>7. IsCall(c)' <=> IsCall(c)
  BY <1>1 DEF IsCall
<1>8. QED
  BY <1>1, <1>3, <1>5, <1>6, <1>7 DEF CallFits

LEMMA SameFound ==
  ASSUME UNCHANGED <<lang, input>>, NEW s, NEW w, NEW found, Found(s, w, found)
  PROVE  Found(s, w, found)'
BY SameFits DEF Found

LEMMA SameNested ==
  ASSUME UNCHANGED <<lang, input>>, NEW s, NEW p, Nested(s, p)
  PROVE  Nested(s, p)'
BY SameFits DEF Nested

LEMMA Frame ==
  ASSUME UNCHANGED <<lang, input>>, Sound(calls', word', pc')
  PROVE  IInv'
<1>1. PICK s : s = calls'
  OBVIOUS
<1>2. PICK w : w = word'
  OBVIOUS
<1>3. PICK p : p = pc'
  OBVIOUS
<1>4. Sound(s, w, p)
  BY <1>1, <1>2, <1>3
<1>5. PICK found \in [0 .. Len(s) -> Seq(Letter)] : Found(s, w, found)
  BY <1>4 DEF Sound
<1>6. Nested(s, p)' /\ Found(s, w, found)'
  BY <1>4, <1>5, SameNested, SameFound DEF Sound
<1>7. lang' \in DOMAIN Languages
  BY <1>4 DEF Sound
<1>8. Sound(s, w, p)'
  BY <1>5, <1>6, <1>7 DEF Sound
<1>9. QED
  BY <1>1, <1>2, <1>3, <1>8 DEF IInv

LEMMA InitIInv == Init => IInv
<1>1. SUFFICES ASSUME Init PROVE IInv
  OBVIOUS
<1>2. lang \in DOMAIN Languages /\ input \in Seq(Letter) /\ word = input
  BY <1>1, TextAssumption DEF Init
<1>3. CASE L.enabled
  <2>1. PICK c : c = Call(input, 0, "begin", 0)
    OBVIOUS
  <2>2. calls = <<c>> /\ pc = "search"
    BY <1>1, <1>3, <2>1 DEF Init
  <2>3. /\ c = [start |-> 0, mode |-> "begin", words |-> 0, i |-> 0 + MinLetters,
                last |-> Len(input) - MinLetters, joint |-> 0, stage |-> "try",
                part1 |-> NoWord]
        /\ NoWord.words \in Nat
    BY <2>1 DEF Call, NoWord, Result
  <2>4. Len(L.patterns) \in Nat /\ MinLetters \in Nat /\ Len(input) \in Nat
    BY <1>2, TextAssumption, MinLettersType DEF L
  <2>5. CallFits(c, input)
    BY <2>3, <2>4 DEF CallFits, IsCall
  <2>6. WithEdits(c, input) = input
    BY <2>3 DEF WithEdits
  <2>7. Len(calls) = 1 /\ calls[1] = c /\ IsSequence(calls)
    <3>1. calls \in Seq({c}) /\ Len(calls) = 1 /\ calls[1] = c
      BY <2>2
    <3>2. IsSequence(calls)
      BY <3>1, SequenceOf
    <3>3. QED
      BY <3>1, <3>2
  <2>8. Nested(calls, pc)
    BY <2>2, <2>3, <2>7 DEF Nested
  <2>9. PICK g : g = [k \in 0 .. 1 |-> input]
    OBVIOUS
  <2>10. g \in [0 .. 1 -> Seq(Letter)] /\ g[0] = input /\ g[1] = input
    BY <1>2, <2>9
  <2>11. Found(calls, word, g)
    BY <1>2, <2>5, <2>6, <2>7, <2>10 DEF Found
  <2>12. QED
    BY <1>2, <2>7, <2>8, <2>10, <2>11 DEF IInv, Sound
<1>4. CASE ~ L.enabled
  <2>1. calls = << >> /\ pc = "rules"
    BY <1>1, <1>4 DEF Init
  <2>2. Len(calls) = 0 /\ IsSequence(calls)
    BY <2>1 DEF IsSequence
  <2>3. Nested(calls, pc)
    BY <2>1, <2>2 DEF Nested
  <2>4. PICK g : g = [k \in 0 .. 0 |-> input]
    OBVIOUS
  <2>5. g \in [0 .. 0 -> Seq(Letter)] /\ g[0] = input
    BY <1>2, <2>4
  <2>6. Found(calls, word, g)
    BY <1>2, <2>2, <2>5 DEF Found
  <2>7. QED
    BY <1>2, <2>2, <2>3, <2>5, <2>6 DEF IInv, Sound
<1>5. QED
  BY <1>3, <1>4

(* What is known of the call that takes a step. *)
TopIs(n, c, u, found) ==
  /\ n \in Nat \ {0} /\ u \in Seq(Letter)
  /\ n = Len(calls) /\ c = Top /\ n = Depth
  /\ lang \in DOMAIN Languages /\ Nested(calls, pc)
  /\ Found(calls, word, found) /\ found[n - 1] = u
  /\ CallFits(c, u) /\ word = WithEdits(c, u) /\ word \in Seq(Letter)
  /\ WithoutEdits(c, c.stage, word) = u

LEMMA TopKnown ==
  ASSUME IInv, calls # << >>
  PROVE  \E n, c, u, found : TopIs(n, c, u, found)
<1>1. lang \in DOMAIN Languages /\ Nested(calls, pc)
  BY DEF IInv, Sound
<1>2. PICK found : Found(calls, word, found)
  BY DEF IInv, Sound
<1>3. PICK s, w, p : s = calls /\ w = word /\ p = pc
  OBVIOUS
<1>4. /\ Len(s) \in Nat \ {0}
      /\ found[Len(s) - 1] \in Seq(Letter)
      /\ CallFits(s[Len(s)], found[Len(s) - 1])
      /\ w = WithEdits(s[Len(s)], found[Len(s) - 1])
      /\ w \in Seq(Letter)
      /\ WithoutEdits(s[Len(s)], s[Len(s)].stage, w) = found[Len(s) - 1]
  BY <1>1, <1>2, <1>3, TopFits
<1>5. PICK n, c, u : n = Len(s) /\ c = s[Len(s)] /\ u = found[Len(s) - 1]
  OBVIOUS
<1>6. n \in Nat \ {0} /\ u \in Seq(Letter)
  BY <1>4, <1>5
<1>7. /\ n = Len(calls) /\ c = Top /\ n = Depth
      /\ CallFits(c, u) /\ word = WithEdits(c, u) /\ word \in Seq(Letter)
      /\ WithoutEdits(c, c.stage, word) = u /\ found[n - 1] = u
  BY <1>3, <1>4, <1>5 DEF Top, Depth
<1>8. TopIs(n, c, u, found)
  BY <1>1, <1>2, <1>6, <1>7 DEF TopIs
<1>9. QED
  BY <1>8

(* The step changes the top call to c, at stage "try" or with its edits. *)
LEMMA ChangeTop ==
  ASSUME IInv, UNCHANGED <<lang, input>>, calls # << >>, NEW found,
         Found(calls, word, found), NEW c, CallFits(c, found[Depth - 1]),
         c.mode = Top.mode, c.words = Top.words, c.start = Top.start,
         calls' = [calls EXCEPT ![Depth] = c],
         word' = WithEdits(c, found[Depth - 1]),
         pc' = (IF c.stage = "try" THEN "search" ELSE "last")
  PROVE  IInv'
<1>1. lang \in DOMAIN Languages /\ Nested(calls, pc)
  BY DEF IInv, Sound
<1>2. PICK s, w, p, q : s = calls /\ w = word /\ p = pc /\ q = pc'
  OBVIOUS
<1>3. PICK t, v : t = calls' /\ v = word'
  OBVIOUS
<1>4. /\ Nested(s, p) /\ Found(s, w, found) /\ s # << >>
      /\ CallFits(c, found[Len(s) - 1]) /\ v = WithEdits(c, found[Len(s) - 1])
      /\ c.mode = s[Len(s)].mode /\ c.words = s[Len(s)].words
      /\ c.start = s[Len(s)].start /\ t = [s EXCEPT ![Len(s)] = c]
  BY <1>1, <1>2, <1>3 DEF Top, Depth
<1>5. q \in {"search", "last"} /\ (q = "search" <=> c.stage = "try")
  BY <1>2
<1>6. Sound(t, v, q)
  BY <1>1, <1>4, <1>5, TopSound
<1>7. QED
  BY <1>2, <1>3, <1>6, Frame

(* The step returns from the top call. *)
LEMMA ReturnFromTop ==
  ASSUME IInv, UNCHANGED <<lang, input>>, calls # << >>, calls' = Front(calls),
         pc' = "return", word' = WithoutEdits(Top, Top.stage, word)
  PROVE  IInv'
<1>1. PICK s, w, p : s = calls /\ w = word /\ p = pc
  OBVIOUS
<1>2. PICK t, v : t = calls' /\ v = word'
  OBVIOUS
<1>3. /\ Sound(s, w, p) /\ s # << >> /\ t = Front(s)
      /\ v = WithoutEdits(s[Len(s)], s[Len(s)].stage, w)
  BY <1>1, <1>2 DEF Top, Depth, IInv
<1>4. Sound(t, v, "return")
  BY <1>3, PopSound
<1>5. QED
  BY <1>2, <1>4, Frame

(* The step goes on to another joint or place, with the edits undone. *)
LEMMA TryNext ==
  ASSUME IInv, UNCHANGED <<lang, input>>, calls # << >>,
         NEW c, c = NextJoint(Top) \/ c = GiveUp(Top), SetTop(c),
         word' = WithoutEdits(Top, Top.stage, word), pc' = "search"
  PROVE  IInv'
<1>1. PICK n, d, u, found : TopIs(n, d, u, found)
  BY TopKnown
<1>2. c = NextJoint(d) \/ c = GiveUp(d)
  BY <1>1 DEF TopIs
<1>3. /\ CallFits(c, u) /\ c.stage = "try"
      /\ c.mode = d.mode /\ c.words = d.words /\ c.start = d.start
  BY <1>1, <1>2, NextJointFits DEF TopIs
<1>4. word' = WithEdits(c, u)
  BY <1>1, <1>3 DEF WithEdits, TopIs
<1>5. /\ CallFits(c, found[Depth - 1]) /\ word' = WithEdits(c, found[Depth - 1])
      /\ c.mode = Top.mode /\ c.words = Top.words /\ c.start = Top.start
      /\ calls' = [calls EXCEPT ![Depth] = c]
      /\ pc' = (IF c.stage = "try" THEN "search" ELSE "last")
  BY <1>1, <1>3, <1>4 DEF SetTop, TopIs
<1>6. QED
  BY <1>1, <1>5, ChangeTop DEF TopIs

-------------------------------------------------------------------------------
(* One lemma per action.                                                   *)

LEMMA SearchHasCall ==
  ASSUME IInv, pc \in {"search", "last"}
  PROVE  /\ calls # << >>
         /\ pc = "search" => Top.stage = "try"
         /\ pc = "last" => Top.stage # "try"
BY DEF IInv, Sound, Nested, Top, Depth

LEMMA SkipJointIInv == IInv /\ SkipJoint => IInv'
<1>1. SUFFICES ASSUME IInv, SkipJoint PROVE IInv'
  OBVIOUS
<1>2. /\ UNCHANGED <<lang, input>> /\ pc = "search" /\ pc' = "search"
      /\ SetTop(NextJoint(Top)) /\ word' = word
  BY <1>1 DEF SkipJoint, Searching, FixedInput
<1>3. calls # << >> /\ Top.stage = "try"
  BY <1>1, <1>2, SearchHasCall
<1>4. word' = WithoutEdits(Top, Top.stage, word)
  BY <1>2, <1>3 DEF WithoutEdits
<1>5. QED
  BY <1>1, <1>2, <1>3, <1>4, TryNext

LEMMA JoinFirstIInv == IInv /\ JoinFirst => IInv'
<1>1. SUFFICES ASSUME IInv, JoinFirst PROVE IInv'
  OBVIOUS
<1>2. /\ UNCHANGED <<lang, input>> /\ pc = "search" /\ pc' = "last"
      /\ JointApplies(Top, word) /\ Top.i <= Top.last
      /\ word' = WrittenOut(Top, word)
  BY <1>1 DEF JoinFirst, Searching, FixedInput
<1>3. PICK part1 : part1 = FirstPart(Top, word')
  OBVIOUS
<1>4. part1 # NoWord /\ SetTop([Top EXCEPT !.stage = "tail", !.part1 = part1])
  BY <1>1, <1>3 DEF JoinFirst, FirstFits
<1>5. part1.words \in Nat
  BY <1>3, CheckWordCounts DEF FirstPart
<1>6. calls # << >> /\ Top.stage = "try"
  BY <1>1, <1>2, SearchHasCall
<1>7. PICK n, d, u, found : TopIs(n, d, u, found)
  BY <1>1, <1>6, TopKnown
<1>8. /\ CallFits(d, u) /\ word = u /\ d = Top
      /\ Found(calls, word, found) /\ found[Depth - 1] = u
  <2>1. WithEdits(d, u) = u
    BY <1>6, <1>7 DEF TopIs, WithEdits
  <2>2. QED
    BY <1>7, <2>1 DEF TopIs
<1>9. PICK c : c = [d EXCEPT !.stage = "tail", !.part1 = part1]
  OBVIOUS
<1>10. c = [start |-> d.start, mode |-> d.mode, words |-> d.words, i |-> d.i,
            last |-> d.last, joint |-> d.joint, stage |-> "tail",
            part1 |-> part1]
  BY <1>8, <1>9 DEF CallFits, IsCall
<1>11. IsCall(c)
  BY <1>5, <1>8, <1>10 DEF CallFits, IsCall
<1>12. /\ Pattern(c) = Pattern(d) /\ c.i = d.i
  BY <1>10 DEF Pattern
<1>13. CallFits(c, u)
  <2>1. JointApplies(c, u) /\ c.i <= c.last
    BY <1>2, <1>8, <1>10, <1>12 DEF JointApplies
  <2>2. QED
    BY <1>4, <1>8, <1>10, <1>11, <2>1 DEF CallFits
<1>14. word' = WithEdits(c, u)
  BY <1>2, <1>8, <1>10, <1>12 DEF WithEdits, WrittenOut
<1>15. /\ c.mode = Top.mode /\ c.words = Top.words /\ c.start = Top.start
       /\ calls' = [calls EXCEPT ![Depth] = c] /\ c.stage = "tail"
  BY <1>4, <1>8, <1>9, <1>10 DEF SetTop
<1>16. /\ CallFits(c, found[Depth - 1]) /\ word' = WithEdits(c, found[Depth - 1])
       /\ pc' = (IF c.stage = "try" THEN "search" ELSE "last")
  BY <1>2, <1>8, <1>13, <1>14, <1>15
<1>17. QED
  BY <1>1, <1>2, <1>6, <1>8, <1>15, <1>16, ChangeTop

LEMMA TryTripleIInv == IInv /\ TryTriple => IInv'
<1>1. SUFFICES ASSUME IInv, TryTriple PROVE IInv'
  OBVIOUS
<1>2. /\ UNCHANGED <<lang, input>> /\ pc' = "last" /\ calls # << >>
      /\ Top.stage = "tail" /\ L.simplified
      /\ word' = Tripled(Top, word)
      /\ SetTop([Top EXCEPT !.stage = "tripled"])
  BY <1>1 DEF TryTriple, Returned, FixedInput
<1>3. PICK n, d, u, found : TopIs(n, d, u, found)
  BY <1>1, <1>2, TopKnown
<1>4. /\ CallFits(d, u) /\ word = WrittenOut(d, u) /\ d = Top
      /\ Found(calls, word, found) /\ found[Depth - 1] = u
  <2>1. WithEdits(d, u) = WrittenOut(d, u)
    BY <1>2, <1>3 DEF TopIs, WithEdits
  <2>2. QED
    BY <1>3, <2>1 DEF TopIs
<1>5. PICK c : c = [d EXCEPT !.stage = "tripled"]
  OBVIOUS
<1>6. c = [start |-> d.start, mode |-> d.mode, words |-> d.words, i |-> d.i,
           last |-> d.last, joint |-> d.joint, stage |-> "tripled",
           part1 |-> d.part1]
  BY <1>4, <1>5 DEF CallFits, IsCall
<1>7. IsCall(c)
  BY <1>4, <1>6 DEF CallFits, IsCall
<1>8. Pattern(c) = Pattern(d) /\ c.i = d.i
  BY <1>6 DEF Pattern
<1>9. CallFits(c, u)
  <2>1. d.part1 # NoWord /\ d.i <= d.last /\ JointApplies(d, u)
    BY <1>2, <1>4 DEF CallFits
  <2>2. JointApplies(c, u) /\ c.i <= c.last /\ c.part1 # NoWord
    BY <1>6, <1>8, <2>1 DEF JointApplies
  <2>3. QED
    BY <1>2, <1>4, <1>6, <1>7, <2>2 DEF CallFits
<1>10. word' = WithEdits(c, u)
  <2>1. WithEdits(c, u) = Tripled(c, WrittenOut(c, u))
    BY <1>6 DEF WithEdits
  <2>2. WrittenOut(c, u) = WrittenOut(d, u) /\ At(c) = At(d)
    BY <1>8 DEF WrittenOut, At
  <2>3. QED
    BY <1>2, <1>4, <2>1, <2>2 DEF Tripled
<1>11. /\ c.mode = Top.mode /\ c.words = Top.words /\ c.start = Top.start
       /\ calls' = [calls EXCEPT ![Depth] = c] /\ c.stage = "tripled"
  BY <1>2, <1>4, <1>5, <1>6 DEF SetTop
<1>12. /\ CallFits(c, found[Depth - 1]) /\ word' = WithEdits(c, found[Depth - 1])
       /\ pc' = (IF c.stage = "try" THEN "search" ELSE "last")
  BY <1>2, <1>4, <1>9, <1>10, <1>11
<1>13. QED
  BY <1>1, <1>2, <1>4, <1>11, <1>12, ChangeTop

LEMMA AcceptIInv == IInv /\ (AcceptLast \/ AcceptTail) => IInv'
<1>1. SUFFICES ASSUME IInv, AcceptLast \/ AcceptTail PROVE IInv'
  OBVIOUS
<1>2. /\ UNCHANGED <<lang, input>> /\ pc' = "return" /\ calls' = Front(calls)
      /\ word' = WithoutEdits(Top, Top.stage, word)
  BY <1>1 DEF AcceptLast, AcceptTail, Return, Undo, FixedInput
<1>3. calls # << >>
  BY <1>1, SearchHasCall DEF AcceptLast, AcceptTail, Returned
<1>4. QED
  BY <1>1, <1>2, <1>3, ReturnFromTop

LEMMA ExhaustedIInv == IInv /\ Exhausted => IInv'
<1>1. SUFFICES ASSUME IInv, Exhausted PROVE IInv'
  OBVIOUS
<1>2. /\ UNCHANGED <<lang, input>> /\ pc' = "return" /\ calls' = Front(calls)
      /\ pc = "search" /\ word' = word
  BY <1>1 DEF Exhausted, Return, FixedInput
<1>3. calls # << >> /\ Top.stage = "try"
  BY <1>1, <1>2, SearchHasCall
<1>4. word' = WithoutEdits(Top, Top.stage, word)
  BY <1>2, <1>3 DEF WithoutEdits
<1>5. QED
  BY <1>1, <1>2, <1>3, <1>4, ReturnFromTop

LEMMA JointGivenUpIInv == IInv /\ (TooManyWords \/ JointFails) => IInv'
<1>1. SUFFICES ASSUME IInv, TooManyWords \/ JointFails PROVE IInv'
  OBVIOUS
<1>2. PICK c : SetTop(c) /\ (c = NextJoint(Top) \/ c = GiveUp(Top))
  BY <1>1 DEF TooManyWords, JointFails
<1>3. /\ UNCHANGED <<lang, input>> /\ pc' = "search"
      /\ word' = WithoutEdits(Top, Top.stage, word)
  BY <1>1 DEF TooManyWords, JointFails, Undo, FixedInput
<1>4. calls # << >>
  BY <1>1, SearchHasCall DEF TooManyWords, JointFails, Returned
<1>5. QED
  BY <1>1, <1>2, <1>3, <1>4, TryNext

LEMMA RecurseOnRestIInv == IInv /\ RecurseOnRest => IInv'
<1>1. SUFFICES ASSUME IInv, RecurseOnRest PROVE IInv'
  OBVIOUS
<1>2. PICK s, w, p, t, c, d :
        /\ s = calls /\ w = word /\ p = pc /\ t = calls' /\ c = Top
        /\ d = Call(word, At(Top), "middle", WordsBefore(Top) + 1)
  OBVIOUS
<1>3. /\ UNCHANGED <<lang, input>> /\ pc = "last" /\ pc' = "search"
      /\ word' = word /\ t = Append(Front(s), c) \o <<d>>
  BY <1>1, <1>2 DEF RecurseOnRest, CheckRest, FixedInput
<1>4. s # << >> /\ c.stage # "try" /\ c = s[Len(s)]
  BY <1>1, <1>2, <1>3, SearchHasCall DEF Top, Depth
<1>5. lang \in DOMAIN Languages /\ Nested(s, p)
  BY <1>1, <1>2 DEF IInv, Sound
<1>6. PICK found : Found(s, w, found)
  BY <1>1, <1>2 DEF IInv, Sound
<1>7. d = Call(w, At(c), "middle", WordsBefore(c) + 1)
  BY <1>2
<1>8. Sound(t, w, "search")
  BY <1>3, <1>4, <1>5, <1>6, <1>7, PushSound
<1>9. QED
  BY <1>2, <1>3, <1>8, Frame

(* The outermost call is back, or nothing changes. *)
LEMMA EndIInv ==
  ASSUME IInv, UNCHANGED <<lang, input, calls, word>>,
         pc' = pc \/ pc' \in {"rules", "done"}
  PROVE  IInv'
<1>1. PICK s, w, p, q : s = calls /\ w = word /\ p = pc /\ q = pc'
  OBVIOUS
<1>2. Sound(s, w, p)
  BY <1>1 DEF IInv
<1>3. Nested(s, q)
  BY <1>1, <1>2 DEF Sound, Nested
<1>4. Sound(s, w, q)
  BY <1>2, <1>3 DEF Sound
<1>5. QED
  BY <1>1, <1>4, Frame

LEMMA OverflowStackIInv == IInv /\ OverflowStack => IInv'
<1>1. SUFFICES ASSUME IInv, OverflowStack PROVE IInv'
  OBVIOUS
<1>2. PICK s, w, p : s = calls /\ w = word /\ p = pc
  OBVIOUS
<1>3. /\ UNCHANGED <<lang, input, calls, word>> /\ p = "last"
      /\ pc' = "overflow" /\ Len(s) >= StackSize
  BY <1>1, <1>2 DEF OverflowStack, FixedInput, Depth
<1>4. Sound(s, w, p)
  BY <1>1, <1>2 DEF IInv
<1>5. s # << >> /\ s[Len(s)].stage # "try"
  BY <1>3, <1>4 DEF Sound, Nested
<1>6. Nested(s, "overflow")
  BY <1>3, <1>4, <1>5 DEF Sound, Nested
<1>7. Sound(s, w, "overflow")
  BY <1>4, <1>6 DEF Sound
<1>8. QED
  BY <1>2, <1>3, <1>7, Frame

LEMMA NextIInv == IInv /\ [Next]_vars => IInv'
<1>1. SUFFICES ASSUME IInv, [Next]_vars PROVE IInv'
  OBVIOUS
<1>2. CASE SkipJoint
  BY <1>1, <1>2, SkipJointIInv
<1>3. CASE JoinFirst
  BY <1>1, <1>3, JoinFirstIInv
<1>4. CASE AcceptLast \/ AcceptTail
  BY <1>1, <1>4, AcceptIInv
<1>5. CASE TooManyWords \/ JointFails
  BY <1>1, <1>5, JointGivenUpIInv
<1>6. CASE RecurseOnRest
  BY <1>1, <1>6, RecurseOnRestIInv
<1>7. CASE TryTriple
  BY <1>1, <1>7, TryTripleIInv
<1>8. CASE Exhausted
  BY <1>1, <1>8, ExhaustedIInv
<1>9. CASE Finish \/ AskRules
  <2>1. /\ UNCHANGED <<lang, input, calls, word>> /\ pc' \in {"rules", "done"}
    BY <1>9 DEF Finish, AskRules, FixedInput
  <2>2. QED
    BY <1>1, <2>1, EndIInv
<1>10. CASE UNCHANGED vars
  <2>1. UNCHANGED <<lang, input, calls, word>> /\ pc' = pc
    BY <1>10 DEF vars
  <2>2. QED
    BY <1>1, <2>1, EndIInv
<1>11. CASE OverflowStack
  BY <1>1, <1>11, OverflowStackIInv
<1>12. QED
  BY <1>1, <1>2, <1>3, <1>4, <1>5, <1>6, <1>7, <1>8, <1>9, <1>10, <1>11 DEF Next

(* To the open calls belongs a sequence of buffers that ends in the shared *)
(* one.                                                                    *)
THEOREM CompoundCheckIInv == Spec => []IInv
<1>1. Init => IInv
  BY InitIInv
<1>2. IInv /\ [Next]_vars => IInv'
  BY NextIInv
<1>3. QED
  BY <1>1, <1>2, PTL DEF Spec

-------------------------------------------------------------------------------
(* What the invariant says of the calls that are open.                     *)

(* The buffers of the invariant are those that EditedBy computes. *)
LEMMA FoundIsEdited ==
  ASSUME Len(calls) \in Nat, NEW found, Found(calls, word, found)
  PROVE  EditedBy(Depth) = word
<1> DEFINE n == Len(calls)
           step(f, k) == IF k = 0 THEN input ELSE WithEdits(calls[k], f[k - 1])
           after == CHOOSE f : f = [k \in 0 .. n |-> step(f, k)]
<1>1. EditedBy(n) = after[n]
  BY DEF EditedBy
<1>2. found = [k \in 0 .. n |-> step(found, k)]
  <2>1. ASSUME NEW k \in 0 .. n PROVE found[k] = step(found, k)
    BY DEF Found
  <2>2. found \in [0 .. n -> Seq(Letter)]
    BY DEF Found
  <2>3. QED
    BY <2>1, <2>2
<1>3. after = [k \in 0 .. n |-> step(after, k)]
  BY <1>2
<1> HIDE DEF after
<1>4. ASSUME NEW k \in Nat, k \in 0 .. n => after[k] = found[k],
             k + 1 \in 0 .. n
      PROVE  after[k + 1] = found[k + 1]
  <2>1. k \in 0 .. n /\ k + 1 # 0 /\ (k + 1) - 1 = k
    BY <1>4
  <2>2. after[k + 1] = WithEdits(calls[k + 1], after[k])
    BY <1>3, <1>4, <2>1
  <2>3. found[k + 1] = WithEdits(calls[k + 1], found[k])
    BY <1>2, <1>4, <2>1
  <2>4. QED
    BY <1>4, <2>1, <2>2, <2>3
<1> DEFINE S == {k \in Nat : k \in 0 .. n => after[k] = found[k]}
<1>5. 0 \in S
  BY <1>2, <1>3
<1>6. \A k \in Nat : k \in S => k + 1 \in S
  BY <1>4
<1> HIDE DEF S
<1>7. Nat \subseteq S
  BY <1>5, <1>6, SetInduction
<1>8. after[n] = found[n]
  BY <1>7 DEF S
<1>9. QED
  BY <1>1, <1>8 DEF Found, Depth

LEMMA IInvTypeOK == IInv => TypeOK
<1>1. SUFFICES ASSUME IInv PROVE TypeOK
  OBVIOUS
<1>2. PICK found : Found(calls, word, found)
  BY <1>1 DEF IInv, Sound
<1>3. Nested(calls, pc) /\ Len(calls) \in Nat /\ DOMAIN calls = 1 .. Len(calls)
  BY <1>1 DEF IInv, Sound, Nested, IsSequence
<1>4. ASSUME NEW k \in 1 .. Len(calls), NEW c, c = calls[k]
      PROVE  /\ c.mode = (IF k = 1 THEN "begin" ELSE "middle")
             /\ c.words >= k - 1
             /\ c.i - c.start >= MinLetters
             /\ c.joint \in 0..Len(L.patterns)
             /\ c.stage \in (IF k < Len(calls) THEN {"tail", "tripled"}
                             ELSE {"try", "tail", "tripled"})
             /\ c.stage # "try" => c.part1 # NoWord /\ c.i <= c.last
  <2>1. CallFits(c, found[k - 1])
    BY <1>2, <1>4 DEF Found
  <2>2. /\ c.mode = (IF k = 1 THEN "begin" ELSE "middle")
        /\ c.words >= k - 1
        /\ k < Len(calls) => c.stage # "try"
    BY <1>3, <1>4 DEF Nested
  <2>3. QED
    BY <2>1, <2>2 DEF CallFits, IsCall
<1>5. QED
  BY <1>3, <1>4 DEF TypeOK, Nested

(* What the text of a nested call has to do with that of its caller. *)
LEMMA TextAccounted ==
  ASSUME IInv, NEW k \in 1 .. Depth - 1
  PROVE  /\ calls[k + 1].last - calls[k + 1].start
              = (calls[k].last - calls[k].start)
                  - (calls[k].i - calls[k].start) + Added(calls[k])
         /\ calls[k].last - calls[k].start >= MinLetters
         /\ calls[k].last - calls[k].start \in Int
         /\ calls[k + 1].last - calls[k + 1].start \in Int
         /\ calls[k].i - calls[k].start >= MinLetters
         /\ calls[k].i - calls[k].start \in Int
         /\ Added(calls[k]) \in Int
         /\ JointsShrink => Added(calls[k]) < MinLetters
<1>1. PICK found : Found(calls, word, found)
  BY DEF IInv, Sound
<1>2. /\ lang \in DOMAIN Languages /\ Nested(calls, pc)
      /\ Len(calls) \in Nat /\ k \in 1 .. Len(calls) /\ k + 1 \in 1 .. Len(calls)
      /\ k - 1 \in 0 .. Len(calls) /\ (k + 1) - 1 = k
  BY DEF IInv, Sound, Nested, IsSequence, Depth
<1>3. PICK c, d, u, v : /\ c = calls[k] /\ d = calls[k + 1]
                        /\ u = found[k - 1] /\ v = found[k]
  OBVIOUS
<1>4. /\ CallFits(c, u) /\ v = WithEdits(c, u) /\ CallFits(d, v)
      /\ u \in Seq(Letter)
  BY <1>1, <1>2, <1>3 DEF Found
<1>5. c.stage # "try" /\ d.start = At(c)
  BY <1>2, <1>3 DEF Nested, Depth
<1>6. /\ v \in Seq(Letter)
      /\ At(c) \in c.i .. Len(v)
      /\ Len(v) = Len(u) - Len(Pattern(c).replacement) + Len(Pattern(c).first)
                   + Len(Pattern(c).second) + (IF c.stage = "tripled" THEN 1 ELSE 0)
  BY <1>2, <1>4, <1>5, EditsUndone
<1>7. /\ Len(Pattern(c).replacement) \in Nat /\ Len(Pattern(c).first) \in Nat
      /\ Len(Pattern(c).second) \in Nat /\ Len(u) \in Nat /\ Len(v) \in Nat
      /\ c.i \in Nat /\ c.start \in Nat /\ MinLetters \in Nat
  <2>1. c.joint \in 0 .. Len(L.patterns) /\ c.i \in Nat /\ c.start \in Nat
    BY <1>4 DEF CallFits, IsCall
  <2>2. /\ Pattern(c).replacement \in Seq(Letter) /\ Pattern(c).first \in Seq(Letter)
        /\ Pattern(c).second \in Seq(Letter)
    BY <1>2, <2>1, PatternType
  <2>3. MinLetters \in Nat
    BY <1>2, MinLettersType
  <2>4. \A x \in Seq(Letter) : Len(x) \in Nat
    OBVIOUS
  <2>5. QED
    BY <1>4, <1>6, <2>1, <2>2, <2>3, <2>4
<1>8. ASSUME JointsShrink PROVE Added(c) < MinLetters
  <2>1. c.stage = "tripled" => L.simplified
    BY <1>4 DEF CallFits
  <2>2. (IF L.simplified THEN 1 ELSE 0) < MinLetters
    BY <1>8 DEF JointsShrink
  <2>3. CASE c.joint = 0
    <3>1. Len(Pattern(c).second) = 0 /\ Len(Pattern(c).replacement) = 0
      BY <2>3 DEF Pattern, Plain
    <3>2. QED
      BY <2>1, <2>2, <3>1, <1>7 DEF Added
  <2>4. CASE c.joint # 0
    <3>1. c.joint \in 1 .. Len(L.patterns) /\ DOMAIN L.patterns = 1 .. Len(L.patterns)
      <4>1. c.joint \in 0 .. Len(L.patterns)
        BY <1>4 DEF CallFits, IsCall
      <4>2. Len(L.patterns) \in Nat /\ DOMAIN L.patterns = 1 .. Len(L.patterns)
        BY <1>2, TextAssumption DEF L
      <4>3. QED
        BY <2>4, <4>1, <4>2
    <3>2. Pattern(c) = L.patterns[c.joint] /\ Pattern(c).replacement # << >>
      BY <2>4, <1>4, <1>5 DEF Pattern, CallFits, JointApplies
    <3>3. \A j \in DOMAIN L.patterns :
            L.patterns[j].replacement # << >> =>
              Len(L.patterns[j].second) - Len(L.patterns[j].replacement)
                + (IF L.simplified THEN 1 ELSE 0) < MinLetters
      BY <1>8 DEF JointsShrink
    <3>4. Len(Pattern(c).second) - Len(Pattern(c).replacement)
            + (IF L.simplified THEN 1 ELSE 0) < MinLetters
      BY <3>1, <3>2, <3>3
    <3>5. QED
      <4>1. PICK a, b : a = Len(Pattern(c).second) /\ b = Len(Pattern(c).replacement)
        OBVIOUS
      <4>2. a \in Nat /\ b \in Nat /\ a - b + (IF L.simplified THEN 1 ELSE 0) < MinLetters
        BY <4>1, <3>4, <1>7
      <4>3. a - b + (IF c.stage = "tripled" THEN 1 ELSE 0) < MinLetters
        BY <4>2, <2>1, <1>7
      <4>4. QED
        BY <4>1, <4>3 DEF Added
  <2>5. QED
    BY <2>3, <2>4
<1>9. /\ c.last = Len(u) - MinLetters /\ d.last = Len(v) - MinLetters
      /\ c.i - c.start >= MinLetters /\ c.i <= c.last
  BY <1>4, <1>5 DEF CallFits
<1>10. At(c) = c.i + Len(Pattern(c).first)
  BY DEF At
<1>11. /\ d.last - d.start = (c.last - c.start) - (c.i - c.start) + Added(c)
       /\ Added(c) \in Int
  <2>1. PICK f, g, x, m, e :
          /\ f = Len(Pattern(c).first) /\ g = Len(Pattern(c).second)
          /\ x = Len(Pattern(c).replacement) /\ m = MinLetters
          /\ e = (IF c.stage = "tripled" THEN 1 ELSE 0)
    OBVIOUS
  <2>2. PICK i, start, lu, lv : /\ i = c.i /\ start = c.start
                                /\ lu = Len(u) /\ lv = Len(v)
    OBVIOUS
  <2>3. /\ f \in Nat /\ g \in Nat /\ x \in Nat /\ m \in Nat /\ e \in {0, 1}
        /\ i \in Nat /\ start \in Nat /\ lu \in Nat /\ lv \in Nat
    BY <1>7, <2>1, <2>2
  <2>4. lv = lu - x + f + g + e /\ Added(c) = g - x + e
    BY <1>6, <2>1, <2>2 DEF Added
  <2>5. (lv - m) - (i + f) = ((lu - m) - start) - (i - start) + (g - x + e)
    BY <2>3, <2>4
  <2>6. /\ d.last = lv - m /\ d.start = i + f /\ c.last = lu - m
        /\ c.start = start /\ c.i = i
    BY <1>5, <1>9, <1>10, <2>1, <2>2
  <2>7. g - x + e \in Int
    BY <2>3
  <2>8. QED
    BY <2>4, <2>5, <2>6, <2>7
<1>12. /\ c.last - c.start >= MinLetters /\ c.last - c.start \in Int
       /\ c.i - c.start >= MinLetters /\ c.i - c.start \in Int
  BY <1>7, <1>9
<1>13. d.last - d.start \in Int
  BY <1>5, <1>7, <1>9, <1>10
<1>14. QED
  BY <1>3, <1>8, <1>11, <1>12, <1>13

LEMMA IInvOpenCalls == IInv => OpenCallsAreSound
<1>1. SUFFICES ASSUME IInv PROVE OpenCallsAreSound
  OBVIOUS
<1>2. TypeOK
  BY <1>1, IInvTypeOK
<1>3. BufferIsEdits
  <2>1. Len(calls) \in Nat
    BY <1>1 DEF IInv, Sound, Nested, IsSequence
  <2>2. PICK found : Found(calls, word, found)
    BY <1>1 DEF IInv, Sound
  <2>3. QED
    BY <2>1, <2>2, FoundIsEdited DEF BufferIsEdits
<1>4. TextsAccounted
  BY <1>1, TextAccounted DEF TextsAccounted
<1>5. QED
  BY <1>2, <1>3, <1>4 DEF OpenCallsAreSound

(* The calls of check_compound that are open find the buffer as they left  *)
(* it: it is the word with their edits and no other, every call was made   *)
(* on the text of its caller less a part and with the letters that the     *)
(* joint adds, and its counters and places are in their bounds, for every  *)
(* dictionary (checker.cxx, check_compound and what it calls).             *)
THEOREM CompoundCheckOpenCalls == Spec => []OpenCallsAreSound
<1>1. IInv => OpenCallsAreSound
  BY IInvOpenCalls
<1>2. QED
  BY <1>1, CompoundCheckIInv, PTL

(* When no call is open, the buffer is the word that came: whatever joints *)
(* were tried, the caller's word is not changed by the search, and         *)
(* COMPOUNDRULE is asked about it.                                         *)
WordComesBack == calls = << >> => word = input

THEOREM CompoundCheckWordComesBack == Spec => []WordComesBack
<1>1. IInv => WordComesBack
  BY DEF IInv, Sound, Found, WordComesBack
<1>2. QED
  BY <1>1, CompoundCheckIInv, PTL

(* With a dictionary whose joints shrink, each call has a shorter text     *)
(* than the one outside it.                                                *)
LEMMA TextsShrink ==
  ASSUME IInv, JointsShrink, NEW k \in 1 .. Depth
  PROVE  /\ calls[k].last - calls[k].start <= Len(input) - MinLetters - (k - 1)
         /\ calls[k].last - calls[k].start \in Int
         /\ calls[k].stage # "try" => calls[k].last - calls[k].start >= MinLetters
         /\ MinLetters \in Nat \ {0} /\ Len(input) \in Nat
<1>1. PICK found : Found(calls, word, found)
  BY DEF IInv, Sound
<1>2. lang \in DOMAIN Languages /\ Depth \in Nat /\ Depth = Len(calls)
  BY DEF IInv, Sound, Nested, IsSequence, Depth
<1>3. PICK n \in Nat : n = Depth
  BY <1>2
<1>4. PICK m \in Nat \ {0} : m = MinLetters
  BY <1>2, MinLettersType
<1>5. input \in Seq(Letter) /\ CallFits(calls[1], input)
  BY <1>1, <1>2 DEF Found
<1>6. PICK l \in Nat : l = Len(input)
  BY <1>5
<1>7. PICK len : len = [j \in 1 .. n |-> calls[j].last - calls[j].start]
  OBVIOUS
<1>8. \A j \in 1 .. n : len[j] = calls[j].last - calls[j].start
  BY <1>7
<1>9. len[1] <= l - m /\ len[1] \in Int
  <2>1. calls[1].last = l - m /\ calls[1].start \in Nat
    BY <1>4, <1>5, <1>6 DEF CallFits, IsCall
  <2>2. len[1] = calls[1].last - calls[1].start
    BY <1>3, <1>8
  <2>3. QED
    BY <2>1, <2>2
<1>10. ASSUME NEW j \in 1 .. n - 1
       PROVE  len[j + 1] < len[j] /\ len[j] \in Int /\ len[j + 1] \in Int
  <2>1. j \in 1 .. Depth - 1 /\ j \in 1 .. n /\ j + 1 \in 1 .. n
    BY <1>3
  <2>2. PICK x, a : x = calls[j].i - calls[j].start /\ a = Added(calls[j])
    OBVIOUS
  <2>3. /\ len[j + 1] = len[j] - x + a
        /\ len[j] \in Int /\ len[j + 1] \in Int /\ x \in Int /\ a \in Int
        /\ x >= m /\ a < m
    BY <1>4, <1>8, <2>1, <2>2, TextAccounted
  <2>4. QED
    BY <2>3
<1> DEFINE S == {j \in Nat : j + 1 \in 1 .. n =>
                               len[j + 1] <= l - m - j /\ len[j + 1] \in Int}
<1>11. 0 \in S
  BY <1>9
<1>12. ASSUME NEW j \in Nat, j \in S PROVE j + 1 \in S
  <2>1. SUFFICES ASSUME (j + 1) + 1 \in 1 .. n
                 PROVE  /\ len[(j + 1) + 1] <= l - m - (j + 1)
                        /\ len[(j + 1) + 1] \in Int
    OBVIOUS
  <2>2. PICK i : i = j + 1
    OBVIOUS
  <2>3. i \in 1 .. n - 1 /\ len[i] <= l - m - j
    BY <1>12, <2>1, <2>2
  <2>4. len[i + 1] < len[i] /\ len[i] \in Int /\ len[i + 1] \in Int
    BY <1>10, <2>3
  <2>5. len[i + 1] <= l - m - (j + 1)
    BY <2>3, <2>4
  <2>6. QED
    BY <2>2, <2>4, <2>5
<1> HIDE DEF S
<1>13. Nat \subseteq S
  BY <1>11, <1>12, SetInduction
<1>14. PICK j \in Nat : j = k - 1
  OBVIOUS
<1>15. j + 1 = k /\ k \in 1 .. n
  BY <1>3, <1>14
<1>16. len[k] <= l - m - (k - 1) /\ len[k] \in Int
  BY <1>13, <1>14, <1>15 DEF S
<1>17. calls[k].stage # "try" => len[k] >= m
  <2>1. PICK w : w = found[k - 1]
    OBVIOUS
  <2>2. CallFits(calls[k], w)
    BY <1>1, <1>2, <2>1 DEF Found
  <2>3. PICK i, start, last : /\ i = calls[k].i /\ start = calls[k].start
                              /\ last = calls[k].last
    OBVIOUS
  <2>4. i \in Nat /\ start \in Nat /\ last \in Int /\ i - start >= m
    BY <1>4, <2>2, <2>3 DEF CallFits, IsCall
  <2>5. calls[k].stage # "try" => i <= last
    BY <2>2, <2>3 DEF CallFits
  <2>6. len[k] = last - start
    BY <1>8, <1>15, <2>3
  <2>7. QED
    BY <2>4, <2>5, <2>6
<1>18. QED
  BY <1>4, <1>6, <1>8, <1>15, <1>16, <1>17

(* With such a dictionary, the recursion is no deeper than the word has    *)
(* letters, less the letters of the two parts of a place.                  *)
DepthIsBounded ==
  JointsShrink /\ Depth > 1 => Depth <= Len(input) - 2 * MinLetters + 2

THEOREM CompoundCheckDepth == Spec => []DepthIsBounded
<1>1. ASSUME IInv, JointsShrink, Depth > 1
      PROVE  Depth <= Len(input) - 2 * MinLetters + 2
  <2>1. Depth \in Nat
    BY <1>1 DEF IInv, Sound, Nested, IsSequence, Depth
  <2>2. PICK k \in Nat : k = Depth - 1
    BY <1>1, <2>1
  <2>3. k \in 1 .. Depth - 1 /\ k \in 1 .. Depth
    BY <1>1, <2>1, <2>2
  <2>4. PICK len, m, l : /\ len = calls[k].last - calls[k].start
                         /\ m = MinLetters /\ l = Len(input)
    OBVIOUS
  <2>5. len >= m
    BY <1>1, <2>3, <2>4, TextAccounted
  <2>6. len <= l - m - (k - 1) /\ len \in Int /\ m \in Nat /\ l \in Nat
    BY <1>1, <2>3, <2>4, TextsShrink
  <2>7. k + 1 <= l - 2 * m + 2
    BY <2>5, <2>6
  <2>8. QED
    BY <2>1, <2>2, <2>4, <2>7
<1>2. IInv => DepthIsBounded
  BY <1>1 DEF DepthIsBounded
<1>3. QED
  BY <1>2, CompoundCheckIInv, PTL

(* A stack with room for as many calls as the word has letters suffices    *)
(* for such a dictionary (and for no other in general: CompoundCheckEndless*)
(* .cfg).                                                                  *)
StackSuffices ==
  JointsShrink /\ Len(input) <= StackSize => pc # "overflow"

THEOREM CompoundCheckStack == Spec => []StackSuffices
<1>1. ASSUME IInv, JointsShrink, Len(input) <= StackSize, pc = "overflow"
      PROVE  FALSE
  <2>1. /\ Depth \in Nat \ {0} /\ calls[Depth].stage # "try"
        /\ Depth >= StackSize
    BY <1>1 DEF IInv, Sound, Nested, IsSequence, Depth
  <2>2. PICK n \in Nat \ {0} : n = Depth
    BY <2>1
  <2>3. n \in 1 .. Depth
    BY <2>2
  <2>4. PICK len, m, l : /\ len = calls[n].last - calls[n].start
                         /\ m = MinLetters /\ l = Len(input)
    OBVIOUS
  <2>5. /\ len <= l - m - (n - 1) /\ len >= m
        /\ len \in Int /\ m \in Nat \ {0} /\ l \in Nat
    BY <1>1, <2>1, <2>2, <2>3, <2>4, TextsShrink
  <2>6. n >= l
    BY <1>1, <2>1, <2>2, <2>4, <2>5, StackAssumption
  <2>7. QED
    BY <2>5, <2>6
<1>2. IInv => StackSuffices
  BY <1>1 DEF StackSuffices
<1>3. QED
  BY <1>2, CompoundCheckIInv, PTL
=============================================================================
