------------------------- MODULE SuggestEditsProofs -------------------------
(***************************************************************************)
(* For every dictionary, every budget and every word of whole letters, the *)
(* twelve stages of suggest_low hand back the word they change in place,   *)
(* and what they suggest is known to the checker.                          *)
(*                                                                         *)
(* The argument: a text of whole letters falls into letters at its         *)
(* `Starts'; to put a letter or a string in the place of another           *)
(* (`Spliced'), to swap two letters and to rotate a range are each undone  *)
(* by the same operation at the places that the code has kept, provided    *)
(* that these are starts of letters.  So each stage has an invariant of    *)
(* its own (`AtStage'): its places are starts of letters of the misspelled *)
(* word, the word now is the misspelled one or one such edit away from it, *)
(* and the place of the edit is the one that the stage will undo.  Two     *)
(* stages need more.  A call of map_suggest finds a word that the calls    *)
(* outside it have already changed, and must give that one back; the words *)
(* found by the open calls are therefore followed along the stack          *)
(* (`InCalls').  move_char_suggest undoes all the swaps of one letter at   *)
(* once, by a rotation; that these swaps make a rotation is its invariant. *)
(***************************************************************************)
EXTENDS SuggestEdits, InductionLemmas

(* The letter that starts at a place of a text ends at the next one.        *)
LEMMA StartFacts ==
  ASSUME NEW s \in Text
  PROVE  /\ s \in Seq(Byte) /\ Len(s) \in Nat
         /\ 0 \in Starts(s) /\ Len(s) \in Starts(s) /\ Starts(s) \subseteq 0 .. Len(s)
         /\ \A i \in Starts(s) : i # Len(s) =>
              /\ i \in 0 .. Len(s) - 1 /\ s[i + 1] \notin Trail
              /\ WidthAt(s, i) \in Nat \ {0}
              /\ Advance(s, i) \in Starts(s) /\ i < Advance(s, i)
              /\ \A j \in Starts(s) : j <= i \/ Advance(s, i) <= j
<1>1. s \in Seq(Byte) /\ Len(s) \in Nat
  BY DEF Text
<1>2. 0 \in Starts(s) /\ Len(s) \in Starts(s) /\ Starts(s) \subseteq 0 .. Len(s)
  BY <1>1 DEF Starts
<1>3. ASSUME NEW i \in Starts(s), i # Len(s)
      PROVE  /\ i \in 0 .. Len(s) - 1 /\ s[i + 1] \notin Trail
             /\ WidthAt(s, i) \in Nat \ {0}
             /\ Advance(s, i) \in Starts(s) /\ i < Advance(s, i)
             /\ \A j \in Starts(s) : j <= i \/ Advance(s, i) <= j
  <2>1. i \in 0 .. Len(s) - 1
    BY <1>1, <1>2, <1>3
  <2>2. IsLetterAt(s, i)
    BY <1>3 DEF Text, WellFormed
  <2>3. WidthAt(s, i) \in Nat \ {0}
    BY WideAssumption DEF WidthAt
  <2>4. PICK w \in Nat \ {0} : w = WidthAt(s, i)
    BY <2>3
  <2>5. /\ s[i + 1] \notin Trail /\ i + w \in Starts(s)
        /\ \A j \in i + 1 .. i + w - 1 : j < Len(s) /\ s[j + 1] \in Trail
    BY <2>2, <2>4 DEF IsLetterAt
  <2>6. ASSUME NEW j \in Starts(s), i < j, j < i + w PROVE FALSE
    <3>1. j \in 0 .. Len(s)
      BY <1>2, <2>6
    <3>2. j \in i + 1 .. i + w - 1
      BY <2>1, <2>4, <2>6, <3>1
    <3>3. j < Len(s) /\ s[j + 1] \in Trail /\ j # 0
      BY <2>1, <2>5, <3>2
    <3>4. QED
      BY <1>1, <2>6, <3>1, <3>3 DEF Starts
  <2>7. \A j \in Starts(s) : j <= i \/ i + w <= j
    BY <1>1, <1>2, <2>1, <2>4, <2>6
  <2>8. Advance(s, i) = i + w
    BY <2>4 DEF Advance
  <2>9. QED
    BY <2>1, <2>3, <2>4, <2>5, <2>7, <2>8
<1>4. QED
  BY <1>1, <1>2, <1>3

LEMMA PartFacts ==
  ASSUME NEW S, NEW s \in Seq(S), NEW i \in 0 .. Len(s), NEW j \in i .. Len(s)
  PROVE  /\ Part(s, i, j) \in Seq(S) /\ Len(Part(s, i, j)) = j - i
         /\ \A k \in 1 .. j - i : Part(s, i, j)[k] = s[i + k]
<1>1. Len(s) \in Nat /\ i \in Nat /\ j \in Nat /\ i <= j /\ j <= Len(s)
  OBVIOUS
<1>2. \A k \in i + 1 .. j : s[k] \in S
  BY <1>1
<1>3. /\ Part(s, i, j) \in Seq(S)
      /\ Len(Part(s, i, j)) = IF i + 1 <= j THEN j - (i + 1) + 1 ELSE 0
      /\ \A k \in 1 .. j - (i + 1) + 1 : Part(s, i, j)[k] = s[(i + 1) + k - 1]
  <2>1. i + 1 \in Int /\ j \in Int
    BY <1>1
  <2>2. QED
    BY <2>1, <1>2, SubSeqProperties DEF Part
<1>4. QED
  BY <1>1, <1>3

(* A text is cut between letters into texts, whose letters are its own.     *)
LEMMA PartText ==
  ASSUME NEW s \in Text, NEW i \in Starts(s), NEW j \in Starts(s), i <= j
  PROVE  /\ Part(s, i, j) \in Text
         /\ \A k \in 0 .. j - i : k \in Starts(Part(s, i, j)) <=> i + k \in Starts(s)
<1>1. /\ s \in Seq(Byte) /\ Len(s) \in Nat /\ i \in Nat /\ j \in Nat
      /\ i \in 0 .. Len(s) /\ j \in i .. Len(s)
  BY StartFacts
<1>2. PICK p : p = Part(s, i, j)
  OBVIOUS
<1>3. p \in Seq(Byte) /\ Len(p) = j - i /\ \A k \in 1 .. j - i : p[k] = s[i + k]
  BY <1>1, <1>2, PartFacts
<1>4. ASSUME NEW k \in 0 .. j - i PROVE k \in Starts(p) <=> i + k \in Starts(s)
  <2>1. CASE k = 0 \/ k = j - i
    BY <1>1, <1>3, <2>1 DEF Starts
  <2>2. CASE k # 0 /\ k # j - i
    <3>1. k + 1 \in 1 .. j - i /\ i + k \in 0 .. Len(s) - 1 /\ i + k # 0 /\ i + k # Len(s)
      BY <1>1, <2>2
    <3>2. p[k + 1] = s[i + k + 1]
      BY <1>1, <1>3, <3>1
    <3>3. k \in Starts(p) <=> p[k + 1] \notin Trail
      BY <1>1, <1>3, <2>2 DEF Starts
    <3>4. i + k \in Starts(s) <=> s[i + k + 1] \notin Trail
      BY <1>1, <3>1 DEF Starts
    <3>5. QED
      BY <3>2, <3>3, <3>4
  <2>3. QED
    BY <2>1, <2>2
<1>5. ASSUME NEW k \in Starts(p), k # Len(p) PROVE IsLetterAt(p, k)
  <2>1. k \in 0 .. j - i - 1
    BY <1>1, <1>3, <1>5 DEF Starts
  <2>2. i + k \in Starts(s) /\ i + k # Len(s) /\ i + k < j
    BY <1>1, <1>4, <1>5, <2>1
  <2>3. PICK w \in Nat \ {0} : w = WidthAt(s, i + k)
    BY <2>2, StartFacts
  <2>4. i + k + w <= j /\ i + k + w \in Starts(s)
    BY <1>1, <2>1, <2>2, <2>3, StartFacts DEF Advance
  <2>5. p[k + 1] = s[i + k + 1]
    BY <1>1, <1>3, <2>1
  <2>6. WidthAt(p, k) = w
    BY <2>3, <2>5 DEF WidthAt
  <2>7. s[i + k + 1] \notin Trail /\ \A m \in i + k + 1 .. i + k + w - 1 : s[m + 1] \in Trail
    <3>1. IsLetterAt(s, i + k)
      BY <2>2 DEF Text, WellFormed
    <3>2. QED
      BY <2>3, <3>1 DEF IsLetterAt
  <2>8. k + w \in Starts(p)
    BY <1>1, <1>4, <2>1, <2>3, <2>4
  <2>9. ASSUME NEW m \in k + 1 .. k + w - 1 PROVE m < Len(p) /\ p[m + 1] \in Trail
    <3>1. m \in Nat /\ i + m \in i + k + 1 .. i + k + w - 1 /\ m + 1 \in 1 .. j - i
      BY <1>1, <2>1, <2>3, <2>4
    <3>2. PICK h \in i + k + 1 .. i + k + w - 1 : h = i + m
      BY <3>1
    <3>3. p[m + 1] = s[h + 1]
      BY <1>1, <1>3, <3>1, <3>2
    <3>4. s[h + 1] \in Trail
      BY <2>7, <3>2
    <3>5. QED
      BY <1>1, <1>3, <3>1, <3>3, <3>4
  <2>10. QED
    BY <2>5, <2>6, <2>7, <2>8, <2>9 DEF IsLetterAt
<1>6. p \in Text
  BY <1>3, <1>5 DEF Text, WellFormed
<1>7. QED
  BY <1>2, <1>4, <1>6

(* Texts one after the other are a text, whose letters are theirs.          *)
LEMMA ConcatText ==
  ASSUME NEW a \in Text, NEW b \in Text
  PROVE  /\ a \o b \in Text
         /\ Len(a \o b) = Len(a) + Len(b)
         /\ \A k \in 0 .. Len(a) : k \in Starts(a \o b) <=> k \in Starts(a)
         /\ \A k \in 0 .. Len(b) : Len(a) + k \in Starts(a \o b) <=> k \in Starts(b)
<1>1. PICK m \in Nat, n \in Nat : m = Len(a) /\ n = Len(b)
  BY StartFacts
<1>2. PICK c : c = a \o b
  OBVIOUS
<1>3. /\ c \in Seq(Byte) /\ Len(c) = m + n
      /\ \A k \in 1 .. m : c[k] = a[k]
      /\ \A k \in 1 .. n : c[m + k] = b[k]
  <2>1. a \in Seq(Byte) /\ b \in Seq(Byte)
    BY DEF Text
  <2>2. /\ c \in Seq(Byte) /\ Len(c) = m + n
        /\ \A i \in 1 .. m + n : c[i] = IF i <= m THEN a[i] ELSE b[i - m]
    BY <1>1, <1>2, <2>1, ConcatProperties
  <2>3. ASSUME NEW k \in 1 .. n PROVE c[m + k] = b[k]
    <3>1. m + k \in 1 .. m + n /\ ~(m + k <= m) /\ (m + k) - m = k
      BY <1>1
    <3>2. QED
      BY <2>2, <3>1
  <2>4. QED
    BY <2>2, <2>3
<1>4. n # 0 => b[1] \notin Trail
  BY <1>1, StartFacts
<1>5. ASSUME NEW k \in 0 .. m PROVE k \in Starts(c) <=> k \in Starts(a)
  <2>1. CASE k = 0
    BY <2>1 DEF Starts
  <2>2. CASE k = m
    <3>1. m \in Starts(a)
      BY <1>1 DEF Starts
    <3>2. m \in Starts(c)
      <4>1. CASE n = 0
        BY <1>3, <4>1 DEF Starts
      <4>2. CASE n # 0
        <5>1. c[m + 1] = b[1] /\ m \in 0 .. Len(c) - 1
          BY <1>1, <1>3, <4>2
        <5>2. QED
          BY <1>4, <4>2, <5>1 DEF Starts
      <4>3. QED
        BY <4>1, <4>2
    <3>3. QED
      BY <2>2, <3>1, <3>2
  <2>3. CASE k # 0 /\ k # m
    <3>1. c[k + 1] = a[k + 1] /\ k \in 0 .. m - 1 /\ k \in 0 .. m + n - 1 /\ k # m + n
      BY <1>1, <1>3, <2>3
    <3>2. QED
      BY <1>1, <1>3, <2>3, <3>1 DEF Starts
  <2>4. QED
    BY <2>1, <2>2, <2>3
<1>6. ASSUME NEW k \in 0 .. n PROVE m + k \in Starts(c) <=> k \in Starts(b)
  <2>1. CASE k = 0
    <3>1. m \in Starts(a) /\ m \in 0 .. m
      BY <1>1 DEF Starts
    <3>2. m \in Starts(c)
      BY <1>5, <3>1
    <3>3. QED
      BY <1>1, <2>1, <3>2 DEF Starts
  <2>2. CASE k = n
    BY <1>1, <1>3, <2>2 DEF Starts
  <2>3. CASE k # 0 /\ k # n
    <3>1. /\ c[m + k + 1] = b[k + 1] /\ k \in 0 .. n - 1
          /\ m + k \in 0 .. m + n - 1 /\ m + k # m + n /\ m + k # 0
      <4>1. k + 1 \in 1 .. n
        BY <1>1, <2>3
      <4>2. c[m + (k + 1)] = b[k + 1]
        BY <1>3, <4>1
      <4>3. QED
        BY <1>1, <2>3, <4>2
    <3>2. m + k \in Starts(c) <=> c[m + k + 1] \notin Trail
      BY <1>3, <3>1 DEF Starts
    <3>3. k \in Starts(b) <=> b[k + 1] \notin Trail
      BY <1>1, <2>3, <3>1 DEF Starts
    <3>4. QED
      BY <3>1, <3>2, <3>3
  <2>4. QED
    BY <2>1, <2>2, <2>3
<1>7. ASSUME NEW k \in Starts(c), k # Len(c) PROVE IsLetterAt(c, k)
  <2>1. k \in 0 .. m + n - 1
    BY <1>1, <1>3, <1>7 DEF Starts
  <2>2. CASE k < m
    <3>1. k \in 0 .. m /\ k \in Starts(a) /\ k # Len(a)
      BY <1>1, <1>5, <1>7, <2>1, <2>2
    <3>2. IsLetterAt(a, k)
      BY <3>1 DEF Text, WellFormed
    <3>3. PICK w \in Nat \ {0} : w = WidthAt(a, k)
      BY <3>1, StartFacts
    <3>4. c[k + 1] = a[k + 1]
      BY <1>1, <1>3, <2>1, <2>2
    <3>5. WidthAt(c, k) = w
      BY <3>3, <3>4 DEF WidthAt
    <3>6. k + w \in Starts(a) /\ k + w \in 0 .. m
      BY <1>1, <3>1, <3>3, StartFacts DEF Advance
    <3>7. k + w \in Starts(c)
      BY <1>5, <3>6
    <3>8. a[k + 1] \notin Trail /\ \A j \in k + 1 .. k + w - 1 : j < m /\ a[j + 1] \in Trail
      BY <1>1, <3>2, <3>3 DEF IsLetterAt
    <3>9. ASSUME NEW j \in k + 1 .. k + w - 1 PROVE j < Len(c) /\ c[j + 1] \in Trail
      <4>1. j < m /\ a[j + 1] \in Trail /\ j + 1 \in 1 .. m
        BY <1>1, <2>1, <3>3, <3>8
      <4>2. QED
        BY <1>1, <1>3, <2>1, <3>3, <4>1
    <3>10. QED
      BY <3>4, <3>5, <3>7, <3>8, <3>9 DEF IsLetterAt
  <2>3. CASE k >= m
    <3>1. PICK h \in 0 .. n - 1 : k = m + h
      <4>1. k - m \in 0 .. n - 1 /\ k = m + (k - m)
        BY <1>1, <2>1, <2>3
      <4>2. QED
        BY <4>1
    <3>2. h \in Starts(b) /\ h # Len(b) /\ h \in 0 .. n
      BY <1>1, <1>6, <1>7, <3>1
    <3>3. IsLetterAt(b, h)
      BY <3>2 DEF Text, WellFormed
    <3>4. PICK w \in Nat \ {0} : w = WidthAt(b, h)
      BY <3>2, StartFacts
    <3>5. c[k + 1] = b[h + 1]
      <4>1. h + 1 \in 1 .. n /\ m + (h + 1) = k + 1
        BY <1>1, <3>1
      <4>2. QED
        BY <1>3, <4>1
    <3>6. WidthAt(c, k) = w
      BY <3>4, <3>5 DEF WidthAt
    <3>7. h + w \in Starts(b) /\ h + w \in 0 .. n
      BY <1>1, <3>2, <3>4, StartFacts DEF Advance
    <3>8. k + w \in Starts(c)
      <4>1. m + (h + w) \in Starts(c)
        BY <1>6, <3>7
      <4>2. QED
        BY <1>1, <3>1, <3>4, <4>1
    <3>9. b[h + 1] \notin Trail /\ \A j \in h + 1 .. h + w - 1 : j < n /\ b[j + 1] \in Trail
      BY <1>1, <3>3, <3>4 DEF IsLetterAt
    <3>10. ASSUME NEW j \in k + 1 .. k + w - 1 PROVE j < Len(c) /\ c[j + 1] \in Trail
      <4>1. PICK g \in h + 1 .. h + w - 1 : j = m + g
        <5>1. j - m \in h + 1 .. h + w - 1 /\ j = m + (j - m)
          BY <1>1, <3>1, <3>4
        <5>2. QED
          BY <5>1
      <4>2. g < n /\ b[g + 1] \in Trail /\ g + 1 \in 1 .. n /\ m + (g + 1) = j + 1
        BY <1>1, <3>1, <3>4, <3>9, <4>1
      <4>3. c[j + 1] = b[g + 1]
        BY <1>3, <4>2
      <4>4. QED
        BY <1>1, <1>3, <3>1, <3>4, <4>1, <4>2, <4>3
    <3>11. QED
      BY <3>5, <3>6, <3>8, <3>9, <3>10 DEF IsLetterAt
  <2>4. QED
    BY <1>1, <2>1, <2>2, <2>3
<1>8. c \in Text
  BY <1>3, <1>7 DEF Text, WellFormed
<1>9. QED
  BY <1>1, <1>2, <1>3, <1>5, <1>6, <1>8

IsSpliced(v, S, s, i, n, x) ==
    /\ v \in Seq(S) /\ Len(v) = Len(s) - n + Len(x)
    /\ \A k \in 1 .. Len(s) - n + Len(x) :
         v[k] = IF k <= i THEN s[k] ELSE IF k <= i + Len(x) THEN x[k - i]
                ELSE s[k - Len(x) + n]
LEMMA SplicedFacts ==
  ASSUME NEW S, NEW s \in Seq(S), NEW i \in 0 .. Len(s), NEW n \in 0 .. Len(s) - i,
         NEW x \in Seq(S)
  PROVE  IsSpliced(Spliced(s, i, n, x), S, s, i, n, x)
<1>1. PICK l \in Nat, m \in Nat : l = Len(s) /\ m = Len(x)
  OBVIOUS
<1>2. i \in Nat /\ n \in Nat /\ i + n <= l /\ i \in 0 .. Len(s) /\ i + n \in 0 .. Len(s)
  BY <1>1
<1>3. PICK a, c : a = Part(s, 0, i) /\ c = Part(s, i + n, l)
  OBVIOUS
<1>4. a \in Seq(S) /\ Len(a) = i /\ \A k \in 1 .. i : a[k] = s[k]
  <2>1. 0 \in 0 .. Len(s) /\ i \in 0 .. Len(s)
    BY <1>1, <1>2
  <2>2. Part(s, 0, i) \in Seq(S) /\ Len(Part(s, 0, i)) = i - 0
        /\ \A k \in 1 .. i - 0 : Part(s, 0, i)[k] = s[0 + k]
    BY <2>1, PartFacts
  <2>3. i - 0 = i /\ \A k \in 1 .. i : 0 + k = k
    BY <1>2
  <2>4. QED
    BY <1>3, <2>2, <2>3
<1>5. c \in Seq(S) /\ Len(c) = l - (i + n) /\ \A k \in 1 .. l - (i + n) : c[k] = s[i + n + k]
  <2>1. i + n \in 0 .. Len(s) /\ l \in i + n .. Len(s)
    BY <1>1, <1>2
  <2>2. QED
    BY <1>3, <2>1, PartFacts
<1>6. PICK d : d = a \o x
  OBVIOUS
<1>7. d \in Seq(S) /\ Len(d) = i + m
      /\ \A k \in 1 .. i + m : d[k] = IF k <= i THEN a[k] ELSE x[k - i]
  BY <1>1, <1>4, <1>6, ConcatProperties
<1>8. PICK v : v = Spliced(s, i, n, x)
  OBVIOUS
<1>9. v = d \o c
  BY <1>1, <1>3, <1>6, <1>8 DEF Spliced
<1>10. v \in Seq(S) /\ Len(v) = i + m + (l - (i + n))
       /\ \A k \in 1 .. i + m + (l - (i + n)) : v[k] = IF k <= i + m THEN d[k] ELSE c[k - (i + m)]
  <2>1. d \in Seq(S) /\ c \in Seq(S)
    BY <1>5, <1>7
  <2>2. v \in Seq(S) /\ Len(v) = Len(d) + Len(c)
        /\ \A k \in 1 .. Len(d) + Len(c) : v[k] = IF k <= Len(d) THEN d[k] ELSE c[k - Len(d)]
    BY <1>9, <2>1, ConcatProperties
  <2>3. QED
    BY <1>5, <1>7, <2>2
<1>11. ASSUME NEW k \in 1 .. l - n + m
       PROVE  v[k] = IF k <= i THEN s[k] ELSE IF k <= i + m THEN x[k - i] ELSE s[k - m + n]
  <2>0. k \in 1 .. i + m + (l - (i + n))
    BY <1>1, <1>2
  <2>1. CASE k <= i
    <3>1. v[k] = d[k] /\ k \in 1 .. i + m /\ k \in 1 .. i
      <4>1. k \in 1 .. i /\ k <= i + m /\ k \in 1 .. i + m
        BY <1>1, <1>2, <2>0, <2>1
      <4>2. QED
        BY <1>10, <2>0, <4>1
    <3>2. d[k] = a[k] /\ a[k] = s[k]
      BY <1>4, <1>7, <2>1, <3>1
    <3>3. QED
      BY <2>1, <3>1, <3>2
  <2>2. CASE ~(k <= i) /\ k <= i + m
    BY <1>1, <1>2, <1>7, <1>10, <2>0, <2>2
  <2>3. CASE ~(k <= i + m)
    <3>1. v[k] = c[k - (i + m)] /\ k - (i + m) \in 1 .. l - (i + n) /\ ~(k <= i)
      BY <1>1, <1>2, <1>10, <2>0, <2>3
    <3>2. c[k - (i + m)] = s[i + n + (k - (i + m))]
      BY <1>5, <3>1
    <3>3. i + n + (k - (i + m)) = k - m + n
      BY <1>1, <1>2
    <3>4. QED
      BY <2>3, <3>1, <3>2, <3>3
  <2>4. QED
    BY <1>1, <1>2, <2>1, <2>2, <2>3
<1>12. i + m + (l - (i + n)) = l - n + m
  BY <1>1, <1>2
<1>13. QED
  BY <1>1, <1>8, <1>10, <1>11, <1>12 DEF IsSpliced

(* What was put in is taken out again.                                      *)
LEMMA SplicedBack ==
  ASSUME NEW S, NEW s \in Seq(S), NEW i \in 0 .. Len(s), NEW n \in 0 .. Len(s) - i,
         NEW x \in Seq(S)
  PROVE  Spliced(Spliced(s, i, n, x), i, Len(x), Part(s, i, i + n)) = s
<1>1. PICK l \in Nat, m \in Nat : l = Len(s) /\ m = Len(x)
  OBVIOUS
<1>2. i \in Nat /\ n \in Nat /\ i + n <= l
  BY <1>1
<1>3. PICK v : v = Spliced(s, i, n, x)
  OBVIOUS
<1>4. /\ v \in Seq(S) /\ Len(v) = l - n + m
      /\ \A k \in 1 .. l - n + m :
           v[k] = IF k <= i THEN s[k] ELSE IF k <= i + m THEN x[k - i] ELSE s[k - m + n]
  <2>1. IsSpliced(v, S, s, i, n, x)
    BY <1>3, SplicedFacts
  <2>2. QED
    BY <1>1, <2>1 DEF IsSpliced
<1>5. PICK y : y = Part(s, i, i + n)
  OBVIOUS
<1>6. y \in Seq(S) /\ Len(y) = n /\ \A k \in 1 .. n : y[k] = s[i + k]
  <2>1. i + n \in i .. Len(s) /\ (i + n) - i = n
    BY <1>1, <1>2
  <2>2. QED
    BY <1>5, <2>1, PartFacts
<1>7. PICK u : u = Spliced(v, i, m, y)
  OBVIOUS
<1>8. i \in 0 .. Len(v) /\ m \in 0 .. Len(v) - i
  BY <1>1, <1>2, <1>4
<1>9. /\ u \in Seq(S) /\ Len(u) = Len(v) - m + n
      /\ \A k \in 1 .. Len(v) - m + n :
           u[k] = IF k <= i THEN v[k] ELSE IF k <= i + n THEN y[k - i] ELSE v[k - n + m]
  <2>1. /\ u \in Seq(S) /\ Len(u) = Len(v) - m + Len(y)
        /\ \A k \in 1 .. Len(v) - m + Len(y) :
             u[k] = IF k <= i THEN v[k] ELSE IF k <= i + Len(y) THEN y[k - i]
                    ELSE v[k - Len(y) + m]
    <3>1. v \in Seq(S) /\ y \in Seq(S)
      BY <1>4, <1>6
    <3>2. IsSpliced(u, S, v, i, m, y)
      BY <1>7, <1>8, <3>1, SplicedFacts
    <3>3. QED
      BY <3>2 DEF IsSpliced
  <2>2. QED
    BY <1>6, <2>1
<1>10. Len(u) = l
  BY <1>1, <1>2, <1>4, <1>9
<1>11. ASSUME NEW k \in 1 .. l PROVE u[k] = s[k]
  <2>0. k \in 1 .. Len(v) - m + n
    BY <1>1, <1>2, <1>4
  <2>1. CASE k <= i
    <3>1. u[k] = v[k] /\ k \in 1 .. l - n + m
      BY <1>1, <1>2, <1>9, <2>0, <2>1
    <3>2. QED
      BY <1>4, <2>1, <3>1
  <2>2. CASE ~(k <= i) /\ k <= i + n
    <3>1. u[k] = y[k - i] /\ k - i \in 1 .. n /\ i + (k - i) = k
      BY <1>1, <1>2, <1>9, <2>0, <2>2
    <3>2. QED
      BY <1>6, <3>1
  <2>3. CASE ~(k <= i + n)
    <3>1. u[k] = v[k - n + m] /\ k - n + m \in 1 .. l - n + m
      BY <1>1, <1>2, <1>9, <2>0, <2>3
    <3>2. ~(k - n + m <= i) /\ ~(k - n + m <= i + m) /\ (k - n + m) - m + n = k
      BY <1>1, <1>2, <2>3
    <3>3. v[k - n + m] = s[(k - n + m) - m + n]
      BY <1>4, <3>1, <3>2
    <3>4. QED
      BY <3>1, <3>2, <3>3
  <2>4. QED
    BY <1>1, <1>2, <2>1, <2>2, <2>3
<1>12. u = s
  BY <1>1, <1>9, <1>10, <1>11, SeqEqual
<1>13. QED
  BY <1>1, <1>3, <1>5, <1>7, <1>12

(* Letters are replaced by letters.                                         *)
LEMMA SplicedText ==
  ASSUME NEW s \in Text, NEW i \in Starts(s), NEW n \in Nat, i + n \in Starts(s),
         NEW x \in Text
  PROVE  /\ Spliced(s, i, n, x) \in Text
         /\ Len(Spliced(s, i, n, x)) = Len(s) - n + Len(x)
         /\ \A k \in 0 .. i : k \in Starts(Spliced(s, i, n, x)) <=> k \in Starts(s)
         /\ i + Len(x) \in Starts(Spliced(s, i, n, x))
         /\ \A k \in 0 .. Len(x) : i + k \in Starts(Spliced(s, i, n, x)) <=> k \in Starts(x)
         /\ \A k \in 0 .. Len(s) - (i + n) :
              i + Len(x) + k \in Starts(Spliced(s, i, n, x)) <=> i + n + k \in Starts(s)
<1>1. /\ s \in Seq(Byte) /\ x \in Seq(Byte) /\ Len(s) \in Nat /\ Len(x) \in Nat
      /\ i \in 0 .. Len(s) /\ i + n \in 0 .. Len(s) /\ 0 \in Starts(s) /\ Len(s) \in Starts(s)
  BY StartFacts
<1>2. PICK a, c : a = Part(s, 0, i) /\ c = Part(s, i + n, Len(s))
  OBVIOUS
<1>3. a \in Text /\ \A k \in 0 .. i : k \in Starts(a) <=> k \in Starts(s)
  <2>1. 0 <= i /\ i - 0 = i /\ \A k \in 0 .. i : 0 + k = k
    BY <1>1
  <2>2. a \in Text /\ \A k \in 0 .. i - 0 : k \in Starts(a) <=> 0 + k \in Starts(s)
    BY <1>1, <1>2, <2>1, PartText
  <2>3. QED
    BY <2>1, <2>2
<1>4. /\ c \in Text /\ Len(c) = Len(s) - (i + n)
      /\ \A k \in 0 .. Len(s) - (i + n) : k \in Starts(c) <=> i + n + k \in Starts(s)
  <2>1. i + n <= Len(s) /\ Len(s) \in i + n .. Len(s)
    BY <1>1
  <2>2. /\ c \in Text
        /\ \A k \in 0 .. Len(s) - (i + n) : k \in Starts(c) <=> i + n + k \in Starts(s)
    BY <1>1, <1>2, <2>1, PartText
  <2>3. Len(c) = Len(s) - (i + n)
    BY <1>1, <1>2, <2>1, PartFacts
  <2>4. QED
    BY <2>2, <2>3
<1>5. Len(a) = i
  <2>1. 0 \in 0 .. Len(s) /\ i \in 0 .. Len(s)
    BY <1>1
  <2>2. Len(a) = i - 0
    BY <1>1, <1>2, <2>1, PartFacts
  <2>3. QED
    BY <1>1, <2>2
<1>6. PICK d : d = a \o x
  OBVIOUS
<1>7. /\ d \in Text /\ Len(d) = i + Len(x)
      /\ \A k \in 0 .. i : k \in Starts(d) <=> k \in Starts(a)
      /\ \A k \in 0 .. Len(x) : i + k \in Starts(d) <=> k \in Starts(x)
  BY <1>3, <1>5, <1>6, ConcatText
<1>8. PICK v : v = Spliced(s, i, n, x)
  OBVIOUS
<1>9. v = d \o c
  BY <1>2, <1>6, <1>8 DEF Spliced
<1>10. /\ v \in Text /\ \A k \in 0 .. Len(d) : k \in Starts(v) <=> k \in Starts(d)
       /\ \A k \in 0 .. Len(c) : Len(d) + k \in Starts(v) <=> k \in Starts(c)
  BY <1>4, <1>7, <1>9, ConcatText
<1>11. Len(d) \in Starts(d) /\ Len(d) \in Nat
  BY <1>7, StartFacts
<1>12. i + Len(x) \in Starts(v)
  BY <1>7, <1>10, <1>11
<1>13. ASSUME NEW k \in 0 .. i PROVE k \in Starts(v) <=> k \in Starts(s)
  <2>1. k \in 0 .. Len(d)
    BY <1>1, <1>7
  <2>2. QED
    BY <1>3, <1>7, <1>10, <2>1
<1>14. Len(v) = Len(s) - n + Len(x)
  <2>1. n \in 0 .. Len(s) - i
    BY <1>1
  <2>2. QED
    BY <1>1, <1>8, <2>1, SplicedFacts DEF IsSpliced
<1>15. ASSUME NEW k \in 0 .. Len(x) PROVE i + k \in Starts(v) <=> k \in Starts(x)
  <2>1. i + k \in 0 .. Len(d)
    BY <1>1, <1>7
  <2>2. QED
    BY <1>7, <1>10, <2>1
<1>16. ASSUME NEW k \in 0 .. Len(s) - (i + n)
       PROVE  i + Len(x) + k \in Starts(v) <=> i + n + k \in Starts(s)
  <2>1. Len(d) + k \in Starts(v) <=> k \in Starts(c)
    BY <1>4, <1>10
  <2>2. QED
    BY <1>4, <1>7, <2>1
<1>17. QED
  BY <1>8, <1>10, <1>12, <1>13, <1>14, <1>15, <1>16

RotatedAt(s, f, m, l, k) ==
    IF k <= f \/ l < k THEN s[k] ELSE IF k <= f + (l - m) THEN s[k + (m - f)]
    ELSE s[k - (l - m)]
LEMMA RotateFacts ==
  ASSUME NEW S, NEW s \in Seq(S), NEW f \in Nat, NEW m \in Nat, NEW l \in Nat,
         f <= m, m <= l, l <= Len(s)
  PROVE  /\ Rotate(s, f, m, l) \in Seq(S) /\ Len(Rotate(s, f, m, l)) = Len(s)
         /\ \A k \in 1 .. Len(s) : Rotate(s, f, m, l)[k] = RotatedAt(s, f, m, l, k)
         /\ Rotate(s, f, m, l) = Spliced(s, f, l - f, Part(s, m, l) \o Part(s, f, m))
<1>1. Len(s) \in Nat /\ f \in 0 .. Len(s) /\ m \in 0 .. Len(s) /\ m \in f .. Len(s)
      /\ l \in 0 .. Len(s) /\ l \in m .. Len(s) /\ 0 \in 0 .. Len(s) /\ f \in 0 .. Len(s)
      /\ Len(s) \in l .. Len(s)
  OBVIOUS
<1>2. PICK a, b, c, d : /\ a = Part(s, 0, f) /\ b = Part(s, m, l)
                        /\ c = Part(s, f, m) /\ d = Part(s, l, Len(s))
  OBVIOUS
<1>3. a \in Seq(S)
  BY <1>1, <1>2, PartFacts
<1>4. b \in Seq(S) /\ Len(b) = l - m /\ \A k \in 1 .. l - m : b[k] = s[m + k]
  BY <1>1, <1>2, PartFacts
<1>5. c \in Seq(S) /\ Len(c) = m - f /\ \A k \in 1 .. m - f : c[k] = s[f + k]
  BY <1>1, <1>2, PartFacts
<1>6. d \in Seq(S)
  BY <1>1, <1>2, PartFacts
<1>7. PICK x : x = b \o c
  OBVIOUS
<1>8. /\ x \in Seq(S) /\ Len(x) = l - f
      /\ \A k \in 1 .. l - f : x[k] = IF k <= l - m THEN s[m + k] ELSE s[k - (l - m) + f]
  <2>1. b \in Seq(S) /\ c \in Seq(S)
    BY <1>4, <1>5
  <2>2. /\ x \in Seq(S) /\ Len(x) = Len(b) + Len(c)
        /\ \A k \in 1 .. Len(b) + Len(c) : x[k] = IF k <= Len(b) THEN b[k] ELSE c[k - Len(b)]
    BY <1>7, <2>1, ConcatProperties
  <2>3. Len(x) = l - f
    BY <1>4, <1>5, <2>2
  <2>4. ASSUME NEW k \in 1 .. l - f
        PROVE  x[k] = IF k <= l - m THEN s[m + k] ELSE s[k - (l - m) + f]
    <3>1. x[k] = IF k <= l - m THEN b[k] ELSE c[k - (l - m)]
      BY <1>4, <1>5, <2>2
    <3>2. CASE k <= l - m
      BY <1>4, <3>1, <3>2
    <3>3. CASE ~(k <= l - m)
      <4>1. k - (l - m) \in 1 .. m - f /\ f + (k - (l - m)) = k - (l - m) + f
        BY <3>3
      <4>2. QED
        BY <1>5, <3>1, <3>3, <4>1
    <3>4. QED
      BY <3>2, <3>3
  <2>5. QED
    BY <2>2, <2>3, <2>4
<1>9. PICK r : r = Rotate(s, f, m, l)
  OBVIOUS
<1>10. r = Spliced(s, f, l - f, x)
  <2>1. f + (l - f) = l
    OBVIOUS
  <2>2. Spliced(s, f, l - f, x) = (a \o x) \o d
    BY <1>2, <2>1 DEF Spliced
  <2>3. r = ((a \o b) \o c) \o d
    BY <1>2, <1>9 DEF Rotate
  <2>4. (a \o b) \o c = a \o x
    <3>1. a \in Seq(S) /\ b \in Seq(S) /\ c \in Seq(S)
      BY <1>3, <1>4, <1>5
    <3>2. (a \o b) \o c = a \o (b \o c)
      BY <3>1, ConcatAssociative
    <3>3. QED
      BY <1>7, <3>2
  <2>5. QED
    BY <2>2, <2>3, <2>4
<1>11. /\ r \in Seq(S) /\ Len(r) = Len(s)
       /\ \A k \in 1 .. Len(s) :
            r[k] = IF k <= f THEN s[k] ELSE IF k <= l THEN x[k - f] ELSE s[k]
  <2>1. f \in 0 .. Len(s) /\ l - f \in 0 .. Len(s) - f
    BY <1>1
  <2>2. /\ r \in Seq(S) /\ Len(r) = Len(s) - (l - f) + Len(x)
        /\ \A k \in 1 .. Len(s) - (l - f) + Len(x) :
              r[k] = IF k <= f THEN s[k] ELSE IF k <= f + Len(x) THEN x[k - f]
                     ELSE s[k - Len(x) + (l - f)]
    <3>1. x \in Seq(S)
      BY <1>8
    <3>2. PICK n : n = l - f
      OBVIOUS
    <3>3. n \in 0 .. Len(s) - f
      BY <2>1, <3>2
    <3>4. IsSpliced(r, S, s, f, n, x)
      BY <1>10, <2>1, <3>1, <3>2, <3>3, SplicedFacts
    <3>5. QED
      BY <3>2, <3>4 DEF IsSpliced
  <2>3. Len(s) - (l - f) + Len(x) = Len(s) /\ f + Len(x) = l
    BY <1>1, <1>8
  <2>4. ASSUME NEW k \in 1 .. Len(s)
        PROVE  r[k] = IF k <= f THEN s[k] ELSE IF k <= l THEN x[k - f] ELSE s[k]
    <3>1. k - Len(x) + (l - f) = k
      BY <1>1, <1>8
    <3>2. QED
      BY <2>2, <2>3, <3>1
  <2>5. QED
    BY <2>2, <2>3, <2>4
<1>12. ASSUME NEW k \in 1 .. Len(s) PROVE r[k] = RotatedAt(s, f, m, l, k)
  <2>1. CASE k <= f \/ l < k
    BY <1>1, <1>11, <2>1 DEF RotatedAt
  <2>2. CASE ~(k <= f) /\ k <= l
    <3>1. r[k] = x[k - f] /\ k - f \in 1 .. l - f
      BY <1>1, <1>11, <2>2
    <3>2. x[k - f] = IF k - f <= l - m THEN s[m + (k - f)] ELSE s[(k - f) - (l - m) + f]
      BY <1>8, <3>1
    <3>3. m + (k - f) = k + (m - f) /\ (k - f) - (l - m) + f = k - (l - m)
          /\ (k - f <= l - m <=> k <= f + (l - m))
      BY <1>1
    <3>4. QED
      BY <1>1, <2>2, <3>1, <3>2, <3>3 DEF RotatedAt
  <2>3. QED
    BY <1>1, <2>1, <2>2
<1>13. QED
  BY <1>2, <1>7, <1>9, <1>10, <1>11, <1>12

(* Two neighbouring parts that have changed places do so again.             *)
LEMMA RotateBack ==
  ASSUME NEW S, NEW s \in Seq(S), NEW f \in Nat, NEW m \in Nat, NEW l \in Nat,
         f <= m, m <= l, l <= Len(s)
  PROVE  Rotate(Rotate(s, f, m, l), f, f + (l - m), l) = s
<1>1. PICK r : r = Rotate(s, f, m, l)
  OBVIOUS
<1>2. /\ r \in Seq(S) /\ Len(r) = Len(s) /\ Len(s) \in Nat
      /\ \A k \in 1 .. Len(s) : r[k] = RotatedAt(s, f, m, l, k)
  BY <1>1, RotateFacts
<1>3. PICK n \in Nat : n = f + (l - m)
  OBVIOUS
<1>4. PICK u : u = Rotate(r, f, n, l)
  OBVIOUS
<1>5. f <= n /\ n <= l /\ l <= Len(r)
  BY <1>2, <1>3
<1>6. /\ u \in Seq(S) /\ Len(u) = Len(r)
      /\ \A k \in 1 .. Len(r) : u[k] = RotatedAt(r, f, n, l, k)
  BY <1>2, <1>4, <1>5, RotateFacts
<1>7. ASSUME NEW k \in 1 .. Len(s) PROVE u[k] = s[k]
  <2>0. u[k] = RotatedAt(r, f, n, l, k)
    BY <1>2, <1>6
  <2>1. CASE k <= f \/ l < k
    BY <1>2, <2>0, <2>1 DEF RotatedAt
  <2>2. CASE f < k /\ k <= m
    <3>1. PICK h \in 1 .. Len(s) : h = k + (n - f)
      BY <1>2, <1>3, <2>2
    <3>2. u[k] = r[h]
      BY <1>2, <1>3, <2>0, <2>2, <3>1 DEF RotatedAt
    <3>3. r[h] = s[h - (l - m)]
      <4>1. r[h] = RotatedAt(s, f, m, l, h)
        BY <1>2, <3>1
      <4>2. ~(h <= f \/ l < h) /\ ~(h <= f + (l - m))
        BY <1>2, <1>3, <2>2, <3>1
      <4>3. QED
        BY <4>1, <4>2 DEF RotatedAt
    <3>4. h - (l - m) = k
      BY <1>3, <3>1
    <3>5. QED
      BY <3>2, <3>3, <3>4
  <2>3. CASE m < k /\ k <= l
    <3>1. PICK h \in 1 .. Len(s) : h = k - (l - n)
      BY <1>2, <1>3, <2>3
    <3>2. u[k] = r[h]
      BY <1>2, <1>3, <2>0, <2>3, <3>1 DEF RotatedAt
    <3>3. r[h] = s[h + (m - f)]
      <4>1. r[h] = RotatedAt(s, f, m, l, h)
        BY <1>2, <3>1
      <4>2. ~(h <= f \/ l < h) /\ h <= f + (l - m)
        BY <1>2, <1>3, <2>3, <3>1
      <4>3. QED
        BY <4>1, <4>2 DEF RotatedAt
    <3>4. h + (m - f) = k
      BY <1>3, <3>1
    <3>5. QED
      BY <3>2, <3>3, <3>4
  <2>4. QED
    BY <2>1, <2>2, <2>3
<1>8. u = s
  BY <1>2, <1>6, <1>7, SeqEqual
<1>9. QED
  BY <1>1, <1>3, <1>4, <1>8

(* A part that has moved over the next one moves over the one after that.   *)
LEMMA RotateOn ==
  ASSUME NEW S, NEW s \in Seq(S), NEW f \in Nat, NEW m \in Nat, NEW l \in Nat, NEW e \in Nat,
         f <= m, m <= l, l <= e, e <= Len(s)
  PROVE  Rotate(Rotate(s, f, m, l), f + (l - m), l, e) = Rotate(s, f, m, e)
<1>1. PICK r : r = Rotate(s, f, m, l)
  OBVIOUS
<1>2. /\ r \in Seq(S) /\ Len(r) = Len(s) /\ Len(s) \in Nat
      /\ \A k \in 1 .. Len(s) : r[k] = RotatedAt(s, f, m, l, k)
  BY <1>1, RotateFacts
<1>3. PICK n \in Nat : n = f + (l - m)
  OBVIOUS
<1>4. PICK u, t : u = Rotate(r, n, l, e) /\ t = Rotate(s, f, m, e)
  OBVIOUS
<1>5. n <= l /\ e <= Len(r)
  BY <1>2, <1>3
<1>6. /\ u \in Seq(S) /\ Len(u) = Len(r)
      /\ \A k \in 1 .. Len(r) : u[k] = RotatedAt(r, n, l, e, k)
  BY <1>2, <1>4, <1>5, RotateFacts
<1>7. /\ t \in Seq(S) /\ Len(t) = Len(s)
      /\ \A k \in 1 .. Len(s) : t[k] = RotatedAt(s, f, m, e, k)
  BY <1>4, RotateFacts
<1>8. ASSUME NEW k \in 1 .. Len(s) PROVE u[k] = t[k]
  <2>0. u[k] = RotatedAt(r, n, l, e, k) /\ t[k] = RotatedAt(s, f, m, e, k)
    BY <1>2, <1>6, <1>7
  <2>1. CASE k <= n \/ e < k
    <3>1. u[k] = r[k] /\ r[k] = RotatedAt(s, f, m, l, k)
      BY <1>2, <2>0, <2>1 DEF RotatedAt
    <3>2. RotatedAt(s, f, m, l, k) = RotatedAt(s, f, m, e, k)
      BY <1>2, <1>3, <2>1 DEF RotatedAt
    <3>3. QED
      BY <2>0, <3>1, <3>2
  <2>2. CASE n < k /\ k <= e /\ k <= n + (e - l)
    <3>1. PICK h \in 1 .. Len(s) : h = k + (l - n)
      BY <1>2, <1>3, <2>2
    <3>2. u[k] = r[h]
      BY <1>2, <1>3, <2>0, <2>2, <3>1 DEF RotatedAt
    <3>3. r[h] = s[h]
      BY <1>2, <1>3, <2>2, <3>1 DEF RotatedAt
    <3>4. k + (m - f) = h /\ f < k /\ k <= f + (e - m)
      BY <1>3, <2>2, <3>1
    <3>5. t[k] = s[h]
      <4>1. ~(k <= f \/ e < k)
        BY <2>2, <3>4
      <4>2. QED
        BY <2>0, <3>4, <4>1 DEF RotatedAt
    <3>6. QED
      BY <3>2, <3>3, <3>5
  <2>3. CASE n + (e - l) < k /\ k <= e
    <3>1. PICK h \in 1 .. Len(s) : h = k - (e - l)
      BY <1>2, <1>3, <2>3
    <3>2. u[k] = r[h]
      BY <1>2, <1>3, <2>0, <2>3, <3>1 DEF RotatedAt
    <3>3. r[h] = s[h - (l - m)]
      BY <1>2, <1>3, <2>3, <3>1 DEF RotatedAt
    <3>4. h - (l - m) = k - (e - m) /\ f < k /\ ~(k <= f + (e - m))
      BY <1>3, <2>3, <3>1
    <3>5. t[k] = s[k - (e - m)]
      BY <1>2, <2>0, <2>3, <3>4 DEF RotatedAt
    <3>6. QED
      BY <3>2, <3>3, <3>4, <3>5
  <2>4. QED
    BY <1>2, <1>3, <2>1, <2>2, <2>3
<1>9. u = t
  BY <1>2, <1>6, <1>7, <1>8, SeqEqual
<1>10. QED
  BY <1>1, <1>3, <1>4, <1>9

LEMMA RotateOnBack ==
  ASSUME NEW S, NEW s \in Seq(S), NEW e \in Nat, NEW f \in Nat, NEW m \in Nat, NEW l \in Nat,
         e <= f, f <= m, m <= l, l <= Len(s)
  PROVE  Rotate(Rotate(s, f, m, l), e, f, f + (l - m)) = Rotate(s, e, m, l)
<1>1. PICK r : r = Rotate(s, f, m, l)
  OBVIOUS
<1>2. /\ r \in Seq(S) /\ Len(r) = Len(s) /\ Len(s) \in Nat
      /\ \A k \in 1 .. Len(s) : r[k] = RotatedAt(s, f, m, l, k)
  BY <1>1, RotateFacts
<1>3. PICK n \in Nat : n = f + (l - m)
  OBVIOUS
<1>4. PICK u, t : u = Rotate(r, e, f, n) /\ t = Rotate(s, e, m, l)
  OBVIOUS
<1>5. f <= n /\ n <= l /\ n <= Len(r) /\ e <= m
  BY <1>2, <1>3
<1>6. /\ u \in Seq(S) /\ Len(u) = Len(r)
      /\ \A k \in 1 .. Len(r) : u[k] = RotatedAt(r, e, f, n, k)
  BY <1>2, <1>4, <1>5, RotateFacts
<1>7. /\ t \in Seq(S) /\ Len(t) = Len(s)
      /\ \A k \in 1 .. Len(s) : t[k] = RotatedAt(s, e, m, l, k)
  BY <1>4, <1>5, RotateFacts
<1>8. ASSUME NEW k \in 1 .. Len(s) PROVE u[k] = t[k]
  <2>0. u[k] = RotatedAt(r, e, f, n, k) /\ t[k] = RotatedAt(s, e, m, l, k)
    BY <1>2, <1>6, <1>7
  <2>1. CASE k <= e \/ n < k
    <3>1. u[k] = r[k] /\ r[k] = RotatedAt(s, f, m, l, k)
      BY <1>2, <2>0, <2>1 DEF RotatedAt
    <3>2. RotatedAt(s, f, m, l, k) = RotatedAt(s, e, m, l, k)
      BY <1>2, <1>3, <2>1 DEF RotatedAt
    <3>3. QED
      BY <2>0, <3>1, <3>2
  <2>2. CASE e < k /\ k <= e + (n - f)
    <3>1. PICK h \in 1 .. Len(s) : h = k + (f - e)
      BY <1>2, <1>3, <2>2
    <3>2. u[k] = r[h]
      <4>1. ~(k <= e \/ n < k)
        BY <1>3, <2>2
      <4>2. QED
        BY <2>0, <2>2, <3>1, <4>1 DEF RotatedAt
    <3>3. r[h] = s[h + (m - f)]
      <4>1. r[h] = RotatedAt(s, f, m, l, h)
        BY <1>2, <3>1
      <4>2. ~(h <= f \/ l < h) /\ h <= f + (l - m)
        BY <1>2, <1>3, <2>2, <3>1
      <4>3. QED
        BY <4>1, <4>2 DEF RotatedAt
    <3>4. h + (m - f) = k + (m - e) /\ ~(k <= e \/ l < k) /\ k <= e + (l - m)
      BY <1>2, <1>3, <2>2, <3>1
    <3>5. t[k] = s[k + (m - e)]
      BY <2>0, <3>4 DEF RotatedAt
    <3>6. QED
      BY <3>2, <3>3, <3>4, <3>5
  <2>3. CASE e + (n - f) < k /\ k <= n
    <3>1. PICK h \in 1 .. Len(s) : h = k - (n - f)
      BY <1>2, <1>3, <2>3
    <3>2. u[k] = r[h]
      <4>1. ~(k <= e \/ n < k) /\ ~(k <= e + (n - f))
        BY <1>3, <2>3
      <4>2. QED
        BY <2>0, <3>1, <4>1 DEF RotatedAt
    <3>3. r[h] = s[h]
      <4>1. r[h] = RotatedAt(s, f, m, l, h)
        BY <1>2, <3>1
      <4>2. h <= f
        BY <1>2, <1>3, <2>3, <3>1
      <4>3. QED
        BY <4>1, <4>2 DEF RotatedAt
    <3>4. k - (l - m) = h /\ ~(k <= e \/ l < k) /\ ~(k <= e + (l - m))
      BY <1>2, <1>3, <2>3, <3>1
    <3>5. t[k] = s[k - (l - m)]
      BY <2>0, <3>4 DEF RotatedAt
    <3>6. QED
      BY <3>2, <3>3, <3>4, <3>5
  <2>4. QED
    BY <1>2, <1>3, <2>1, <2>2, <2>3
<1>9. u = t
  BY <1>2, <1>6, <1>7, <1>8, SeqEqual
<1>10. QED
  BY <1>1, <1>3, <1>4, <1>9

(* Neighbouring parts of whole letters change places.                       *)
LEMMA RotateText ==
  ASSUME NEW s \in Text, NEW f \in Starts(s), NEW m \in Starts(s), NEW l \in Starts(s),
         f <= m, m <= l
  PROVE  /\ Rotate(s, f, m, l) \in Text /\ Len(Rotate(s, f, m, l)) = Len(s)
         /\ f + (l - m) \in Starts(Rotate(s, f, m, l))
         /\ \A k \in Starts(s) : k <= f \/ l <= k => k \in Starts(Rotate(s, f, m, l))
         /\ \A k \in 0 .. f : k \in Starts(Rotate(s, f, m, l)) <=> k \in Starts(s)
         /\ \A k \in 0 .. m - f : f + k \in Starts(s) => f + (l - m) + k \in Starts(Rotate(s, f, m, l))
<1>1. /\ s \in Seq(Byte) /\ Len(s) \in Nat /\ f \in 0 .. Len(s) /\ m \in 0 .. Len(s)
      /\ l \in 0 .. Len(s) /\ Starts(s) \subseteq 0 .. Len(s)
  BY StartFacts
<1>2. PICK b, c : b = Part(s, m, l) /\ c = Part(s, f, m)
  OBVIOUS
<1>3. b \in Text /\ Len(b) = l - m
  <2>1. l \in m .. Len(s)
    BY <1>1
  <2>2. QED
    BY <1>1, <1>2, <2>1, PartText, PartFacts
<1>4. c \in Text /\ Len(c) = m - f
  <2>1. m \in f .. Len(s)
    BY <1>1
  <2>2. QED
    BY <1>1, <1>2, <2>1, PartText, PartFacts
<1>5. PICK x : x = b \o c
  OBVIOUS
<1>6. /\ x \in Text /\ Len(x) = l - f /\ l - m \in Starts(x)
      /\ \A k \in 0 .. m - f : f + k \in Starts(s) => (l - m) + k \in Starts(x)
  <2>1. /\ x \in Text /\ Len(x) = Len(b) + Len(c)
        /\ \A k \in 0 .. Len(b) : k \in Starts(x) <=> k \in Starts(b)
    BY <1>3, <1>4, <1>5, ConcatText
  <2>2. Len(b) \in Starts(b) /\ Len(b) \in Nat
    BY <1>3, StartFacts
  <2>3. \A k \in 0 .. Len(c) : Len(b) + k \in Starts(x) <=> k \in Starts(c)
    BY <1>3, <1>4, <1>5, ConcatText
  <2>4. \A k \in 0 .. m - f : k \in Starts(c) <=> f + k \in Starts(s)
    BY <1>2, PartText
  <2>5. \A k \in 0 .. m - f : f + k \in Starts(s) => (l - m) + k \in Starts(x)
    BY <1>3, <1>4, <2>3, <2>4
  <2>6. Len(x) = l - f
    BY <1>1, <1>3, <1>4, <2>1
  <2>7. QED
    BY <1>1, <1>3, <2>1, <2>2, <2>5, <2>6
<1>0. PICK r : r = Rotate(s, f, m, l)
  OBVIOUS
<1>7. PICK n \in Nat : n = l - f
  BY <1>1
<1>8. r = Spliced(s, f, n, x) /\ Len(r) = Len(s)
  <2>1. f \in Nat /\ m \in Nat /\ l \in Nat /\ l <= Len(s)
    BY <1>1
  <2>2. QED
    BY <1>0, <1>1, <1>2, <1>5, <1>7, <2>1, RotateFacts
<1>9. f + n = l /\ f + n \in Starts(s)
  BY <1>1, <1>7
<1>10. /\ r \in Text
       /\ \A k \in 0 .. f : k \in Starts(r) <=> k \in Starts(s)
       /\ \A k \in 0 .. Len(x) : f + k \in Starts(r) <=> k \in Starts(x)
       /\ \A k \in 0 .. Len(s) - (f + n) : f + Len(x) + k \in Starts(r) <=> f + n + k \in Starts(s)
  BY <1>6, <1>8, <1>9, SplicedText
<1>11. f + (l - m) \in Starts(r)
  <2>1. l - m \in 0 .. Len(x)
    BY <1>1, <1>6
  <2>2. QED
    BY <1>6, <1>10, <2>1
<1>12. ASSUME NEW k \in Starts(s), k <= f \/ l <= k PROVE k \in Starts(r)
  <2>1. CASE k <= f
    <3>1. k \in 0 .. f
      BY <1>1, <2>1
    <3>2. QED
      BY <1>10, <3>1
  <2>2. CASE l <= k
    <3>1. PICK h \in 0 .. Len(s) - (f + n) : h = k - l
      BY <1>1, <1>9, <2>2
    <3>2. f + Len(x) + h = k /\ f + n + h = k
      BY <1>1, <1>6, <1>9, <3>1
    <3>3. QED
      BY <1>10, <3>1, <3>2
  <2>3. QED
    BY <1>12, <2>1, <2>2
<1>13. ASSUME NEW k \in 0 .. m - f, f + k \in Starts(s) PROVE f + (l - m) + k \in Starts(r)
  <2>1. PICK h : h = (l - m) + k
    OBVIOUS
  <2>2. h \in Starts(x) /\ h \in 0 .. Len(x) /\ f + (l - m) + k = f + h
    BY <1>1, <1>6, <1>13, <2>1
  <2>3. QED
    BY <1>10, <2>2
<1>14. QED
  BY <1>0, <1>8, <1>10, <1>11, <1>12, <1>13

CopiedAt(s, i, t, a, b, k) == IF i < k /\ k <= i + (b - a) THEN t[k - i + a] ELSE s[k]
LEMMA CopyFacts ==
  ASSUME NEW S, NEW s \in Seq(S), NEW t \in Seq(S), NEW i \in Nat, NEW a \in Nat, NEW b \in Nat,
         a <= b, b <= Len(t), i + (b - a) <= Len(s)
  PROVE  /\ CopyTo(s, i, Part(t, a, b)) \in Seq(S)
         /\ Len(CopyTo(s, i, Part(t, a, b))) = Len(s)
         /\ \A k \in 1 .. Len(s) : CopyTo(s, i, Part(t, a, b))[k] = CopiedAt(s, i, t, a, b, k)
<1>1. PICK n \in Nat : n = b - a
  OBVIOUS
<1>2. PICK x : x = Part(t, a, b)
  OBVIOUS
<1>3. x \in Seq(S) /\ Len(x) = n /\ \A k \in 1 .. n : x[k] = t[a + k]
  <2>1. a \in 0 .. Len(t) /\ b \in a .. Len(t)
    OBVIOUS
  <2>2. QED
    BY <1>1, <1>2, <2>1, PartFacts
<1>4. PICK v : v = CopyTo(s, i, x)
  OBVIOUS
<1>5. IsSpliced(v, S, s, i, n, x)
  <2>1. i \in 0 .. Len(s) /\ n \in 0 .. Len(s) - i /\ x \in Seq(S)
    BY <1>1, <1>3
  <2>2. v = Spliced(s, i, n, x)
    BY <1>3, <1>4 DEF CopyTo
  <2>3. QED
    BY <2>1, <2>2, SplicedFacts
<1>6. Len(v) = Len(s) /\ v \in Seq(S)
  BY <1>1, <1>3, <1>5 DEF IsSpliced
<1>7. ASSUME NEW k \in 1 .. Len(s) PROVE v[k] = CopiedAt(s, i, t, a, b, k)
  <2>1. v[k] = IF k <= i THEN s[k] ELSE IF k <= i + n THEN x[k - i] ELSE s[k - n + n]
    BY <1>1, <1>3, <1>5 DEF IsSpliced
  <2>2. CASE i < k /\ k <= i + n
    <3>1. k - i \in 1 .. n /\ a + (k - i) = k - i + a
      BY <1>1, <2>2
    <3>2. v[k] = t[k - i + a]
      BY <1>3, <2>1, <2>2, <3>1
    <3>3. QED
      BY <1>1, <2>2, <3>2 DEF CopiedAt
  <2>3. CASE ~(i < k /\ k <= i + n)
    BY <1>1, <2>1, <2>3 DEF CopiedAt
  <2>4. QED
    BY <2>2, <2>3
<1>8. QED
  BY <1>2, <1>4, <1>6, <1>7

(* u8_swap_adjacent_cp() is a rotation.                                     *)
LEMMA SwapAdjacentRotates ==
  ASSUME NEW S, NEW s \in Seq(S), NEW f \in Nat, NEW m \in Nat, NEW l \in Nat,
         f <= m, m <= l, l <= Len(s)
  PROVE  /\ SwapAdjacent(s, f, m, l).str = Rotate(s, f, m, l)
         /\ SwapAdjacent(s, f, m, l).i2 = f + (l - m)
<1>1. PICK n \in Nat : n = f + (l - m)
  OBVIOUS
<1>2. PICK v, u : v = CopyTo(s, n, Part(s, f, m)) /\ u = CopyTo(v, f, Part(s, m, l))
  OBVIOUS
<1>3. /\ v \in Seq(S) /\ Len(v) = Len(s)
      /\ \A k \in 1 .. Len(s) : v[k] = CopiedAt(s, n, s, f, m, k)
  <2>1. m <= Len(s) /\ n + (m - f) <= Len(s)
    BY <1>1
  <2>2. QED
    BY <1>2, <2>1, CopyFacts
<1>4. /\ u \in Seq(S) /\ Len(u) = Len(v)
      /\ \A k \in 1 .. Len(v) : u[k] = CopiedAt(v, f, s, m, l, k)
  <2>1. v \in Seq(S) /\ f + (l - m) <= Len(v)
    BY <1>1, <1>3
  <2>2. QED
    BY <1>2, <2>1, CopyFacts
<1>5. PICK r : r = Rotate(s, f, m, l)
  OBVIOUS
<1>6. /\ r \in Seq(S) /\ Len(r) = Len(s)
      /\ \A k \in 1 .. Len(s) : r[k] = RotatedAt(s, f, m, l, k)
  BY <1>5, RotateFacts
<1>7. ASSUME NEW k \in 1 .. Len(s) PROVE u[k] = r[k]
  <2>1. /\ r[k] = RotatedAt(s, f, m, l, k) /\ u[k] = CopiedAt(v, f, s, m, l, k)
        /\ v[k] = CopiedAt(s, n, s, f, m, k)
    BY <1>3, <1>4, <1>6
  <2>2. CASE f < k /\ k <= n
    <3>1. u[k] = s[k - f + m]
      BY <1>1, <2>1, <2>2 DEF CopiedAt
    <3>2. k - f + m = k + (m - f) /\ ~(k <= f \/ l < k) /\ k <= f + (l - m)
      BY <1>1, <2>2
    <3>3. r[k] = s[k + (m - f)]
      BY <2>1, <3>2 DEF RotatedAt
    <3>4. QED
      BY <3>1, <3>2, <3>3
  <2>3. CASE n < k /\ k <= l
    <3>1. u[k] = v[k] /\ v[k] = s[k - n + f]
      BY <1>1, <2>1, <2>3 DEF CopiedAt
    <3>2. k - n + f = k - (l - m) /\ ~(k <= f \/ l < k) /\ ~(k <= f + (l - m))
      BY <1>1, <2>3
    <3>3. r[k] = s[k - (l - m)]
      BY <2>1, <3>2 DEF RotatedAt
    <3>4. QED
      BY <3>1, <3>2, <3>3
  <2>4. CASE k <= f \/ l < k
    <3>1. u[k] = v[k] /\ v[k] = s[k]
      BY <1>1, <2>1, <2>4 DEF CopiedAt
    <3>2. QED
      BY <2>1, <2>4, <3>1 DEF RotatedAt
  <2>5. QED
    BY <1>1, <2>2, <2>3, <2>4
<1>8. u = r
  BY <1>3, <1>4, <1>6, <1>7, SeqEqual
<1>9. SwapAdjacent(s, f, m, l) = [str |-> u, i2 |-> n]
  BY <1>1, <1>2 DEF SwapAdjacent
<1>10. QED
  BY <1>1, <1>5, <1>8, <1>9

\* What u8_swap_cp() makes of a string, with the letters between i1, i2 and
\* between j1, j2.
SwappedAt(s, i1, i2, j1, j2, k) ==
    IF k <= i1 \/ j2 < k THEN s[k]
    ELSE IF k <= i1 + (j2 - j1) THEN s[k + (j1 - i1)]
    ELSE IF k <= j2 - (i2 - i1) THEN s[k - (i1 + (j2 - j1)) + i2]
    ELSE s[k - (j2 - i2)]
LEMMA SwapCpFacts ==
  ASSUME NEW S, NEW s \in Seq(S), NEW i1 \in Nat, NEW i2 \in Nat, NEW j1 \in Nat, NEW j2 \in Nat,
         i1 <= i2, i2 <= j1, j1 <= j2, j2 <= Len(s)
  PROVE  /\ SwapCp(s, i1, i2, j1, j2).str \in Seq(S)
         /\ Len(SwapCp(s, i1, i2, j1, j2).str) = Len(s)
         /\ \A k \in 1 .. Len(s) :
              SwapCp(s, i1, i2, j1, j2).str[k] = SwappedAt(s, i1, i2, j1, j2, k)
         /\ SwapCp(s, i1, i2, j1, j2).i2 = i1 + (j2 - j1)
         /\ SwapCp(s, i1, i2, j1, j2).j1 = j2 - (i2 - i1)
<1>1. PICK m \in Nat : m = i1 + (j2 - j1)
  OBVIOUS
<1>2. PICK n \in Nat : n = j2 - (i2 - i1)
  OBVIOUS
<1>3. m <= n /\ m + (j1 - i2) = n /\ n + (i2 - i1) = j2
  BY <1>1, <1>2
<1>4. PICK v, u, t : /\ v = CopyTo(s, m, Part(s, i2, j1))
                     /\ u = CopyTo(v, i1, Part(s, j1, j2))
                     /\ t = CopyTo(u, n, Part(s, i1, i2))
  OBVIOUS
<1>5. /\ v \in Seq(S) /\ Len(v) = Len(s)
      /\ \A k \in 1 .. Len(s) : v[k] = CopiedAt(s, m, s, i2, j1, k)
  <2>1. j1 <= Len(s) /\ m + (j1 - i2) <= Len(s)
    BY <1>2, <1>3
  <2>2. QED
    BY <1>4, <2>1, CopyFacts
<1>6. /\ u \in Seq(S) /\ Len(u) = Len(v)
      /\ \A k \in 1 .. Len(v) : u[k] = CopiedAt(v, i1, s, j1, j2, k)
  <2>1. v \in Seq(S) /\ i1 + (j2 - j1) <= Len(v)
    BY <1>1, <1>3, <1>5
  <2>2. QED
    BY <1>4, <2>1, CopyFacts
<1>7. /\ t \in Seq(S) /\ Len(t) = Len(u)
      /\ \A k \in 1 .. Len(u) : t[k] = CopiedAt(u, n, s, i1, i2, k)
  <2>1. u \in Seq(S) /\ i2 <= Len(s) /\ n + (i2 - i1) <= Len(u)
    BY <1>3, <1>5, <1>6
  <2>2. QED
    BY <1>4, <2>1, CopyFacts
<1>8. ASSUME NEW k \in 1 .. Len(s) PROVE t[k] = SwappedAt(s, i1, i2, j1, j2, k)
  <2>1. /\ t[k] = CopiedAt(u, n, s, i1, i2, k) /\ u[k] = CopiedAt(v, i1, s, j1, j2, k)
        /\ v[k] = CopiedAt(s, m, s, i2, j1, k)
    BY <1>5, <1>6, <1>7
  <2>2. CASE n < k /\ k <= j2
    <3>1. t[k] = s[k - n + i1]
      BY <1>3, <2>1, <2>2 DEF CopiedAt
    <3>2. k - n + i1 = k - (j2 - i2) /\ ~(k <= i1 \/ j2 < k) /\ ~(k <= i1 + (j2 - j1))
          /\ ~(k <= j2 - (i2 - i1))
      BY <1>1, <1>2, <1>3, <2>2
    <3>3. QED
      BY <3>1, <3>2 DEF SwappedAt
  <2>3. CASE m < k /\ k <= n
    <3>1. t[k] = u[k] /\ u[k] = v[k] /\ v[k] = s[k - m + i2]
      BY <1>1, <1>3, <2>1, <2>3 DEF CopiedAt
    <3>2. ~(k <= i1 \/ j2 < k) /\ ~(k <= i1 + (j2 - j1)) /\ k <= j2 - (i2 - i1)
      BY <1>1, <1>2, <1>3, <2>3
    <3>3. QED
      BY <1>1, <3>1, <3>2 DEF SwappedAt
  <2>4. CASE i1 < k /\ k <= m
    <3>1. t[k] = u[k] /\ u[k] = s[k - i1 + j1]
      BY <1>1, <1>3, <2>1, <2>4 DEF CopiedAt
    <3>2. k - i1 + j1 = k + (j1 - i1) /\ ~(k <= i1 \/ j2 < k) /\ k <= i1 + (j2 - j1)
      BY <1>1, <1>2, <1>3, <2>4
    <3>3. QED
      BY <3>1, <3>2 DEF SwappedAt
  <2>5. CASE k <= i1 \/ j2 < k
    <3>1. t[k] = u[k] /\ u[k] = v[k] /\ v[k] = s[k]
      BY <1>1, <1>3, <2>1, <2>5 DEF CopiedAt
    <3>2. QED
      BY <2>5, <3>1 DEF SwappedAt
  <2>6. QED
    BY <1>3, <2>2, <2>3, <2>4, <2>5
<1>9. SwapCp(s, i1, i2, j1, j2) = [str |-> t, i2 |-> m, j1 |-> n]
  BY <1>1, <1>2, <1>4 DEF SwapCp
<1>10. QED
  BY <1>1, <1>2, <1>5, <1>6, <1>7, <1>8, <1>9

(* The letters exchanged are exchanged again.                               *)
LEMMA SwapCpBack ==
  ASSUME NEW S, NEW s \in Seq(S), NEW i1 \in Nat, NEW i2 \in Nat, NEW j1 \in Nat, NEW j2 \in Nat,
         i1 <= i2, i2 <= j1, j1 <= j2, j2 <= Len(s),
         NEW there, there = SwapCp(s, i1, i2, j1, j2)
  PROVE  SwapCp(there.str, i1, there.i2, there.j1, j2).str = s
<1>1. PICK m \in Nat : m = i1 + (j2 - j1)
  OBVIOUS
<1>2. PICK n \in Nat : n = j2 - (i2 - i1)
  OBVIOUS
<1>3. i1 <= m /\ m <= n /\ m + (j1 - i2) = n /\ n + (i2 - i1) = j2
  BY <1>1, <1>2
<1>4. PICK v : v = there.str
  OBVIOUS
<1>5. /\ v \in Seq(S) /\ Len(v) = Len(s) /\ there.i2 = m /\ there.j1 = n
      /\ \A k \in 1 .. Len(s) : v[k] = SwappedAt(s, i1, i2, j1, j2, k)
  BY <1>1, <1>2, <1>4, SwapCpFacts
<1>6. PICK u : u = SwapCp(v, i1, m, n, j2).str
  OBVIOUS
<1>7. /\ u \in Seq(S) /\ Len(u) = Len(v)
      /\ \A k \in 1 .. Len(v) : u[k] = SwappedAt(v, i1, m, n, j2, k)
  <2>1. n <= j2 /\ j2 <= Len(v) /\ v \in Seq(S)
    BY <1>3, <1>5
  <2>2. QED
    BY <1>3, <1>6, <2>1, SwapCpFacts
<1>8. ASSUME NEW k \in 1 .. Len(s) PROVE u[k] = s[k]
  <2>1. u[k] = SwappedAt(v, i1, m, n, j2, k)
    BY <1>5, <1>7
  <2>2. CASE k <= i1 \/ j2 < k
    <3>1. u[k] = v[k] /\ v[k] = SwappedAt(s, i1, i2, j1, j2, k)
      BY <1>5, <2>1, <2>2 DEF SwappedAt
    <3>2. QED
      BY <2>2, <3>1 DEF SwappedAt
  <2>3. CASE i1 < k /\ k <= i2
    <3>1. PICK h \in 1 .. Len(s) : h = k + (n - i1)
      BY <1>2, <1>3, <2>3
    <3>2. u[k] = v[h]
      <4>1. ~(k <= i1 \/ j2 < k) /\ k <= i1 + (j2 - n)
        BY <1>3, <2>3
      <4>2. QED
        BY <2>1, <3>1, <4>1 DEF SwappedAt
    <3>3. v[h] = s[h - (j2 - i2)]
      <4>1. v[h] = SwappedAt(s, i1, i2, j1, j2, h)
        BY <1>5
      <4>2. ~(h <= i1 \/ j2 < h) /\ ~(h <= i1 + (j2 - j1)) /\ ~(h <= j2 - (i2 - i1))
        BY <1>1, <1>2, <1>3, <2>3, <3>1
      <4>3. QED
        BY <4>1, <4>2 DEF SwappedAt
    <3>4. h - (j2 - i2) = k
      BY <1>2, <3>1
    <3>5. QED
      BY <3>2, <3>3, <3>4
  <2>4. CASE i2 < k /\ k <= j1
    <3>1. PICK h \in 1 .. Len(s) : h = k - i2 + m
      BY <1>2, <1>3, <2>4
    <3>2. u[k] = v[h]
      <4>1. ~(k <= i1 \/ j2 < k) /\ ~(k <= i1 + (j2 - n)) /\ k <= j2 - (m - i1)
        BY <1>1, <1>3, <2>4
      <4>2. k - (i1 + (j2 - n)) + m = h
        BY <1>3, <3>1
      <4>3. QED
        BY <2>1, <4>1, <4>2 DEF SwappedAt
    <3>3. v[h] = s[h - m + i2]
      <4>1. v[h] = SwappedAt(s, i1, i2, j1, j2, h)
        BY <1>5
      <4>2. ~(h <= i1 \/ j2 < h) /\ ~(h <= i1 + (j2 - j1)) /\ h <= j2 - (i2 - i1)
        BY <1>1, <1>2, <1>3, <2>4, <3>1
      <4>3. QED
        BY <1>1, <4>1, <4>2 DEF SwappedAt
    <3>4. h - m + i2 = k
      BY <3>1
    <3>5. QED
      BY <3>2, <3>3, <3>4
  <2>5. CASE j1 < k /\ k <= j2
    <3>1. PICK h \in 1 .. Len(s) : h = k - (j2 - m)
      BY <1>1, <1>3, <2>5
    <3>2. u[k] = v[h]
      <4>1. ~(k <= i1 \/ j2 < k) /\ ~(k <= i1 + (j2 - n)) /\ ~(k <= j2 - (m - i1))
        BY <1>1, <1>3, <2>5
      <4>2. QED
        BY <2>1, <3>1, <4>1 DEF SwappedAt
    <3>3. v[h] = s[h + (j1 - i1)]
      <4>1. v[h] = SwappedAt(s, i1, i2, j1, j2, h)
        BY <1>5
      <4>2. ~(h <= i1 \/ j2 < h) /\ h <= i1 + (j2 - j1)
        BY <1>1, <1>2, <1>3, <2>5, <3>1
      <4>3. QED
        BY <4>1, <4>2 DEF SwappedAt
    <3>4. h + (j1 - i1) = k
      BY <1>1, <3>1
    <3>5. QED
      BY <3>2, <3>3, <3>4
  <2>6. QED
    BY <2>2, <2>3, <2>4, <2>5
<1>9. u = s
  BY <1>5, <1>7, <1>8, SeqEqual
<1>10. QED
  BY <1>4, <1>5, <1>6, <1>9

LEMMA SwapCpText ==
  ASSUME NEW s \in Text, NEW i1 \in Starts(s), NEW i2 \in Starts(s), NEW j1 \in Starts(s),
         NEW j2 \in Starts(s), i1 <= i2, i2 <= j1, j1 <= j2
  PROVE  SwapCp(s, i1, i2, j1, j2).str \in Text
<1>1. /\ s \in Seq(Byte) /\ Len(s) \in Nat /\ i1 \in Nat /\ i2 \in Nat /\ j1 \in Nat
      /\ j2 \in Nat /\ j2 <= Len(s) /\ j1 <= Len(s) /\ i1 <= j1
  BY StartFacts
<1>2. PICK m \in Nat, n \in Nat : m = i1 + (j2 - j1) /\ n = m + (i2 - i1)
  <2>1. i1 + (j2 - j1) \in Nat /\ (i1 + (j2 - j1)) + (i2 - i1) \in Nat
    BY <1>1
  <2>2. QED
    BY <2>1
<1>3. m <= n /\ n <= j2
  BY <1>1, <1>2
<1>4. PICK v, u, t : /\ v = Rotate(s, i1, j1, j2) /\ u = Rotate(v, m, n, j2)
                     /\ t = SwapCp(s, i1, i2, j1, j2).str
  OBVIOUS
<1>5. v \in Text /\ Len(v) = Len(s) /\ m \in Starts(v) /\ n \in Starts(v) /\ j2 \in Starts(v)
  <2>1. /\ v \in Text /\ Len(v) = Len(s) /\ i1 + (j2 - j1) \in Starts(v)
        /\ \A k \in Starts(s) : k <= i1 \/ j2 <= k => k \in Starts(v)
        /\ \A k \in 0 .. j1 - i1 : i1 + k \in Starts(s) => i1 + (j2 - j1) + k \in Starts(v)
    BY <1>1, <1>4, RotateText
  <2>2. i2 - i1 \in 0 .. j1 - i1 /\ i1 + (i2 - i1) = i2
    BY <1>1
  <2>3. i1 + (j2 - j1) + (i2 - i1) \in Starts(v)
    BY <2>1, <2>2
  <2>4. j2 \in Starts(v)
    BY <1>1, <2>1
  <2>5. QED
    BY <1>2, <2>1, <2>3, <2>4
<1>6. u \in Text
  BY <1>3, <1>4, <1>5, RotateText
<1>7. \A k \in 1 .. Len(s) : v[k] = RotatedAt(s, i1, j1, j2, k)
  BY <1>1, <1>4, RotateFacts
<1>8. /\ u \in Seq(Byte) /\ Len(u) = Len(s)
      /\ \A k \in 1 .. Len(s) : u[k] = RotatedAt(v, m, n, j2, k)
  <2>1. v \in Seq(Byte) /\ j2 <= Len(v)
    BY <1>1, <1>5, StartFacts
  <2>2. QED
    BY <1>3, <1>4, <1>5, <2>1, RotateFacts
<1>9. /\ t \in Seq(Byte) /\ Len(t) = Len(s)
      /\ \A k \in 1 .. Len(s) : t[k] = SwappedAt(s, i1, i2, j1, j2, k)
  BY <1>1, <1>4, SwapCpFacts
<1>10. ASSUME NEW k \in 1 .. Len(s) PROVE t[k] = u[k]
  <2>1. t[k] = SwappedAt(s, i1, i2, j1, j2, k) /\ u[k] = RotatedAt(v, m, n, j2, k)
    BY <1>8, <1>9
  <2>2. CASE k <= m \/ j2 < k
    <3>1. u[k] = v[k] /\ v[k] = RotatedAt(s, i1, j1, j2, k)
      BY <1>7, <2>1, <2>2 DEF RotatedAt
    <3>2. RotatedAt(s, i1, j1, j2, k) = SwappedAt(s, i1, i2, j1, j2, k)
      BY <1>1, <1>2, <2>2 DEF RotatedAt, SwappedAt
    <3>3. QED
      BY <2>1, <3>1, <3>2
  <2>3. CASE m < k /\ k <= m + (j2 - n)
    <3>1. PICK h \in 1 .. Len(s) : h = k + (n - m)
      BY <1>1, <1>2, <1>3, <2>3
    <3>2. u[k] = v[h]
      <4>1. ~(k <= m \/ j2 < k)
        BY <1>1, <1>2, <1>3, <2>3
      <4>2. QED
        BY <2>1, <2>3, <3>1, <4>1 DEF RotatedAt
    <3>3. v[h] = s[h - (j2 - j1)]
      <4>1. v[h] = RotatedAt(s, i1, j1, j2, h)
        BY <1>7
      <4>2. ~(h <= i1 \/ j2 < h) /\ ~(h <= i1 + (j2 - j1))
        BY <1>1, <1>2, <1>3, <2>3, <3>1
      <4>3. QED
        BY <4>1, <4>2 DEF RotatedAt
    <3>4. /\ h - (j2 - j1) = k - (i1 + (j2 - j1)) + i2 /\ ~(k <= i1 \/ j2 < k)
          /\ ~(k <= i1 + (j2 - j1)) /\ k <= j2 - (i2 - i1)
      BY <1>1, <1>2, <1>3, <2>3, <3>1
    <3>5. t[k] = s[k - (i1 + (j2 - j1)) + i2]
      BY <2>1, <3>4 DEF SwappedAt
    <3>6. QED
      BY <3>2, <3>3, <3>4, <3>5
  <2>4. CASE m + (j2 - n) < k /\ k <= j2
    <3>1. PICK h \in 1 .. Len(s) : h = k - (j2 - n)
      BY <1>1, <1>2, <1>3, <2>4
    <3>2. u[k] = v[h]
      <4>1. ~(k <= m \/ j2 < k) /\ ~(k <= m + (j2 - n))
        BY <1>1, <1>2, <1>3, <2>4
      <4>2. QED
        BY <2>1, <3>1, <4>1 DEF RotatedAt
    <3>3. v[h] = s[h - (j2 - j1)]
      <4>1. v[h] = RotatedAt(s, i1, j1, j2, h)
        BY <1>7
      <4>2. ~(h <= i1 \/ j2 < h) /\ ~(h <= i1 + (j2 - j1))
        BY <1>1, <1>2, <1>3, <2>4, <3>1
      <4>3. QED
        BY <4>1, <4>2 DEF RotatedAt
    <3>4. /\ h - (j2 - j1) = k - (j2 - i2) /\ ~(k <= i1 \/ j2 < k)
          /\ ~(k <= i1 + (j2 - j1)) /\ ~(k <= j2 - (i2 - i1))
      BY <1>1, <1>2, <1>3, <2>4, <3>1
    <3>5. t[k] = s[k - (j2 - i2)]
      BY <2>1, <3>4 DEF SwappedAt
    <3>6. QED
      BY <3>2, <3>3, <3>4, <3>5
  <2>5. QED
    <3>1. k \in Nat /\ j2 \in Nat /\ m \in Nat /\ j2 - n \in Int
      BY <1>1, <1>2
    <3>2. \/ k <= m \/ j2 < k
          \/ m < k /\ k <= m + (j2 - n)
          \/ m + (j2 - n) < k /\ k <= j2
      BY <1>2, <3>1
    <3>3. QED
      BY <2>2, <2>3, <2>4, <3>2
<1>11. t = u
  BY <1>8, <1>9, <1>10, SeqEqual
<1>12. QED
  BY <1>4, <1>6, <1>11

(* The part of a text from a letter's start to the next one's is a letter.  *)
LEMMA LetterAt ==
  ASSUME NEW s \in Text, NEW i \in Starts(s), i # Len(s)
  PROVE  Part(s, i, Advance(s, i)) \in Letter
<1>1. PICK n \in Starts(s) : n = Advance(s, i) /\ i < n /\ \A j \in Starts(s) : j <= i \/ n <= j
  BY StartFacts
<1>2. i \in 0 .. Len(s) /\ n \in i .. Len(s) /\ Len(s) \in Nat /\ s \in Seq(Byte)
  BY <1>1, StartFacts
<1>3. PICK p : p = Part(s, i, n)
  OBVIOUS
<1>4. p \in Text /\ \A k \in 0 .. n - i : k \in Starts(p) <=> i + k \in Starts(s)
  BY <1>1, <1>2, <1>3, PartText
<1>5. Len(p) = n - i
  BY <1>2, <1>3, PartFacts
<1>6. p # <<>>
  <2>1. Len(p) # 0
    BY <1>1, <1>2, <1>5
  <2>2. QED
    BY <2>1
<1>7. Starts(p) = {0, Len(p)}
  <2>1. 0 \in Starts(p) /\ Len(p) \in Starts(p) /\ Starts(p) \subseteq 0 .. Len(p)
    BY <1>4, StartFacts
  <2>2. ASSUME NEW k \in Starts(p) PROVE k \in {0, Len(p)}
    <3>1. k \in 0 .. n - i /\ i + k \in Starts(s)
      BY <1>4, <1>5, <2>1
    <3>2. i + k <= i \/ n <= i + k
      BY <1>1, <3>1
    <3>3. QED
      BY <1>2, <1>5, <3>1, <3>2
  <2>3. QED
    BY <2>1, <2>2
<1>8. QED
  BY <1>1, <1>3, <1>4, <1>6, <1>7 DEF Letter

(* The letters of a text are letters.                                       *)
LEMMA LettersOfText ==
  ASSUME NEW s \in Text
  PROVE  Letters(s) \in Seq(Letter)
<1> DEFINE Upto(m) == {i \in Starts(s) : Len(s) - i <= m}
           Rest(g, i) == IF i = Len(s) THEN <<>>
                         ELSE <<SubSeq(s, i + 1, Advance(s, i))>> \o g[Advance(s, i)]
           Body(D, g) == [i \in D |-> Rest(g, i)]
           M == {m \in Nat : \E g : g = Body(Upto(m), g)}
<1>0. Len(s) \in Nat /\ Starts(s) \subseteq 0 .. Len(s) /\ 0 \in Starts(s)
  BY StartFacts
<1>next. ASSUME NEW m \in Nat, NEW i \in Upto(m + 1), i # Len(s)
         PROVE  Advance(s, i) \in Upto(m)
  <2>1. i \in Starts(s) /\ Len(s) - i <= m + 1
    OBVIOUS
  <2>2. Advance(s, i) \in Starts(s) /\ i < Advance(s, i)
    BY <1>next, <2>1, StartFacts
  <2>3. QED
    BY <1>0, <2>1, <2>2
<1>up. ASSUME NEW m \in Nat PROVE Upto(m) \subseteq Upto(m + 1)
  BY <1>0
<1>1. Nat \subseteq M
  <2>1. 0 \in M
    <3>1. PICK g : g = [i \in Upto(0) |-> <<>>]
      OBVIOUS
    <3>2. \A i \in Upto(0) : i = Len(s)
      BY <1>0
    <3>3. \A i \in Upto(0) : g[i] = Rest(g, i)
      BY <3>1, <3>2
    <3> HIDE DEF Rest
    <3>4. g = Body(Upto(0), g)
      BY <3>1, <3>3
    <3> HIDE DEF Body
    <3>5. QED
      BY <3>4
  <2>2. ASSUME NEW m \in Nat, m \in M PROVE m + 1 \in M
    <3>1. PICK g : g = Body(Upto(m), g)
      BY <2>2
    <3>2. \A x : \A i \in Upto(m) : Body(Upto(m), x)[i] = Rest(x, i)
      OBVIOUS
    <3>3. ASSUME NEW i \in Upto(m) PROVE g[i] = Rest(g, i)
      <4>1. g[i] = Body(Upto(m), g)[i]
        BY <3>1
      <4> HIDE DEF Body, Rest
      <4>2. QED
        BY <3>2, <4>1
    <3>4. PICK h : h = [i \in Upto(m + 1) |-> Rest(g, i)]
      OBVIOUS
    <3>5. ASSUME NEW i \in Upto(m + 1) PROVE h[i] = Rest(h, i)
      <4>1. h[i] = Rest(g, i)
        BY <3>4
      <4>2. CASE i = Len(s)
        BY <4>1, <4>2
      <4>3. CASE i # Len(s)
        <5>1. PICK j \in Upto(m) : j = Advance(s, i)
          BY <1>next, <4>3
        <5>2. j \in Upto(m + 1)
          BY <1>up, <5>1
        <5>3. h[j] = Rest(g, j)
          BY <3>4, <5>2
        <5>4. h[j] = g[j]
          <6> HIDE DEF Rest
          <6>1. QED
            BY <3>3, <5>3
        <5>5. QED
          BY <4>1, <4>3, <5>1, <5>4
      <4>4. QED
        BY <4>2, <4>3
    <3> HIDE DEF Rest
    <3>6. h = Body(Upto(m + 1), h)
      BY <3>4, <3>5
    <3>7. m + 1 \in Nat
      OBVIOUS
    <3> HIDE DEF Body, Upto
    <3>8. QED
      BY <3>6, <3>7
  <2>3. QED
    BY <2>1, <2>2, SetInduction
<1>2. PICK f : Letters(s) = f[0] /\ f = CHOOSE g : g = Body(Starts(s), g)
  BY DEF Letters
<1>3. \A i \in Starts(s) : f[i] = Rest(f, i)
  <2>1. Upto(Len(s)) = Starts(s)
    BY <1>0
  <2>2. \E g : g = Body(Starts(s), g)
    <3>1. Len(s) \in M
      BY <1>0, <1>1
    <3>2. \E g : g = Body(Upto(Len(s)), g)
      BY <3>1
    <3> HIDE DEF Upto, Body
    <3>3. QED
      BY <2>1, <3>2
  <2>3. f = Body(Starts(s), f)
    <3> HIDE DEF Body
    <3>1. QED
      BY <1>2, <2>2
  <2>4. \A x : \A i \in Starts(s) : Body(Starts(s), x)[i] = Rest(x, i)
    OBVIOUS
  <2> HIDE DEF Body, Rest
  <2>5. QED
    BY <2>3, <2>4
<1> HIDE DEF Body
<1> DEFINE P == {m \in Nat : \A i \in Upto(m) : f[i] \in Seq(Letter)}
<1>4. Nat \subseteq P
  <2>1. 0 \in P
    <3>1. \A i \in Upto(0) : i = Len(s)
      BY <1>0
    <3>2. \A i \in Upto(0) : f[i] = <<>>
      BY <1>3, <3>1
    <3>3. <<>> \in Seq(Letter)
      BY EmptySeq
    <3>4. QED
      BY <3>2, <3>3
  <2>2. ASSUME NEW m \in Nat, m \in P PROVE m + 1 \in P
    <3>1. SUFFICES ASSUME NEW i \in Upto(m + 1) PROVE f[i] \in Seq(Letter)
      OBVIOUS
    <3>2. CASE i = Len(s)
      <4>1. f[i] = <<>>
        BY <1>3, <3>2
      <4>2. QED
        BY <4>1, EmptySeq
    <3>3. CASE i # Len(s)
      <4>1. f[Advance(s, i)] \in Seq(Letter)
        BY <1>next, <2>2, <3>3
      <4>2. SubSeq(s, i + 1, Advance(s, i)) \in Letter
        BY <3>3, LetterAt DEF Part
      <4>3. f[i] = <<SubSeq(s, i + 1, Advance(s, i))>> \o f[Advance(s, i)]
        BY <1>3, <3>3
      <4>4. QED
        BY <4>1, <4>2, <4>3
    <3>4. QED
      BY <3>2, <3>3
  <2>3. QED
    BY <2>1, <2>2, SetInduction
<1>5. 0 \in Upto(Len(s))
  BY <1>0
<1>6. QED
  BY <1>0, <1>2, <1>4, <1>5

LEMMA LetterIsText ==
  Letter \subseteq Text /\ <<>> \in Text
<1>1. <<>> \in Seq(Byte) /\ Len(<<>>) = 0
  OBVIOUS
<1>2. Starts(<<>>) = {0}
  BY <1>1 DEF Starts
<1>3. QED
  BY <1>1, <1>2 DEF Letter, Text, WellFormed

(* Texts one after the other are a text.                                    *)
LEMMA FlattenText ==
  ASSUME NEW seqs \in Seq(Text)
  PROVE  FlattenSeq(seqs) \in Text
<1>1. PICK n \in Nat : n = Len(seqs)
  OBVIOUS
<1>2. CASE n = 0
  <2>1. seqs = <<>>
    BY <1>1, <1>2, EmptySeq
  <2>2. FlattenSeq(seqs) = seqs
    BY <1>1, <1>2 DEF FlattenSeq
  <2>3. QED
    BY <2>1, <2>2, LetterIsText
<1>3. CASE n # 0
  <2>1. \A k \in 1 .. n : seqs[k] \in Text
    BY <1>1
  <2>2. \A a, b \in Text : a \o b \in Text
    BY ConcatText
  <2>3. QED
    BY <1>1, <1>3, <2>1, <2>2, FlattenStays
<1>4. QED
  BY <1>2, <1>3

(* Sequences over some set, one after the other, are one over that set.     *)
LEMMA FlattenSequence ==
  ASSUME NEW S, NEW seqs \in Seq(Seq(S))
  PROVE  FlattenSeq(seqs) \in Seq(S)
<1>1. PICK n \in Nat : n = Len(seqs)
  OBVIOUS
<1>2. CASE n = 0
  <2>1. seqs = <<>>
    BY <1>1, <1>2, EmptySeq
  <2>2. FlattenSeq(seqs) = seqs
    BY <1>1, <1>2 DEF FlattenSeq
  <2>3. QED
    BY <2>1, <2>2, EmptySeq
<1>3. CASE n # 0
  <2>1. \A k \in 1 .. n : seqs[k] \in Seq(S)
    BY <1>1
  <2>2. \A a, b \in Seq(S) : a \o b \in Seq(S)
    OBVIOUS
  <2>3. QED
    BY <1>1, <1>3, <2>1, <2>2, FlattenStays
<1>4. QED
  BY <1>2, <1>3

(* Before a letter's start, but for the first, there is another's.          *)
LEMMA ReverseFacts ==
  ASSUME NEW s \in Text, NEW i \in Starts(s), i # 0
  PROVE  Reverse1(s, i) \in Starts(s) /\ Reverse1(s, i) < i
<1>1. Len(s) \in Nat /\ i \in 1 .. Len(s) /\ 0 \in Starts(s) /\ 0 # Len(s)
  BY StartFacts
<1>2. s[1] \notin Trail
  BY <1>1, StartFacts
<1> DEFINE S == {k \in 1 .. i : s[k] \notin Trail}
<1>3. PICK m \in S : \A n \in S : n <= m
  <2>1. S \in SUBSET (1 .. i) /\ S # {} /\ i \in Nat
    BY <1>1, <1>2
  <2>2. QED
    BY <2>1, GreatestIndex
<1> DEFINE Good(k) == /\ s[k + 1] \notin Trail
                      /\ \A n \in k + 1 .. i - 1 : s[n + 1] \in Trail
<1>4. Good(m - 1) /\ m - 1 \in 0 .. i - 1
  <2>1. m \in 1 .. i /\ s[m] \notin Trail /\ (m - 1) + 1 = m
    BY <1>1, <1>3
  <2>2. ASSUME NEW n \in (m - 1) + 1 .. i - 1 PROVE s[n + 1] \in Trail
    <3>1. n + 1 \in 1 .. i /\ ~(n + 1 <= m)
      BY <1>1, <2>1, <2>2
    <3>2. QED
      BY <1>3, <3>1
  <2>3. s[(m - 1) + 1] \notin Trail
    BY <2>1
  <2>4. QED
    BY <1>1, <2>1, <2>2, <2>3
<1>5. PICK r : r = Reverse1(s, i)
  OBVIOUS
<1>6. r \in 0 .. i - 1 /\ s[r + 1] \notin Trail
  <2>1. r = CHOOSE k \in 0 .. i - 1 : Good(k)
    BY <1>5 DEF Reverse1
  <2>2. r \in 0 .. i - 1 /\ Good(r)
    BY <1>4, <2>1
  <2>3. QED
    BY <2>2
<1>7. QED
  BY <1>1, <1>5, <1>6 DEF Starts

\* The swap of neighbouring letters, as the stages that use it see it.
IsSwap(sw, s, f, m, l) ==
    /\ sw.str = Rotate(s, f, m, l) /\ sw.str \in Text /\ Len(sw.str) = Len(s)
    /\ sw.i2 = f + (l - m) /\ sw.i2 \in Starts(sw.str) /\ f <= sw.i2 /\ sw.i2 <= l
    /\ \A k \in Starts(s) : k <= f \/ l <= k => k \in Starts(sw.str)
LEMMA SwapText ==
  ASSUME NEW s \in Text, NEW f \in Starts(s), NEW m \in Starts(s), NEW l \in Starts(s),
         f <= m, m <= l
  PROVE  IsSwap(SwapAdjacent(s, f, m, l), s, f, m, l)
<1>1. /\ s \in Seq(Byte) /\ Len(s) \in Nat /\ f \in Nat /\ m \in Nat /\ l \in Nat
      /\ l <= Len(s)
  BY StartFacts
<1>2. /\ SwapAdjacent(s, f, m, l).str = Rotate(s, f, m, l)
      /\ SwapAdjacent(s, f, m, l).i2 = f + (l - m)
  BY <1>1, SwapAdjacentRotates
<1>3. /\ Rotate(s, f, m, l) \in Text /\ Len(Rotate(s, f, m, l)) = Len(s)
      /\ f + (l - m) \in Starts(Rotate(s, f, m, l))
      /\ \A k \in Starts(s) : k <= f \/ l <= k => k \in Starts(Rotate(s, f, m, l))
  BY RotateText
<1>4. f <= f + (l - m) /\ f + (l - m) <= l
  BY <1>1
<1>5. QED
  BY <1>2, <1>3, <1>4 DEF IsSwap

(* Swapped again, the letters are as they were.                             *)
LEMMA SwapTextBack ==
  ASSUME NEW s \in Text, NEW f \in Starts(s), NEW m \in Starts(s), NEW l \in Starts(s),
         f <= m, m <= l
  PROVE  /\ Rotate(Rotate(s, f, m, l), f, f + (l - m), l) = s
         /\ f + (l - (f + (l - m))) = m
<1>1. /\ s \in Seq(Byte) /\ Len(s) \in Nat /\ f \in Nat /\ m \in Nat /\ l \in Nat
      /\ l <= Len(s)
  BY StartFacts
<1>2. QED
  BY <1>1, RotateBack

(* Swaps of letters that are apart may be made in either order.             *)
LEMMA RotateApart ==
  ASSUME NEW S, NEW s \in Seq(S), NEW f \in Nat, NEW m \in Nat, NEW l \in Nat,
         NEW g \in Nat, NEW n \in Nat, NEW e \in Nat,
         f <= m, m <= l, l <= g, g <= n, n <= e, e <= Len(s)
  PROVE  Rotate(Rotate(s, g, n, e), f, m, l) = Rotate(Rotate(s, f, m, l), g, n, e)
<1>1. PICK a, b : a = Rotate(s, g, n, e) /\ b = Rotate(s, f, m, l)
  OBVIOUS
<1>2. Len(s) \in Nat /\ l <= Len(s) /\ f <= l /\ g <= e
  OBVIOUS
<1>3. /\ a \in Seq(S) /\ Len(a) = Len(s)
      /\ \A k \in 1 .. Len(s) : a[k] = RotatedAt(s, g, n, e, k)
  BY <1>1, <1>2, RotateFacts
<1>4. /\ b \in Seq(S) /\ Len(b) = Len(s)
      /\ \A k \in 1 .. Len(s) : b[k] = RotatedAt(s, f, m, l, k)
  BY <1>1, <1>2, RotateFacts
<1>5. PICK u, v : u = Rotate(a, f, m, l) /\ v = Rotate(b, g, n, e)
  OBVIOUS
<1>6. /\ u \in Seq(S) /\ Len(u) = Len(s)
      /\ \A k \in 1 .. Len(s) : u[k] = RotatedAt(a, f, m, l, k)
  BY <1>2, <1>3, <1>5, RotateFacts
<1>7. /\ v \in Seq(S) /\ Len(v) = Len(s)
      /\ \A k \in 1 .. Len(s) : v[k] = RotatedAt(b, g, n, e, k)
  BY <1>2, <1>4, <1>5, RotateFacts
<1>8. ASSUME NEW k \in 1 .. Len(s) PROVE u[k] = v[k]
  <2>1. u[k] = RotatedAt(a, f, m, l, k) /\ v[k] = RotatedAt(b, g, n, e, k)
    BY <1>6, <1>7
  <2>2. CASE f < k /\ k <= l
    <3>1. \E h \in 1 .. Len(s) : h <= g /\ u[k] = a[h] /\ b[k] = s[h]
      <4>1. b[k] = RotatedAt(s, f, m, l, k)
        BY <1>4
      <4>2. CASE k <= f + (l - m)
        <5>1. k + (m - f) \in 1 .. Len(s) /\ k + (m - f) <= g
          BY <1>2, <2>2, <4>2
        <5>2. u[k] = a[k + (m - f)] /\ b[k] = s[k + (m - f)]
          BY <1>2, <2>1, <2>2, <4>1, <4>2 DEF RotatedAt
        <5>3. QED
          BY <5>1, <5>2
      <4>3. CASE ~(k <= f + (l - m))
        <5>1. k - (l - m) \in 1 .. Len(s) /\ k - (l - m) <= g
          BY <1>2, <2>2, <4>3
        <5>2. u[k] = a[k - (l - m)] /\ b[k] = s[k - (l - m)]
          BY <1>2, <2>1, <2>2, <4>1, <4>3 DEF RotatedAt
        <5>3. QED
          BY <5>1, <5>2
      <4>4. QED
        BY <4>2, <4>3
    <3>2. PICK h \in 1 .. Len(s) : h <= g /\ u[k] = a[h] /\ b[k] = s[h]
      BY <3>1
    <3>3. a[h] = s[h]
      BY <1>3, <3>2 DEF RotatedAt
    <3>4. v[k] = b[k]
      BY <2>1, <2>2 DEF RotatedAt
    <3>5. QED
      BY <3>2, <3>3, <3>4
  <2>3. CASE k <= f \/ l < k
    <3>1. u[k] = a[k] /\ a[k] = RotatedAt(s, g, n, e, k)
      BY <1>3, <2>1, <2>3 DEF RotatedAt
    <3>2. CASE k <= g \/ e < k
      <4>1. a[k] = s[k] /\ v[k] = b[k]
        BY <2>1, <3>1, <3>2 DEF RotatedAt
      <4>2. b[k] = s[k]
        BY <1>4, <2>3 DEF RotatedAt
      <4>3. QED
        BY <3>1, <4>1, <4>2
    <3>3. CASE g < k /\ k <= g + (e - n)
      <4>1. PICK h \in 1 .. Len(s) : h = k + (n - g)
        BY <1>2, <3>3
      <4>2. a[k] = s[h] /\ v[k] = b[h]
        <5>1. ~(k <= g \/ e < k)
          BY <3>3
        <5>2. QED
          BY <2>1, <3>1, <3>3, <4>1, <5>1 DEF RotatedAt
      <4>3. b[h] = s[h]
        <5>1. l < h
          BY <3>3, <4>1
        <5>2. QED
          BY <1>4, <5>1 DEF RotatedAt
      <4>4. QED
        BY <3>1, <4>2, <4>3
    <3>4. CASE g + (e - n) < k /\ k <= e
      <4>1. PICK h \in 1 .. Len(s) : h = k - (e - n)
        BY <1>2, <3>4
      <4>2. a[k] = s[h] /\ v[k] = b[h]
        <5>1. ~(k <= g \/ e < k) /\ ~(k <= g + (e - n))
          BY <3>4
        <5>2. QED
          BY <2>1, <3>1, <4>1, <5>1 DEF RotatedAt
      <4>3. b[h] = s[h]
        <5>1. l < h
          BY <3>4, <4>1
        <5>2. QED
          BY <1>4, <5>1 DEF RotatedAt
      <4>4. QED
        BY <3>1, <4>2, <4>3
    <3>5. QED
      BY <3>2, <3>3, <3>4
  <2>4. QED
    BY <2>2, <2>3
<1>9. u = v
  BY <1>6, <1>7, <1>8, SeqEqual
<1>10. QED
  BY <1>1, <1>5, <1>9

(* Where a text that is not empty occurs in another, letters begin and end. *)
LEMMA OccurrenceStarts ==
  ASSUME NEW s \in Text, NEW x \in Text, x # <<>>, NEW p \in Nat, IsAt(s, p, x)
  PROVE  p \in Starts(s) /\ p + Len(x) \in Starts(s)
<1>1. /\ s \in Seq(Byte) /\ x \in Seq(Byte) /\ Len(s) \in Nat
      /\ p + Len(x) <= Len(s) /\ Part(s, p, p + Len(x)) = x
  BY DEF IsAt, Text
<1>2. PICK n \in Nat \ {0} : n = Len(x)
  BY <1>1, EmptySeq
<1>3. \A k \in 1 .. n : x[k] = s[p + k]
  <2>1. p \in 0 .. Len(s) /\ p + n \in p .. Len(s) /\ (p + n) - p = n
    BY <1>1, <1>2
  <2>2. \A k \in 1 .. (p + n) - p : Part(s, p, p + n)[k] = s[p + k]
    BY <1>1, <2>1, PartFacts
  <2>3. QED
    BY <1>1, <1>2, <2>1, <2>2
<1>4. x[1] \notin Trail
  BY <1>2, StartFacts
<1>5. p \in Starts(s)
  <2>1. s[p + 1] \notin Trail /\ p \in 0 .. Len(s) - 1
    BY <1>1, <1>2, <1>3, <1>4
  <2>2. QED
    BY <2>1 DEF Starts
<1>6. SUFFICES ASSUME p + n \notin Starts(s) PROVE FALSE
  BY <1>2, <1>5
<1> DEFINE T == {k \in 1 .. p + n : k - 1 \in Starts(s) /\ p <= k - 1}
<1>7. PICK k \in T : \A j \in T : j <= k
  <2>1. p + 1 \in T
    BY <1>2, <1>5
  <2>2. T \in SUBSET (1 .. p + n) /\ T # {} /\ p + n \in Nat
    BY <2>1
  <2>3. QED
    BY <2>2, GreatestIndex
<1>8. PICK m \in Starts(s) : m = k - 1 /\ p <= m /\ m < p + n /\ m \in Nat
  BY <1>7
<1>9. \A j \in Starts(s) : j <= m \/ p + n <= j
  <2>1. ASSUME NEW j \in Starts(s), ~(j <= m), ~(p + n <= j) PROVE FALSE
    <3>1. j \in Nat
      BY <2>1, StartFacts
    <3>2. j + 1 \in T
      BY <1>2, <1>8, <2>1, <3>1
    <3>3. QED
      BY <1>7, <1>8, <2>1, <3>1, <3>2
  <2>2. QED
    BY <2>1
<1>10. m # Len(s)
  BY <1>1, <1>2, <1>8
<1>11. PICK h \in Nat : h = m - p
  BY <1>8
<1>12. x[h + 1] = s[m + 1]
  <2>1. h + 1 \in 1 .. n /\ p + (h + 1) = m + 1
    BY <1>2, <1>8, <1>11
  <2>2. QED
    BY <1>3, <2>1
<1>13. h \in Starts(x) /\ h # Len(x)
  <2>1. s[m + 1] \notin Trail
    BY <1>10, StartFacts
  <2>2. h \in 0 .. Len(x) - 1
    BY <1>2, <1>8, <1>11
  <2>3. QED
    BY <1>12, <2>1, <2>2 DEF Starts
<1>14. PICK w \in Nat \ {0} : w = WidthAt(s, m) /\ w = WidthAt(x, h)
  <2>1. WidthAt(s, m) = WidthAt(x, h)
    BY <1>12 DEF WidthAt
  <2>2. WidthAt(s, m) \in Nat \ {0}
    BY <1>10, StartFacts
  <2>3. QED
    BY <2>1, <2>2
<1>15. m + w \in Starts(s) /\ m < m + w
  BY <1>10, <1>14, StartFacts DEF Advance
<1>16. h + w \in Starts(x)
  BY <1>13, <1>14, StartFacts DEF Advance
<1>17. h + w <= n
  BY <1>2, <1>16, StartFacts
<1>18. p + n <= m + w
  BY <1>9, <1>15, <1>8, <1>14
<1>19. m + w = p + n
  BY <1>2, <1>8, <1>11, <1>14, <1>17, <1>18
<1>20. QED
  BY <1>6, <1>15, <1>19

-----------------------------------------------------------------------------
\* The word that is misspelled, which the stages share.
W == FlattenSeq(input)
Names == {"uppercase", "rep", "map", "adjacent_swap", "distant_swap", "keyboard",
          "extra_char", "forgotten_char", "move_char", "bad_char",
          "doubled_two_chars", "two_words"}
Here == Starts(W)

\* The places of a stage that leaves the word as it was after each turn.
AtLetter == \E i \in Here : at = <<i>>
AtSplit == \E i \in Here : i # Len(W) /\ at = <<i>>
AtEntry == \E list \in 1..4 : \E e \in Nat \ {0} : \E p \in Nat : at = <<list, e, p>>
AtTwo == \E i1, i2 \in Here : i1 < i2 /\ at = <<i1, i2>>
AtFour == \E i1, i2, i3, j \in Here : i1 < i2 /\ i2 < i3 /\ i3 <= j /\ at = <<i1, i2, i3, j>>
AtKey == \E i \in Here : \E m \in 0..Len(aff.keyboard) : i # Len(W) /\ at = <<i, m>>
AtTryChar == \E t \in Nat \ {0} : \E i \in Here : at = <<t, i>>
AtFive ==
    \E i1, i2, i3, i4, i5 \in Here :
        i1 <= i2 /\ i2 <= i3 /\ i3 <= i4 /\ i4 <= i5 /\ at = <<i1, i2, i3, i4, i5>>

\* A letter that moves forward has gone from i1 up to j2, one that moves back
\* from i3 down to j1; the word is that one, rotated.
AtForward == \E i1, i2 \in Here : i1 < i2 /\ at = <<"forward", i1, i2>> /\ word = W
OnForward ==
    \E i1, i2, i3, j2 \in Here :
        /\ i1 < i2 /\ i2 < i3 /\ i3 <= j2
        /\ at = <<"forward", i1, i2, i3, i1 + (j2 - i2), j2>> /\ word = Rotate(W, i1, i2, j2)
AtBack == \E i2, i3 \in Here : i2 < i3 /\ at = <<"back", i2, i3>> /\ word = W
OnBack ==
    \E i1, i2, i3, j1 \in Here :
        /\ j1 <= i1 /\ i1 < i2 /\ i2 < i3
        /\ at = <<"back", i2, i3, i1, j1, j1 + (i3 - i2)>> /\ word = Rotate(W, j1, i2, i3)

\* What each call of map_suggest() found: the first the misspelled word, each
\* other one what the call before it made of its own.
Call == [i : Nat, k : Nat \ {0}, undo : (Text \X Text) \cup {<<>>}]
IsFound(found, frames) ==
    /\ found \in Seq(Text) /\ frames \in Seq(Call) /\ Len(found) = Len(frames)
    /\ Len(frames) # 0 /\ found[1] = W
    /\ \A n \in 1..Len(frames) : \A m \in 1..n :
         frames[m].i \in Starts(found[n]) /\ frames[m].i <= frames[n].i
    /\ \A n \in 1..Len(frames) - 1 :
         /\ frames[n + 1].undo \in Text \X Text
         /\ IsAt(found[n], frames[n].i, frames[n + 1].undo[1])
         /\ found[n + 1] = Spliced(found[n], frames[n].i, Len(frames[n + 1].undo[1]),
                                   frames[n + 1].undo[2])
InCalls == \E found : IsFound(found, at) /\ word = found[Len(at)]

AtStage(name) ==
    \/ name \in {"uppercase", "extra_char"} /\ AtLetter
    \/ name = "two_words" /\ AtSplit
    \/ name = "rep" /\ AtEntry
    \/ name = "adjacent_swap" /\ AtTwo
    \/ name = "distant_swap" /\ (AtTwo \/ AtFour)
    \/ name = "keyboard" /\ (AtLetter \/ AtKey)
    \/ name \in {"forgotten_char", "bad_char"} /\ AtTryChar
    \/ name = "move_char" /\ (AtForward \/ OnForward \/ AtBack \/ OnBack)
    \/ name = "doubled_two_chars" /\ AtFive
    \/ name = "map" /\ InCalls

Constant ==
    /\ input \in Words /\ setting \in DOMAIN Settings /\ budget \in Budgets
    /\ stage \in 1..Len(Stages)
Sums ==
    /\ remaining_attempts \in 0..budget /\ tried \in Seq(Text)
    /\ Stages[stage] \in Budgeted => Len(tried) = budget - remaining_attempts
Suggested ==
    /\ out \in Seq(Seq(Byte)) /\ Len(aff.earlier) <= Len(out)
    /\ SuggestionsAreKnown
Unchanged == at = Over \/ Stages[stage] \notin {"map", "move_char"} => word = W
IInv ==
    /\ Constant /\ Sums /\ Suggested /\ Unchanged
    /\ at # Over => AtStage(Stages[stage])

-----------------------------------------------------------------------------
LEMMA StageNames ==
  /\ Len(Stages) = 12
  /\ \A k \in 1 .. 12 : Stages[k] \in Names
BY DEF Stages, Names

LEMMA WFacts ==
  ASSUME Constant
  PROVE  W \in Text /\ Len(W) \in Nat \ {0} /\ budget \in Nat
<1>1. input \in Seq(Letter) /\ input # <<>> /\ budget \in Nat
  BY InputAssumption DEF Constant
<1>2. PICK n \in Nat \ {0} : n = Len(input)
  BY <1>1, EmptySeq
<1> DEFINE C == {s \in Text : Len(s) # 0}
<1>3. \A k \in 1 .. n : input[k] \in C
  <2>1. ASSUME NEW k \in 1 .. n PROVE input[k] \in C
    <3>1. input[k] \in Letter
      BY <1>1, <1>2
    <3>2. input[k] \in Text /\ input[k] # <<>> /\ input[k] \in Seq(Byte)
      BY <3>1 DEF Letter, Text
    <3>3. Len(input[k]) # 0
      BY <3>2, EmptySeq
    <3>4. QED
      BY <3>2, <3>3
  <2>2. QED
    BY <2>1
<1>4. ASSUME NEW a \in C, NEW b \in C PROVE a \o b \in C
  <2>1. a \o b \in Text /\ Len(a \o b) = Len(a) + Len(b)
    BY ConcatText
  <2>2. Len(a) \in Nat /\ Len(b) \in Nat
    BY StartFacts
  <2>3. QED
    BY <2>1, <2>2
<1>5. FlattenSeq(input) \in C
  <2> HIDE DEF C
  <2>1. QED
    BY <1>2, <1>3, <1>4, FlattenStays
<1>6. QED
  BY <1>1, <1>5, StartFacts DEF W

(* add_sug_if_correct() adds no word the checker does not accept.           *)
Grown(list, more) ==
    /\ more \in Seq(Seq(Byte)) /\ Len(list) <= Len(more)
    /\ \A k \in 1..Len(list) : more[k] = list[k]
    /\ \A k \in Len(list) + 1..Len(more) : IsKnown(more[k])
Grows == Grown(out, out')
LEMMA TryFacts ==
  ASSUME out \in Seq(Seq(Byte)), tried \in Seq(Text), NEW ws \in Seq(Text), TryAll(ws)
  PROVE  Grows /\ tried' \in Seq(Text) /\ Len(tried') = Len(tried) + Len(ws)
<1>1. tried' \in Seq(Text) /\ Len(tried') = Len(tried) + Len(ws)
  BY DEF TryAll
<1> DEFINE S == {w \in Seq(Byte) : w \in aff.ok}
           add == [k \in DOMAIN ws |-> IF ws[k] \in aff.ok THEN <<ws[k]>> ELSE <<>>]
<1>2. add \in Seq(Seq(S))
  <2>1. ASSUME NEW k \in 1 .. Len(ws)
        PROVE  (IF ws[k] \in aff.ok THEN <<ws[k]>> ELSE <<>>) \in Seq(S)
    <3>1. ws[k] \in Text
      OBVIOUS
    <3>2. ws[k] \in Seq(Byte)
      BY <3>1 DEF Text
    <3>3. CASE ws[k] \in aff.ok
      <4>1. ws[k] \in S
        BY <3>2, <3>3
      <4> HIDE DEF S
      <4>2. <<ws[k]>> \in Seq(S)
        BY <4>1
      <4>3. QED
        BY <3>3, <4>2
    <3>4. CASE ws[k] \notin aff.ok
      BY <3>4, EmptySeq
    <3>5. QED
      BY <3>3, <3>4
  <2>2. DOMAIN ws = 1 .. Len(ws) /\ Len(ws) \in Nat
    OBVIOUS
  <2> HIDE DEF S
  <2>3. QED
    BY <2>1, <2>2
<1>3. PICK new \in Seq(S) : out' = out \o new
  <2>1. FlattenSeq(add) \in Seq(S)
    <3> HIDE DEF S, add
    <3>1. QED
      BY <1>2, FlattenSequence
  <2>2. out' = out \o FlattenSeq(add)
    BY DEF TryAll
  <2>3. QED
    BY <2>1, <2>2
<1>4. new \in Seq(Seq(Byte)) /\ \A k \in 1 .. Len(new) : new[k] \in aff.ok
  <2>1. \A k \in 1 .. Len(new) : new[k] \in S
    <3> HIDE DEF S
    <3>1. QED
      BY ElementOfSeq
  <2>2. S \subseteq Seq(Byte)
    OBVIOUS
  <2>3. new \in Seq(Seq(Byte))
    <3> HIDE DEF S
    <3>1. QED
      BY <2>2, SeqMonotonic
  <2>4. QED
    BY <2>1, <2>3
<1>5. /\ out' \in Seq(Seq(Byte)) /\ Len(out') = Len(out) + Len(new)
      /\ \A k \in 1 .. Len(out) + Len(new) :
           out'[k] = IF k <= Len(out) THEN out[k] ELSE new[k - Len(out)]
  <2>1. new \in Seq(Seq(Byte))
    BY <1>4
  <2>2. QED
    BY <1>3, <2>1, ConcatProperties
<1>6. Len(out) \in Nat /\ Len(new) \in Nat
  OBVIOUS
<1>7. ASSUME NEW k \in Len(out) + 1 .. Len(out') PROVE out'[k] \in aff.ok
  <2>1. k - Len(out) \in 1 .. Len(new) /\ out'[k] = new[k - Len(out)]
    <3>1. k \in Nat /\ Len(out) + 1 <= k /\ k <= Len(out) + Len(new)
      BY <1>5, <1>6
    <3>2. k - Len(out) \in 1 .. Len(new) /\ k \in 1 .. Len(out) + Len(new) /\ ~(k <= Len(out))
      BY <1>6, <3>1
    <3>3. QED
      BY <1>5, <3>2
  <2>2. QED
    BY <1>4, <2>1
<1>8. \A k \in Len(out) + 1 .. Len(out') : IsKnown(out'[k])
  BY <1>7 DEF IsKnown
<1>9. Len(out) <= Len(out') /\ \A k \in 1 .. Len(out) : out'[k] = out[k]
  BY <1>5, <1>6
<1>10. QED
  BY <1>1, <1>5, <1>8, <1>9 DEF Grows, Grown

LEMMA SameSetting ==
  ASSUME Fixed
  PROVE  /\ aff' = aff /\ W' = W /\ Here' = Here /\ Stages[stage]' = Stages[stage]
         /\ \A w : IsKnown(w)' = IsKnown(w)
<1>1. aff' = aff /\ FlattenSeq(input)' = FlattenSeq(input)
  BY DEF Fixed, aff
<1>2. Stages[stage]' = Stages[stage]
  BY DEF Fixed, Stages
<1>3. W' = W /\ Here' = Here
  BY <1>1 DEF W, Here
<1>4. ASSUME NEW w PROVE IsKnown(w)' = IsKnown(w)
  BY <1>1 DEF IsKnown, SplitAt, RepEdits, Spaces
<1>5. QED
  BY <1>1, <1>2, <1>3, <1>4

(* What a step within a stage has to keep. *)
LEMMA Kept ==
  ASSUME IInv, Fixed, NEW name \in Names, Stages[stage] = name, Grows, Sums',
         Unchanged', at' = Over \/ AtStage(name)'
  PROVE  IInv'
<1>1. Constant'
  BY DEF IInv, Constant, Fixed, Stages
<1>2. Suggested'
  <2>1. Len(aff.earlier) \in Nat /\ Len(out) \in Nat /\ Len(out') \in Nat
    <3>1. aff.earlier \in Seq(Seq(Byte))
      BY SettingsAssumption DEF IInv, Constant, aff
    <3>2. QED
      BY <3>1 DEF IInv, Suggested, Grows, Grown
  <2>2. ASSUME NEW k \in Len(aff.earlier) + 1 .. Len(out') PROVE IsKnown(out'[k])
    <3>1. CASE k <= Len(out)
      BY <2>1, <3>1 DEF IInv, Suggested, SuggestionsAreKnown, Grows, Grown
    <3>2. CASE ~(k <= Len(out))
      BY <2>1, <3>2 DEF Grows, Grown
    <3>3. QED
      BY <3>1, <3>2
  <2>3. SuggestionsAreKnown'
    BY <2>2, SameSetting DEF SuggestionsAreKnown
  <2>4. Len(aff.earlier) <= Len(out')
    BY <2>1 DEF IInv, Suggested, Grows, Grown
  <2>5. QED
    BY <2>3, <2>4, SameSetting DEF Suggested, Grows, Grown
<1>3. at' # Over => AtStage(Stages[stage])'
  BY SameSetting DEF Over
<1>4. QED
  BY <1>1, <1>2, <1>3 DEF IInv

LEMMA UntriedKeeps ==
  ASSUME IInv, Fixed, Free, UNCHANGED <<tried, out>>
  PROVE  Grows /\ Sums'
<1>1. Len(out) \in Nat /\ Len(out') = Len(out) /\ out \in Seq(Seq(Byte))
  BY DEF IInv, Suggested
<1>2. Grows
  BY <1>1 DEF Grows, Grown
<1>3. Sums'
  BY SameSetting DEF IInv, Sums, Fixed, Free
<1>4. QED
  BY <1>2, <1>3

LEMMA FreeKeeps ==
  ASSUME IInv, Fixed, Free, NEW ws \in Seq(Text), TryAll(ws), Stages[stage] \notin Budgeted
  PROVE  Grows /\ Sums'
<1>1. Grows /\ tried' \in Seq(Text)
  BY TryFacts DEF IInv, Sums, Suggested
<1>2. Sums'
  BY <1>1, SameSetting DEF IInv, Sums, Fixed, Free, Budgeted
<1>3. QED
  BY <1>1, <1>2

LEMMA SpendKeeps ==
  ASSUME IInv, Fixed, Spend, NEW w \in Text, Try(w)
  PROVE  Grows /\ Sums'
<1>1. <<w>> \in Seq(Text) /\ Len(<<w>>) = 1
  OBVIOUS
<1>2. Grows /\ tried' \in Seq(Text) /\ Len(tried') = Len(tried) + 1
  BY <1>1, TryFacts DEF IInv, Sums, Suggested, Try
<1>3. budget \in Nat /\ remaining_attempts \in 1 .. budget
  BY WFacts DEF IInv, Sums, Spend
<1>4. Sums'
  BY <1>2, <1>3, SameSetting DEF IInv, Sums, Fixed, Spend, Budgeted
<1>5. QED
  BY <1>2, <1>4

LEMMA Steady ==
  ASSUME IInv, at # Over, Stages[stage] \notin {"map", "move_char"}
  PROVE  word = W
BY DEF IInv, Unchanged

LEMMA FirstLetter ==
  ASSUME Constant, word = W
  PROVE  /\ 0 \in Here /\ Advance(word, 0) \in Here /\ 0 < Advance(word, 0)
         /\ \A i \in Here : /\ NextPlace(i) \in Here /\ i <= NextPlace(i)
                            /\ i # Len(W) => NextPlace(i) = Advance(W, i) /\ i < NextPlace(i)
<1>1. W \in Text /\ Len(W) # 0
  BY WFacts
<1>2. 0 \in Here /\ \A i \in Here : i \in Nat /\ (i # Len(W) => Advance(W, i) \in Here /\ i < Advance(W, i))
  BY <1>1, StartFacts DEF Here
<1>3. QED
  BY <1>1, <1>2 DEF NextPlace

\* Where a stage starts is a place of its own.
LEMMA StartsWell ==
  ASSUME Constant, word = W, NEW name \in Names, at = Start(name), at # Over
  PROVE  AtStage(name)
<1>1. CASE name \in {"uppercase", "extra_char"}
  <2>1. at = <<0>>
    BY <1>1 DEF Start
  <2>2. QED
    BY <1>1, <2>1, FirstLetter DEF AtStage, AtLetter
<1>2. CASE name = "keyboard"
  <2>1. at = <<0>>
    BY <1>2 DEF Start
  <2>2. QED
    BY <1>2, <2>1, FirstLetter DEF AtStage, AtLetter
<1>3. CASE name = "two_words"
  <2>1. at = <<0>>
    BY <1>3 DEF Start
  <2>2. 0 # Len(W)
    BY WFacts
  <2>3. QED
    BY <1>3, <2>1, <2>2, FirstLetter DEF AtStage, AtSplit
<1>4. CASE name = "rep"
  <2>1. at = <<1, 1, 0>>
    BY <1>4 DEF Start
  <2>2. QED
    BY <1>4, <2>1 DEF AtStage, AtEntry
<1>5. CASE name = "map"
  <2>1. at = <<[i |-> 0, k |-> 1, undo |-> <<>>]>>
    BY <1>5 DEF Start
  <2>2. W \in Text
    BY WFacts
  <2>3. IsFound(<<W>>, at)
    <3>1. <<W>> \in Seq(Text) /\ Len(<<W>>) = 1 /\ <<W>>[1] = W
      BY <2>2
    <3>2. at \in Seq(Call) /\ Len(at) = 1 /\ at[1].i = 0
      BY <2>1 DEF Call
    <3>3. 0 \in Starts(W)
      BY <2>2, StartFacts
    <3>4. \A n \in 1 .. Len(at) : \A m \in 1 .. n :
             at[m].i \in Starts(<<W>>[n]) /\ at[m].i <= at[n].i
      BY <3>1, <3>2, <3>3
    <3>5. QED
      BY <3>1, <3>2, <3>4 DEF IsFound
  <2>4. word = <<W>>[Len(at)]
    BY <2>1
  <2>5. QED
    BY <1>5, <2>3, <2>4 DEF AtStage, InCalls
<1>6. CASE name \in {"adjacent_swap", "distant_swap"}
  <2>1. at = <<0, Advance(word, 0)>>
    BY <1>6 DEF Start
  <2>2. AtTwo
    BY <2>1, FirstLetter DEF AtTwo
  <2>3. QED
    BY <1>6, <2>2 DEF AtStage
<1>7. CASE name \in {"forgotten_char", "bad_char"}
  <2>1. at = <<1, 0>>
    BY <1>7 DEF Start
  <2>2. QED
    BY <1>7, <2>1, FirstLetter DEF AtStage, AtTryChar
<1>8. CASE name = "move_char"
  <2>1. at = <<"forward", 0, Advance(word, 0)>>
    BY <1>8 DEF Start
  <2>2. QED
    BY <1>8, <2>1, FirstLetter DEF AtStage, AtForward
<1>9. CASE name = "doubled_two_chars"
  <2>1. at = <<0, Place2, Place3, Place4, Place5>>
    BY <1>9 DEF Start
  <2>2. 0 \in Here /\ Place2 \in Here /\ Place3 \in Here /\ Place4 \in Here /\ Place5 \in Here
    BY FirstLetter DEF Place2, Place3, Place4, Place5
  <2>3. 0 <= Place2 /\ Place2 <= Place3 /\ Place3 <= Place4 /\ Place4 <= Place5
    BY <2>2, FirstLetter DEF Place2, Place3, Place4, Place5
  <2>4. QED
    BY <1>9, <2>1, <2>2, <2>3 DEF AtStage, AtFive
<1>10. QED
  BY <1>1, <1>2, <1>3, <1>4, <1>5, <1>6, <1>7, <1>8, <1>9 DEF Names

LEMMA StartsWellNext ==
  ASSUME NEW name \in Names
  PROVE  (Constant /\ word = W /\ at = Start(name) /\ at # Over => AtStage(name))'
<1>1. Constant /\ word = W /\ at = Start(name) /\ at # Over => AtStage(name)
  BY StartsWell
<1>2. QED
  BY <1>1, PTL

LEMMA Starting ==
  Init => IInv
<1> SUFFICES ASSUME Init PROVE IInv
  OBVIOUS
<1>1. Constant /\ word = W /\ Stages[1] = "uppercase" /\ stage = 1
  BY DEF Init, Constant, W, Stages
<1>2. budget \in Nat /\ remaining_attempts = budget /\ tried = <<>>
  BY <1>1, WFacts DEF Init
<1>3. Sums
  BY <1>2, EmptySeq DEF Sums
<1>4. Suggested
  <2>1. out = aff.earlier /\ aff.earlier \in Seq(Seq(Byte))
    BY SettingsAssumption DEF Init, aff
  <2>2. Len(out) \in Nat
    BY <2>1
  <2>3. QED
    BY <2>1, <2>2 DEF Suggested, SuggestionsAreKnown
<1>5. Unchanged
  BY <1>1 DEF Unchanged
<1>6. at # Over => AtStage(Stages[stage])
  <2>1. at = Start("uppercase") /\ "uppercase" \in Names
    BY DEF Init, Names
  <2>2. QED
    BY <1>1, <2>1, StartsWell
<1>7. QED
  BY <1>1, <1>3, <1>4, <1>5, <1>6 DEF IInv

LEMMA NextStageKeeps ==
  ASSUME IInv, NextStage
  PROVE  IInv'
<1>1. stage \in 1 .. 11 /\ stage' = stage + 1 /\ at = Over /\ word = W
  BY StageNames DEF IInv, Constant, NextStage, Unchanged
<1>2. /\ aff' = aff /\ W' = W /\ word' = word /\ Constant'
      /\ \A w : IsKnown(w)' = IsKnown(w)
  <2>1. aff' = aff /\ FlattenSeq(input)' = FlattenSeq(input)
    BY DEF NextStage, aff
  <2>2. W' = W /\ word' = word
    BY <2>1 DEF W, NextStage
  <2>3. ASSUME NEW w PROVE IsKnown(w)' = IsKnown(w)
    BY <2>1 DEF IsKnown, SplitAt, RepEdits, Spaces
  <2>4. Constant'
    BY <1>1, StageNames DEF IInv, Constant, NextStage, Stages
  <2>5. QED
    BY <2>1, <2>2, <2>3, <2>4
<1>3. Sums'
  <2>1. budget \in Nat /\ budget' = budget /\ remaining_attempts' = budget /\ tried' = <<>>
    BY WFacts DEF IInv, NextStage
  <2>2. QED
    BY <2>1, EmptySeq DEF Sums
<1>4. Suggested'
  BY <1>2 DEF IInv, Suggested, NextStage, SuggestionsAreKnown
<1>5. Unchanged'
  BY <1>1, <1>2 DEF Unchanged
<1>6. at' # Over => AtStage(Stages[stage])'
  <2>1. PICK name \in Names : name = Stages[stage + 1]
    BY <1>1, StageNames
  <2>2. Stages[stage]' = name
    BY <1>1, <2>1 DEF Stages
  <2>3. at' = Start(name)'
    <3>1. at' = Start(name) /\ word' = word
      BY <2>1 DEF NextStage
    <3>2. QED
      BY <3>1 DEF Start, Place5, Place4, Place3, Place2, NextPlace
  <2>4. word' = W'
    BY <1>1, <1>2
  <2>5. (Constant /\ word = W /\ at = Start(name) /\ at # Over => AtStage(name))'
    BY StartsWellNext
  <2>6. QED
    BY <1>2, <2>2, <2>3, <2>4, <2>5 DEF Over
<1>7. QED
  BY <1>2, <1>3, <1>4, <1>5, <1>6 DEF IInv

LEMMA InStage ==
  ASSUME IInv, NEW name \in Names, In(name)
  PROVE  /\ at # Over /\ Stages[stage] = name /\ AtStage(name) /\ Constant
         /\ name \notin {"map", "move_char"} => word = W
BY Steady DEF IInv, In

LEMMA KeptWord ==
  ASSUME IInv, Fixed, NEW name \in Names, In(name), Grows, Sums', word' = W,
         at' = Over \/ AtStage(name)'
  PROVE  IInv'
<1>1. Unchanged'
  BY SameSetting DEF Unchanged
<1>2. QED
  BY <1>1, InStage, Kept

LEMMA ChangedFacts ==
  ASSUME Constant, word = W, NEW i \in Here, NEW j \in Here, i <= j, NEW with \in Text,
         NEW from, from = Part(W, i, j)
  PROVE  /\ Changed(i, from, with) \in Text
         /\ Restored(Changed(i, from, with), i, with, from) = W
<1>1. W \in Text /\ W \in Seq(Byte) /\ Len(W) \in Nat /\ i \in 0 .. Len(W) /\ j \in i .. Len(W)
  BY WFacts, StartFacts DEF Here
<1>2. Len(from) = j - i
  BY <1>1, PartFacts
<1>3. PICK n \in Nat : n = Len(from) /\ i + n = j
  BY <1>1, <1>2
<1>4. Changed(i, from, with) = Spliced(W, i, n, with)
  BY <1>3 DEF Changed
<1>5. Spliced(W, i, n, with) \in Text
  <2>1. i \in Starts(W) /\ i + n \in Starts(W)
    BY <1>3 DEF Here
  <2>2. QED
    BY <1>1, <1>3, <2>1, SplicedText
<1>6. Spliced(Spliced(W, i, n, with), i, Len(with), from) = W
  <2>1. n \in 0 .. Len(W) - i /\ with \in Seq(Byte) /\ from = Part(W, i, i + n)
    BY <1>1, <1>3 DEF Text
  <2>2. QED
    BY <1>1, <2>1, SplicedBack
<1>7. QED
  BY <1>4, <1>5, <1>6 DEF Restored

LEMMA NoPart ==
  ASSUME Constant, NEW i \in Here
  PROVE  Part(W, i, i) = <<>>
<1>1. W \in Seq(Byte) /\ i \in 0 .. Len(W) /\ i \in i .. Len(W) /\ i - i = 0
  BY WFacts, StartFacts DEF Here
<1>2. Part(W, i, i) \in Seq(Byte) /\ Len(Part(W, i, i)) = 0
  BY <1>1, PartFacts
<1>3. QED
  BY <1>2, EmptySeq

LEMMA UpperIsLetter ==
  ASSUME NEW cp \in Letter
  PROVE  UpperOf(cp) \in Letter
BY InputAssumption DEF UpperOf

(* The letter at a place that is not the end, and what may be put instead. *)
LEMMA LetterHere ==
  ASSUME Constant, word = W, NEW i \in Here, i # Len(W)
  PROVE  /\ CpAt(i) \in Letter /\ CpAt(i) = Part(W, i, Advance(W, i))
         /\ Advance(W, i) \in Here /\ i < Advance(W, i) /\ i \in Nat
         /\ \A with \in Text :
              /\ Changed(i, CpAt(i), with) \in Text
              /\ Restored(Changed(i, CpAt(i), with), i, with, CpAt(i)) = W
<1>1. W \in Text
  BY WFacts
<1>2. Advance(W, i) \in Here /\ i < Advance(W, i) /\ i \in Nat
  BY <1>1, StartFacts DEF Here
<1>3. CpAt(i) \in Letter /\ CpAt(i) = Part(W, i, Advance(W, i))
  BY <1>1, LetterAt DEF CpAt, Here
<1>4. i <= Advance(W, i)
  <2>1. Advance(W, i) \in Nat
    BY <1>1, <1>2, StartFacts DEF Here
  <2>2. QED
    BY <1>2, <2>1
<1>5. QED
  BY <1>2, <1>3, <1>4, ChangedFacts

LEMMA UppercaseKeeps ==
  ASSUME IInv, Uppercase
  PROVE  IInv'
<1>1. In("uppercase") /\ Fixed /\ Free /\ "uppercase" \in Names /\ Try(Mapped(word))
  BY DEF Uppercase, Names
<1>2. word = W /\ Constant /\ word' = W /\ Stages[stage] = "uppercase"
  BY <1>1, InStage DEF Uppercase
<1>3. <<Mapped(word)>> \in Seq(Text)
  <2>1. PICK ls \in Seq(Letter) : ls = Letters(word)
    BY <1>2, WFacts, LettersOfText
  <2>2. PICK ms : ms = [k \in DOMAIN ls |-> UpperOf(ls[k])]
    OBVIOUS
  <2>3. ms \in Seq(Text)
    <3>1. Len(ls) \in Nat /\ DOMAIN ls = 1 .. Len(ls)
      OBVIOUS
    <3>2. ASSUME NEW k \in 1 .. Len(ls) PROVE UpperOf(ls[k]) \in Text
      BY UpperIsLetter, LetterIsText
    <3>3. QED
      BY <2>2, <3>1, <3>2
  <2>4. Mapped(word) = FlattenSeq(ms)
    BY <2>1, <2>2 DEF Mapped
  <2>5. Mapped(word) \in Text
    BY <2>3, <2>4, FlattenText
  <2>6. QED
    BY <2>5
<1>4. Grows /\ Sums'
  BY <1>1, <1>2, <1>3, FreeKeeps DEF Try, Budgeted
<1>5. QED
  BY <1>1, <1>2, <1>4, KeptWord DEF Uppercase

LEMMA KeyboardIsLetters ==
  ASSUME Constant
  PROVE  /\ aff.keyboard \in Seq(Letter) /\ aff.try_chars \in Seq(Letter)
         /\ \A m \in Int : Neighbours(m) \in Seq(Letter)
         /\ \A cp : \A from \in Nat \ {0} : KeyFrom(cp, from) \in 0 .. Len(aff.keyboard)
<1>1. aff.keyboard \in Seq(Letter) /\ aff.try_chars \in Seq(Letter)
  BY SettingsAssumption DEF Constant, aff
<1>2. ASSUME NEW m \in Int PROVE KeyAt(m) \in Seq(Letter)
  <2>1. CASE m \notin DOMAIN aff.keyboard \/ aff.keyboard[m] = <<"|">>
    BY <2>1, EmptySeq DEF KeyAt
  <2>2. CASE ~(m \notin DOMAIN aff.keyboard \/ aff.keyboard[m] = <<"|">>)
    <3>1. aff.keyboard[m] \in Letter
      BY <1>1, <2>2
    <3>2. KeyAt(m) = <<aff.keyboard[m]>>
      BY <2>2 DEF KeyAt
    <3>3. QED
      BY <3>1, <3>2
  <2>3. QED
    BY <2>1, <2>2
<1>3. ASSUME NEW m \in Int PROVE Neighbours(m) \in Seq(Letter)
  <2>1. KeyAt(m - 1) \in Seq(Letter) /\ KeyAt(m + 1) \in Seq(Letter)
    BY <1>2
  <2>2. QED
    BY <2>1, ConcatProperties DEF Neighbours
<1>4. ASSUME NEW cp, NEW from \in Nat \ {0} PROVE KeyFrom(cp, from) \in 0 .. Len(aff.keyboard)
  <2>1. KeysOf(cp, from) \in SUBSET Nat /\ KeysOf(cp, from) \subseteq 0 .. Len(aff.keyboard)
    BY <1>1 DEF KeysOf
  <2>2. CASE KeysOf(cp, from) = {}
    <3>1. Len(aff.keyboard) \in Nat
      BY <1>1
    <3>2. QED
      BY <2>2, <3>1 DEF KeyFrom
  <2>3. CASE KeysOf(cp, from) # {}
    <3>1. \E m \in KeysOf(cp, from) : \A k \in KeysOf(cp, from) : m <= k
      BY <2>1, <2>3, LeastNatural
    <3>2. KeyFrom(cp, from) \in KeysOf(cp, from)
      BY <2>3, <3>1 DEF KeyFrom
    <3>3. QED
      BY <2>1, <3>2
  <2>4. QED
    BY <2>2, <2>3
<1>5. QED
  BY <1>1, <1>3, <1>4

LEMMA KeyboardUpperKeeps ==
  ASSUME IInv, KeyboardUpper
  PROVE  IInv'
<1>1. In("keyboard") /\ Fixed /\ Free /\ "keyboard" \in Names /\ Len(at) = 1 /\ at[1] # Len(word)
  BY DEF KeyboardUpper, Names
<1>2. word = W /\ Constant /\ Stages[stage] = "keyboard" /\ AtStage("keyboard")
  BY <1>1, InStage
<1>3. PICK i \in Here : at = <<i>> /\ i # Len(W)
  <2>1. AtLetter \/ AtKey
    BY <1>2 DEF AtStage
  <2>2. ~AtKey
    BY <1>1 DEF AtKey
  <2>3. QED
    BY <1>1, <1>2, <2>1, <2>2 DEF AtLetter
<1>4. Grows /\ Sums' /\ word' = W
  <2>1. CASE UpperOf(CpAt(i)) = CpAt(i)
    BY <1>1, <1>2, <1>3, <2>1, UntriedKeeps DEF KeyboardUpper, Untried
  <2>2. CASE UpperOf(CpAt(i)) # CpAt(i)
    <3>1. UpperOf(CpAt(i)) \in Text
      BY <1>2, <1>3, LetterHere, UpperIsLetter, LetterIsText
    <3>2. TryReplacing(i, CpAt(i), UpperOf(CpAt(i)))
      BY <1>3, <2>2 DEF KeyboardUpper
    <3>3. word' = W /\ Changed(i, CpAt(i), UpperOf(CpAt(i))) \in Text
      BY <1>2, <1>3, <3>1, <3>2, LetterHere DEF TryReplacing
    <3>4. PICK w \in Text : w = Changed(i, CpAt(i), UpperOf(CpAt(i)))
      BY <3>3
    <3>5. TryAll(<<w>>) /\ <<w>> \in Seq(Text)
      BY <3>2, <3>4 DEF TryReplacing, Try
    <3>6. QED
      BY <1>1, <1>2, <3>3, <3>5, FreeKeeps DEF Budgeted
  <2>3. QED
    BY <2>1, <2>2
<1>5. AtStage("keyboard")'
  <2>1. PICK m \in 0 .. Len(aff.keyboard) : m = KeyFrom(CpAt(i), 1)
    <3>1. 1 \in Nat \ {0}
      OBVIOUS
    <3>2. KeyFrom(CpAt(i), 1) \in 0 .. Len(aff.keyboard)
      BY <1>2, <3>1, KeyboardIsLetters
    <3>3. QED
      BY <3>2
  <2>2. at' = <<i, m>>
    BY <1>3, <2>1 DEF KeyboardUpper
  <2>3. AtKey'
    BY <1>1, <1>3, <2>1, <2>2, SameSetting DEF AtKey
  <2>4. QED
    BY <2>3 DEF AtStage
<1>6. QED
  BY <1>1, <1>4, <1>5, KeptWord

LEMMA KeyboardKeyKeeps ==
  ASSUME IInv, KeyboardKey
  PROVE  IInv'
<1>1. In("keyboard") /\ Fixed /\ Free /\ "keyboard" \in Names /\ Len(at) = 2 /\ at[2] # 0
  BY DEF KeyboardKey, Names
<1>2. word = W /\ Constant /\ Stages[stage] = "keyboard" /\ AtStage("keyboard")
  BY <1>1, InStage
<1>3. PICK i \in Here, m \in 0 .. Len(aff.keyboard) : at = <<i, m>> /\ i # Len(W)
  <2>1. AtLetter \/ AtKey
    BY <1>2 DEF AtStage
  <2>2. ~AtLetter
    BY <1>1 DEF AtLetter
  <2>3. QED
    BY <2>1, <2>2 DEF AtKey
<1>4. PICK keys \in Seq(Letter) : keys = Neighbours(m)
  <2>1. m \in Int
    OBVIOUS
  <2>2. QED
    BY <1>2, <2>1, KeyboardIsLetters
<1>5. PICK cp \in Letter : cp = CpAt(i)
  BY <1>2, <1>3, LetterHere
<1>6. \A with \in Text : /\ Changed(i, cp, with) \in Text
                         /\ Restored(Changed(i, cp, with), i, with, cp) = W
  BY <1>2, <1>3, <1>5, LetterHere
<1>7. PICK ws : ws = [k \in DOMAIN keys |-> Changed(i, cp, keys[k])]
  OBVIOUS
<1>8. ws \in Seq(Text)
  <2>1. Len(keys) \in Nat /\ DOMAIN keys = 1 .. Len(keys)
    OBVIOUS
  <2>2. ASSUME NEW k \in 1 .. Len(keys) PROVE Changed(i, cp, keys[k]) \in Text
    BY <1>6, LetterIsText
  <2>3. QED
    BY <1>7, <2>1, <2>2
<1>9. Grows /\ Sums'
  <2>1. TryAll(ws)
    BY <1>3, <1>4, <1>5, <1>7 DEF KeyboardKey
  <2>2. QED
    BY <1>1, <1>2, <1>8, <2>1, FreeKeeps DEF Budgeted
<1>10. word' = W
  <2>1. word' = IF keys = <<>> THEN word
                ELSE Restored(Changed(i, cp, Last(keys)), i, Last(keys), cp)
    BY <1>3, <1>4, <1>5 DEF KeyboardKey
  <2>2. CASE keys # <<>>
    <3>1. Last(keys) \in Text
      <4>1. Len(keys) \in 1 .. Len(keys)
        BY <2>2, EmptySeq
      <4>2. QED
        BY <4>1, LetterIsText DEF Last
    <3>2. QED
      BY <1>6, <2>1, <2>2, <3>1
  <2>3. QED
    BY <1>2, <2>1, <2>2
<1>11. AtStage("keyboard")'
  <2>1. KeyFrom(cp, m + 1) \in 0 .. Len(aff.keyboard)
    <3>1. m + 1 \in Nat \ {0}
      OBVIOUS
    <3>2. QED
      BY <1>2, <3>1, KeyboardIsLetters
  <2>2. at' = <<i, KeyFrom(cp, m + 1)>>
    BY <1>3, <1>5 DEF KeyboardKey, NextKey
  <2>3. AtKey'
    BY <1>1, <1>3, <2>1, <2>2, SameSetting DEF AtKey
  <2>4. QED
    BY <2>3 DEF AtStage
<1>12. QED
  BY <1>1, <1>9, <1>10, <1>11, KeptWord

LEMMA KeyboardNextKeeps ==
  ASSUME IInv, KeyboardNext
  PROVE  IInv'
<1>1. In("keyboard") /\ Fixed /\ Free /\ "keyboard" \in Names /\ Untried
  BY DEF KeyboardNext, Names
<1>2. word = W /\ Constant /\ Stages[stage] = "keyboard" /\ AtStage("keyboard") /\ word' = W
  BY <1>1, InStage DEF Untried
<1>3. Grows /\ Sums'
  BY <1>1, UntriedKeeps DEF Untried
<1>4. ASSUME at' # Over PROVE AtStage("keyboard")'
  <2>1. Len(at) = 2 /\ at' = <<Advance(word, at[1])>>
    BY <1>4 DEF KeyboardNext
  <2>2. PICK i \in Here : at[1] = i /\ i # Len(W)
    <3>1. AtLetter \/ AtKey
      BY <1>2 DEF AtStage
    <3>2. ~AtLetter
      BY <2>1 DEF AtLetter
    <3>3. QED
      BY <3>1, <3>2 DEF AtKey
  <2>3. Advance(W, i) \in Here
    BY <1>2, <2>2, LetterHere
  <2>4. AtLetter'
    BY <1>1, <1>2, <2>1, <2>2, <2>3, SameSetting DEF AtLetter
  <2>5. QED
    BY <2>4 DEF AtStage
<1>5. QED
  BY <1>1, <1>2, <1>3, <1>4, KeptWord DEF Over

LEMMA ExtraCharKeeps ==
  ASSUME IInv, ExtraChar
  PROVE  IInv'
<1>1. In("extra_char") /\ Fixed /\ Free /\ "extra_char" \in Names
  BY DEF ExtraChar, Names
<1>2. word = W /\ Constant /\ Stages[stage] = "extra_char" /\ AtStage("extra_char")
  BY <1>1, InStage
<1>3. PICK i \in Here : at = <<i>>
  BY <1>2 DEF AtStage, AtLetter
<1>4. CASE i = Len(W)
  <2>1. at' = Over /\ Untried
    BY <1>2, <1>3, <1>4 DEF ExtraChar
  <2>2. Grows /\ Sums' /\ word' = W
    BY <1>1, <1>2, <2>1, UntriedKeeps DEF Untried
  <2>3. QED
    BY <1>1, <2>1, <2>2, KeptWord
<1>5. CASE i # Len(W)
  <2>1. TryReplacing(i, CpAt(i), <<>>) /\ at' = <<Advance(W, i)>>
    BY <1>2, <1>3, <1>5 DEF ExtraChar
  <2>2. PICK w \in Text : w = Changed(i, CpAt(i), <<>>)
    BY <1>2, <1>5, LetterHere, LetterIsText
  <2>3. word' = W
    BY <1>2, <1>5, <2>1, LetterHere, LetterIsText DEF TryReplacing
  <2>4. TryAll(<<w>>) /\ <<w>> \in Seq(Text)
    BY <2>1, <2>2 DEF TryReplacing, Try
  <2>5. Grows /\ Sums'
    BY <1>1, <1>2, <2>4, FreeKeeps DEF Budgeted
  <2>6. Advance(W, i) \in Here
    BY <1>2, <1>5, LetterHere
  <2>7. AtLetter'
    BY <1>1, <2>1, <2>6, SameSetting DEF AtLetter
  <2>8. AtStage("extra_char")'
    BY <2>7 DEF AtStage
  <2>9. QED
    BY <1>1, <2>3, <2>5, <2>8, KeptWord
<1>6. QED
  BY <1>4, <1>5

LEMMA ExhaustedKeeps ==
  ASSUME IInv, Fixed, Exhausted, UNCHANGED <<tried, out>>
  PROVE  Grows /\ Sums' /\ at' = Over
BY UntriedKeeps DEF Exhausted, Free

LEMMA TryCharPlace ==
  ASSUME IInv, NEW name \in {"forgotten_char", "bad_char"}, In(name)
  PROVE  /\ name \in Names /\ Stages[stage] = name /\ word = W /\ Constant
         /\ \E t \in Nat \ {0} : \E i \in Here :
              /\ at = <<t, i>> /\ (TriedAllChars <=> t > Len(aff.try_chars))
              /\ ~TriedAllChars => TryCp \in Text
<1>1. name \in Names
  BY DEF Names
<1>2. Stages[stage] = name /\ word = W /\ Constant /\ AtStage(name)
  BY <1>1, InStage
<1>3. PICK t \in Nat \ {0}, i \in Nat : i \in Here /\ at = <<t, i>>
  <2>1. PICK t \in Nat \ {0} : \E i \in Here : at = <<t, i>>
    BY <1>2 DEF AtStage, AtTryChar
  <2>2. Here \subseteq Nat
    BY <1>2, WFacts, StartFacts DEF Here
  <2>3. QED
    BY <2>1, <2>2
<1>4. TriedAllChars <=> t > Len(aff.try_chars)
  BY <1>3 DEF TriedAllChars
<1>5. ASSUME ~TriedAllChars PROVE TryCp \in Text
  <2>1. aff.try_chars \in Seq(Letter)
    BY <1>2, KeyboardIsLetters
  <2>2. t \in 1 .. Len(aff.try_chars)
    BY <1>3, <1>4, <1>5, <2>1
  <2>3. QED
    BY <1>3, <2>1, <2>2, LetterIsText DEF TryCp
<1>6. QED
  BY <1>1, <1>2, <1>3, <1>4, <1>5

LEMMA TryCharNext ==
  ASSUME Fixed, Constant, NEW name \in {"forgotten_char", "bad_char"}, NEW t \in Nat \ {0}, NEW i \in Here,
         at' = <<t + 1, 0>> \/ at' = <<t, i>>
  PROVE  AtStage(name)'
<1>1. 0 \in Here /\ t + 1 \in Nat \ {0}
  BY WFacts, StartFacts DEF Here
<1>2. AtTryChar'
  BY <1>1, SameSetting DEF AtTryChar
<1>3. QED
  BY <1>2 DEF AtStage

LEMMA ForgottenCharKeeps ==
  ASSUME IInv, ForgottenChar
  PROVE  IInv'
<1>1. In("forgotten_char") /\ Fixed /\ "forgotten_char" \in {"forgotten_char", "bad_char"}
  BY DEF ForgottenChar
<1>2. word = W /\ Constant /\ "forgotten_char" \in Names /\ Stages[stage] = "forgotten_char"
  BY <1>1, TryCharPlace
<1>3. PICK t \in Nat \ {0} : \E i \in Here : at = <<t, i>> /\ (~TriedAllChars => TryCp \in Text)
  BY <1>1, TryCharPlace
<1>4. PICK i \in Here : at = <<t, i>> /\ (~TriedAllChars => TryCp \in Text)
  BY <1>3
<1>5. CASE TriedAllChars /\ at' = Over /\ Untried /\ Free
  <2>1. Grows /\ Sums' /\ word' = W
    BY <1>1, <1>2, <1>5, UntriedKeeps DEF Untried
  <2>2. QED
    BY <1>1, <1>2, <1>5, <2>1, KeptWord
<1>6. CASE ~TriedAllChars /\ Exhausted /\ Untried
  <2>1. Grows /\ Sums' /\ word' = W /\ at' = Over
    BY <1>1, <1>2, <1>6, ExhaustedKeeps DEF Untried
  <2>2. QED
    BY <1>1, <1>2, <2>1, KeptWord
<1>7. CASE /\ ~TriedAllChars /\ Spend /\ TryReplacing(i, <<>>, TryCp)
           /\ at' = IF i = Len(word) THEN NextTryChar ELSE <<t, Advance(word, i)>>
  <2>1. TryCp \in Text
    BY <1>4, <1>7
  <2>2. <<>> = Part(W, i, i) /\ i <= i
    BY <1>2, NoPart, WFacts, StartFacts DEF Here
  <2>3. /\ Changed(i, <<>>, TryCp) \in Text
        /\ Restored(Changed(i, <<>>, TryCp), i, TryCp, <<>>) = W
    BY <1>2, <2>1, <2>2, ChangedFacts
  <2>4. PICK w \in Text : w = Changed(i, <<>>, TryCp)
    BY <2>3
  <2>5. Try(w) /\ word' = W
    BY <1>7, <2>3, <2>4 DEF TryReplacing
  <2>6. Grows /\ Sums'
    BY <1>1, <1>7, <2>5, SpendKeeps
  <2>7. AtStage("forgotten_char")'
    <3>1. CASE i = Len(W)
      <4>1. at' = <<t + 1, 0>>
        BY <1>2, <1>4, <1>7, <3>1 DEF NextTryChar
      <4>2. QED
        BY <1>1, <1>2, <4>1, TryCharNext
    <3>2. CASE i # Len(W)
      <4>1. PICK j \in Here : j = Advance(W, i)
        BY <1>2, <3>2, LetterHere
      <4>2. at' = <<t, j>>
        BY <1>2, <1>7, <3>2, <4>1
      <4>3. QED
        BY <1>1, <1>2, <4>2, TryCharNext
    <3>3. QED
      BY <3>1, <3>2
  <2>8. QED
    BY <1>1, <1>2, <2>5, <2>6, <2>7, KeptWord
<1>8. QED
  <2>1. at[1] = t /\ at[2] = i
    BY <1>4
  <2>2. QED
    BY <1>5, <1>6, <1>7, <2>1 DEF ForgottenChar

LEMMA BadCharKeeps ==
  ASSUME IInv, BadChar
  PROVE  IInv'
<1>1. In("bad_char") /\ Fixed /\ "bad_char" \in {"forgotten_char", "bad_char"}
  BY DEF BadChar
<1>2. word = W /\ Constant /\ "bad_char" \in Names /\ Stages[stage] = "bad_char"
  BY <1>1, TryCharPlace
<1>3. PICK t \in Nat \ {0} : \E i \in Here : at = <<t, i>> /\ (~TriedAllChars => TryCp \in Text)
  BY <1>1, TryCharPlace
<1>4. PICK i \in Here : at = <<t, i>> /\ (~TriedAllChars => TryCp \in Text)
  BY <1>3
<1>5. ASSUME Untried, Free, \/ at' = Over \/ at' = NextTryChar
                            \/ i # Len(W) /\ at' = <<t, Advance(W, i)>>
      PROVE IInv'
  <2>1. Grows /\ Sums' /\ word' = W
    BY <1>1, <1>2, <1>5, UntriedKeeps DEF Untried
  <2>2. CASE at' = NextTryChar
    <3>1. at' = <<t + 1, 0>>
      BY <1>4, <2>2 DEF NextTryChar
    <3>2. AtStage("bad_char")'
      BY <1>1, <1>2, <1>4, <3>1, TryCharNext
    <3>3. QED
      BY <1>1, <1>2, <2>1, <3>2, KeptWord
  <2>3. CASE i # Len(W) /\ at' = <<t, Advance(W, i)>>
    <3>1. PICK j \in Here : j = Advance(W, i)
      BY <1>2, <2>3, LetterHere
    <3>2. AtStage("bad_char")'
      BY <1>1, <1>2, <2>3, <3>1, TryCharNext
    <3>3. QED
      BY <1>1, <1>2, <2>1, <3>2, KeptWord
  <2>4. QED
    BY <1>1, <1>2, <1>5, <2>1, <2>2, <2>3, KeptWord
<1>6. CASE i # Len(W) /\ Exhausted /\ Untried
  <2>1. Grows /\ Sums' /\ word' = W /\ at' = Over
    BY <1>1, <1>2, <1>6, ExhaustedKeeps DEF Untried
  <2>2. QED
    BY <1>1, <1>2, <2>1, KeptWord
<1>7. CASE /\ ~TriedAllChars /\ i # Len(W) /\ Spend /\ TryReplacing(i, CpAt(i), TryCp)
           /\ at' = <<t, Advance(W, i)>>
  <2>1. TryCp \in Text
    BY <1>4, <1>7
  <2>2. /\ Changed(i, CpAt(i), TryCp) \in Text
        /\ Restored(Changed(i, CpAt(i), TryCp), i, TryCp, CpAt(i)) = W
    BY <1>2, <1>7, <2>1, LetterHere
  <2>3. PICK w \in Text : w = Changed(i, CpAt(i), TryCp)
    BY <2>2
  <2>4. Try(w) /\ word' = W
    BY <1>7, <2>2, <2>3 DEF TryReplacing
  <2>5. Grows /\ Sums'
    BY <1>1, <1>7, <2>4, SpendKeeps
  <2>6. PICK j \in Here : j = Advance(W, i)
    BY <1>2, <1>7, LetterHere
  <2>7. AtStage("bad_char")'
    BY <1>1, <1>2, <1>7, <2>6, TryCharNext
  <2>8. QED
    BY <1>1, <1>2, <2>4, <2>5, <2>7, KeptWord
<1>8. QED
  <2>1. at[1] = t /\ at[2] = i
    BY <1>4
  <2>2. QED
    BY <1>2, <1>5, <1>6, <1>7, <2>1 DEF BadChar

IsJoin(v, S, a, b, n, l) ==
    /\ v \in Seq(S) /\ Len(v) = n + l
    /\ \A k \in 1 .. n + l : v[k] = IF k <= n THEN a[k] ELSE b[k - n]
LEMMA JoinFacts ==
  ASSUME NEW S, NEW a \in Seq(S), NEW b \in Seq(S), NEW n \in Nat, NEW l \in Nat,
         Len(a) = n, Len(b) = l
  PROVE  IsJoin(a \o b, S, a, b, n, l)
BY ConcatProperties DEF IsJoin

LEMMA PartJoin ==
  ASSUME NEW S, NEW s \in Seq(S), NEW i \in Nat, NEW j \in Nat, NEW k \in Nat,
         i <= j, j <= k, k <= Len(s)
  PROVE  Part(s, i, k) = Part(s, i, j) \o Part(s, j, k)
<1>1. /\ i \in 0 .. Len(s) /\ j \in 0 .. Len(s) /\ j \in i .. Len(s)
      /\ k \in i .. Len(s) /\ k \in j .. Len(s)
  OBVIOUS
<1>2. PICK a : a = Part(s, i, j)
  OBVIOUS
<1>3. PICK b : b = Part(s, j, k)
  OBVIOUS
<1>4. PICK c : c = Part(s, i, k)
  OBVIOUS
<1>5. a \in Seq(S) /\ Len(a) = j - i /\ \A h \in 1 .. j - i : a[h] = s[i + h]
  BY <1>1, <1>2, PartFacts
<1>6. b \in Seq(S) /\ Len(b) = k - j /\ \A h \in 1 .. k - j : b[h] = s[j + h]
  BY <1>1, <1>3, PartFacts
<1>7. c \in Seq(S) /\ Len(c) = k - i /\ \A h \in 1 .. k - i : c[h] = s[i + h]
  BY <1>1, <1>4, PartFacts
<1>8. /\ a \o b \in Seq(S) /\ Len(a \o b) = k - i
      /\ \A h \in 1 .. k - i : (a \o b)[h] = IF h <= j - i THEN a[h] ELSE b[h - (j - i)]
  <2>1. PICK n, l \in Nat : n = j - i /\ l = k - j
    OBVIOUS
  <2>2. IsJoin(a \o b, S, a, b, n, l)
    <3>1. Len(a) = n /\ Len(b) = l /\ n \in Nat /\ l \in Nat
      BY <1>5, <1>6, <2>1
    <3>2. QED
      BY <1>5, <1>6, <3>1, JoinFacts
  <2>3. n + l = k - i
    BY <2>1
  <2>4. QED
    BY <2>1, <2>2, <2>3 DEF IsJoin
<1>9. ASSUME NEW h \in 1 .. k - i PROVE (a \o b)[h] = c[h]
  <2>1. CASE h <= j - i
    BY <1>5, <1>7, <1>8, <2>1
  <2>2. CASE ~(h <= j - i)
    <3>1. PICK g \in 1 .. k - j : g = h - (j - i) /\ j + g = i + h
      BY <2>2
    <3>2. QED
      BY <1>6, <1>7, <1>8, <2>2, <3>1
  <2>3. QED
    BY <2>1, <2>2
<1>10. a \o b = c
  BY <1>7, <1>8, <1>9, SeqEqual
<1>11. QED
  BY <1>2, <1>3, <1>4, <1>10

(* Two words with a character between them can be told apart again. *)
AreParts(w, a, c, b) ==
    /\ w \in Seq(Byte)
    /\ \E m \in DOMAIN w : /\ w[m] = c /\ SubSeq(w, 1, m - 1) = a
                           /\ SubSeq(w, m + 1, Len(w)) = b
LEMMA JoinedParts ==
  ASSUME NEW a \in Seq(Byte), NEW b \in Seq(Byte), NEW c \in Byte,
         NEW w, w = a \o <<c>> \o b
  PROVE  AreParts(w, a, c, b)
<1>1. PICK n \in Nat : n = Len(a)
  OBVIOUS
<1>2. PICK l \in Nat : l = Len(b)
  OBVIOUS
<1>3. PICK d : d = a \o <<c>>
  OBVIOUS
<1>4. /\ d \in Seq(Byte) /\ Len(d) = n + 1
      /\ \A k \in 1 .. n + 1 : d[k] = IF k <= n THEN a[k] ELSE c
  <2>1. <<c>> \in Seq(Byte) /\ Len(<<c>>) = 1 /\ <<c>>[1] = c
    OBVIOUS
  <2>2. /\ d \in Seq(Byte) /\ Len(d) = n + 1
        /\ \A k \in 1 .. n + 1 : d[k] = IF k <= n THEN a[k] ELSE <<c>>[k - n]
    BY <1>1, <1>3, <2>1, ConcatProperties
  <2>3. ASSUME NEW k \in 1 .. n + 1, ~(k <= n) PROVE k - n = 1
    BY <2>3
  <2>4. QED
    BY <2>1, <2>2, <2>3
<1>5. /\ w \in Seq(Byte) /\ Len(w) = n + 1 + l
      /\ \A k \in 1 .. n + 1 + l : w[k] = IF k <= n + 1 THEN d[k] ELSE b[k - (n + 1)]
  <2>1. PICK h \in Nat : h = n + 1
    OBVIOUS
  <2>2. w = d \o b
    BY <1>3
  <2>3. IsJoin(w, Byte, d, b, h, l)
    <3>1. Len(d) = h /\ Len(b) = l
      BY <1>2, <1>4, <2>1
    <3>2. IsJoin(d \o b, Byte, d, b, h, l)
      BY <1>4, <3>1, JoinFacts
    <3>3. QED
      BY <2>2, <3>2
  <2>4. QED
    BY <2>1, <2>3 DEF IsJoin
<1>6. n + 1 \in DOMAIN w /\ w[n + 1] = c
  BY <1>4, <1>5
<1>7. SubSeq(w, 1, (n + 1) - 1) = a
  <2>1. 0 \in 0 .. Len(w) /\ n \in 0 .. Len(w) /\ n - 0 = n
    BY <1>5
  <2>2. PICK p : p = Part(w, 0, n)
    OBVIOUS
  <2>3. p \in Seq(Byte) /\ Len(p) = n /\ \A k \in 1 .. n : p[k] = w[0 + k]
    <3>1. n \in 0 .. Len(w) /\ w \in Seq(Byte)
      BY <1>5
    <3>2. /\ p \in Seq(Byte) /\ Len(p) = n - 0
          /\ \A k \in 1 .. n - 0 : p[k] = w[0 + k]
      BY <2>1, <2>2, <3>1, PartFacts
    <3>3. QED
      BY <2>1, <3>2
  <2>4. ASSUME NEW k \in 1 .. n PROVE p[k] = a[k]
    <3>1. k \in 1 .. n + 1 + l /\ k \in 1 .. n + 1 /\ k <= n + 1 /\ k <= n /\ 0 + k = k
      OBVIOUS
    <3>2. w[k] = d[k] /\ d[k] = a[k]
      BY <1>4, <1>5, <3>1
    <3>3. QED
      BY <2>3, <3>1, <3>2
  <2>5. p = a
    BY <1>1, <2>3, <2>4, SeqEqual
  <2>6. (n + 1) - 1 = n /\ 0 + 1 = 1
    OBVIOUS
  <2>7. QED
    BY <2>2, <2>5, <2>6 DEF Part
<1>8. SubSeq(w, (n + 1) + 1, Len(w)) = b
  <2>1. n + 1 \in 0 .. Len(w) /\ Len(w) \in n + 1 .. Len(w) /\ Len(w) - (n + 1) = l
    BY <1>5
  <2>2. PICK p : p = Part(w, n + 1, Len(w))
    OBVIOUS
  <2>3. p \in Seq(Byte) /\ Len(p) = l /\ \A k \in 1 .. l : p[k] = w[(n + 1) + k]
    <3>1. w \in Seq(Byte) /\ n + 1 \in 0 .. Len(w) /\ Len(w) \in n + 1 .. Len(w)
      BY <1>5, <2>1
    <3>2. /\ p \in Seq(Byte) /\ Len(p) = Len(w) - (n + 1)
          /\ \A k \in 1 .. Len(w) - (n + 1) : p[k] = w[(n + 1) + k]
      BY <2>2, <3>1, PartFacts
    <3>3. QED
      BY <2>1, <3>2
  <2>4. ASSUME NEW k \in 1 .. l PROVE p[k] = b[k]
    <3>1. PICK h \in 1 .. n + 1 + l : h = (n + 1) + k
      OBVIOUS
    <3>2. ~(h <= n + 1) /\ h - (n + 1) = k
      BY <3>1
    <3>3. w[h] = b[k]
      BY <1>5, <3>2
    <3>4. QED
      BY <2>3, <3>1, <3>3
  <2>5. p = b
    BY <1>2, <2>3, <2>4, SeqEqual
  <2>6. QED
    BY <2>2, <2>5 DEF Part
<1>9. QED
  BY <1>5, <1>6, <1>7, <1>8 DEF AreParts

LEMMA AppendGrows ==
  ASSUME NEW list \in Seq(Seq(Byte)), NEW w \in Seq(Byte), IsKnown(w)
  PROVE  Grown(list, Append(list, w))
<1>1. Len(list) \in Nat
  OBVIOUS
<1>2. /\ Append(list, w) \in Seq(Seq(Byte)) /\ Len(Append(list, w)) = Len(list) + 1
      /\ \A k \in 1 .. Len(list) : Append(list, w)[k] = list[k]
      /\ Append(list, w)[Len(list) + 1] = w
  BY AppendProperties
<1>3. ASSUME NEW k \in Len(list) + 1 .. Len(list) + 1 PROVE IsKnown(Append(list, w)[k])
  <2>1. k = Len(list) + 1
    BY <1>1, <1>3
  <2>2. QED
    BY <1>2, <2>1
<1>4. Len(list) <= Len(list) + 1
  BY <1>1
<1>5. QED
  BY <1>2, <1>3, <1>4 DEF Grown

LEMMA PushGrows ==
  ASSUME NEW list \in Seq(Seq(Byte)), NEW w \in Seq(Byte), IsKnown(w)
  PROVE  Grown(list, Push(list, w))
<1>1. Len(list) \in Nat
  OBVIOUS
<1>2. CASE Contains(list, w)
  BY <1>1, <1>2 DEF Grown, Push
<1>3. CASE ~Contains(list, w)
  BY <1>3, AppendGrows DEF Push
<1>4. QED
  BY <1>2, <1>3

LEMMA GrownTwice ==
  ASSUME NEW list, NEW more, NEW most, Grown(list, more), Grown(more, most),
         Len(list) \in Nat
  PROVE  Grown(list, most)
<1>1. Len(more) \in Nat /\ Len(most) \in Nat /\ Len(list) <= Len(more) /\ Len(more) <= Len(most)
  BY DEF Grown
<1>2. ASSUME NEW k \in 1 .. Len(list) PROVE most[k] = list[k]
  <2>1. k \in 1 .. Len(more)
    BY <1>1
  <2>2. QED
    BY <2>1 DEF Grown
<1>3. ASSUME NEW k \in Len(list) + 1 .. Len(most) PROVE IsKnown(most[k])
  <2>1. CASE k <= Len(more)
    <3>1. k \in 1 .. Len(more) /\ k \in Len(list) + 1 .. Len(more)
      BY <1>1, <2>1
    <3>2. QED
      BY <3>1 DEF Grown
  <2>2. CASE ~(k <= Len(more))
    <3>1. k \in Len(more) + 1 .. Len(most)
      BY <1>1, <2>2
    <3>2. QED
      BY <3>1 DEF Grown
  <2>3. QED
    BY <2>1, <2>2
<1>4. most \in Seq(Seq(Byte)) /\ Len(list) <= Len(most)
  <2>1. most \in Seq(Seq(Byte))
    BY DEF Grown
  <2>2. QED
    BY <1>1, <2>1
<1>5. QED
  BY <1>2, <1>3, <1>4 DEF Grown

LEMMA TwoWordsKeeps ==
  ASSUME IInv, TwoWords
  PROVE  IInv'
<1>1. In("two_words") /\ Fixed /\ Free /\ "two_words" \in Names /\ UNCHANGED <<word, tried>>
  BY DEF TwoWords, Names
<1>2. /\ word = W /\ Constant /\ Stages[stage] = "two_words" /\ AtStage("two_words")
      /\ word' = W /\ W \in Text
  BY <1>1, InStage, WFacts
<1>3. PICK i \in Here : at = <<i>> /\ i # Len(W)
  BY <1>2 DEF AtStage, AtSplit
<1>4. PICK n \in Here : n = Advance(W, i) /\ n = Advance(word, at[1])
  <2>1. Advance(W, i) \in Here
    BY <1>2, <1>3, LetterHere
  <2>2. QED
    BY <1>2, <1>3, <2>1
<1>5. out \in Seq(Seq(Byte)) /\ Len(out) \in Nat
  BY DEF IInv, Suggested
<1>6. Sums'
  BY <1>1, <1>2, SameSetting DEF IInv, Sums, Fixed, Free, Budgeted
<1>7. CASE n = Len(W)
  <2>1. at' = Over /\ out' = out
    BY <1>2, <1>4, <1>7 DEF TwoWords
  <2>2. Grows
    BY <1>1, <2>1, UntriedKeeps
  <2>3. QED
    BY <1>1, <1>2, <1>6, <2>1, <2>2, KeptWord
<1>8. CASE n # Len(W)
  <2>1. /\ n \in Nat /\ Len(W) \in Nat /\ 0 <= n /\ n <= Len(W) /\ W \in Seq(Byte)
        /\ 0 \in Starts(W) /\ Len(W) \in Starts(W) /\ n \in Starts(W)
    BY <1>2, StartFacts DEF Here
  <2>2. PICK a : a = Part(W, 0, n)
    OBVIOUS
  <2>3. PICK b : b = Part(W, n, Len(W))
    OBVIOUS
  <2>4. a \in Text /\ b \in Text /\ a \o b = W
    <3>1. a \in Text
      BY <1>2, <2>1, <2>2, PartText
    <3>2. b \in Text
      BY <1>2, <2>1, <2>3, PartText
    <3>3. Part(W, 0, Len(W)) = a \o b
      <4>1. 0 \in Nat /\ Len(W) <= Len(W)
        BY <2>1
      <4>2. Part(W, 0, Len(W)) = Part(W, 0, n) \o Part(W, n, Len(W))
        BY <2>1, <4>1, PartJoin
      <4>3. QED
        BY <2>2, <2>3, <4>2
    <3>4. Part(W, 0, Len(W)) = W
      <4>1. 0 \in 0 .. Len(W) /\ Len(W) \in 0 .. Len(W) /\ Len(W) - 0 = Len(W)
        BY <2>1
      <4>2. PICK p : p = Part(W, 0, Len(W))
        OBVIOUS
      <4>3. p \in Seq(Byte) /\ Len(p) = Len(W) /\ \A k \in 1 .. Len(W) : p[k] = W[0 + k]
        BY <2>1, <4>1, <4>2, PartFacts
      <4>4. ASSUME NEW k \in 1 .. Len(W) PROVE p[k] = W[k]
        BY <4>3
      <4>5. QED
        BY <2>1, <4>2, <4>3, <4>4, SeqEqual
    <3>5. QED
      BY <3>1, <3>2, <3>3, <3>4
  <2>5. ASSUME NEW c \in {" ", "-"}, {a, b} \subseteq aff.simple, c = "-" => WantsDash(a, b)
        PROVE  a \o <<c>> \o b \in Seq(Byte) /\ IsKnown(a \o <<c>> \o b)
    <3>1. a \in Seq(Byte) /\ b \in Seq(Byte) /\ c \in Byte
      BY <2>4, SeparatorAssumption DEF Text
    <3>2. PICK w : w = a \o <<c>> \o b
      OBVIOUS
    <3>3. AreParts(w, a, c, b) /\ w \in Seq(Byte)
      <4>1. AreParts(w, a, c, b)
        BY <3>1, <3>2, JoinedParts
      <4>2. QED
        BY <4>1 DEF AreParts
    <3>4. PICK m \in DOMAIN w : /\ w[m] = c /\ SubSeq(w, 1, m - 1) = a
                                /\ SubSeq(w, m + 1, Len(w)) = b
      BY <3>3 DEF AreParts
    <3>5. w[m] = "-" => Len(Letters(a)) >= 3 /\ Len(Letters(b)) >= 2
      <4>1. Letters(a) \in Seq(Letter) /\ Letters(b) \in Seq(Letter)
        BY <2>4, LettersOfText
      <4>2. Len(Letters(a)) \in Nat /\ Len(Letters(b)) \in Nat
        BY <4>1, LenProperties
      <4>3. QED
        BY <2>5, <3>4, <4>2 DEF WantsDash
    <3>6. SplitAt(w, m)
      BY <2>4, <2>5, <3>4, <3>5 DEF SplitAt, W
    <3>7. IsKnown(w)
      BY <3>4, <3>6 DEF IsKnown
    <3>8. QED
      BY <3>2, <3>3, <3>7
  <2>6. /\ at' = <<n>>
        /\ out' = IF {a, b} \subseteq aff.simple
                  THEN IF WantsDash(a, b)
                       THEN Push(Push(out, a \o <<" ">> \o b), a \o <<"-">> \o b)
                       ELSE Push(out, a \o <<" ">> \o b)
                  ELSE out
    BY <1>2, <1>4, <1>8, <2>2, <2>3 DEF TwoWords
  <2>7. Grown(out, out)
    BY <1>5 DEF Grown
  <2>8. Grows
    <3>1. CASE ~({a, b} \subseteq aff.simple)
      BY <2>6, <2>7, <3>1 DEF Grows
    <3>2. CASE {a, b} \subseteq aff.simple
      <4>1. PICK u : u = a \o <<" ">> \o b
        OBVIOUS
      <4>2. PICK v : v = a \o <<"-">> \o b
        OBVIOUS
      <4>3. u \in Seq(Byte) /\ IsKnown(u)
        <5>1. " " \in {" ", "-"} /\ (" " = "-" => WantsDash(a, b))
          OBVIOUS
        <5>2. QED
          BY <2>5, <3>2, <4>1, <5>1
      <4>4. Grown(out, Push(out, u)) /\ Push(out, u) \in Seq(Seq(Byte))
        <5>1. Grown(out, Push(out, u))
          BY <1>5, <4>3, PushGrows
        <5>2. QED
          BY <5>1 DEF Grown
      <4>5. CASE ~WantsDash(a, b)
        BY <2>6, <3>2, <4>1, <4>4, <4>5 DEF Grows
      <4>6. CASE WantsDash(a, b)
        <5>1. "-" \in {" ", "-"} /\ ("-" = "-" => WantsDash(a, b))
          BY <4>6
        <5>2. v \in Seq(Byte) /\ IsKnown(v)
          BY <2>5, <3>2, <4>2, <5>1
        <5>3. Grown(Push(out, u), Push(Push(out, u), v))
          BY <4>4, <5>2, PushGrows
        <5>4. Grown(out, Push(Push(out, u), v))
          BY <1>5, <4>4, <5>3, GrownTwice
        <5>5. QED
          BY <2>6, <3>2, <4>1, <4>2, <4>6, <5>4 DEF Grows
      <4>7. QED
        BY <4>5, <4>6
    <3>3. QED
      BY <3>1, <3>2
  <2>9. AtSplit'
    BY <1>1, <1>8, <2>6, SameSetting DEF AtSplit
  <2>10. AtStage("two_words")'
    BY <2>9 DEF AtStage
  <2>11. QED
    BY <1>1, <1>2, <1>6, <2>8, <2>10, KeptWord
<1>9. QED
  BY <1>7, <1>8

LEMMA DoubledTwoCharsKeeps ==
  ASSUME IInv, DoubledTwoChars
  PROVE  IInv'
<1>1. In("doubled_two_chars") /\ Fixed /\ Free /\ "doubled_two_chars" \in Names
  BY DEF DoubledTwoChars, Names
<1>2. /\ word = W /\ Constant /\ Stages[stage] = "doubled_two_chars"
      /\ AtStage("doubled_two_chars") /\ W \in Text
  BY <1>1, InStage, WFacts
<1>3. PICK i1, i2, i3, i4, i5 \in Here :
        i1 <= i2 /\ i2 <= i3 /\ i3 <= i4 /\ i4 <= i5 /\ at = <<i1, i2, i3, i4, i5>>
  BY <1>2 DEF AtStage, AtFive
<1>4. W \in Seq(Byte) /\ Len(W) \in Nat /\ Here \subseteq 0 .. Len(W)
  BY <1>2, StartFacts DEF Here
<1>5. CASE i5 = Len(W)
  <2>1. at' = Over /\ Untried
    BY <1>2, <1>3, <1>5 DEF DoubledTwoChars
  <2>2. Grows /\ Sums' /\ word' = W
    BY <1>1, <1>2, <2>1, UntriedKeeps DEF Untried
  <2>3. QED
    BY <1>1, <2>1, <2>2, KeptWord
<1>6. CASE i5 # Len(W)
  <2>1. PICK e \in Here : e = Advance(W, i5) /\ i5 < e
    BY <1>2, <1>6, LetterHere
  <2>2. PICK erased : erased = Spliced(W, i4, e - i4, <<>>)
    OBVIOUS
  <2>3. at' = <<i2, i3, i4, i5, e>>
    BY <1>2, <1>3, <1>6, <2>1 DEF DoubledTwoChars
  <2>4. /\ i1 \in Nat /\ i2 \in Nat /\ i3 \in Nat /\ i4 \in Nat /\ i5 \in Nat /\ e \in Nat
        /\ i5 <= e /\ e <= Len(W) /\ i4 <= e /\ i2 <= i4 /\ i4 <= Len(W)
    <3>1. /\ i1 \in 0 .. Len(W) /\ i2 \in 0 .. Len(W) /\ i3 \in 0 .. Len(W)
          /\ i4 \in 0 .. Len(W) /\ i5 \in 0 .. Len(W) /\ e \in 0 .. Len(W)
      BY <1>4
    <3>2. QED
      BY <1>3, <2>1, <3>1
  <2>5. AtStage("doubled_two_chars")'
    <3>1. AtFive'
      BY <1>1, <1>3, <2>1, <2>3, <2>4, SameSetting DEF AtFive
    <3>2. QED
      BY <3>1 DEF AtStage
  <2>6. CASE Untried
    <3>1. Grows /\ Sums' /\ word' = W
      BY <1>1, <1>2, <2>6, UntriedKeeps DEF Untried
    <3>2. QED
      BY <1>1, <2>5, <3>1, KeptWord
  <2>7. CASE /\ Part(W, i1, i2) = Part(W, i3, i4) /\ Part(W, i2, i3) = Part(W, i4, i5)
             /\ Part(W, i1, i2) = Part(W, i5, e)
             /\ Try(erased) /\ word' = Spliced(erased, i4, 0, Part(erased, i2, i4))
    <3>1. PICK n \in Nat : n = e - i4 /\ i4 + n = e
      BY <2>4
    <3>2. erased = Spliced(W, i4, n, <<>>)
      BY <2>2, <3>1
    <3>3. n \in 0 .. Len(W) - i4 /\ i4 \in 0 .. Len(W) /\ <<>> \in Seq(Byte)
      BY <2>4, <3>1, EmptySeq
    <3>4. erased \in Text
      BY <1>2, <3>1, <3>2, SplicedText, LetterIsText DEF Here
    <3>5. Part(W, i2, i4) = Part(W, i4, e)
      <4>1. Part(W, i2, i4) = Part(W, i2, i3) \o Part(W, i3, i4)
        <5>1. i2 <= i3 /\ i3 <= i4 /\ i4 <= Len(W)
          BY <1>3, <2>4
        <5>2. W \in Seq(Byte) /\ i2 \in Nat /\ i3 \in Nat /\ i4 \in Nat
          BY <1>4, <2>4
        <5>3. QED
          BY <5>1, <5>2, PartJoin
      <4>2. Part(W, i4, e) = Part(W, i4, i5) \o Part(W, i5, e)
        <5>1. i4 <= i5 /\ i5 <= e /\ e <= Len(W)
          BY <1>3, <2>4
        <5>2. W \in Seq(Byte) /\ i4 \in Nat /\ i5 \in Nat /\ e \in Nat
          BY <1>4, <2>4
        <5>3. QED
          BY <5>1, <5>2, PartJoin
      <4>3. QED
        BY <2>7, <4>1, <4>2
    <3>6. Part(erased, i2, i4) = Part(W, i2, i4)
      <4>1. IsSpliced(erased, Byte, W, i4, n, <<>>)
        BY <1>4, <3>2, <3>3, SplicedFacts
      <4>2. /\ erased \in Seq(Byte) /\ Len(erased) = Len(W) - n
            /\ \A k \in 1 .. i4 : erased[k] = W[k]
        <5>1. Len(<<>>) = 0 /\ Len(W) - n + 0 = Len(W) - n
          BY <1>4
        <5>2. \A k \in 1 .. i4 : k \in 1 .. Len(W) - n /\ k <= i4
          BY <1>4, <2>4, <3>1
        <5>3. QED
          BY <4>1, <5>1, <5>2 DEF IsSpliced
      <4>3. PICK p : p = Part(erased, i2, i4)
        OBVIOUS
      <4>4. PICK q : q = Part(W, i2, i4)
        OBVIOUS
      <4>5. p \in Seq(Byte) /\ Len(p) = i4 - i2 /\ \A k \in 1 .. i4 - i2 : p[k] = erased[i2 + k]
        <5>1. i2 \in 0 .. Len(erased) /\ i4 \in i2 .. Len(erased)
          BY <1>4, <2>4, <3>1, <4>2
        <5>2. QED
          BY <4>2, <4>3, <5>1, PartFacts
      <4>6. q \in Seq(Byte) /\ Len(q) = i4 - i2 /\ \A k \in 1 .. i4 - i2 : q[k] = W[i2 + k]
        <5>1. i2 \in 0 .. Len(W) /\ i4 \in i2 .. Len(W)
          BY <1>4, <2>4
        <5>2. QED
          BY <1>4, <4>4, <5>1, PartFacts
      <4>7. ASSUME NEW k \in 1 .. i4 - i2 PROVE p[k] = q[k]
        <5>1. i2 + k \in 1 .. i4
          BY <2>4
        <5>2. QED
          BY <4>2, <4>5, <4>6, <5>1
      <4>8. p = q
        BY <4>5, <4>6, <4>7, SeqEqual
      <4>9. QED
        BY <4>3, <4>4, <4>8
    <3>7. word' = W
      <4>1. Spliced(erased, i4, Len(<<>>), Part(W, i4, i4 + n)) = W
        BY <1>4, <3>2, <3>3, SplicedBack
      <4>2. Len(<<>>) = 0
        OBVIOUS
      <4>3. QED
        BY <2>7, <3>1, <3>5, <3>6, <4>1, <4>2
    <3>8. Grows /\ Sums'
      <4>1. TryAll(<<erased>>) /\ <<erased>> \in Seq(Text)
        BY <2>7, <3>4 DEF Try
      <4>2. QED
        BY <1>1, <1>2, <4>1, FreeKeeps DEF Budgeted
    <3>9. QED
      BY <1>1, <2>5, <3>7, <3>8, KeptWord
  <2>8. QED
    <3>1. at[1] = i1 /\ at[2] = i2 /\ at[3] = i3 /\ at[4] = i4 /\ at[5] = i5
      BY <1>3
    <3>2. QED
      BY <1>2, <1>6, <2>1, <2>2, <2>6, <2>7, <3>1 DEF DoubledTwoChars
<1>7. QED
  BY <1>5, <1>6

(* What try_rep_suggestion() asks the checker about a phrase is what its      *)
(* parts before the last space are.                                         *)
LEMMA PhraseIsKnown ==
  ASSUME NEW w \in Seq(Byte), IsPhrase(w)
  PROVE  /\ Spaces(w) # {}
         /\ \A p \in DOMAIN w : \A q \in p .. Len(w) - 1 :
              (/\ w[q + 1] = " " /\ (p = 1 \/ w[p - 1] = " ")
               /\ \A m \in p .. q : w[m] # " ")
              => SubSeq(w, p, q) \in aff.known
<1>1. Spaces(w) # {}
  BY DEF IsPhrase
<1>2. ASSUME NEW p \in DOMAIN w, NEW q \in p .. Len(w) - 1, w[q + 1] = " ",
             p = 1 \/ w[p - 1] = " ", \A m \in p .. q : w[m] # " "
      PROVE  SubSeq(w, p, q) \in aff.known
  <2>1. Len(w) \in Nat /\ p \in 1 .. Len(w) /\ q \in Nat /\ p <= q /\ q <= Len(w) - 1
    OBVIOUS
  <2> DEFINE space == " "
  <2>9. PICK sp : sp = space
    OBVIOUS
  <2>10. /\ Spaces(w) = {k \in 1 .. Len(w) : w[k] = sp}
         /\ w[q + 1] = sp /\ (p = 1 \/ w[p - 1] = sp) /\ \A m \in p .. q : w[m] # sp
    BY <1>2, <2>9 DEF Spaces
  <2> HIDE DEF space
  <2>2. q + 1 \in Spaces(w)
    BY <2>1, <2>10
  <2>3. PICK b : b = {k \in Spaces(w) : k < q + 1}
    OBVIOUS
  <2>4. \A k \in b : k \in 1 .. p - 1
    BY <2>1, <2>3, <2>10
  <2>5. SubSeq(w, (IF b = {} THEN 0 ELSE CHOOSE k \in b : \A m \in b : m <= k) + 1, (q + 1) - 1)
           \in aff.known
    BY <2>2, <2>3 DEF IsPhrase
  <2>6. (IF b = {} THEN 0 ELSE CHOOSE k \in b : \A m \in b : m <= k) = p - 1
    <3>1. CASE p = 1
      <4>1. b = {}
        BY <2>4, <3>1
      <4>2. QED
        BY <3>1, <4>1
    <3>2. CASE p # 1
      <4>1. p - 1 \in b
        BY <2>1, <2>3, <2>10, <3>2
      <4>2. \A m \in b : m <= p - 1
        BY <2>1, <2>4
      <4>3. \A k \in b : (\A m \in b : m <= k) => k = p - 1
        BY <2>1, <2>4, <4>1
      <4>4. QED
        BY <4>1, <4>2, <4>3
    <3>3. QED
      BY <3>1, <3>2
  <2>7. (p - 1) + 1 = p /\ (q + 1) - 1 = q
    BY <2>1
  <2>8. QED
    BY <2>5, <2>6, <2>7
<1>3. QED
  BY <1>1, <1>2

LEMMA RepPlace ==
  ASSUME IInv, In("rep")
  PROVE  /\ "rep" \in Names /\ word = W /\ Constant /\ Stages[stage] = "rep"
         /\ \E list \in 1 .. 4 : \E e \in Nat \ {0} : \E p \in Nat : at = <<list, e, p>>
<1>1. "rep" \in Names
  BY DEF Names
<1>2. word = W /\ Constant /\ Stages[stage] = "rep" /\ AtStage("rep")
  BY <1>1, InStage
<1>3. QED
  BY <1>1, <1>2 DEF AtStage, AtEntry

LEMMA RepNextListKeeps ==
  ASSUME IInv, RepNextList
  PROVE  IInv'
<1>1. In("rep") /\ Fixed /\ Free /\ Untried
  BY DEF RepNextList
<1>2. "rep" \in Names /\ word = W /\ Constant
  BY <1>1, RepPlace
<1>3. PICK list \in 1 .. 4 : \E e \in Nat \ {0} : \E p \in Nat : at = <<list, e, p>>
  BY <1>1, RepPlace
<1>4. Grows /\ Sums' /\ word' = W
  BY <1>1, <1>2, UntriedKeeps DEF Untried
<1>5. CASE list = 4
  <2>1. at' = Over
    BY <1>3, <1>5 DEF RepNextList
  <2>2. QED
    BY <1>1, <1>2, <1>4, <2>1, KeptWord
<1>6. CASE list # 4
  <2>1. list + 1 \in 1 .. 4 /\ 1 \in Nat \ {0} /\ 0 \in Nat
    BY <1>6
  <2>2. at' = <<list + 1, 1, 0>>
    BY <1>3, <1>6 DEF RepNextList
  <2>3. AtStage("rep")'
    BY <2>1, <2>2 DEF AtStage, AtEntry
  <2>4. QED
    BY <1>1, <1>2, <1>4, <2>3, KeptWord
<1>7. QED
  BY <1>5, <1>6

(* A place that rep_suggest() finds is one of letters.                       *)
LEMMA RepFacts ==
  ASSUME Constant, word = W, NEW list \in 1 .. 4, NEW e \in Nat \ {0}, NEW p0 \in Nat,
         at = <<list, e, p0>>, e <= Len(aff.reps[list]), NEW p \in RepPlaces
  PROVE  /\ p \in Nat /\ Entry[1] \in Text /\ Entry[2] \in Text
         /\ Changed(p, Entry[1], Entry[2]) \in Text
         /\ Restored(Changed(p, Entry[1], Entry[2]), p, Entry[2], Entry[1]) = W
         /\ Changed(p, Entry[1], Entry[2]) \in RepEdits(list)
<1>1. PICK r : r = aff.reps[list][e]
  OBVIOUS
<1>2. Entry = r /\ at[1] = list /\ at[3] = p0
  BY <1>1 DEF Entry
<1>3. r \in Text \X Text /\ (list # 1 => r[1] # <<>>) /\ r \in Range(aff.reps[list])
  <2>1. CASE list = 1
    <3>1. aff.reps[list] \in Seq(Text \X Text)
      BY <2>1, SettingsAssumption DEF Constant, aff
    <3>2. QED
      BY <1>1, <2>1, <3>1 DEF Range
  <2>2. CASE list # 1
    <3>1. list \in 2 .. 4
      BY <2>2
    <3>2. aff.reps[list] \in Seq((Text \ {<<>>}) \X Text)
      BY <3>1, SettingsAssumption DEF Constant, aff
    <3>3. QED
      BY <1>1, <3>2 DEF Range
  <2>3. QED
    BY <2>1, <2>2
<1>4. PICK from \in Text, to \in Text : from = r[1] /\ to = r[2]
  BY <1>3
<1>5. Len(W) \in Nat /\ Len(W) # 0 /\ Len(from) \in Nat /\ W \in Text /\ W \in Seq(Byte)
  BY WFacts, StartFacts
<1>6. /\ p \in p0 .. Len(W) - Len(from) /\ IsAt(W, p, from)
      /\ list \in {1, 2} => p = 0
      /\ list \in {1, 3} => p = Len(W) - Len(from)
  BY <1>2, <1>4 DEF RepPlaces
<1>7. p \in Nat /\ p + Len(from) <= Len(W)
  BY <1>5, <1>6
<1>8. p \in Here /\ p + Len(from) \in Here /\ p <= p + Len(from)
  <2>1. from # <<>>
    <3>1. CASE list = 1
      <4>1. 0 = Len(W) - Len(from)
        BY <1>6, <3>1
      <4>2. Len(from) # 0
        BY <1>5, <4>1
      <4>3. QED
        BY <4>2
    <3>2. CASE list # 1
      BY <1>3, <1>4, <3>2
    <3>3. QED
      BY <3>1, <3>2
  <2>2. p \in Starts(W) /\ p + Len(from) \in Starts(W)
    BY <1>5, <1>6, <1>7, <2>1, OccurrenceStarts
  <2>3. QED
    BY <1>5, <1>7, <2>2 DEF Here
<1>9. from = Part(W, p, p + Len(from))
  BY <1>6 DEF IsAt
<1>10. Changed(p, from, to) \in Text /\ Restored(Changed(p, from, to), p, to, from) = W
  BY <1>8, <1>9, ChangedFacts
<1>11. Changed(p, from, to) \in RepEdits(list)
  <2>1. Changed(p, from, to) = SubSeq(W, 1, p) \o to \o SubSeq(W, p + Len(from) + 1, Len(W))
    BY DEF Changed, Spliced, Part
  <2>2. p \in 0 .. Len(W) - Len(from) /\ SubSeq(W, p + 1, p + Len(from)) = from
    BY <1>5, <1>7, <1>9 DEF Part
  <2>3. list \in {1, 3} => p + Len(from) = Len(W)
    BY <1>5, <1>6, <1>7
  <2> DEFINE places(x) == {q \in 0 .. Len(W) - Len(x[1]) :
                               /\ SubSeq(W, q + 1, q + Len(x[1])) = x[1]
                               /\ list \in {1, 2} => q = 0
                               /\ list \in {1, 3} => q + Len(x[1]) = Len(W)}
             edits(x) == {SubSeq(W, 1, q) \o x[2] \o SubSeq(W, q + Len(x[1]) + 1, Len(W)) :
                            q \in places(x)}
  <2>4. p \in places(r)
    BY <1>4, <1>6, <2>2, <2>3
  <2>5. Changed(p, from, to) \in edits(r)
    <3> HIDE DEF places
    <3>1. QED
      BY <1>4, <2>1, <2>4
  <2>6. RepEdits(list) = UNION {edits(x) : x \in Range(aff.reps[list])}
    BY DEF RepEdits, W
  <2>7. QED
    <3> HIDE DEF edits
    <3>1. QED
      BY <1>3, <2>5, <2>6
<1>12. QED
  BY <1>2, <1>4, <1>7, <1>10, <1>11

LEMMA RepKeeps ==
  ASSUME IInv, Rep
  PROVE  IInv'
<1>1. In("rep") /\ Fixed /\ Free /\ at[2] <= Len(aff.reps[at[1]])
  BY DEF Rep
<1>2. "rep" \in Names /\ word = W /\ Constant /\ Stages[stage] = "rep"
  BY <1>1, RepPlace
<1>3. PICK list \in 1 .. 4 : \E e \in Nat \ {0} : \E p \in Nat : at = <<list, e, p>>
  BY <1>1, RepPlace
<1>4. PICK e \in Nat \ {0} : \E p \in Nat : at = <<list, e, p>>
  BY <1>3
<1>5. PICK p0 \in Nat : at = <<list, e, p0>>
  BY <1>4
<1>6. ASSUME NEW p \in Nat, at' = <<list, e, p>> \/ NextEntry
      PROVE  AtStage("rep")'
  <2>1. e + 1 \in Nat \ {0} /\ 0 \in Nat
    OBVIOUS
  <2>2. at' = <<list, e, p>> \/ at' = <<list, e + 1, 0>>
    BY <1>5, <1>6 DEF NextEntry
  <2>3. AtEntry'
    BY <2>1, <2>2 DEF AtEntry
  <2>4. QED
    BY <2>3 DEF AtStage
<1>7. CASE RepPlaces = {} /\ NextEntry /\ Untried
  <2>1. Grows /\ Sums' /\ word' = W
    BY <1>1, <1>2, <1>7, UntriedKeeps DEF Untried
  <2>2. QED
    BY <1>1, <1>2, <1>6, <1>7, <2>1, KeptWord
<1>8. ASSUME NEW p \in RepPlaces, NEW w, w = Changed(p, Entry[1], Entry[2]),
             tried' = Append(tried, w),
             out' = (IF w \in aff.ok \/ IsPhrase(w) THEN Append(out, w) ELSE out),
             word' = Restored(w, p, Entry[2], Entry[1]),
             IF at[1] = 4 THEN at' = <<4, at[2], p + 1>> ELSE NextEntry
      PROVE  IInv'
  <2>1. p \in Nat /\ w \in Text /\ word' = W /\ w \in RepEdits(list)
    <3>1. e <= Len(aff.reps[list])
      BY <1>1, <1>5
    <3>2. QED
      BY <1>2, <1>5, <1>8, <3>1, RepFacts
  <2>2. w \in Seq(Byte) /\ out \in Seq(Seq(Byte)) /\ Len(out) \in Nat
    BY <2>1 DEF Text, IInv, Suggested
  <2>3. Grows
    <3>1. CASE w \in aff.ok \/ IsPhrase(w)
      <4>1. CASE w \in aff.ok
        <5>1. IsKnown(w)
          BY <4>1 DEF IsKnown
        <5>2. QED
          BY <1>8, <3>1, <2>2, <5>1, AppendGrows DEF Grows
      <4>2. CASE IsPhrase(w)
        <5>1. IsKnown(w)
          BY <2>1, <2>2, <4>2, PhraseIsKnown DEF IsKnown
        <5>2. QED
          BY <1>8, <3>1, <2>2, <5>1, AppendGrows DEF Grows
      <4>3. QED
        BY <3>1, <4>1, <4>2
    <3>2. CASE ~(w \in aff.ok \/ IsPhrase(w))
      BY <1>8, <2>2, <3>2 DEF Grows, Grown
    <3>3. QED
      BY <3>1, <3>2
  <2>4. Sums'
    <3>1. tried' \in Seq(Text)
      BY <1>8, <2>1, AppendProperties DEF IInv, Sums
    <3>2. QED
      BY <1>1, <1>2, <3>1, SameSetting DEF IInv, Sums, Fixed, Free, Budgeted
  <2>5. AtStage("rep")'
    <3>1. CASE list = 4
      <4>1. p + 1 \in Nat /\ at' = <<list, e, p + 1>>
        BY <1>5, <1>8, <2>1, <3>1
      <4>2. QED
        BY <1>6, <4>1
    <3>2. CASE list # 4
      BY <1>5, <1>6, <1>8, <2>1, <3>2
    <3>3. QED
      BY <3>1, <3>2
  <2>6. QED
    BY <1>1, <1>2, <2>1, <2>3, <2>4, <2>5, KeptWord
<1>9. QED
  BY <1>7, <1>8 DEF Rep

(* Two letters that have been exchanged are exchanged again.                *)
LEMMA SwapThereAndBack ==
  ASSUME NEW s \in Text, NEW f \in Starts(s), NEW m \in Starts(s), NEW l \in Starts(s),
         f <= m, m <= l,
         NEW there, there = SwapAdjacent(s, f, m, l),
         NEW back, back = SwapAdjacent(there.str, f, there.i2, l)
  PROVE  there.str \in Text /\ back.str = s /\ back.i2 = m
<1>1. IsSwap(there, s, f, m, l)
  BY SwapText
<1>2. /\ there.str = Rotate(s, f, m, l) /\ there.str \in Text /\ Len(there.str) = Len(s)
      /\ there.i2 = f + (l - m) /\ f <= there.i2 /\ there.i2 <= l
  BY <1>1 DEF IsSwap
<1>3. f \in Nat /\ m \in Nat /\ l \in Nat /\ l <= Len(s) /\ there.i2 \in Nat
  <2>1. Starts(s) \subseteq 0 .. Len(s) /\ Len(s) \in Nat
    BY StartFacts
  <2>2. QED
    BY <1>2, <2>1
<1>4. there.str \in Seq(Byte)
  BY <1>2 DEF Text
<1>5. /\ SwapAdjacent(there.str, f, there.i2, l).str = Rotate(there.str, f, there.i2, l)
      /\ SwapAdjacent(there.str, f, there.i2, l).i2 = f + (l - there.i2)
  BY <1>2, <1>3, <1>4, SwapAdjacentRotates
<1>6. /\ Rotate(Rotate(s, f, m, l), f, f + (l - m), l) = s
      /\ f + (l - (f + (l - m))) = m
  BY SwapTextBack
<1>7. QED
  BY <1>2, <1>5, <1>6

(* Two exchanges in parts that do not overlap: the first is undone first.   *)
AreApart(s, ba, cd, m, g, e) ==
    /\ cd.str \in Text /\ ba.str \in Text /\ ba.i2 = m
    /\ \A k \in Starts(s) : k <= g => k \in Starts(ba.str)
    /\ SwapAdjacent(ba.str, g, cd.i2, e).str = s
LEMMA SwapsApart ==
  ASSUME NEW s \in Text, NEW f \in Starts(s), NEW m \in Starts(s), NEW l \in Starts(s),
         NEW g \in Starts(s), NEW n \in Starts(s), NEW e \in Starts(s),
         f <= m, m <= l, l <= g, g <= n, n <= e,
         NEW ab, ab = SwapAdjacent(s, f, m, l),
         NEW cd, cd = SwapAdjacent(ab.str, g, n, e),
         NEW ba, ba = SwapAdjacent(cd.str, f, ab.i2, l)
  PROVE  AreApart(s, ba, cd, m, g, e)
<1>1. /\ f \in Nat /\ m \in Nat /\ l \in Nat /\ g \in Nat /\ n \in Nat /\ e \in Nat
      /\ e <= Len(s) /\ l <= n /\ l <= e /\ s \in Seq(Byte) /\ l <= Len(s)
  <2>1. Starts(s) \subseteq 0 .. Len(s) /\ Len(s) \in Nat /\ s \in Seq(Byte)
    BY StartFacts
  <2>2. QED
    BY <2>1
<1>2. IsSwap(ab, s, f, m, l)
  BY SwapText
<1>3. /\ ab.str = Rotate(s, f, m, l) /\ ab.str \in Text /\ ab.i2 = f + (l - m)
      /\ g \in Starts(ab.str) /\ n \in Starts(ab.str) /\ e \in Starts(ab.str)
  BY <1>1, <1>2 DEF IsSwap
<1>4. IsSwap(cd, ab.str, g, n, e)
  BY <1>3, SwapText
<1>5. cd.str = Rotate(ab.str, g, n, e) /\ cd.str \in Text /\ cd.i2 = g + (e - n)
  BY <1>4 DEF IsSwap
<1>6. PICK t : t = Rotate(s, g, n, e)
  OBVIOUS
<1>7. /\ t \in Text /\ Len(t) = Len(s) /\ t \in Seq(Byte)
      /\ \A k \in Starts(s) : k <= g \/ e <= k => k \in Starts(t)
  BY <1>6, RotateText DEF Text
<1>8. cd.str = Rotate(t, f, m, l)
  <2>1. /\ f \in Nat /\ m \in Nat /\ l \in Nat /\ g \in Nat /\ n \in Nat /\ e \in Nat
        /\ f <= m /\ m <= l /\ l <= g /\ g <= n /\ n <= e /\ e <= Len(s)
        /\ s \in Seq(Byte)
    BY <1>1
  <2>2. Rotate(Rotate(s, g, n, e), f, m, l) = Rotate(Rotate(s, f, m, l), g, n, e)
    BY <2>1, RotateApart, SMTT(30)
  <2>3. QED
    BY <1>3, <1>5, <1>6, <2>2
<1>9. ab.i2 \in Nat /\ f <= ab.i2 /\ ab.i2 <= l
  BY <1>1, <1>3
<1>10. ba.str = t /\ ba.i2 = m
  <2>1. cd.str \in Seq(Byte) /\ Len(cd.str) = Len(s)
    BY <1>1, <1>7, <1>8, RotateFacts
  <2>2. /\ SwapAdjacent(cd.str, f, ab.i2, l).str = Rotate(cd.str, f, ab.i2, l)
        /\ SwapAdjacent(cd.str, f, ab.i2, l).i2 = f + (l - ab.i2)
    <3>1. l <= Len(cd.str)
      BY <1>1, <2>1
    <3>2. PICK u \in Seq(Byte), b \in Nat : u = cd.str /\ b = ab.i2
      BY <1>9, <2>1
    <3>3. f <= b /\ b <= l /\ l <= Len(u)
      BY <1>9, <3>1, <3>2
    <3>4. /\ SwapAdjacent(u, f, b, l).str = Rotate(u, f, b, l)
          /\ SwapAdjacent(u, f, b, l).i2 = f + (l - b)
      BY <1>1, <3>3, SwapAdjacentRotates
    <3>5. QED
      BY <3>2, <3>4
  <2>3. Rotate(Rotate(t, f, m, l), f, f + (l - m), l) = t
    BY <1>1, <1>7, RotateBack
  <2>4. f + (l - (f + (l - m))) = m
    BY <1>1
  <2>5. QED
    BY <1>3, <1>8, <2>2, <2>3, <2>4
<1>11. SwapAdjacent(t, g, cd.i2, e).str = s
  <2>1. cd.i2 \in Nat /\ g <= cd.i2 /\ cd.i2 <= e
    BY <1>1, <1>5
  <2>2. SwapAdjacent(t, g, cd.i2, e).str = Rotate(t, g, cd.i2, e)
    <3>1. PICK b \in Nat : b = cd.i2 /\ g <= b /\ b <= e /\ e <= Len(t)
      BY <1>1, <1>7, <2>1
    <3>2. SwapAdjacent(t, g, b, e).str = Rotate(t, g, b, e)
      <4>1. t \in Seq(Byte) /\ g \in Nat /\ e \in Nat
        BY <1>1, <1>7
      <4>2. QED
        BY <3>1, <4>1, SwapAdjacentRotates
    <3>3. QED
      BY <3>1, <3>2
  <2>3. Rotate(Rotate(s, g, n, e), g, g + (e - n), e) = s
    BY <1>1, RotateBack
  <2>4. QED
    BY <1>5, <1>6, <2>2, <2>3
<1>12. QED
  BY <1>5, <1>7, <1>10, <1>11 DEF AreApart

LEMMA AdjacentSwapKeeps ==
  ASSUME IInv, AdjacentSwap
  PROVE  IInv'
<1>1. In("adjacent_swap") /\ Fixed /\ Free /\ "adjacent_swap" \in Names /\ at[2] # Len(word)
  BY DEF AdjacentSwap, Names
<1>2. /\ word = W /\ Constant /\ Stages[stage] = "adjacent_swap" /\ W \in Text
      /\ AtStage("adjacent_swap")
  BY <1>1, InStage, WFacts
<1>3. PICK i1, i2 \in Here : i1 < i2 /\ at = <<i1, i2>>
  BY <1>2 DEF AtStage, AtTwo
<1>4. PICK i3 \in Here : i3 = Advance(W, i2) /\ i2 < i3
  BY <1>1, <1>2, <1>3, LetterHere
<1>5. PICK there : there = SwapAdjacent(W, i1, i2, i3)
  OBVIOUS
<1>6. PICK back : back = SwapAdjacent(there.str, i1, there.i2, i3)
  OBVIOUS
<1>7. Try(there.str) /\ word' = back.str /\ at' = <<back.i2, i3>>
  BY <1>2, <1>3, <1>4, <1>5, <1>6 DEF AdjacentSwap
<1>8. there.str \in Text /\ back.str = W /\ back.i2 = i2
  <2>1. i1 <= i2 /\ i2 <= i3
    <3>1. i1 \in Nat /\ i2 \in Nat /\ i3 \in Nat
      BY <1>2, StartFacts DEF Here
    <3>2. QED
      BY <1>3, <1>4, <3>1
  <2>2. QED
    BY <1>2, <1>5, <1>6, <2>1, SwapThereAndBack DEF Here
<1>9. Grows /\ Sums'
  <2>1. TryAll(<<there.str>>) /\ <<there.str>> \in Seq(Text)
    BY <1>7, <1>8 DEF Try
  <2>2. QED
    BY <1>1, <1>2, <2>1, FreeKeeps DEF Budgeted
<1>10. AtStage("adjacent_swap")'
  <2>1. AtTwo'
    BY <1>1, <1>4, <1>7, <1>8, SameSetting DEF AtTwo
  <2>2. QED
    BY <2>1 DEF AtStage
<1>11. QED
  BY <1>1, <1>7, <1>8, <1>9, <1>10, KeptWord

LEMMA SwapTwiceKeeps ==
  ASSUME IInv, SwapTwice
  PROVE  IInv'
<1>1. In("adjacent_swap") /\ Fixed /\ Free /\ "adjacent_swap" \in Names /\ at' = Over
  BY DEF SwapTwice, Names
<1>2. word = W /\ Constant /\ Stages[stage] = "adjacent_swap" /\ W \in Text
  BY <1>1, InStage, WFacts
<1>3. /\ 0 \in Here /\ Place2 \in Here /\ Place3 \in Here /\ Place4 \in Here
      /\ Place5 \in Here /\ Place6 \in Here
  BY <1>2, FirstLetter DEF Place2, Place3, Place4, Place5, Place6
<1>4. /\ 0 <= Place2 /\ Place2 <= Place3 /\ Place3 <= Place4 /\ Place4 <= Place5
      /\ Place5 <= Place6
  BY <1>2, <1>3, FirstLetter DEF Place2, Place3, Place4, Place5, Place6
<1>5. ASSUME NEW ws \in Seq(Text), TryAll(ws), word' = W PROVE IInv'
  <2>1. Grows /\ Sums'
    BY <1>1, <1>2, <1>5, FreeKeeps DEF Budgeted
  <2>2. QED
    BY <1>1, <1>5, <2>1, KeptWord
<1>6. CASE Untried
  <2>1. Grows /\ Sums' /\ word' = W
    BY <1>1, <1>2, <1>6, UntriedKeeps DEF Untried
  <2>2. QED
    BY <1>1, <2>1, KeptWord
<1>7. ASSUME NEW ab, ab = SwapAdjacent(W, 0, Place2, Place3),
             NEW cd, cd = SwapAdjacent(ab.str, Place3, Place4, Place5),
             NEW ba, ba = SwapAdjacent(cd.str, 0, ab.i2, Place3),
             Try(cd.str), word' = SwapAdjacent(ba.str, Place3, cd.i2, Place5).str
      PROVE  IInv'
  <2>1. Place3 <= Place3
    BY <1>2, <1>3, StartFacts DEF Here
  <2>2. cd.str \in Text /\ SwapAdjacent(ba.str, Place3, cd.i2, Place5).str = W
    <3>1. /\ 0 \in Starts(W) /\ Place2 \in Starts(W) /\ Place3 \in Starts(W)
          /\ Place4 \in Starts(W) /\ Place5 \in Starts(W)
      BY <1>3 DEF Here
    <3>2. AreApart(W, ba, cd, Place2, Place3, Place5)
      BY <1>2, <1>4, <1>7, <2>1, <3>1, SwapsApart
    <3>3. QED
      BY <3>2 DEF AreApart
  <2>3. TryAll(<<cd.str>>) /\ <<cd.str>> \in Seq(Text)
    BY <1>7, <2>2 DEF Try
  <2>4. QED
    BY <1>5, <1>7, <2>2, <2>3
<1>8. CASE \E ab \in {SwapAdjacent(word, 0, Place2, Place3)} :
           \E cd \in {SwapAdjacent(ab.str, Place3, Place4, Place5)} :
           \E ba \in {SwapAdjacent(cd.str, 0, ab.i2, Place3)} :
              Try(cd.str) /\ word' = SwapAdjacent(ba.str, Place3, cd.i2, Place5).str
  <2>1. PICK ab \in {SwapAdjacent(word, 0, Place2, Place3)} :
           \E cd \in {SwapAdjacent(ab.str, Place3, Place4, Place5)} :
           \E ba \in {SwapAdjacent(cd.str, 0, ab.i2, Place3)} :
              Try(cd.str) /\ word' = SwapAdjacent(ba.str, Place3, cd.i2, Place5).str
    BY <1>8
  <2>2. PICK cd \in {SwapAdjacent(ab.str, Place3, Place4, Place5)} :
           \E ba \in {SwapAdjacent(cd.str, 0, ab.i2, Place3)} :
              Try(cd.str) /\ word' = SwapAdjacent(ba.str, Place3, cd.i2, Place5).str
    BY <2>1
  <2>3. PICK ba \in {SwapAdjacent(cd.str, 0, ab.i2, Place3)} :
              Try(cd.str) /\ word' = SwapAdjacent(ba.str, Place3, cd.i2, Place5).str
    BY <2>2
  <2>4. /\ ab = SwapAdjacent(W, 0, Place2, Place3)
        /\ cd = SwapAdjacent(ab.str, Place3, Place4, Place5)
        /\ ba = SwapAdjacent(cd.str, 0, ab.i2, Place3)
    BY <1>2
  <2>5. QED
    BY <1>7, <2>3, <2>4
<1>9. CASE \E ab \in {SwapAdjacent(word, 0, Place2, Place3)} :
            \E de \in {SwapAdjacent(ab.str, Place4, Place5, Place6)} :
            \E ba \in {SwapAdjacent(de.str, 0, ab.i2, Place3)} :
            \E bc \in {SwapAdjacent(ba.str, ba.i2, Place3, Place4)} :
            \E cb \in {SwapAdjacent(bc.str, ba.i2, bc.i2, Place4)} :
              /\ TryAll(<<de.str, bc.str>>)
              /\ word' = SwapAdjacent(cb.str, Place4, de.i2, Place6).str
  <2>1. PICK ab \in {SwapAdjacent(word, 0, Place2, Place3)} :
            \E de \in {SwapAdjacent(ab.str, Place4, Place5, Place6)} :
            \E ba \in {SwapAdjacent(de.str, 0, ab.i2, Place3)} :
            \E bc \in {SwapAdjacent(ba.str, ba.i2, Place3, Place4)} :
            \E cb \in {SwapAdjacent(bc.str, ba.i2, bc.i2, Place4)} :
              /\ TryAll(<<de.str, bc.str>>)
              /\ word' = SwapAdjacent(cb.str, Place4, de.i2, Place6).str
    BY <1>9
  <2>2. PICK de \in {SwapAdjacent(ab.str, Place4, Place5, Place6)} :
            \E ba \in {SwapAdjacent(de.str, 0, ab.i2, Place3)} :
            \E bc \in {SwapAdjacent(ba.str, ba.i2, Place3, Place4)} :
            \E cb \in {SwapAdjacent(bc.str, ba.i2, bc.i2, Place4)} :
              /\ TryAll(<<de.str, bc.str>>)
              /\ word' = SwapAdjacent(cb.str, Place4, de.i2, Place6).str
    BY <2>1
  <2>3. PICK ba \in {SwapAdjacent(de.str, 0, ab.i2, Place3)} :
            \E bc \in {SwapAdjacent(ba.str, ba.i2, Place3, Place4)} :
            \E cb \in {SwapAdjacent(bc.str, ba.i2, bc.i2, Place4)} :
              /\ TryAll(<<de.str, bc.str>>)
              /\ word' = SwapAdjacent(cb.str, Place4, de.i2, Place6).str
    BY <2>2
  <2>4. PICK bc \in {SwapAdjacent(ba.str, ba.i2, Place3, Place4)} :
            \E cb \in {SwapAdjacent(bc.str, ba.i2, bc.i2, Place4)} :
              /\ TryAll(<<de.str, bc.str>>)
              /\ word' = SwapAdjacent(cb.str, Place4, de.i2, Place6).str
    BY <2>3
  <2>5. PICK cb \in {SwapAdjacent(bc.str, ba.i2, bc.i2, Place4)} :
              /\ TryAll(<<de.str, bc.str>>)
              /\ word' = SwapAdjacent(cb.str, Place4, de.i2, Place6).str
    BY <2>4
  <2>6. /\ ab = SwapAdjacent(W, 0, Place2, Place3)
        /\ de = SwapAdjacent(ab.str, Place4, Place5, Place6)
        /\ ba = SwapAdjacent(de.str, 0, ab.i2, Place3)
        /\ bc = SwapAdjacent(ba.str, ba.i2, Place3, Place4)
        /\ cb = SwapAdjacent(bc.str, ba.i2, bc.i2, Place4)
    BY <1>2
  <2>7. /\ de.str \in Text /\ ba.str \in Text /\ ba.i2 = Place2
        /\ \A k \in Here : k <= Place4 => k \in Starts(ba.str)
        /\ SwapAdjacent(ba.str, Place4, de.i2, Place6).str = W
    <3>1. /\ 0 \in Starts(W) /\ Place2 \in Starts(W) /\ Place3 \in Starts(W)
          /\ Place4 \in Starts(W) /\ Place5 \in Starts(W) /\ Place6 \in Starts(W)
      BY <1>3 DEF Here
    <3>2. AreApart(W, ba, de, Place2, Place4, Place6)
      BY <1>2, <1>4, <2>5, <2>6, <3>1, SwapsApart
    <3>3. QED
      BY <3>2 DEF AreApart, Here
  <2>8. Place2 <= Place4 /\ Place4 <= Place4
    <3>1. Place2 \in Nat /\ Place3 \in Nat /\ Place4 \in Nat
      BY <1>2, <1>3, StartFacts DEF Here
    <3>2. QED
      BY <1>4, <3>1
  <2>9. Place2 \in Starts(ba.str) /\ Place3 \in Starts(ba.str) /\ Place4 \in Starts(ba.str)
    BY <1>3, <1>4, <2>7, <2>8
  <2>10. bc.str \in Text /\ cb.str = ba.str
    <3>1. /\ bc = SwapAdjacent(ba.str, Place2, Place3, Place4)
          /\ cb = SwapAdjacent(bc.str, Place2, bc.i2, Place4)
      BY <2>5, <2>6, <2>7
    <3>2. QED
      BY <1>4, <2>7, <2>9, <3>1, SwapThereAndBack
  <2>11. <<de.str, bc.str>> \in Seq(Text)
    BY <2>7, <2>10
  <2>12. QED
    BY <1>5, <2>5, <2>6, <2>7, <2>10, <2>11
<1>10. QED
  BY <1>6, <1>8, <1>9 DEF SwapTwice

LEMMA DistantSwapOuterKeeps ==
  ASSUME IInv, DistantSwapOuter
  PROVE  IInv'
<1>1. In("distant_swap") /\ Fixed /\ Free /\ "distant_swap" \in Names /\ Untried /\ Len(at) = 2
  BY DEF DistantSwapOuter, Names
<1>2. /\ word = W /\ Constant /\ Stages[stage] = "distant_swap" /\ W \in Text
      /\ AtStage("distant_swap") /\ word' = W
  BY <1>1, InStage, WFacts DEF Untried
<1>3. PICK i1, i2 \in Here : i1 < i2 /\ at = <<i1, i2>>
  <2>1. AtTwo \/ AtFour
    BY <1>2 DEF AtStage
  <2>2. ~AtFour
    BY <1>1 DEF AtFour
  <2>3. QED
    BY <2>1, <2>2 DEF AtTwo
<1>4. Grows /\ Sums'
  BY <1>1, UntriedKeeps DEF Untried
<1>5. CASE i2 = Len(W)
  <2>1. at' = Over
    BY <1>2, <1>3, <1>5 DEF DistantSwapOuter
  <2>2. QED
    BY <1>1, <1>2, <1>4, <2>1, KeptWord
<1>6. CASE i2 # Len(W)
  <2>1. PICK i3 \in Here : i3 = Advance(W, i2) /\ i2 < i3
    BY <1>2, <1>6, LetterHere
  <2>2. i3 <= i3
    BY <1>2, StartFacts DEF Here
  <2>3. at' = <<i1, i2, i3, i3>>
    BY <1>2, <1>3, <1>6, <2>1 DEF DistantSwapOuter
  <2>4. AtFour'
    BY <1>1, <1>3, <2>1, <2>2, <2>3, SameSetting DEF AtFour
  <2>5. AtStage("distant_swap")'
    BY <2>4 DEF AtStage
  <2>6. QED
    BY <1>1, <1>2, <1>4, <2>5, KeptWord
<1>7. QED
  BY <1>5, <1>6

LEMMA DistantSwapKeeps ==
  ASSUME IInv, DistantSwap
  PROVE  IInv'
<1>1. In("distant_swap") /\ Fixed /\ "distant_swap" \in Names /\ Len(at) = 4
  BY DEF DistantSwap, Names
<1>2. /\ word = W /\ Constant /\ Stages[stage] = "distant_swap" /\ W \in Text
      /\ AtStage("distant_swap")
  BY <1>1, InStage, WFacts
<1>3. PICK i1, i2, i3, j \in Here : i1 < i2 /\ i2 < i3 /\ i3 <= j /\ at = <<i1, i2, i3, j>>
  <2>1. AtTwo \/ AtFour
    BY <1>2 DEF AtStage
  <2>2. ~AtTwo
    BY <1>1 DEF AtTwo
  <2>3. QED
    BY <2>1, <2>2 DEF AtFour
<1>4. CASE at' = <<i2, i3>> /\ Untried /\ Free
  <2>1. Grows /\ Sums' /\ word' = W
    BY <1>1, <1>2, <1>4, UntriedKeeps DEF Untried
  <2>2. AtTwo'
    BY <1>1, <1>3, <1>4, SameSetting DEF AtTwo
  <2>3. AtStage("distant_swap")'
    BY <2>2 DEF AtStage
  <2>4. QED
    BY <1>1, <2>1, <2>3, KeptWord
<1>5. CASE Exhausted /\ Untried
  <2>1. Grows /\ Sums' /\ word' = W /\ at' = Over
    BY <1>1, <1>2, <1>5, ExhaustedKeeps DEF Untried
  <2>2. QED
    BY <1>1, <2>1, KeptWord
<1>6. ASSUME j # Len(W), Spend, NEW j2, j2 = Advance(W, j),
             NEW there, there = SwapCp(W, i1, i2, j, j2),
             Try(there.str), word' = SwapCp(there.str, i1, there.i2, there.j1, j2).str,
             at' = <<i1, i2, i3, j2>>
      PROVE  IInv'
  <2>1. j2 \in Here /\ j < j2
    BY <1>2, <1>6, LetterHere
  <2>2. /\ i1 \in Nat /\ i2 \in Nat /\ j \in Nat /\ j2 \in Nat
        /\ i1 <= i2 /\ i2 <= j /\ j <= j2 /\ j2 <= Len(W) /\ W \in Seq(Byte) /\ i3 <= j2
    <3>1. Here \subseteq 0 .. Len(W) /\ Len(W) \in Nat /\ W \in Seq(Byte)
      BY <1>2, StartFacts DEF Here
    <3>2. i1 \in Nat /\ i2 \in Nat /\ i3 \in Nat /\ j \in Nat /\ j2 \in Nat /\ j2 <= Len(W)
      BY <2>1, <3>1
    <3>3. QED
      BY <1>3, <2>1, <3>1, <3>2
  <2>3. there.str \in Text
    BY <1>2, <1>6, <2>1, <2>2, SwapCpText DEF Here
  <2>4. word' = W
    BY <1>6, <2>2, SwapCpBack
  <2>5. Grows /\ Sums'
    BY <1>1, <1>6, <2>3, SpendKeeps
  <2>6. AtFour'
    BY <1>1, <1>3, <1>6, <2>1, <2>2, SameSetting DEF AtFour
  <2>7. AtStage("distant_swap")'
    BY <2>6 DEF AtStage
  <2>8. QED
    BY <1>1, <2>4, <2>5, <2>7, KeptWord
<1>7. QED
  <2>1. at[1] = i1 /\ at[2] = i2 /\ at[3] = i3 /\ at[4] = j
    BY <1>3
  <2>2. QED
    BY <1>2, <1>4, <1>5, <1>6, <2>1 DEF DistantSwap

(* While a letter moves, only a place of the move itself can be left behind. *)
LEMMA KeptMoving ==
  ASSUME IInv, Fixed, In("move_char"), Grows, Sums',
         \/ at' = Over /\ word' = W
         \/ at' # Over /\ (AtForward' \/ OnForward' \/ AtBack' \/ OnBack')
  PROVE  IInv'
<1>1. "move_char" \in Names
  BY DEF Names
<1>2. Stages[stage] = "move_char"
  BY <1>1, InStage
<1>3. Unchanged'
  BY <1>2, SameSetting DEF Unchanged, Over
<1>4. at' = Over \/ AtStage("move_char")'
  BY DEF AtStage
<1>5. QED
  BY <1>1, <1>2, <1>3, <1>4, Kept

LEMMA MovePlace ==
  ASSUME IInv, In("move_char")
  PROVE  /\ Stages[stage] = "move_char" /\ Constant /\ W \in Text /\ W \in Seq(Byte)
         /\ Len(W) \in Nat /\ Len(W) # 0 /\ Here \subseteq 0 .. Len(W) /\ Len(W) \in Here
         /\ AtForward \/ OnForward \/ AtBack \/ OnBack
<1>1. "move_char" \in Names
  BY DEF Names
<1>2. Stages[stage] = "move_char" /\ Constant /\ AtStage("move_char")
  BY <1>1, InStage
<1>3. W \in Text /\ W \in Seq(Byte) /\ Len(W) \in Nat /\ Len(W) # 0
  BY <1>2, WFacts, StartFacts
<1>4. Here \subseteq 0 .. Len(W) /\ Len(W) \in Here
  BY <1>3, StartFacts DEF Here
<1>5. QED
  BY <1>2, <1>3, <1>4 DEF AtStage

(* The misspelled word with two of its parts exchanged.                      *)
IsMoved(s, f, m, l) ==
    /\ s \in Text /\ s \in Seq(Byte) /\ Len(s) = Len(W)
    /\ Rotate(s, f, f + (l - m), l) = W
    /\ f \in Starts(s) /\ f + (l - m) \in Starts(s) /\ l \in Starts(s)
    /\ \A k \in Here : l <= k => k \in Starts(s)
    /\ \A k \in Here : l <= k /\ k # Len(W) => Advance(s, k) = Advance(W, k)
    /\ \A k \in Starts(s) : k <= f => k \in Here
LEMMA MovedFacts ==
  ASSUME W \in Text, NEW f \in Here, NEW m \in Here, NEW l \in Here, f <= m, m <= l
  PROVE  IsMoved(Rotate(W, f, m, l), f, m, l)
<1>1. /\ W \in Seq(Byte) /\ Len(W) \in Nat /\ f \in Nat /\ m \in Nat /\ l \in Nat /\ l <= Len(W)
      /\ Here \subseteq 0 .. Len(W) /\ f \in Starts(W) /\ m \in Starts(W) /\ l \in Starts(W)
  <2>1. W \in Seq(Byte) /\ Len(W) \in Nat /\ Here \subseteq 0 .. Len(W)
    BY StartFacts DEF Here
  <2>2. f \in 0 .. Len(W) /\ m \in 0 .. Len(W) /\ l \in 0 .. Len(W)
    BY <2>1
  <2>3. QED
    BY <2>1, <2>2 DEF Here
<1>2. PICK s : s = Rotate(W, f, m, l)
  OBVIOUS
<1>3. /\ s \in Text /\ Len(s) = Len(W) /\ f + (l - m) \in Starts(s)
      /\ \A k \in Starts(W) : k <= f \/ l <= k => k \in Starts(s)
      /\ \A k \in 0 .. f : k \in Starts(s) <=> k \in Starts(W)
  BY <1>1, <1>2, RotateText
<1>4. s \in Seq(Byte) /\ f \in Starts(s) /\ l \in Starts(s) /\ \A k \in Here : l <= k => k \in Starts(s)
  BY <1>1, <1>3 DEF Text, Here
<1>5. Rotate(s, f, f + (l - m), l) = W
  BY <1>1, <1>2, RotateBack
<1>6. ASSUME NEW k \in Here, l <= k, k # Len(W) PROVE Advance(s, k) = Advance(W, k)
  <2>1. k \in Nat /\ k + 1 \in 1 .. Len(W) /\ l < k + 1
    BY <1>1, <1>6
  <2>2. s[k + 1] = RotatedAt(W, f, m, l, k + 1)
    BY <1>1, <1>2, <2>1, RotateFacts
  <2>3. s[k + 1] = W[k + 1]
    BY <2>1, <2>2 DEF RotatedAt
  <2>4. QED
    BY <2>3 DEF Advance, WidthAt
<1>7. ASSUME NEW k \in Starts(s), k <= f PROVE k \in Here
  <2>1. k \in Nat
    BY <1>3, StartFacts
  <2>2. k \in 0 .. f
    BY <1>1, <1>7, <2>1
  <2>3. QED
    BY <1>3, <2>2 DEF Here
<1>8. QED
  BY <1>2, <1>3, <1>4, <1>5, <1>6, <1>7 DEF IsMoved

LEMMA MoveForwardKeeps ==
  ASSUME IInv, MoveForward
  PROVE  IInv'
<1>1. In("move_char") /\ Fixed /\ Free /\ at[1] = "forward" /\ Len(at) = 3
  BY DEF MoveForward
<1>2. /\ Constant /\ W \in Text /\ Len(W) # 0 /\ Len(W) \in Here /\ Here \subseteq 0 .. Len(W)
      /\ Len(W) \in Nat
  BY <1>1, MovePlace
<1>3. AtForward
  <2>1. ~OnForward /\ ~OnBack
    BY <1>1 DEF OnForward, OnBack
  <2>2. ~AtBack
    BY <1>1 DEF AtBack
  <2>3. QED
    BY <1>1, <2>1, <2>2, MovePlace
<1>4. PICK i1, i2 \in Here : i1 < i2 /\ at = <<"forward", i1, i2>> /\ word = W
  BY <1>3 DEF AtForward
<1>5. Grows /\ Sums'
  BY <1>1, UntriedKeeps DEF MoveForward
<1>6. CASE i2 = Len(W)
  <2>1. Reverse1(W, Len(W)) \in Here /\ Reverse1(W, Len(W)) < Len(W)
    BY <1>2, ReverseFacts DEF Here
  <2>2. at' = <<"back", Reverse1(W, Len(W)), Len(W)>> /\ word' = W
    BY <1>4, <1>6 DEF MoveForward
  <2>3. AtBack' /\ at' # Over
    BY <1>1, <1>2, <2>1, <2>2, SameSetting DEF AtBack, Over
  <2>4. QED
    BY <1>1, <1>5, <2>3, KeptMoving
<1>7. CASE i2 # Len(W)
  <2>1. PICK i3 \in Here : i3 = Advance(W, i2) /\ i2 < i3
    <3>1. Advance(W, i2) \in Here /\ i2 < Advance(W, i2)
      BY <1>2, <1>7, StartFacts DEF Here
    <3>2. QED
      BY <3>1
  <2>2. PICK moved : moved = SwapAdjacent(W, i1, i2, i3)
    OBVIOUS
  <2>3. i1 <= i2 /\ i2 <= i3 /\ i3 <= i3
    <3>1. i1 \in Nat /\ i2 \in Nat /\ i3 \in Nat
      BY <1>2
    <3>2. QED
      BY <1>4, <2>1, <3>1
  <2>4. moved.str = Rotate(W, i1, i2, i3) /\ moved.i2 = i1 + (i3 - i2)
    <3>1. IsSwap(moved, W, i1, i2, i3)
      BY <1>2, <2>2, <2>3, SwapText DEF Here
    <3>2. QED
      BY <3>1 DEF IsSwap
  <2>5. word' = Rotate(W, i1, i2, i3) /\ at' = <<"forward", i1, i2, i3, i1 + (i3 - i2), i3>>
    BY <1>4, <1>7, <2>1, <2>2, <2>4 DEF MoveForward
  <2>6. OnForward' /\ at' # Over
    BY <1>1, <1>4, <2>1, <2>3, <2>5, SameSetting DEF OnForward, Over
  <2>7. QED
    BY <1>1, <1>5, <2>6, KeptMoving
<1>8. QED
  BY <1>6, <1>7

LEMMA MoveOnForwardKeeps ==
  ASSUME IInv, MoveOnForward
  PROVE  IInv'
<1>1. In("move_char") /\ Fixed /\ at[1] = "forward" /\ Len(at) = 6
  BY DEF MoveOnForward
<1>2. /\ Constant /\ W \in Text /\ W \in Seq(Byte) /\ Here \subseteq 0 .. Len(W)
      /\ Len(W) \in Nat
  BY <1>1, MovePlace
<1>3. OnForward
  <2>1. ~AtForward /\ ~AtBack
    BY <1>1 DEF AtForward, AtBack
  <2>2. ~OnBack
    BY <1>1 DEF OnBack
  <2>3. QED
    BY <1>1, <2>1, <2>2, MovePlace
<1>4. PICK i1, i2, i3, j2 \in Here :
        /\ i1 < i2 /\ i2 < i3 /\ i3 <= j2
        /\ at = <<"forward", i1, i2, i3, i1 + (j2 - i2), j2>> /\ word = Rotate(W, i1, i2, j2)
  BY <1>3 DEF OnForward
<1>5. /\ i1 \in Nat /\ i2 \in Nat /\ i3 \in Nat /\ j2 \in Nat /\ j2 <= Len(W)
      /\ i1 <= i2 /\ i2 <= j2
  <2>1. i1 \in 0 .. Len(W) /\ i2 \in 0 .. Len(W) /\ i3 \in 0 .. Len(W) /\ j2 \in 0 .. Len(W)
    BY <1>2
  <2>2. QED
    BY <1>4, <2>1
<1>6. IsMoved(word, i1, i2, j2)
  BY <1>2, <1>4, <1>5, MovedFacts
<1>7. CASE /\ j2 = Len(word)
           /\ word' = Rotate(word, i1, Len(word) - (i2 - i1), Len(word))
           /\ at' = <<"forward", i2, i3>> /\ UNCHANGED <<tried, out>> /\ Free
  <2>1. Len(word) - (i2 - i1) = i1 + (j2 - i2)
    BY <1>5, <1>7
  <2>2. word' = W
    BY <1>6, <1>7, <2>1 DEF IsMoved
  <2>3. AtForward' /\ at' # Over
    BY <1>1, <1>4, <1>7, <2>2, SameSetting DEF AtForward, Over
  <2>4. Grows /\ Sums'
    BY <1>1, <1>7, UntriedKeeps
  <2>5. QED
    BY <1>1, <2>3, <2>4, KeptMoving
<1>8. CASE Exhausted /\ word' = ForwardReverted /\ UNCHANGED <<tried, out>>
  <2>1. ForwardReverted = Rotate(word, i1, i1 + (j2 - i2), j2)
    BY <1>4 DEF ForwardReverted
  <2>2. word' = W
    BY <1>6, <1>8, <2>1 DEF IsMoved
  <2>3. Grows /\ Sums' /\ at' = Over
    BY <1>1, <1>8, ExhaustedKeeps
  <2>4. QED
    BY <1>1, <2>2, <2>3, KeptMoving
<1>9. ASSUME j2 # Len(word), Spend, NEW j3, j3 = Advance(word, j2),
             NEW moved, moved = SwapAdjacent(word, i1 + (j2 - i2), j2, j3),
             Try(moved.str), word' = moved.str,
             at' = <<"forward", i1, i2, i3, moved.i2, j3>>
      PROVE  IInv'
  <2>1. Len(word) = Len(W) /\ word \in Text /\ j2 \in Starts(word) /\ i1 + (j2 - i2) \in Starts(word)
    BY <1>6 DEF IsMoved
  <2>2. j3 \in Here /\ j2 < j3 /\ j3 \in Starts(word) /\ j3 \in Nat /\ j3 <= Len(W)
    <3>1. j3 = Advance(W, j2)
      BY <1>5, <1>6, <1>9, <2>1 DEF IsMoved
    <3>2. j3 \in Here /\ j2 < j3
      BY <1>2, <1>9, <2>1, <3>1, StartFacts DEF Here
    <3>3. j3 \in Nat /\ j3 <= Len(W) /\ j2 <= j3
      BY <1>2, <1>5, <3>2
    <3>4. QED
      BY <1>6, <3>2, <3>3 DEF IsMoved
  <2>3. PICK b \in Nat : b = i1 + (j2 - i2) /\ b <= j2 /\ j2 <= j3
    BY <1>5, <2>2
  <2>4. IsSwap(moved, word, b, j2, j3)
    BY <1>9, <2>1, <2>2, <2>3, SwapText
  <2>5. moved.str = Rotate(word, b, j2, j3) /\ moved.str \in Text /\ moved.i2 = b + (j3 - j2)
    BY <2>4 DEF IsSwap
  <2>6. moved.str = Rotate(W, i1, i2, j3)
    <3>1. Rotate(Rotate(W, i1, i2, j2), i1 + (j2 - i2), j2, j3) = Rotate(W, i1, i2, j3)
      BY <1>2, <1>5, <2>2, <2>3, RotateOn
    <3>2. QED
      BY <1>4, <2>3, <2>5, <3>1
  <2>7. moved.i2 = i1 + (j3 - i2)
    BY <1>5, <2>2, <2>3, <2>5
  <2>8. OnForward' /\ at' # Over
    <3>1. i3 <= j3
      BY <1>4, <1>5, <2>2
    <3>2. QED
      BY <1>1, <1>4, <1>9, <2>2, <2>6, <2>7, <3>1, SameSetting DEF OnForward, Over
  <2>9. Grows /\ Sums'
    BY <1>1, <1>9, <2>5, SpendKeeps
  <2>10. QED
    BY <1>1, <2>8, <2>9, KeptMoving
<1>10. QED
  <2>1. at[2] = i1 /\ at[3] = i2 /\ at[4] = i3 /\ at[5] = i1 + (j2 - i2) /\ at[6] = j2
    BY <1>4
  <2>2. QED
    BY <1>7, <1>8, <1>9, <2>1 DEF MoveOnForward

LEMMA MoveBackKeeps ==
  ASSUME IInv, MoveBack
  PROVE  IInv'
<1>1. In("move_char") /\ Fixed /\ Free /\ at[1] = "back" /\ Len(at) = 3
  BY DEF MoveBack
<1>2. Constant /\ W \in Text /\ Here \subseteq 0 .. Len(W) /\ Len(W) \in Nat
  BY <1>1, MovePlace
<1>3. AtBack
  <2>1. ~OnForward /\ ~OnBack
    BY <1>1 DEF OnForward, OnBack
  <2>2. ~AtForward
    BY <1>1 DEF AtForward
  <2>3. QED
    BY <1>1, <2>1, <2>2, MovePlace
<1>4. PICK i2, i3 \in Here : i2 < i3 /\ at = <<"back", i2, i3>> /\ word = W
  BY <1>3 DEF AtBack
<1>5. Grows /\ Sums'
  BY <1>1, UntriedKeeps DEF MoveBack
<1>6. CASE i2 = 0
  <2>1. at' = Over /\ word' = W
    BY <1>4, <1>6 DEF MoveBack
  <2>2. QED
    BY <1>1, <1>5, <2>1, KeptMoving
<1>7. CASE i2 # 0
  <2>1. PICK i1 \in Here : i1 = Reverse1(W, i2) /\ i1 < i2
    BY <1>2, <1>7, ReverseFacts DEF Here
  <2>2. PICK moved : moved = SwapAdjacent(W, i1, i2, i3)
    OBVIOUS
  <2>3. i1 <= i2 /\ i2 <= i3 /\ i1 <= i1
    <3>1. i1 \in Nat /\ i2 \in Nat /\ i3 \in Nat
      BY <1>2
    <3>2. QED
      BY <1>4, <2>1, <3>1
  <2>4. moved.str = Rotate(W, i1, i2, i3) /\ moved.i2 = i1 + (i3 - i2)
    <3>1. IsSwap(moved, W, i1, i2, i3)
      BY <1>2, <2>2, <2>3, SwapText DEF Here
    <3>2. QED
      BY <3>1 DEF IsSwap
  <2>5. word' = Rotate(W, i1, i2, i3) /\ at' = <<"back", i2, i3, i1, i1, i1 + (i3 - i2)>>
    BY <1>4, <1>7, <2>1, <2>2, <2>4 DEF MoveBack
  <2>6. OnBack' /\ at' # Over
    BY <1>1, <1>4, <2>1, <2>3, <2>5, SameSetting DEF OnBack, Over
  <2>7. QED
    BY <1>1, <1>5, <2>6, KeptMoving
<1>8. QED
  BY <1>6, <1>7

LEMMA MoveOnBackKeeps ==
  ASSUME IInv, MoveOnBack
  PROVE  IInv'
<1>1. In("move_char") /\ Fixed /\ at[1] = "back" /\ Len(at) = 6
  BY DEF MoveOnBack
<1>2. /\ Constant /\ W \in Text /\ W \in Seq(Byte) /\ Here \subseteq 0 .. Len(W)
      /\ Len(W) \in Nat
  BY <1>1, MovePlace
<1>3. OnBack
  <2>1. ~AtForward /\ ~AtBack
    BY <1>1 DEF AtForward, AtBack
  <2>2. ~OnForward
    BY <1>1 DEF OnForward
  <2>3. QED
    BY <1>1, <2>1, <2>2, MovePlace
<1>4. PICK i1, i2, i3, j1 \in Here :
        /\ j1 <= i1 /\ i1 < i2 /\ i2 < i3
        /\ at = <<"back", i2, i3, i1, j1, j1 + (i3 - i2)>> /\ word = Rotate(W, j1, i2, i3)
  BY <1>3 DEF OnBack
<1>5. /\ i1 \in Nat /\ i2 \in Nat /\ i3 \in Nat /\ j1 \in Nat /\ i3 <= Len(W)
      /\ j1 <= i2 /\ i2 <= i3
  <2>1. i1 \in 0 .. Len(W) /\ i2 \in 0 .. Len(W) /\ i3 \in 0 .. Len(W) /\ j1 \in 0 .. Len(W)
    BY <1>2
  <2>2. QED
    BY <1>4, <2>1
<1>6. IsMoved(word, j1, i2, i3)
  BY <1>2, <1>4, <1>5, MovedFacts
<1>7. CASE /\ j1 = 0 /\ word' = Rotate(word, 0, i3 - i2, i3)
           /\ at' = <<"back", i1, i2>> /\ UNCHANGED <<tried, out>> /\ Free
  <2>1. i3 - i2 = j1 + (i3 - i2)
    BY <1>5, <1>7
  <2>2. word' = W
    BY <1>6, <1>7, <2>1 DEF IsMoved
  <2>3. AtBack' /\ at' # Over
    BY <1>1, <1>4, <1>7, <2>2, SameSetting DEF AtBack, Over
  <2>4. Grows /\ Sums'
    BY <1>1, <1>7, UntriedKeeps
  <2>5. QED
    BY <1>1, <2>3, <2>4, KeptMoving
<1>8. CASE /\ Exhausted /\ word' = Rotate(word, j1, j1 + (i3 - i2), i3)
           /\ UNCHANGED <<tried, out>>
  <2>1. word' = W
    BY <1>6, <1>8 DEF IsMoved
  <2>2. Grows /\ Sums' /\ at' = Over
    BY <1>1, <1>8, ExhaustedKeeps
  <2>3. QED
    BY <1>1, <2>1, <2>2, KeptMoving
<1>9. ASSUME j1 # 0, Spend, NEW k, k = Reverse1(word, j1),
             NEW moved, moved = SwapAdjacent(word, k, j1, j1 + (i3 - i2)),
             Try(moved.str), word' = moved.str,
             at' = <<"back", i2, i3, i1, k, moved.i2>>
      PROVE  IInv'
  <2>1. word \in Text /\ j1 \in Starts(word) /\ j1 + (i3 - i2) \in Starts(word)
    BY <1>6 DEF IsMoved
  <2>2. k \in Starts(word) /\ k < j1
    BY <1>9, <2>1, ReverseFacts
  <2>3. k \in Nat /\ k <= j1 /\ k \in Here
    <3>1. k \in Nat
      BY <2>1, <2>2, StartFacts
    <3>2. k <= j1
      BY <1>5, <2>2, <3>1
    <3>3. QED
      BY <1>6, <2>2, <3>1, <3>2 DEF IsMoved
  <2>4. PICK b \in Nat : b = j1 + (i3 - i2) /\ j1 <= b
    BY <1>5
  <2>5. IsSwap(moved, word, k, j1, b)
    BY <1>9, <2>1, <2>2, <2>3, <2>4, SwapText
  <2>6. moved.str = Rotate(word, k, j1, b) /\ moved.str \in Text /\ moved.i2 = k + (b - j1)
    BY <2>5 DEF IsSwap
  <2>7. moved.str = Rotate(W, k, i2, i3)
    <3>1. Rotate(Rotate(W, j1, i2, i3), k, j1, j1 + (i3 - i2)) = Rotate(W, k, i2, i3)
      BY <1>2, <1>5, <2>3, RotateOnBack
    <3>2. QED
      BY <1>4, <2>4, <2>6, <3>1
  <2>8. moved.i2 = k + (i3 - i2)
    BY <1>5, <2>3, <2>4, <2>6
  <2>9. OnBack' /\ at' # Over
    <3>1. k <= i1
      BY <1>4, <1>5, <2>3
    <3>2. QED
      BY <1>1, <1>4, <1>9, <2>3, <2>7, <2>8, <3>1, SameSetting DEF OnBack, Over
  <2>10. Grows /\ Sums'
    BY <1>1, <1>9, <2>6, SpendKeeps
  <2>11. QED
    BY <1>1, <2>9, <2>10, KeptMoving
<1>10. QED
  <2>1. at[2] = i2 /\ at[3] = i3 /\ at[4] = i1 /\ at[5] = j1 /\ at[6] = j1 + (i3 - i2)
    BY <1>4
  <2>2. QED
    BY <1>7, <1>8, <1>9, <2>1 DEF MoveOnBack

-----------------------------------------------------------------------------
(* What map_suggest() may put for what is valid UTF-8.                       *)
LEMMA PairsAreTexts ==
  ASSUME NEW from \in Text, NEW tos \in Seq(Text)
  PROVE  Pairs(from, tos) \in Seq(Text \X Text)
<1>1. Len(tos) \in Nat /\ DOMAIN tos = 1 .. Len(tos)
  OBVIOUS
<1>2. ASSUME NEW k \in 1 .. Len(tos) PROVE <<from, tos[k]>> \in Text \X Text
  OBVIOUS
<1>3. QED
  BY <1>1, <1>2 DEF Pairs

LEMMA GroupPairsAreTexts ==
  ASSUME NEW e, e.chars \in Seq(Letter), e.strings \in Seq(Text)
  PROVE  GroupPairs(e) \in Seq(Text \X Text)
<1> DEFINE P == Text \X Text
           charPairs == [k \in DOMAIN e.chars |->
                           IF \E m \in 1 .. k - 1 : e.chars[m] = e.chars[k] THEN <<>>
                           ELSE Pairs(e.chars[k], RemoveAt(e.chars, k) \o e.strings)]
           others(k) == [m \in DOMAIN e.strings |->
                           IF e.strings[m] = e.strings[k] THEN <<>> ELSE <<e.strings[m]>>]
           stringPairs == [k \in DOMAIN e.strings |->
                             Pairs(e.strings[k], e.chars \o FlattenSeq(others(k)))]
<1>1. PICK chars \in Seq(Text) : chars = e.chars
  BY LetterIsText, SeqMonotonic
<1>2. PICK strings \in Seq(Text) : strings = e.strings
  OBVIOUS
<1>3. <<>> \in Seq(P)
  BY EmptySeq
<1>4. charPairs \in Seq(Seq(P))
  <2>1. Len(chars) \in Nat /\ DOMAIN chars = 1 .. Len(chars)
    OBVIOUS
  <2>2. ASSUME NEW k \in 1 .. Len(chars)
        PROVE  (IF \E m \in 1 .. k - 1 : e.chars[m] = e.chars[k] THEN <<>>
                ELSE Pairs(e.chars[k], RemoveAt(e.chars, k) \o e.strings)) \in Seq(P)
    <3>1. chars[k] \in Text
      OBVIOUS
    <3>2. RemoveAt(chars, k) \in Seq(Text)
      <4>1. SubSeq(chars, 1, k - 1) \in Seq(Text) /\ SubSeq(chars, k + 1, Len(chars)) \in Seq(Text)
        BY <2>1, SubSeqProperties
      <4>2. QED
        BY <4>1, ConcatProperties DEF RemoveAt
    <3>3. RemoveAt(chars, k) \o strings \in Seq(Text)
      BY <3>2, ConcatProperties
    <3>4. Pairs(chars[k], RemoveAt(chars, k) \o strings) \in Seq(P)
      BY <3>1, <3>3, PairsAreTexts
    <3> HIDE DEF P
    <3>5. QED
      BY <1>1, <1>2, <1>3, <3>4
  <2> HIDE DEF P
  <2>3. QED
    BY <1>1, <2>1, <2>2
<1>5. stringPairs \in Seq(Seq(P))
  <2>1. Len(strings) \in Nat /\ DOMAIN strings = 1 .. Len(strings)
    OBVIOUS
  <2>2. ASSUME NEW k \in 1 .. Len(strings)
        PROVE  Pairs(e.strings[k], e.chars \o FlattenSeq(others(k))) \in Seq(P)
    <3>1. others(k) \in Seq(Seq(Text))
      <4>1. ASSUME NEW m \in 1 .. Len(strings)
            PROVE  (IF e.strings[m] = e.strings[k] THEN <<>> ELSE <<e.strings[m]>>) \in Seq(Text)
        <5>1. strings[m] \in Text
          OBVIOUS
        <5>2. <<strings[m]>> \in Seq(Text) /\ <<>> \in Seq(Text)
          BY <5>1, EmptySeq
        <5>3. QED
          BY <1>2, <5>2
      <4>2. QED
        BY <1>2, <2>1, <4>1
    <3>2. FlattenSeq(others(k)) \in Seq(Text)
      <4> HIDE DEF others
      <4>1. QED
        BY <3>1, FlattenSequence
    <3>3. chars \o FlattenSeq(others(k)) \in Seq(Text)
      <4> HIDE DEF others
      <4>1. QED
        BY <3>2, ConcatProperties
    <3>4. strings[k] \in Text
      OBVIOUS
    <3> HIDE DEF others
    <3>5. QED
      BY <1>1, <1>2, <3>3, <3>4, PairsAreTexts
  <2> HIDE DEF P, others
  <2>3. QED
    BY <1>2, <2>1, <2>2
<1>6. GroupPairs(e) = FlattenSeq(charPairs) \o FlattenSeq(stringPairs)
  BY DEF GroupPairs
<1>7. FlattenSeq(charPairs) \in Seq(P) /\ FlattenSeq(stringPairs) \in Seq(P)
  <2> HIDE DEF P, charPairs, stringPairs
  <2>1. QED
    BY <1>4, <1>5, FlattenSequence
<1>8. FlattenSeq(charPairs) \o FlattenSeq(stringPairs) \in Seq(P)
  <2> HIDE DEF P, charPairs, stringPairs
  <2>1. QED
    BY <1>7, ConcatProperties
<1>9. QED
  BY <1>6, <1>8

LEMMA AllPairsAreTexts ==
  ASSUME Constant
  PROVE  AllPairs[setting] \in Seq(Text \X Text)
<1>1. PICK groups : groups = aff.similarities
  OBVIOUS
<1>2. /\ groups \in Seq(Range(groups))
      /\ \A e \in Range(groups) : e.chars \in Seq(Letter) /\ e.strings \in Seq(Text)
  BY <1>1, SettingsAssumption DEF Constant, aff
<1>3. PICK all : all = [g \in DOMAIN groups |-> GroupPairs(groups[g])]
  OBVIOUS
<1>4. all \in Seq(Seq(Text \X Text))
  <2>1. Len(groups) \in Nat /\ DOMAIN groups = 1 .. Len(groups)
    BY <1>2, LenProperties
  <2>2. ASSUME NEW g \in 1 .. Len(groups) PROVE GroupPairs(groups[g]) \in Seq(Text \X Text)
    <3>1. groups[g] \in Range(groups)
      BY <2>1 DEF Range
    <3>2. QED
      BY <1>2, <3>1, GroupPairsAreTexts
  <2>3. QED
    BY <1>3, <2>1, <2>2
<1>5. AllPairs[setting] = FlattenSeq(all)
  BY <1>1, <1>3 DEF AllPairs, aff, Constant
<1>6. QED
  BY <1>4, <1>5, FlattenSequence

(* A frame in the place of the last one.                                     *)
LEMMA LastFrame ==
  ASSUME NEW frames \in Seq(Call), frames # <<>>, NEW c \in Call
  PROVE  /\ Append(Front(frames), c) \in Seq(Call)
         /\ Len(Append(Front(frames), c)) = Len(frames)
         /\ \A m \in 1 .. Len(frames) - 1 : Append(Front(frames), c)[m] = frames[m]
         /\ Append(Front(frames), c)[Len(frames)] = c
<1>1. Len(frames) \in Nat \ {0}
  BY EmptySeq
<1>2. /\ Front(frames) \in Seq(Call) /\ Len(Front(frames)) = Len(frames) - 1
      /\ \A m \in 1 .. Len(frames) - 1 : Front(frames)[m] = frames[m]
  BY FrontFacts
<1>3. PICK f \in Seq(Call) : f = Front(frames)
  BY <1>2
<1>4. PICK n \in Nat : n = Len(frames) - 1 /\ n + 1 = Len(frames)
  BY <1>1
<1>5. /\ Append(f, c) \in Seq(Call) /\ Len(Append(f, c)) = n + 1
      /\ \A m \in 1 .. n : Append(f, c)[m] = f[m]
      /\ Append(f, c)[n + 1] = c
  BY <1>2, <1>3, <1>4, AppendProperties
<1>6. QED
  BY <1>2, <1>3, <1>4, <1>5

(* The calls are what they were when only their own replacements go on.      *)
LEMMA SameCalls ==
  ASSUME NEW found, NEW frames, IsFound(found, frames), NEW other \in Seq(Call),
         Len(other) = Len(frames),
         \A m \in 1 .. Len(frames) : other[m].i = frames[m].i /\ other[m].undo = frames[m].undo
  PROVE  IsFound(found, other)
<1>1. PICK n \in Nat : n = Len(frames)
  BY DEF IsFound
<1>2. ASSUME NEW k \in 1 .. n, NEW m \in 1 .. k
      PROVE  other[m].i \in Starts(found[k]) /\ other[m].i <= other[k].i
  BY <1>1, <1>2 DEF IsFound
<1>3. ASSUME NEW k \in 1 .. n - 1
      PROVE  /\ other[k + 1].undo \in Text \X Text
             /\ IsAt(found[k], other[k].i, other[k + 1].undo[1])
             /\ found[k + 1] = Spliced(found[k], other[k].i, Len(other[k + 1].undo[1]),
                                       other[k + 1].undo[2])
  <2>1. k \in 1 .. n /\ k + 1 \in 1 .. n
    OBVIOUS
  <2>2. other[k].i = frames[k].i /\ other[k + 1].undo = frames[k + 1].undo
    BY <1>1, <2>1
  <2>3. QED
    BY <1>1, <2>2 DEF IsFound
<1>4. QED
  BY <1>1, <1>2, <1>3 DEF IsFound

(* A call returns.                                                           *)
LEMMA FewerCalls ==
  ASSUME NEW found, NEW frames, IsFound(found, frames), NEW n \in 1 .. Len(frames),
         NEW other \in Seq(Call), Len(other) = n,
         \A m \in 1 .. n : other[m].i = frames[m].i /\ other[m].undo = frames[m].undo
  PROVE  IsFound(SubSeq(found, 1, n), other) /\ SubSeq(found, 1, n)[n] = found[n]
<1>1. found \in Seq(Text) /\ frames \in Seq(Call) /\ Len(found) = Len(frames) /\ Len(frames) \in Nat
  BY DEF IsFound
<1>2. PICK f : f = SubSeq(found, 1, n)
  OBVIOUS
<1>3. f \in Seq(Text) /\ Len(f) = n /\ \A m \in 1 .. n : f[m] = found[m]
  BY <1>1, <1>2, SubSeqProperties
<1>4. ASSUME NEW k \in 1 .. n, NEW m \in 1 .. k
      PROVE  other[m].i \in Starts(f[k]) /\ other[m].i <= other[k].i
  <2>1. k \in 1 .. Len(frames) /\ m \in 1 .. n
    BY <1>1
  <2>2. frames[m].i \in Starts(found[k]) /\ frames[m].i <= frames[k].i
    BY <2>1 DEF IsFound
  <2>3. QED
    BY <1>3, <2>1, <2>2
<1>5. ASSUME NEW k \in 1 .. n - 1
      PROVE  /\ other[k + 1].undo \in Text \X Text
             /\ IsAt(f[k], other[k].i, other[k + 1].undo[1])
             /\ f[k + 1] = Spliced(f[k], other[k].i, Len(other[k + 1].undo[1]),
                                   other[k + 1].undo[2])
  <2>1. k \in 1 .. n /\ k + 1 \in 1 .. n /\ k \in 1 .. Len(frames) - 1
    BY <1>1
  <2>2. other[k].i = frames[k].i /\ other[k + 1].undo = frames[k + 1].undo
    BY <2>1
  <2>3. /\ frames[k + 1].undo \in Text \X Text
        /\ IsAt(found[k], frames[k].i, frames[k + 1].undo[1])
        /\ found[k + 1] = Spliced(found[k], frames[k].i, Len(frames[k + 1].undo[1]),
                                  frames[k + 1].undo[2])
    BY <2>1 DEF IsFound
  <2>4. QED
    BY <1>3, <2>1, <2>2, <2>3
<1>6. f[1] = W
  <2>1. 1 \in 1 .. n
    BY <1>1
  <2>2. QED
    BY <1>3, <2>1 DEF IsFound
<1>7. IsFound(f, other)
  <2>1. n # 0
    BY <1>1
  <2>2. QED
    BY <1>3, <1>4, <1>5, <1>6, <2>1 DEF IsFound
<1>8. QED
  BY <1>1, <1>2, <1>3, <1>7

KeepsPlaces(v, s, i, l) ==
    /\ v \in Text /\ i + l \in Starts(v)
    /\ \A k \in 0 .. i : k \in Starts(v) <=> k \in Starts(s)
LEMMA SplicedKeepsPlaces ==
  ASSUME NEW s \in Text, NEW i \in Starts(s), NEW n \in Nat, i + n \in Starts(s),
         NEW x \in Text
  PROVE  KeepsPlaces(Spliced(s, i, n, x), s, i, Len(x))
BY SplicedText DEF KeepsPlaces

(* A call is made, on what its caller has made of the word.                  *)
LEMMA MoreCalls ==
  ASSUME NEW found, NEW frames, IsFound(found, frames), NEW n \in Nat, n = Len(frames),
         NEW i, i = frames[n].i, NEW o \in Text \X Text, IsAt(found[n], i, o[1]),
         NEW new, new = Spliced(found[n], i, Len(o[1]), o[2]),
         NEW c \in Call, c.i = i + Len(o[2]), c.undo = o
  PROVE  IsFound(Append(found, new), Append(frames, c)) /\ new \in Text
<1>1. /\ found \in Seq(Text) /\ frames \in Seq(Call) /\ Len(found) = n /\ n # 0
      /\ found[1] = W /\ n \in 1 .. n
  BY DEF IsFound
<1>2. \A m \in 1 .. n : frames[m].i \in Starts(found[n]) /\ frames[m].i <= i
  BY <1>1 DEF IsFound
<1>3. PICK s \in Text : s = found[n]
  BY <1>1
<1>4. PICK from \in Text, to \in Text : from = o[1] /\ to = o[2]
  OBVIOUS
<1>5. /\ i \in Starts(s) /\ i \in Nat /\ i <= Len(s) /\ Len(s) \in Nat
      /\ Len(from) \in Nat /\ Len(to) \in Nat
  <2>1. i \in Starts(s)
    BY <1>1, <1>2, <1>3
  <2>2. QED
    BY <2>1, StartFacts
<1>6. i + Len(from) \in Starts(s)
  <2>1. CASE from = <<>>
    <3>1. Len(from) = 0
      BY <2>1
    <3>2. QED
      BY <1>5, <3>1
  <2>2. CASE from # <<>>
    <3>1. IsAt(s, i, from)
      BY <1>3, <1>4
    <3>2. QED
      BY <1>5, <2>2, <3>1, OccurrenceStarts
  <2>3. QED
    BY <2>1, <2>2
<1>7. new = Spliced(s, i, Len(from), to)
  BY <1>3, <1>4
<1>8. /\ new \in Text /\ i + Len(to) \in Starts(new)
      /\ \A k \in 0 .. i : k \in Starts(new) <=> k \in Starts(s)
  <2>1. PICK l \in Nat : l = Len(from)
    BY <1>5
  <2>2. i + l \in Starts(s) /\ new = Spliced(s, i, l, to)
    BY <1>6, <1>7, <2>1
  <2>3. KeepsPlaces(Spliced(s, i, l, to), s, i, Len(to))
    BY <1>5, <2>2, SplicedKeepsPlaces
  <2>4. QED
    BY <2>2, <2>3 DEF KeepsPlaces
<1>9. PICK f : f = Append(found, new)
  OBVIOUS
<1>10. PICK g : g = Append(frames, c)
  OBVIOUS
<1>11. /\ f \in Seq(Text) /\ Len(f) = n + 1 /\ f[n + 1] = new
       /\ \A m \in 1 .. n : f[m] = found[m]
  BY <1>1, <1>8, <1>9, AppendProperties
<1>12. /\ g \in Seq(Call) /\ Len(g) = n + 1 /\ g[n + 1] = c
       /\ \A m \in 1 .. n : g[m] = frames[m]
  BY <1>1, <1>10, AppendProperties
<1>13. ASSUME NEW k \in 1 .. n + 1, NEW m \in 1 .. k
       PROVE  g[m].i \in Starts(f[k]) /\ g[m].i <= g[k].i
  <2>1. CASE k \in 1 .. n
    <3>1. frames[m].i \in Starts(found[k]) /\ frames[m].i <= frames[k].i
      BY <2>1 DEF IsFound
    <3>2. m \in 1 .. n
      BY <2>1
    <3>3. QED
      BY <1>11, <1>12, <2>1, <3>1, <3>2
  <2>2. CASE k = n + 1 /\ m \in 1 .. n
    <3>1. g[m].i = frames[m].i /\ f[k] = new /\ g[k] = c
      BY <1>11, <1>12, <2>2
    <3>2. frames[m].i \in Starts(s) /\ frames[m].i <= i
      BY <1>2, <1>3, <2>2
    <3>3. frames[m].i \in Nat
      BY <3>2, StartFacts
    <3>4. frames[m].i \in 0 .. i /\ frames[m].i <= i + Len(to)
      <4>1. PICK h \in Nat, l \in Nat : h = frames[m].i /\ l = Len(to)
        BY <1>5, <3>3
      <4>2. i \in Nat /\ h <= i
        BY <1>5, <3>2, <4>1
      <4>3. h \in 0 .. i /\ h <= i + l
        BY <4>2
      <4>4. QED
        BY <4>1, <4>3
    <3>5. QED
      BY <1>4, <1>8, <3>1, <3>2, <3>4
  <2>3. CASE k = n + 1 /\ m = n + 1
    <3>1. g[m] = c /\ f[k] = new /\ g[k] = c
      BY <1>11, <1>12, <2>3
    <3>2. i + Len(to) \in Nat
      BY <1>5
    <3>3. QED
      BY <1>4, <1>8, <3>1, <3>2
  <2>4. QED
    BY <2>1, <2>2, <2>3
<1>14. ASSUME NEW k \in 1 .. n
       PROVE  /\ g[k + 1].undo \in Text \X Text
              /\ IsAt(f[k], g[k].i, g[k + 1].undo[1])
              /\ f[k + 1] = Spliced(f[k], g[k].i, Len(g[k + 1].undo[1]), g[k + 1].undo[2])
  <2>1. f[k] = found[k] /\ g[k] = frames[k]
    BY <1>11, <1>12
  <2>2. CASE k = n
    BY <1>11, <1>12, <2>1, <2>2
  <2>3. CASE k # n
    <3>1. k \in 1 .. n - 1 /\ k + 1 \in 1 .. n
      BY <2>3
    <3>2. f[k + 1] = found[k + 1] /\ g[k + 1] = frames[k + 1]
      BY <1>11, <1>12, <3>1
    <3>3. /\ frames[k + 1].undo \in Text \X Text
          /\ IsAt(found[k], frames[k].i, frames[k + 1].undo[1])
          /\ found[k + 1] = Spliced(found[k], frames[k].i, Len(frames[k + 1].undo[1]),
                                    frames[k + 1].undo[2])
      BY <3>1 DEF IsFound
    <3>4. QED
      BY <2>1, <3>2, <3>3
  <2>4. QED
    BY <2>2, <2>3
<1>15. IsFound(f, g)
  <2>1. f[1] = W /\ n + 1 # 0 /\ (n + 1) - 1 = n
    BY <1>1, <1>11
  <2>2. QED
    BY <1>11, <1>12, <1>13, <1>14, <2>1 DEF IsFound
<1>16. QED
  BY <1>8, <1>9, <1>10, <1>15

(* A call goes on to a later place.                                          *)
LEMMA LaterCall ==
  ASSUME NEW found, NEW frames, IsFound(found, frames), NEW n \in Nat, n = Len(frames),
         NEW j \in Starts(found[n]), frames[n].i <= j,
         NEW other \in Seq(Call), Len(other) = n,
         \A m \in 1 .. n - 1 : other[m] = frames[m],
         other[n].i = j, other[n].undo = frames[n].undo
  PROVE  IsFound(found, other)
<1>1. found \in Seq(Text) /\ frames \in Seq(Call) /\ Len(found) = n /\ n # 0 /\ n \in 1 .. n
  BY DEF IsFound
<1>2. j \in Nat /\ \A m \in 1 .. n : frames[m].i \in Nat
  <2>1. found[n] \in Text
    BY <1>1
  <2>2. j \in Nat
    BY <2>1, StartFacts
  <2>3. ASSUME NEW m \in 1 .. n PROVE frames[m].i \in Nat
    <3>1. frames[m] \in Call
      BY <1>1
    <3>2. QED
      BY <3>1 DEF Call
  <2>4. QED
    BY <2>2, <2>3
<1>3. ASSUME NEW k \in 1 .. n, NEW m \in 1 .. k
      PROVE  other[m].i \in Starts(found[k]) /\ other[m].i <= other[k].i
  <2>1. frames[m].i \in Starts(found[k]) /\ frames[m].i <= frames[k].i
    BY DEF IsFound
  <2>2. CASE k \in 1 .. n - 1
    <3>1. other[k] = frames[k] /\ other[m] = frames[m]
      BY <2>2
    <3>2. QED
      BY <2>1, <3>1
  <2>3. CASE k = n /\ m \in 1 .. n - 1
    <3>1. other[m] = frames[m] /\ frames[m].i \in Nat /\ frames[n].i \in Nat
      BY <1>1, <1>2, <2>3
    <3>2. frames[m].i <= j
      BY <1>2, <2>1, <2>3, <3>1
    <3>3. QED
      BY <2>1, <2>3, <3>1, <3>2
  <2>4. CASE k = n /\ m = n
    BY <1>2, <2>4
  <2>5. QED
    BY <2>2, <2>3, <2>4
<1>4. ASSUME NEW k \in 1 .. n - 1
      PROVE  /\ other[k + 1].undo \in Text \X Text
             /\ IsAt(found[k], other[k].i, other[k + 1].undo[1])
             /\ found[k + 1] = Spliced(found[k], other[k].i, Len(other[k + 1].undo[1]),
                                       other[k + 1].undo[2])
  <2>1. other[k] = frames[k]
    OBVIOUS
  <2>2. other[k + 1].undo = frames[k + 1].undo
    <3>1. CASE k + 1 = n
      BY <3>1
    <3>2. CASE k + 1 # n
      <4>1. k + 1 \in 1 .. n - 1
        BY <3>2
      <4>2. QED
        BY <4>1
    <3>3. QED
      BY <3>1, <3>2
  <2>3. /\ frames[k + 1].undo \in Text \X Text
        /\ IsAt(found[k], frames[k].i, frames[k + 1].undo[1])
        /\ found[k + 1] = Spliced(found[k], frames[k].i, Len(frames[k + 1].undo[1]),
                                  frames[k + 1].undo[2])
    BY DEF IsFound
  <2>4. QED
    BY <2>1, <2>2, <2>3
<1>5. QED
  BY <1>1, <1>3, <1>4 DEF IsFound

LEMMA KeptMapping ==
  ASSUME IInv, Fixed, In("map"), Grows, Sums',
         \/ at' = Over /\ word' = W
         \/ \E found : IsFound(found, at') /\ word' = found[Len(at')]
  PROVE  IInv'
<1>1. "map" \in Names
  BY DEF Names
<1>2. Stages[stage] = "map"
  BY <1>1, InStage
<1>3. CASE at' = Over /\ word' = W
  BY <1>1, <1>3, KeptWord
<1>4. ASSUME NEW found, IsFound(found, at'), word' = found[Len(at')]
      PROVE  IInv'
  <2>1. at' # Over
    <3>1. Len(at') # 0
      BY <1>4 DEF IsFound
    <3>2. QED
      BY <3>1 DEF Over
  <2>2. IsFound(found, at)'
    BY <1>4, SameSetting DEF IsFound
  <2>3. InCalls'
    BY <1>4, <2>2 DEF InCalls
  <2>4. AtStage("map")'
    BY <2>3 DEF AtStage
  <2>5. Unchanged'
    BY <1>2, <2>1, SameSetting DEF Unchanged
  <2>6. QED
    BY <1>1, <1>2, <2>4, <2>5, Kept
<1>5. QED
  BY <1>3, <1>4

(* The calls of map_suggest(), with the word each has found.                 *)
IsCalling(found, n) ==
    /\ IsFound(found, at) /\ n = Len(at) /\ n \in Nat \ {0} /\ at \in Seq(Call) /\ at # <<>>
    /\ Frame = at[n] /\ Frame \in Call /\ word = found[n] /\ word \in Text
    /\ Frame.i \in Starts(word)
LEMMA Calling ==
  ASSUME IInv, In("map")
  PROVE  Constant /\ \E found : \E n \in Nat : IsCalling(found, n)
<1>1. "map" \in Names
  BY DEF Names
<1>2. Constant /\ AtStage("map")
  BY <1>1, InStage
<1>3. PICK found : IsFound(found, at) /\ word = found[Len(at)]
  BY <1>2 DEF AtStage, InCalls
<1>4. PICK n \in Nat : n = Len(at) /\ n # 0 /\ at \in Seq(Call)
  BY <1>3 DEF IsFound
<1>5. at # <<>> /\ Frame = at[n] /\ n \in 1 .. n
  BY <1>4 DEF Frame, Last
<1>6. Frame \in Call
  BY <1>4, <1>5
<1>7. word \in Text /\ Frame.i \in Starts(word)
  BY <1>3, <1>4, <1>5 DEF IsFound
<1>8. IsCalling(found, n)
  BY <1>3, <1>4, <1>5, <1>6, <1>7 DEF IsCalling
<1>9. QED
  BY <1>2, <1>8

LEMMA MapTryKeeps ==
  ASSUME IInv, MapTry
  PROVE  IInv'
<1>1. In("map") /\ Fixed /\ Spend
  BY DEF MapTry
<1>2. PICK found : \E n \in Nat : IsCalling(found, n)
  BY <1>1, Calling
<1>3. PICK n \in Nat : IsCalling(found, n)
  BY <1>2
<1>4. /\ IsFound(found, at) /\ n = Len(at) /\ n # 0 /\ at \in Seq(Call) /\ at # <<>>
      /\ Frame = at[n] /\ Frame \in Call /\ word = found[n] /\ Frame.i \in Nat
      /\ Frame.k \in Nat \ {0}
  BY <1>3 DEF IsCalling, Call
<1>5. PICK k \in MapChoice :
        /\ word' = Changed(Frame.i, AllPairs[setting][k][1], AllPairs[setting][k][2])
        /\ Try(Changed(Frame.i, AllPairs[setting][k][1], AllPairs[setting][k][2]))
        /\ at' = Append(WithFrame([Frame EXCEPT !.k = k]),
                        [i |-> Frame.i + Len(AllPairs[setting][k][2]), k |-> 1,
                         undo |-> AllPairs[setting][k]])
  BY DEF MapTry
<1>6. AllPairs[setting] \in Seq(Text \X Text)
  BY <1>1, Calling, AllPairsAreTexts
<1>7. k \in Nat \ {0} /\ k \in 1 .. Len(AllPairs[setting]) /\ MayReplace(k)
  <2>1. Len(AllPairs[setting]) \in Nat
    BY <1>6, LenProperties
  <2>2. k \in Frame.k .. Len(AllPairs[setting]) /\ MayReplace(k)
    BY DEF MapChoice
  <2>3. QED
    BY <1>4, <2>1, <2>2
<1>8. PICK o \in Text \X Text : o = AllPairs[setting][k]
  BY <1>6, <1>7
<1>9. PICK i \in Nat : i = Frame.i /\ IsAt(found[n], i, o[1])
  BY <1>4, <1>7, <1>8 DEF MayReplace
<1>10. PICK new : new = Spliced(found[n], i, Len(o[1]), o[2])
  OBVIOUS
<1>11. PICK c : c = [i |-> i + Len(o[2]), k |-> 1, undo |-> o]
  OBVIOUS
<1>12. c \in Call /\ c.i = i + Len(o[2]) /\ c.undo = o
  <2>1. Len(o[2]) \in Nat
    <3>1. o[2] \in Text
      OBVIOUS
    <3>2. QED
      BY <3>1, StartFacts
  <2>2. QED
    BY <1>11, <2>1 DEF Call
<1>13. PICK frames : frames = WithFrame([Frame EXCEPT !.k = k])
  OBVIOUS
<1>14. IsFound(found, frames) /\ Len(frames) = n /\ frames[n].i = i
  <2>1. PICK d : d = [Frame EXCEPT !.k = k]
    OBVIOUS
  <2>2. d \in Call /\ d.i = Frame.i /\ d.undo = Frame.undo
    BY <1>4, <1>7, <2>1 DEF Call
  <2>3. frames = Append(Front(at), d)
    BY <1>13, <2>1 DEF WithFrame
  <2>4. /\ frames \in Seq(Call) /\ Len(frames) = n /\ frames[n] = d
        /\ \A m \in 1 .. n - 1 : frames[m] = at[m]
    BY <1>4, <2>2, <2>3, LastFrame
  <2>5. ASSUME NEW m \in 1 .. n PROVE frames[m].i = at[m].i /\ frames[m].undo = at[m].undo
    <3>1. CASE m = n
      BY <1>4, <2>2, <2>4, <3>1
    <3>2. CASE m # n
      <4>1. m \in 1 .. n - 1
        BY <3>2
      <4>2. QED
        BY <2>4, <4>1
    <3>3. QED
      BY <3>1, <3>2
  <2>6. IsFound(found, frames)
    BY <1>4, <2>4, <2>5, SameCalls
  <2>7. QED
    BY <1>9, <2>2, <2>4, <2>6
<1>15. IsFound(Append(found, new), Append(frames, c)) /\ new \in Text
  BY <1>9, <1>10, <1>12, <1>14, MoreCalls
<1>16. at' = Append(frames, c) /\ word' = new /\ Try(new)
  BY <1>4, <1>5, <1>8, <1>9, <1>10, <1>11, <1>13 DEF Changed
<1>17. word' = Append(found, new)[Len(at')]
  <2>1. found \in Seq(Text) /\ Len(found) = n /\ frames \in Seq(Call)
    BY <1>14 DEF IsFound
  <2>2. Len(Append(frames, c)) = n + 1 /\ Append(found, new)[n + 1] = new
    BY <1>14, <2>1, AppendProperties
  <2>3. QED
    BY <1>16, <2>2
<1>18. Grows /\ Sums'
  BY <1>1, <1>15, <1>16, SpendKeeps
<1>19. QED
  BY <1>1, <1>15, <1>16, <1>17, <1>18, KeptMapping

LEMMA MapNextPlaceKeeps ==
  ASSUME IInv, MapNextPlace
  PROVE  IInv'
<1>1. In("map") /\ Fixed /\ Free /\ Untried /\ ~MapDone
  BY DEF MapNextPlace
<1>2. PICK found : \E n \in Nat : IsCalling(found, n)
  BY <1>1, Calling
<1>3. PICK n \in Nat : IsCalling(found, n)
  BY <1>2
<1>4. /\ IsFound(found, at) /\ n = Len(at) /\ n # 0 /\ at \in Seq(Call) /\ at # <<>>
      /\ Frame = at[n] /\ Frame \in Call /\ word = found[n] /\ word \in Text
      /\ Frame.i \in Starts(word) /\ Frame.undo \in (Text \X Text) \cup {<<>>}
  BY <1>3 DEF IsCalling, Call
<1>5. PICK j \in Starts(word) : j = Advance(word, Frame.i) /\ Frame.i <= j /\ j \in Nat
  <2>1. Frame.i # Len(word)
    BY <1>1 DEF MapDone
  <2>2. Advance(word, Frame.i) \in Starts(word) /\ Frame.i < Advance(word, Frame.i)
    BY <1>4, <2>1, StartFacts
  <2>3. Starts(word) \subseteq 0 .. Len(word) /\ Len(word) \in Nat
    BY <1>4, StartFacts
  <2>4. QED
    BY <1>4, <2>2, <2>3
<1>6. PICK c : c = [i |-> j, k |-> 1, undo |-> Frame.undo]
  OBVIOUS
<1>7. c \in Call /\ c.i = j /\ c.undo = Frame.undo
  BY <1>4, <1>5, <1>6 DEF Call
<1>8. at' = Append(Front(at), c)
  BY <1>5, <1>6 DEF MapNextPlace, WithFrame
<1>9. /\ at' \in Seq(Call) /\ Len(at') = n /\ at'[n] = c
      /\ \A m \in 1 .. n - 1 : at'[m] = at[m]
  BY <1>4, <1>7, <1>8, LastFrame
<1>10. IsFound(found, at')
  <2>1. /\ j \in Starts(found[n]) /\ at[n].i <= j /\ at'[n].i = j
        /\ at'[n].undo = at[n].undo
    BY <1>4, <1>5, <1>7, <1>9
  <2>2. QED
    BY <1>4, <1>9, <2>1, LaterCall
<1>11. Grows /\ Sums' /\ word' = found[Len(at')]
  BY <1>1, <1>4, <1>9, UntriedKeeps DEF Untried
<1>12. QED
  BY <1>1, <1>10, <1>11, KeptMapping

LEMMA ReplacedBack ==
  ASSUME NEW s \in Text, NEW i \in Nat, NEW from \in Text, NEW to \in Text, IsAt(s, i, from)
  PROVE  Spliced(Spliced(s, i, Len(from), to), i, Len(to), from) = s
<1>1. /\ s \in Seq(Byte) /\ Len(s) \in Nat /\ to \in Seq(Byte) /\ Len(from) \in Nat
  BY StartFacts
<1>2. i + Len(from) <= Len(s) /\ Part(s, i, i + Len(from)) = from
  BY DEF IsAt
<1>3. i \in 0 .. Len(s) /\ Len(from) \in 0 .. Len(s) - i
  BY <1>1, <1>2
<1>4. Spliced(Spliced(s, i, Len(from), to), i, Len(to), Part(s, i, i + Len(from))) = s
  BY <1>1, <1>3, SplicedBack
<1>5. QED
  BY <1>2, <1>4

LEMMA MapReturnKeeps ==
  ASSUME IInv, MapReturn
  PROVE  IInv'
<1>1. In("map") /\ Fixed /\ Free /\ UNCHANGED <<tried, out>>
  BY DEF MapReturn
<1>2. PICK found : \E n \in Nat : IsCalling(found, n)
  BY <1>1, Calling
<1>3. PICK n \in Nat : IsCalling(found, n)
  BY <1>2
<1>4. /\ IsFound(found, at) /\ n = Len(at) /\ n # 0 /\ at \in Seq(Call) /\ at # <<>>
      /\ Frame = at[n] /\ Frame \in Call /\ word = found[n] /\ word \in Text
  BY <1>3 DEF IsCalling
<1>5. Grows /\ Sums'
  BY <1>1, UntriedKeeps
<1>6. CASE n = 1
  <2>1. at' = Over /\ word' = word
    BY <1>4, <1>6 DEF MapReturn
  <2>2. word' = W
    BY <1>4, <1>6, <2>1 DEF IsFound
  <2>3. QED
    BY <1>1, <1>5, <2>1, <2>2, KeptMapping
<1>7. CASE n # 1
  <2>1. PICK h \in Nat \ {0} : h = n - 1 /\ h + 1 = n /\ h \in 1 .. n
    BY <1>4, <1>7
  <2>2. PICK s \in Text, i \in Nat : s = found[h] /\ i = at[h].i /\ i \in Starts(s)
    <3>1. found[h] \in Text
      BY <1>4, <2>1 DEF IsFound
    <3>2. at[h].i \in Starts(found[h])
      BY <1>4, <2>1 DEF IsFound
    <3>3. at[h].i \in Nat
      BY <3>1, <3>2, StartFacts
    <3>4. QED
      BY <3>1, <3>2, <3>3
  <2>3. /\ Frame.undo \in Text \X Text /\ IsAt(s, i, Frame.undo[1])
        /\ word = Spliced(s, i, Len(Frame.undo[1]), Frame.undo[2])
    <3>1. h \in 1 .. Len(at) - 1
      BY <1>4, <2>1
    <3>2. /\ at[h + 1].undo \in Text \X Text
          /\ IsAt(found[h], at[h].i, at[h + 1].undo[1])
          /\ found[h + 1] = Spliced(found[h], at[h].i, Len(at[h + 1].undo[1]),
                                    at[h + 1].undo[2])
      BY <1>4, <3>1 DEF IsFound
    <3>3. QED
      BY <1>4, <2>1, <2>2, <3>2
  <2>4. PICK from \in Text, to \in Text : from = Frame.undo[1] /\ to = Frame.undo[2]
    BY <2>3
  <2>5. word' = s
    <3>1. word' = Spliced(word, i, Len(to), from)
      <4>1. n - 1 = h
        BY <2>1
      <4>2. word' = MapUndone
        BY <1>4, <1>7 DEF MapReturn
      <4>3. QED
        BY <1>4, <2>2, <2>4, <4>1, <4>2 DEF MapUndone, Restored
    <3>2. QED
      BY <2>3, <2>4, <3>1, ReplacedBack
  <2>6. PICK c : c = [at[h] EXCEPT !.k = @ + 1]
    OBVIOUS
  <2>7. c \in Call /\ c.i = at[h].i /\ c.undo = at[h].undo
    <3>1. at[h] \in Call
      BY <1>4, <2>1
    <3>2. QED
      BY <2>6, <3>1 DEF Call
  <2>8. at' = Append(SubSeq(at, 1, h - 1), c)
    <3>1. n - 1 = h /\ n - 2 = h - 1
      BY <2>1
    <3>2. QED
      BY <1>4, <1>7, <2>6, <3>1 DEF MapReturn
  <2>9. /\ at' \in Seq(Call) /\ Len(at') = h /\ at'[h] = c
        /\ \A m \in 1 .. h - 1 : at'[m] = at[m]
    <3>1. PICK g \in Nat : g = h - 1 /\ g + 1 = h /\ g <= Len(at)
      BY <1>4, <2>1
    <3>2. PICK f : f = SubSeq(at, 1, g)
      OBVIOUS
    <3>3. f \in Seq(Call) /\ Len(f) = g /\ \A m \in 1 .. g : f[m] = at[m]
      BY <1>4, <3>1, <3>2, SubSeqProperties
    <3>4. /\ Append(f, c) \in Seq(Call) /\ Len(Append(f, c)) = g + 1
          /\ \A m \in 1 .. g : Append(f, c)[m] = f[m]
          /\ Append(f, c)[g + 1] = c
      BY <2>7, <3>3, AppendProperties
    <3>5. QED
      BY <2>8, <3>1, <3>2, <3>3, <3>4
  <2>10. ASSUME NEW m \in 1 .. h PROVE at'[m].i = at[m].i /\ at'[m].undo = at[m].undo
    <3>1. CASE m = h
      BY <2>7, <2>9, <3>1
    <3>2. CASE m # h
      <4>1. m \in 1 .. h - 1
        BY <3>2
      <4>2. QED
        BY <2>9, <4>1
    <3>3. QED
      BY <3>1, <3>2
  <2>11. IsFound(SubSeq(found, 1, h), at') /\ SubSeq(found, 1, h)[h] = found[h]
    BY <1>4, <2>1, <2>9, <2>10, FewerCalls
  <2>12. word' = SubSeq(found, 1, h)[Len(at')]
    BY <2>2, <2>5, <2>9, <2>11
  <2>13. QED
    BY <1>1, <1>5, <2>11, <2>12, KeptMapping
<1>8. QED
  BY <1>6, <1>7

-----------------------------------------------------------------------------
LEMMA StutterKeeps ==
  ASSUME IInv, UNCHANGED vars
  PROVE  IInv'
<1>1. Fixed /\ Free /\ UNCHANGED <<word, at, tried, out>>
  BY DEF vars, Fixed, Free
<1>3. PICK name \in Names : Stages[stage] = name
  BY StageNames DEF IInv, Constant
<1>4. Grows /\ Sums'
  BY <1>1, UntriedKeeps
<1>5. Unchanged'
  BY <1>1, SameSetting DEF IInv, Unchanged
<1>6. ASSUME at # Over PROVE AtStage(name)'
  <2>1. AtStage(name)
    BY <1>3, <1>6 DEF IInv
  <2>2. /\ AtLetter' <=> AtLetter
        /\ AtSplit' <=> AtSplit
        /\ AtEntry' <=> AtEntry
        /\ AtTwo' <=> AtTwo
        /\ AtFour' <=> AtFour
        /\ AtFive' <=> AtFive
        /\ AtTryChar' <=> AtTryChar
    BY <1>1, SameSetting DEF AtLetter, AtSplit, AtEntry, AtTwo, AtFour, AtFive, AtTryChar
  <2>3. AtKey' <=> AtKey
    BY <1>1, SameSetting DEF AtKey
  <2>4. /\ AtForward' <=> AtForward
        /\ OnForward' <=> OnForward
        /\ AtBack' <=> AtBack
        /\ OnBack' <=> OnBack
    BY <1>1, SameSetting DEF AtForward, OnForward, AtBack, OnBack
  <2>5. InCalls' <=> InCalls
    BY <1>1, SameSetting DEF InCalls, IsFound
  <2>6. QED
    BY <2>1, <2>2, <2>3, <2>4, <2>5 DEF AtStage
<1>7. at' = Over \/ AtStage(name)'
  BY <1>1, <1>6 DEF Over
<1>8. QED
  BY <1>1, <1>3, <1>4, <1>5, <1>7, Kept

LEMMA StepKeeps ==
  IInv /\ [Next]_vars => IInv'
<1> SUFFICES ASSUME IInv, [Next]_vars PROVE IInv'
  OBVIOUS
<1>1. CASE NextStage
  BY <1>1, NextStageKeeps
<1>2. CASE Uppercase
  BY <1>2, UppercaseKeeps
<1>3. CASE Rep
  BY <1>3, RepKeeps
<1>4. CASE RepNextList
  BY <1>4, RepNextListKeeps
<1>5. CASE MapTry
  BY <1>5, MapTryKeeps
<1>6. CASE MapNextPlace
  BY <1>6, MapNextPlaceKeeps
<1>7. CASE MapReturn
  BY <1>7, MapReturnKeeps
<1>8. CASE AdjacentSwap
  BY <1>8, AdjacentSwapKeeps
<1>9. CASE SwapTwice
  BY <1>9, SwapTwiceKeeps
<1>10. CASE DistantSwapOuter
  BY <1>10, DistantSwapOuterKeeps
<1>11. CASE DistantSwap
  BY <1>11, DistantSwapKeeps
<1>12. CASE KeyboardUpper
  BY <1>12, KeyboardUpperKeeps
<1>13. CASE KeyboardKey
  BY <1>13, KeyboardKeyKeeps
<1>14. CASE KeyboardNext
  BY <1>14, KeyboardNextKeeps
<1>15. CASE ExtraChar
  BY <1>15, ExtraCharKeeps
<1>16. CASE ForgottenChar
  BY <1>16, ForgottenCharKeeps
<1>17. CASE BadChar
  BY <1>17, BadCharKeeps
<1>18. CASE MoveForward
  BY <1>18, MoveForwardKeeps
<1>19. CASE MoveOnForward
  BY <1>19, MoveOnForwardKeeps
<1>20. CASE MoveBack
  BY <1>20, MoveBackKeeps
<1>21. CASE MoveOnBack
  BY <1>21, MoveOnBackKeeps
<1>22. CASE DoubledTwoChars
  BY <1>22, DoubledTwoCharsKeeps
<1>23. CASE TwoWords
  BY <1>23, TwoWordsKeeps
<1>24. CASE UNCHANGED vars
  BY <1>24, StutterKeeps
<1>25. QED
  BY <1>1, <1>2, <1>3, <1>4, <1>5, <1>6, <1>7, <1>8, <1>9, <1>10, <1>11, <1>12, <1>13,
     <1>14, <1>15, <1>16, <1>17, <1>18, <1>19, <1>20, <1>21, <1>22, <1>23, <1>24 DEF Next

(* Every stage of suggest_low(), wherever its loops have come to, knows what *)
(* the shared word is made of: the invariant of which the properties below   *)
(* are parts.                                                                *)
THEOREM PlacesAreKept == Spec => []IInv
<1>1. Init => IInv
  BY Starting
<1>2. IInv /\ [Next]_vars => IInv'
  BY StepKeeps
<1>3. QED
  BY <1>1, <1>2, PTL DEF Spec

LEMMA MovePlaces ==
  ASSUME IInv, In("move_char")
  PROVE  word \in Text /\ PlacesOfWord \subseteq Starts(word)
<1>1. /\ Stages[stage] = "move_char" /\ W \in Text /\ Here \subseteq 0 .. Len(W) /\ Len(W) \in Nat
      /\ AtForward \/ OnForward \/ AtBack \/ OnBack
  BY MovePlace
<1>2. PlacesOfWord = {at[k] : k \in IF Len(at) = 3 THEN {2, 3}
                                    ELSE IF at[1] = "forward" THEN {2, 5, 6} ELSE {3, 5, 6}}
  BY <1>1 DEF PlacesOfWord
<1>3. CASE AtForward \/ AtBack
  <2>1. word = W /\ Len(at) = 3 /\ at[2] \in Here /\ at[3] \in Here
    BY <1>3 DEF AtForward, AtBack
  <2>2. QED
    BY <1>1, <1>2, <2>1 DEF Here
<1>4. CASE OnForward
  <2>1. PICK i1, i2, i3, j2 \in Here :
        /\ i1 < i2 /\ i2 < i3 /\ i3 <= j2
        /\ at = <<"forward", i1, i2, i3, i1 + (j2 - i2), j2>> /\ word = Rotate(W, i1, i2, j2)
    BY <1>4 DEF OnForward
  <2>2. i1 <= i2 /\ i2 <= j2
    <3>1. i1 \in Nat /\ i2 \in Nat /\ i3 \in Nat /\ j2 \in Nat
      BY <1>1
    <3>2. QED
      BY <2>1, <3>1
  <2>3. IsMoved(word, i1, i2, j2)
    BY <1>1, <2>1, <2>2, MovedFacts
  <2>4. /\ word \in Text /\ i1 \in Starts(word) /\ i1 + (j2 - i2) \in Starts(word)
        /\ j2 \in Starts(word)
    BY <2>3 DEF IsMoved
  <2>5. Len(at) = 6 /\ at[1] = "forward" /\ at[2] = i1 /\ at[5] = i1 + (j2 - i2) /\ at[6] = j2
    BY <2>1
  <2>6. QED
    BY <1>2, <2>4, <2>5
<1>5. CASE OnBack
  <2>1. PICK i1, i2, i3, j1 \in Here :
        /\ j1 <= i1 /\ i1 < i2 /\ i2 < i3
        /\ at = <<"back", i2, i3, i1, j1, j1 + (i3 - i2)>> /\ word = Rotate(W, j1, i2, i3)
    BY <1>5 DEF OnBack
  <2>2. j1 <= i2 /\ i2 <= i3
    <3>1. i1 \in Nat /\ i2 \in Nat /\ i3 \in Nat /\ j1 \in Nat
      BY <1>1
    <3>2. QED
      BY <2>1, <3>1
  <2>3. IsMoved(word, j1, i2, i3)
    BY <1>1, <2>1, <2>2, MovedFacts
  <2>4. /\ word \in Text /\ j1 \in Starts(word) /\ j1 + (i3 - i2) \in Starts(word)
        /\ i3 \in Starts(word)
    BY <2>3 DEF IsMoved
  <2>5. /\ Len(at) = 6 /\ at[1] # "forward" /\ at[3] = i3 /\ at[5] = j1
        /\ at[6] = j1 + (i3 - i2)
    BY <2>1
  <2>6. QED
    BY <1>2, <2>4, <2>5
<1>6. QED
  BY <1>1, <1>3, <1>4, <1>5

LEMMA PlacesHold ==
  ASSUME IInv, at # Over
  PROVE  word \in Text /\ PlacesOfWord \subseteq Starts(word)
<1>1. PICK name \in Names : Stages[stage] = name /\ In(name)
  BY StageNames DEF IInv, Constant, In
<1>2. /\ AtStage(name) /\ Constant /\ W \in Text
      /\ name \notin {"map", "move_char"} => word = W
  BY <1>1, InStage, WFacts
<1>3. CASE name = "move_char"
  BY <1>1, <1>3, MovePlaces
<1>4. CASE name = "map"
  <2>1. PICK found : IsFound(found, at) /\ word = found[Len(at)]
    BY <1>2, <1>4 DEF AtStage, InCalls
  <2>2. found \in Seq(Text) /\ at \in Seq(Call) /\ Len(found) = Len(at) /\ Len(at) # 0
    BY <2>1 DEF IsFound
  <2>3. Len(at) \in 1 .. Len(at) /\ DOMAIN at = 1 .. Len(at)
    BY <2>2
  <2>4. word \in Text
    BY <2>1, <2>2, <2>3
  <2>5. \A m \in 1 .. Len(at) : at[m].i \in Starts(word)
    BY <2>1, <2>3 DEF IsFound
  <2>6. PlacesOfWord = {at[k].i : k \in DOMAIN at}
    BY <1>1, <1>4 DEF PlacesOfWord
  <2>7. QED
    BY <2>3, <2>4, <2>5, <2>6
<1>5. CASE name \in {"rep", "keyboard"}
  <2>1. PlacesOfWord = {}
    BY <1>1, <1>5 DEF PlacesOfWord
  <2>2. QED
    BY <1>2, <1>5, <2>1
<1>6. CASE name \in {"forgotten_char", "bad_char"}
  <2>1. PlacesOfWord = {at[2]}
    BY <1>1, <1>6 DEF PlacesOfWord
  <2>2. at[2] \in Here
    BY <1>2, <1>6 DEF AtStage, AtTryChar
  <2>3. QED
    BY <1>2, <1>6, <2>1, <2>2 DEF Here
<1>7. CASE name \in {"uppercase", "extra_char", "two_words", "adjacent_swap", "distant_swap",
                     "doubled_two_chars"}
  <2>1. PlacesOfWord = {at[k] : k \in DOMAIN at}
    BY <1>1, <1>7 DEF PlacesOfWord, Range
  <2>2. AtLetter \/ AtSplit \/ AtTwo \/ AtFour \/ AtFive
    BY <1>2, <1>7 DEF AtStage
  <2>3. \A k \in DOMAIN at : at[k] \in Here
    <3>1. CASE AtLetter \/ AtSplit
      BY <3>1 DEF AtLetter, AtSplit
    <3>2. CASE AtTwo
      BY <3>2 DEF AtTwo
    <3>3. CASE AtFour
      BY <3>3 DEF AtFour
    <3>4. CASE AtFive
      BY <3>4 DEF AtFive
    <3>5. QED
      BY <2>2, <3>1, <3>2, <3>3, <3>4
  <2>4. QED
    BY <1>2, <1>7, <2>1, <2>3 DEF Here
<1>8. QED
  BY <1>3, <1>4, <1>5, <1>6, <1>7 DEF Names

LEMMA WholeLetters ==
  IInv => WordHandedBack
<1> SUFFICES ASSUME IInv PROVE WordHandedBack
  OBVIOUS
<1>1. word \in Text
  <2>1. CASE at = Over
    BY <2>1, WFacts DEF IInv, Unchanged
  <2>2. CASE at # Over
    BY <2>2, PlacesHold
  <2>3. QED
    BY <2>1, <2>2
<1>2. Range(tried) \subseteq Text
  BY ElementOfSeq DEF IInv, Sums, Range
<1>3. LettersStayWhole
  BY <1>1, <1>2, PlacesHold DEF LettersStayWhole, IInv, Sums
<1>4. QED
  BY <1>3 DEF WordHandedBack, IInv, Unchanged, W

(* Whatever the word, the options, what the checker says and however many   *)
(* attempts there are: when suggest_low() leaves a stage, and between the    *)
(* turns of all but map_suggest() and move_char_suggest(), the word is the   *)
(* misspelled one, byte by byte; and no stage ever stands within a letter,   *)
(* looks up half of one or spends an attempt twice.                         *)
THEOREM WordIsHandedBack == Spec => []WordHandedBack
<1>1. IInv => WordHandedBack
  BY WholeLetters
<1>2. QED
  BY <1>1, PlacesAreKept, PTL

(* All that is suggested by the edits of suggest_low() is a word that       *)
(* check_word() accepts, or two it has found, or a phrase of the REP table   *)
(* all of whose words but the last are known.                               *)
THEOREM SuggestedIsKnown == Spec => []SuggestionsAreKnown
<1>1. IInv => SuggestionsAreKnown
  BY DEF IInv, Suggested
<1>2. QED
  BY <1>1, PlacesAreKept, PTL
=============================================================================
