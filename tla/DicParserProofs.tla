--------------------------- MODULE DicParserProofs ---------------------------
(***************************************************************************)
(* Loading, for any .aff and .dic files: a dictionary goes on to its words *)
(* only with whole tables, the words that are listed are those of the      *)
(* lines, every title-cased homonym follows the entry it repeats, and      *)
(* failure is reported exactly when a file says.                           *)
(*                                                                         *)
(* The argument: the line is unescaped in place, so that a place in it is  *)
(* not the place in the file it came from.  But what lies ahead of the     *)
(* scan, with the byte before it, is still what the file has, a number of  *)
(* places further on that grows by one with each backslash erased, and no  *)
(* end of the word lies behind (Shifted).  So the scan stops where the     *)
(* text says (EndAgrees), cuts out the same flags (FlagsAgree) and rejects *)
(* the same lines (BadAgrees).  What lies behind the scan is the text with *)
(* some places left out (ScannedIsText): the places kept are listed in     *)
(* their order, and a step appends to the list, or exchanges its last for  *)
(* the next.  So the word is the one the text says (WordAgrees), and two   *)
(* lists that grow together, of the visible entries and of the lines that  *)
(* have one, say what has been listed (EntriesSoFar).                      *)
(*                                                                         *)
(* Of the options: while no line has failed, an element of a table lacks   *)
(* just the values that are yet to be extracted from the line that began   *)
(* it (ConfWhole), and what is to be extracted fits the command            *)
(* (TodoFits).  A line that fails leaves its element as it is, and the     *)
(* failure is remembered until all options are read.                       *)
(***************************************************************************)
EXTENDS AffParser, InductionLemmas, FiniteSetTheorems

Reading == {"count", "lines", "scan", "insert", "done"}
AtStart ==
    /\ n = 0 /\ line = <<>> /\ i = 0 /\ end_word_pos = NPos /\ words = <<>>
    /\ success \in BOOLEAN /\ (pc # "failed" => success)

\* How the line, unescaped up to the scan, relates to the text in the file: r
\* backslashes are gone, and no end of the word was passed over.
Shifted(r) ==
    LET s == Text(n)
    IN  /\ Len(line) + r = Len(s)
        /\ i = 0 => r = 0
        /\ \A k \in 1..Len(line) : k >= i => line[k] = s[k + r]
        /\ \A k \in 1..i + r : ~Ends(s, k)
        /\ end_word_pos # NPos => end_word_pos = i /\ Ends(s, i + r + 1)
        /\ pc = "insert" /\ end_word_pos = NPos => i = Len(line)
ScanOfText == pc \in {"scan", "insert"} => \E r \in 0..Len(Text(n)) : Shifted(r)

LinesDone == IF pc \in {"scan", "insert"} THEN n - 1 ELSE n
SuccessSoFar ==
    pc \in {"lines", "scan", "insert"} =>
        /\ file.has_count
        /\ success <=> \A k \in 1..LinesDone : ~IsBad(k)

\* What the stage of the loading says of the file, the lines read and success.
Control ==
    /\ pc \in Reading \cup {"aff", "values", "failed"}
    /\ aff_file \in AffFiles
    /\ pc \notin Reading \ {"count"} => AtStart
    /\ pc \in Reading =>
        /\ file \in DicFiles(aff_file.dics)
        /\ n \in 0..Len(file.lines) /\ n <= file.breaks
        /\ pc \in {"scan", "insert"} => n >= 1
        /\ success \in BOOLEAN
Covered == \A k \in DOMAIN words : IsCovered(k)

IInv ==
    /\ Control
    /\ IsSequence(line) /\ IsSequence(words)
    /\ PlacesAreInLine /\ Covered
    /\ ScanOfText
    /\ SuccessSoFar
    /\ FailureReported

-----------------------------------------------------------------------------
(* A sequence over some set is one over what is in it. *)
LEMMA SequenceOf ==
  ASSUME NEW S, NEW s \in Seq(S)
  PROVE  IsSequence(s)
  BY SeqOfRange DEF IsSequence

(* The first place with one of some bytes exists, and is only one. *)
LEMMA ScanIsFacts ==
  ASSUME NEW S, NEW s \in Seq(S), NEW k \in 0 .. Len(s), NEW bytes,
         NEW j, j = ScanIs(s, k, bytes)
  PROVE  /\ j \in k .. Len(s)
         /\ j < Len(s) => At(s, j) \in bytes
         /\ \A m \in k .. j - 1 : At(s, m) \notin bytes
<1> DEFINE Good(x) == x < Len(s) => At(s, x) \in bytes
           P(x) == /\ Good(x)
                   /\ \A m \in k .. x - 1 : At(s, m) \notin bytes
           C == {x \in k .. Len(s) : Good(x)}
<1>1. Len(s) \in Nat /\ k \in Nat /\ k <= Len(s)
  OBVIOUS
<1>2. C \in SUBSET Nat /\ Len(s) \in C
  BY <1>1
<1>3. PICK x \in C : \A y \in C : x <= y
  BY <1>2, LeastNatural
<1>4. ASSUME NEW m \in k .. x - 1 PROVE At(s, m) \notin bytes
  <2>1. m \in k .. Len(s) /\ ~ (x <= m)
    BY <1>1, <1>3, <1>4
  <2>2. m \notin C
    BY <1>3, <2>1
  <2>3. QED
    BY <2>1, <2>2
<1>5. \E y \in k .. Len(s) : P(y)
  BY <1>3, <1>4
<1>6. j = CHOOSE y \in k .. Len(s) : P(y)
  BY DEF ScanIs
<1> HIDE DEF P
<1>7. j \in k .. Len(s) /\ P(j)
  BY <1>5, <1>6
<1>8. QED
  BY <1>7 DEF P

(* The first place without any of some bytes, likewise. *)
LEMMA ScanNotFacts ==
  ASSUME NEW S, NEW s \in Seq(S), NEW k \in 0 .. Len(s), NEW bytes,
         NEW j, j = ScanNot(s, k, bytes)
  PROVE  /\ j \in k .. Len(s)
         /\ j < Len(s) => At(s, j) \notin bytes
         /\ \A m \in k .. j - 1 : At(s, m) \in bytes
<1> DEFINE others == {At(s, m) : m \in k .. Len(s) - 1} \ bytes
<1>0. Len(s) \in Nat /\ k \in Nat
  OBVIOUS
<1>1. j = ScanIs(s, k, others)
  BY DEF ScanNot
<1> HIDE DEF others
<1>2. /\ j \in k .. Len(s)
      /\ j < Len(s) => At(s, j) \in others
      /\ \A m \in k .. j - 1 : At(s, m) \notin others
  BY <1>1, ScanIsFacts
<1>3. \A m \in k .. j - 1 : At(s, m) \in bytes
  BY <1>0, <1>2 DEF others
<1>4. QED
  BY <1>2, <1>3 DEF others

(* What is left of a sequence without its first is one, of what was in it. *)
LEMMA TailIsSequence ==
  ASSUME NEW s, IsSequence(s), s # <<>>
  PROVE  /\ IsSequence(Tail(s)) /\ Len(Tail(s)) = Len(s) - 1
         /\ \A k \in 1 .. Len(s) - 1 : Tail(s)[k] = s[k + 1]
         /\ \A x \in Range(Tail(s)) : x \in Range(s)
<1>1. s \in Seq(Range(s)) /\ Len(s) \in Nat
  BY DEF IsSequence
<1>2. Tail(s) \in Seq(Range(s))
  BY <1>1
<1>3. /\ Len(Tail(s)) = Len(s) - 1
      /\ \A k \in 1 .. Len(s) - 1 : Tail(s)[k] = s[k + 1]
  BY <1>1
<1>4. \A x \in Range(Tail(s)) : x \in Range(s)
  BY <1>2 DEF Range
<1>5. QED
  BY <1>2, <1>3, <1>4, SequenceOf

(* A sequence with one more is one. *)
LEMMA AppendIsSequence ==
  ASSUME NEW s, IsSequence(s), NEW x
  PROVE  /\ IsSequence(Append(s, x)) /\ Len(Append(s, x)) = Len(s) + 1
         /\ Append(s, x)[Len(s) + 1] = x
         /\ \A k \in 1 .. Len(s) : Append(s, x)[k] = s[k]
<1>1. s \in Seq(Range(s) \cup {x})
  BY SeqMonotonic DEF IsSequence
<1>2. Append(s, x) \in Seq(Range(s) \cup {x})
  BY <1>1
<1>3. /\ Len(Append(s, x)) = Len(s) + 1
      /\ Append(s, x)[Len(s) + 1] = x
      /\ \A k \in 1 .. Len(s) : Append(s, x)[k] = s[k]
  BY <1>1
<1>4. QED
  BY <1>2, <1>3, SequenceOf

(* And so is a function of the same domain. *)
LEMMA SameLength ==
  ASSUME NEW s, IsSequence(s), NEW t, DOMAIN t = DOMAIN s, t = [k \in DOMAIN t |-> t[k]]
  PROVE  IsSequence(t) /\ Len(t) = Len(s)
<1>1. s \in Seq(Range(s)) /\ Len(s) \in Nat /\ DOMAIN s = 1 .. Len(s)
  BY DEF IsSequence
<1>2. PICK S : S = {t[k] : k \in 1 .. Len(s)}
  OBVIOUS
<1>3. t \in [1 .. Len(s) -> S]
  BY <1>1, <1>2
<1>4. t \in Seq(S) /\ Len(t) = Len(s)
  BY <1>1, <1>3
<1>5. QED
  BY <1>4, SequenceOf

(* Of a single value nothing is left. *)
LEMMA SingleValue ==
  ASSUME NEW x, NEW s, s = <<x>>
  PROVE  s[1] = x /\ Tail(s) = <<>>
<1>1. s \in Seq({x}) /\ Len(s) = 1 /\ s[1] = x
  OBVIOUS
<1>2. Tail(s) \in Seq({x}) /\ Len(Tail(s)) = 0
  BY <1>1
<1>3. QED
  BY <1>1, <1>2

(* What RemoveAt returns: the elements but one. *)
LEMMA RemoveAtFacts ==
  ASSUME NEW S, NEW s \in Seq(S), NEW p \in 1 .. Len(s)
  PROVE  /\ RemoveAt(s, p) \in Seq(S) /\ Len(RemoveAt(s, p)) = Len(s) - 1
         /\ \A k \in 1 .. Len(s) - 1 :
              RemoveAt(s, p)[k] = IF k < p THEN s[k] ELSE s[k + 1]
<1> DEFINE a == SubSeq(s, 1, p - 1)
           b == SubSeq(s, p + 1, Len(s))
<1>0. RemoveAt(s, p) = a \o b
  BY DEF RemoveAt
<1>len. Len(s) \in Nat /\ p \in Nat /\ p <= Len(s) /\ p >= 1
  OBVIOUS
<1>1. a \in Seq(S) /\ Len(a) = p - 1 /\ \A m \in 1 .. p - 1 : a[m] = s[m]
  BY <1>len
<1>2. b \in Seq(S) /\ Len(b) = Len(s) - p /\ \A m \in 1 .. Len(s) - p : b[m] = s[p + m]
  BY <1>len
<1> HIDE DEF a, b
<1>3. PICK t : t = a \o b
  OBVIOUS
<1>4. /\ t \in Seq(S)
      /\ Len(t) = Len(s) - 1
      /\ \A m \in 1 .. Len(s) - 1 : t[m] = IF m <= p - 1 THEN a[m] ELSE b[m - (p - 1)]
  <2>1. PICK q \in Nat : q = p - 1
    BY <1>len
  <2>2. Len(a) = q /\ Len(b) = Len(s) - 1 - q
    BY <1>1, <1>2, <1>len, <2>1
  <2>3. /\ t \in Seq(S)
        /\ Len(t) = Len(a) + Len(b)
        /\ \A m \in 1 .. Len(a) + Len(b) : t[m] = IF m <= Len(a) THEN a[m] ELSE b[m - Len(a)]
    BY <1>1, <1>2, <1>3, ConcatProperties
  <2>4. Len(a) + Len(b) = Len(s) - 1
    BY <1>len, <2>1, <2>2
  <2>5. QED
    BY <2>1, <2>2, <2>3, <2>4
<1>5. ASSUME NEW m \in 1 .. Len(s) - 1
      PROVE  t[m] = IF m < p THEN s[m] ELSE s[m + 1]
  <2>1. CASE m < p
    BY <2>1, <1>1, <1>4, <1>len
  <2>2. CASE m >= p
    <3>1. t[m] = b[m - (p - 1)] /\ m - (p - 1) \in 1 .. Len(s) - p
      BY <2>2, <1>4, <1>len
    <3>2. b[m - (p - 1)] = s[p + (m - (p - 1))] /\ p + (m - (p - 1)) = m + 1
      BY <3>1, <1>2, <1>len
    <3>3. QED
      BY <3>1, <3>2, <2>2, <1>len
  <2>3. QED
    BY <2>1, <2>2, <1>len
<1>6. QED
  BY <1>0, <1>3, <1>4, <1>5

(* A line as it is in the file is a sequence, and is what the parser reads. *)
LEMMA TextFacts ==
  ASSUME aff_file \in AffFiles, file \in DicFiles(aff_file.dics),
         NEW k \in 1 .. Len(file.lines)
  PROVE  Text(k) = Chomp(file.lines[k]) /\ IsSequence(Text(k))
<1>1. file.lines \in Seq(Range(file.lines)) /\ \A l \in Range(file.lines) : IsSequence(l)
  BY DicFilesAssumption DEF IsSequence
<1>2. file.lines[k] \in Range(file.lines)
  BY <1>1
<1>3. PICK l : l = file.lines[k]
  OBVIOUS
<1>4. l \in Seq(Range(l))
  BY <1>1, <1>2, <1>3 DEF IsSequence
<1>5. Text(k) = IF l # <<>> /\ l[Len(l)] = "\r" THEN SubSeq(l, 1, Len(l) - 1) ELSE l
  BY <1>3 DEF Text
<1>6. Text(k) = Chomp(l)
  BY <1>5 DEF Chomp, Last, Front
<1>7. Text(k) \in Seq(Range(l))
  <2>1. CASE l # <<>>
    <3>1. Front(l) \in Seq(Range(l))
      BY <1>4, <2>1, FrontFacts
    <3>2. QED
      BY <1>4, <1>6, <3>1 DEF Chomp
  <2>2. CASE l = <<>>
    BY <1>4, <1>5, <2>2
  <2>3. QED
    BY <2>1, <2>2
<1>8. QED
  BY <1>3, <1>6, <1>7, SequenceOf

(* The first end of a word is the one that no other comes before. *)
LEMMA FirstEndIs ==
  ASSUME NEW S, NEW s \in Seq(S), NEW k \in 1 .. Len(s) + 1,
         k <= Len(s) => Ends(s, k), \A j \in 1 .. k - 1 : ~ Ends(s, j)
  PROVE  FirstEnd(s) = k
<1> DEFINE P(x) == /\ x <= Len(s) => Ends(s, x)
                   /\ \A j \in 1 .. x - 1 : ~ Ends(s, j)
<1>0. Len(s) \in Nat
  OBVIOUS
<1>1. P(k)
  OBVIOUS
<1>2. ASSUME NEW x \in 1 .. Len(s) + 1, P(x) PROVE x = k
  <2>1. ASSUME x < k PROVE FALSE
    BY <1>0, <1>2, <2>1
  <2>2. ASSUME k < x PROVE FALSE
    BY <1>0, <1>2, <2>2
  <2>3. QED
    BY <1>0, <2>1, <2>2
<1>3. FirstEnd(s) = CHOOSE x \in 1 .. Len(s) + 1 : P(x)
  BY DEF FirstEnd
<1> HIDE DEF P
<1>4. FirstEnd(s) \in 1 .. Len(s) + 1 /\ P(FirstEnd(s))
  BY <1>1, <1>3
<1>5. QED
  BY <1>2, <1>4

-----------------------------------------------------------------------------
(* A place of the line that lies ahead of the scan ends the word if and    *)
(* only if the place it came from does.                                    *)
LEMMA EndAgrees ==
  ASSUME IsSequence(line), IsSequence(Text(n)), NEW r \in 0 .. Len(Text(n)), Shifted(r),
         i \in 0 .. Len(line) - 1
  PROVE  /\ IsEscaped(i) => ~ Ends(Text(n), i + r + 1)
         /\ ~ IsEscaped(i) => (IsEnd(i) <=> Ends(Text(n), i + r + 1))
<1> DEFINE s == Text(n)
<1>1. PICK N \in Nat : N = Len(line)
  BY DEF IsSequence
<1>2. PICK M \in Nat : M = Len(s)
  BY DEF IsSequence
<1>3. /\ N + r = M /\ (i = 0 => r = 0) /\ i \in Nat /\ r \in Nat /\ i < N
      /\ \A k \in 1 .. N : k >= i => line[k] = s[k + r]
  BY <1>1, <1>2 DEF Shifted
<1>4. line \in Seq(Range(line)) /\ s \in Seq(Range(s))
  BY DEF IsSequence
<1> HIDE DEF s
<1>5. At(line, i) = s[i + r + 1]
  <2>1. line[i + 1] = s[(i + 1) + r] /\ (i + 1) + r = i + r + 1
    BY <1>3
  <2>2. QED
    BY <2>1 DEF At
<1>6. i > 0 => At(line, i - 1) = s[i + r]
  <2>1. i > 0 => line[i] = s[i + r] /\ (i - 1) + 1 = i
    BY <1>3
  <2>2. QED
    BY <2>1 DEF At
<1>7. i > 0 <=> i + r + 1 > 1
  BY <1>3
<1>8. i > 0 => (i + r + 1) - 1 = i + r
  BY <1>3
<1>9. EndsAtSpace(i) <=> \E m \in (i + r + 1) + 1 .. M + 1 :
                            /\ \A j \in (i + r + 1) + 1 .. m - 1 : s[j] \in Spaces
                            /\ m = M + 1 \/ IsField(SubSeq(s, m, M))
  <2>1. PICK f : f = ScanNot(line, i + 1, Spaces)
    OBVIOUS
  <2>2. /\ f \in i + 1 .. N
        /\ f < N => At(line, f) \notin Spaces
        /\ \A m \in i + 1 .. f - 1 : At(line, m) \in Spaces
    <3>1. i + 1 \in 0 .. N
      BY <1>3
    <3>2. QED
      BY <1>1, <1>4, <2>1, <3>1, ScanNotFacts
  <2>3. f \in Nat /\ i < f /\ f <= N
    BY <1>3, <2>2
  <2>4. \A x \in i + 1 .. N - 1 : At(line, x) = s[x + 1 + r]
    <3>1. \A x \in i + 1 .. N - 1 : line[x + 1] = s[(x + 1) + r]
      BY <1>3
    <3>2. QED
      BY <3>1 DEF At
  <2>5. EndsAtSpace(i) <=>
          \/ f = N
          \/ /\ N - f >= 3 /\ At(line, f + 2) = ":"
             /\ At(line, f) \in Lowers /\ At(line, f + 1) \in Lowers
    BY <1>1, <2>1 DEF EndsAtSpace
  <2>6. ASSUME NEW m \in 1 .. M + 1
        PROVE  IsField(SubSeq(s, m, M)) <=>
                 /\ M - m >= 2 /\ s[m] \in Lowers /\ s[m + 1] \in Lowers
                 /\ s[m + 2] = ":"
    <3>1. PICK u : u = SubSeq(s, m, M)
      OBVIOUS
    <3>2. Len(u) = M - m + 1 /\ \A x \in 1 .. M - m + 1 : u[x] = s[m + x - 1]
      BY <1>2, <1>4, <2>6, <3>1
    <3>3. M - m >= 2 => u[1] = s[m] /\ u[2] = s[m + 1] /\ u[3] = s[m + 2]
      <4>1. M - m >= 2 => 1 \in 1 .. M - m + 1 /\ 2 \in 1 .. M - m + 1 /\ 3 \in 1 .. M - m + 1
        BY <2>6
      <4>2. m + 1 - 1 = m /\ m + 2 - 1 = m + 1 /\ m + 3 - 1 = m + 2
        BY <2>6
      <4>3. QED
        BY <3>2, <4>1, <4>2
    <3>4. Len(u) >= 3 <=> M - m >= 2
      BY <2>6, <3>2
    <3>5. QED
      BY <3>1, <3>3, <3>4 DEF IsField
  <2>7. PICK g \in 1 .. M + 1 : g = f + 1 + r
    BY <1>3, <2>3
  <2>8. \A x \in i + r + 2 .. g - 1 : s[x] \in Spaces
    <3>1. ASSUME NEW x \in i + r + 2 .. g - 1 PROVE s[x] \in Spaces
      <4>1. PICK y \in i + 1 .. f - 1 : x = y + 1 + r
        <5>1. x - 1 - r \in i + 1 .. f - 1 /\ x = (x - 1 - r) + 1 + r
          BY <1>3, <2>3, <2>7, <3>1
        <5>2. QED
          BY <5>1
      <4>2. y \in i + 1 .. N - 1
        BY <1>3, <2>3, <4>1
      <4>3. QED
        BY <2>2, <2>4, <4>1, <4>2
    <3>2. QED
      BY <3>1
  <2>9. f < N => s[g] \notin Spaces
    <3>1. f < N => f \in i + 1 .. N - 1
      BY <1>3, <2>3
    <3>2. QED
      BY <2>2, <2>4, <2>7, <3>1
  <2>10. f = N <=> g = M + 1
    BY <1>3, <2>3, <2>7
  <2>11. IsField(SubSeq(s, g, M)) <=>
           /\ N - f >= 3 /\ At(line, f + 2) = ":"
           /\ At(line, f) \in Lowers /\ At(line, f + 1) \in Lowers
    <3>1. N - f >= 3 <=> M - g >= 2
      BY <1>3, <2>3, <2>7
    <3>2. N - f >= 3 => /\ f \in i + 1 .. N - 1 /\ f + 1 \in i + 1 .. N - 1
                        /\ f + 2 \in i + 1 .. N - 1
                        /\ (f + 1) + 1 + r = g + 1 /\ (f + 2) + 1 + r = g + 2
      BY <1>3, <2>3, <2>7
    <3>3. N - f >= 3 => /\ At(line, f) = s[g] /\ At(line, f + 1) = s[g + 1]
                        /\ At(line, f + 2) = s[g + 2]
      BY <2>4, <2>7, <3>2
    <3>4. QED
      BY <2>6, <2>7, <3>1, <3>3
  <2>12. ASSUME NEW m \in i + r + 2 .. M + 1,
                \A j \in i + r + 2 .. m - 1 : s[j] \in Spaces,
                m = M + 1 \/ IsField(SubSeq(s, m, M))
         PROVE  m = g
    <3>1. ASSUME m < g PROVE FALSE
      <4>1. m \in i + r + 2 .. g - 1 /\ m \in 1 .. M + 1 /\ m # M + 1
        BY <1>3, <2>7, <2>12, <3>1
      <4>2. s[m] \in Spaces /\ s[m] \in Lowers
        BY <2>6, <2>8, <2>12, <4>1
      <4>3. QED
        BY <4>2, DicFilesAssumption
    <3>2. ASSUME g < m PROVE FALSE
      <4>1. g \in i + r + 2 .. m - 1 /\ f < N
        BY <1>3, <2>3, <2>7, <2>12, <3>2
      <4>2. QED
        BY <2>9, <2>12, <4>1
    <3>3. QED
      BY <1>3, <2>7, <2>12, <3>1, <3>2
  <2>13. g \in i + r + 2 .. M + 1
    BY <1>3, <2>3, <2>7
  <2>14. (i + r + 1) + 1 = i + r + 2
    BY <1>3
  <2>15. ASSUME EndsAtSpace(i)
         PROVE  \E m \in i + r + 2 .. M + 1 :
                   /\ \A j \in i + r + 2 .. m - 1 : s[j] \in Spaces
                   /\ m = M + 1 \/ IsField(SubSeq(s, m, M))
    BY <2>5, <2>8, <2>10, <2>11, <2>13, <2>15
  <2>16. ASSUME NEW m \in i + r + 2 .. M + 1,
                \A j \in i + r + 2 .. m - 1 : s[j] \in Spaces,
                m = M + 1 \/ IsField(SubSeq(s, m, M))
         PROVE  EndsAtSpace(i)
    BY <2>5, <2>10, <2>11, <2>12, <2>16
  <2>17. QED
    BY <2>14, <2>15, <2>16
<1>10. /\ At(line, i) = "\t" => At(line, i) # "/" /\ At(line, i) # " "
       /\ At(line, i) = "/" => At(line, i) # "\t" /\ At(line, i) # " "
  OBVIOUS
<1>11. Ends(s, i + r + 1) <=>
          \/ At(line, i) = "/" /\ i > 0 /\ At(line, i - 1) # "\\"
          \/ At(line, i) = "\t"
          \/ At(line, i) = " " /\ EndsAtSpace(i)
  BY <1>2, <1>5, <1>6, <1>7, <1>8, <1>9 DEF Ends
<1>12. QED
  BY <1>10, <1>11 DEF IsEscaped, IsEnd, s

(* The flags are cut out of the line where the text has them. *)
LEMMA FlagsAgree ==
  ASSUME IsSequence(line), IsSequence(Text(n)), NEW r \in 0 .. Len(Text(n)), Shifted(r),
         i \in 0 .. Len(line) - 1, end_word_pos = i, At(line, i) = "/",
         FirstEnd(Text(n)) = i + r + 1
  PROVE  FlagsStr = FlagsTextOf(n)
<1> DEFINE s == Text(n)
<1>1. PICK N \in Nat : N = Len(line)
  BY DEF IsSequence
<1>2. PICK M \in Nat : M = Len(s)
  BY DEF IsSequence
<1>3. /\ N + r = M /\ i \in Nat /\ r \in Nat /\ i < N
      /\ \A k \in 1 .. N : k >= i => line[k] = s[k + r]
  BY <1>1, <1>2 DEF Shifted
<1>4. line \in Seq(Range(line)) /\ s \in Seq(Range(s))
  BY DEF IsSequence
<1> HIDE DEF s
<1>5. PICK j : j = ScanIs(line, i, Spaces)
  OBVIOUS
<1>6. /\ j \in i .. N
      /\ j < N => At(line, j) \in Spaces
      /\ \A m \in i .. j - 1 : At(line, m) \notin Spaces
  <2>1. i \in 0 .. N
    BY <1>3
  <2>2. QED
    BY <1>1, <1>4, <1>5, <2>1, ScanIsFacts
<1>7. j \in Nat /\ i < j /\ j <= N
  <2>1. j # i
    BY <1>3, <1>6 DEF Spaces
  <2>2. QED
    BY <1>3, <1>6, <2>1
<1>8. \A x \in i .. N - 1 : At(line, x) = s[x + 1 + r]
  <2>1. \A x \in i .. N - 1 : line[x + 1] = s[(x + 1) + r]
    BY <1>3
  <2>2. QED
    BY <2>1 DEF At
<1>9. PICK b \in Nat : b = i + r + 2
  BY <1>3
<1> DEFINE P(e) == /\ e = M \/ s[e + 1] \in Spaces
                   /\ \A x \in b .. e : s[x] \notin Spaces
<1>10. PICK e \in b - 1 .. M : e = j + r
  BY <1>3, <1>7, <1>9
<1>11. P(e)
  <2>1. e = M \/ s[e + 1] \in Spaces
    <3>1. CASE j = N
      BY <1>3, <1>10, <3>1
    <3>2. CASE j < N
      <4>1. j \in i .. N - 1 /\ j + 1 + r = e + 1
        BY <1>3, <1>7, <1>10, <3>2
      <4>2. QED
        BY <1>6, <1>8, <3>2, <4>1
    <3>3. QED
      BY <1>7, <1>1, <3>1, <3>2
  <2>2. ASSUME NEW x \in b .. e PROVE s[x] \notin Spaces
    <3>1. PICK y \in i .. j - 1 : x = y + 1 + r
      <4>1. x - 1 - r \in i .. j - 1 /\ x = (x - 1 - r) + 1 + r
        BY <1>3, <1>7, <1>9, <1>10, <2>2
      <4>2. QED
        BY <4>1
    <3>2. y \in i .. N - 1
      BY <1>3, <1>7, <3>1
    <3>3. QED
      BY <1>6, <1>8, <3>1, <3>2
  <2>3. QED
    BY <2>1, <2>2
<1>12. ASSUME NEW x \in b - 1 .. M, P(x) PROVE x = e
  <2>1. ASSUME x < e PROVE FALSE
    <3>1. x # M /\ x + 1 \in b .. e
      BY <1>3, <1>9, <1>10, <1>12, <2>1
    <3>2. QED
      BY <1>11, <1>12, <3>1
  <2>2. ASSUME e < x PROVE FALSE
    <3>1. e # M /\ e + 1 \in b .. x
      BY <1>3, <1>9, <1>10, <1>12, <2>2
    <3>2. QED
      BY <1>11, <1>12, <3>1
  <2>3. QED
    BY <1>3, <1>9, <1>10, <1>12, <2>1, <2>2
<1>13. FlagsTextOf(n) = SubSeq(s, b, e)
  <2>1. (i + r + 1) + 1 = b
    BY <1>3, <1>9
  <2>2. FlagsTextOf(n) = SubSeq(s, b, CHOOSE x \in b - 1 .. M : P(x))
    BY <1>2, <2>1 DEF FlagsTextOf, s
  <2> HIDE DEF P
  <2>3. (CHOOSE x \in b - 1 .. M : P(x)) = e
    BY <1>11, <1>12
  <2>4. QED
    BY <2>2, <2>3
<1>14. FlagsStr = SubSeq(line, i + 2, j)
  <2>1. HasSlash
    BY <1>3 DEF HasSlash, NPos
  <2>2. QED
    BY <1>5, <2>1 DEF FlagsStr
<1>15. SubSeq(s, b, e) = SubSeq(line, i + 2, j)
  <2> DEFINE T == Range(line) \cup Range(s)
  <2>1. PICK u : u = SubSeq(s, b, e)
    OBVIOUS
  <2>2. PICK v : v = SubSeq(line, i + 2, j)
    OBVIOUS
  <2>3. line \in Seq(T) /\ s \in Seq(T)
    BY <1>4, SeqMonotonic
  <2> HIDE DEF T
  <2>4. PICK d \in Nat : d = j - (i + 1)
    BY <1>3, <1>7
  <2>5. u \in Seq(T) /\ Len(u) = d /\ \A x \in 1 .. d : u[x] = s[b + x - 1]
    <3>1. b >= 1 /\ e <= M /\ e - b + 1 = d /\ b \in Nat /\ e \in Nat
      BY <1>3, <1>7, <1>9, <1>10, <2>4
    <3>2. QED
      BY <1>2, <2>1, <2>3, <2>4, <3>1
  <2>6. v \in Seq(T) /\ Len(v) = d /\ \A x \in 1 .. d : v[x] = line[i + 2 + x - 1]
    <3>1. PICK c \in Nat : c = i + 2
      BY <1>3
    <3>2. c >= 1 /\ j <= N /\ j - c + 1 = d /\ j \in Nat
      BY <1>3, <1>7, <2>4, <3>1
    <3>3. v \in Seq(T) /\ Len(v) = d /\ \A x \in 1 .. d : v[x] = line[c + x - 1]
      BY <1>1, <2>2, <2>3, <2>4, <3>1, <3>2
    <3>4. QED
      BY <3>1, <3>3
  <2>7. ASSUME NEW x \in 1 .. d PROVE u[x] = v[x]
    <3>1. PICK y \in 1 .. N : y = i + 2 + x - 1 /\ y >= i /\ y + r = b + x - 1
      BY <1>3, <1>7, <1>9, <2>4
    <3>2. QED
      BY <1>3, <2>5, <2>6, <3>1
  <2>8. u = v
    BY <2>5, <2>6, <2>7, SeqEqual
  <2>9. QED
    BY <2>1, <2>2, <2>8
<1>16. QED
  BY <1>13, <1>14, <1>15

(* A line is rejected if and only if its text has bad flags, and its word    *)
(* ends where the text says.                                                *)
LEMMA BadAgrees ==
  ASSUME IsSequence(line), IsSequence(Text(n)), NEW r \in 0 .. Len(Text(n)), Shifted(r),
         pc = "insert", PlacesAreInLine
  PROVE  /\ BadFlags <=> IsBad(n)
         /\ Decoded = FlagsOf(n) /\ FirstEnd(Text(n)) = i + r + 1
<1> DEFINE s == Text(n)
<1>1. PICK N \in Nat : N = Len(line)
  BY DEF IsSequence
<1>2. PICK M \in Nat : M = Len(s)
  BY DEF IsSequence
<1>3. /\ N + r = M /\ i \in 0 .. N /\ r \in Nat
      /\ \A k \in 1 .. N : k >= i => line[k] = s[k + r]
      /\ \A k \in 1 .. i + r : ~ Ends(s, k)
      /\ end_word_pos # NPos => end_word_pos = i /\ Ends(s, i + r + 1)
      /\ end_word_pos = NPos => i = N
      /\ end_word_pos # NPos => end_word_pos \in 0 .. N - 1
  BY <1>1, <1>2 DEF Shifted, PlacesAreInLine
<1>4. s \in Seq(Range(s))
  BY DEF IsSequence
<1> HIDE DEF s
<1>5. PICK k \in 1 .. M + 1 : k = i + r + 1
  BY <1>3
<1>6. k <= M <=> end_word_pos # NPos
  BY <1>3, <1>5
<1>7. FirstEnd(s) = k
  <2>1. k <= M => Ends(s, k)
    BY <1>3, <1>5, <1>6
  <2>2. \A j \in 1 .. k - 1 : ~ Ends(s, j)
    BY <1>3, <1>5
  <2>3. QED
    BY <1>2, <1>4, <2>1, <2>2, FirstEndIs
<1>8. ASSUME end_word_pos = NPos
      PROVE  (BadFlags <=> IsBad(n)) /\ Decoded = FlagsOf(n)
  <2>1. ~ HasSlash /\ ~ Slashed(n)
    BY <1>2, <1>6, <1>7, <1>8 DEF HasSlash, Slashed, s
  <2>2. Decoded = Ok({}) /\ FlagsOf(n) = Ok({}) /\ Ok({}).err = "ok"
    BY <2>1 DEF Decoded, FlagsOf, Ok
  <2>3. QED
    BY <2>2 DEF BadFlags, IsBad
<1>9. ASSUME end_word_pos # NPos
      PROVE  (BadFlags <=> IsBad(n)) /\ Decoded = FlagsOf(n)
  <2>1. i \in 0 .. N - 1 /\ end_word_pos = i
    BY <1>3, <1>9
  <2>2. At(line, i) = s[k]
    <3>1. i + 1 \in 1 .. N /\ i + 1 >= i /\ (i + 1) + r = k
      BY <1>3, <1>5, <2>1
    <3>2. QED
      BY <1>3, <3>1 DEF At
  <2>3. HasSlash <=> Slashed(n)
    BY <1>2, <1>6, <1>7, <1>9, <2>1, <2>2 DEF HasSlash, Slashed, s
  <2>4. HasSlash => FlagsStr = FlagsTextOf(n)
    BY <1>1, <1>5, <1>7, <2>1, FlagsAgree DEF HasSlash, s
  <2>5. Decoded = FlagsOf(n)
    BY <2>3, <2>4 DEF Decoded, FlagsOf
  <2>6. CASE HasSlash
    BY <2>4, <2>5, <2>6 DEF BadFlags, IsBad
  <2>7. CASE ~ HasSlash
    <3>1. Decoded.err = "ok"
      BY <2>7 DEF Decoded, Ok
    <3>2. QED
      BY <2>5, <3>1 DEF BadFlags, IsBad
  <2>8. QED
    BY <2>5, <2>6, <2>7
<1>10. FirstEnd(Text(n)) = i + r + 1
  BY <1>5, <1>7 DEF s
<1>11. QED
  BY <1>8, <1>9, <1>10

-----------------------------------------------------------------------------
(* What does not change while the words are read. *)
LEMMA FixedFacts ==
  ASSUME UNCHANGED <<file, aff>>
  PROVE  /\ \A k : Text(k)' = Text(k)
         /\ \A k : IsBad(k)' <=> IsBad(k)
         /\ \A k : HasEntry(k)' <=> HasEntry(k)
         /\ \A k : EntryOf(k)' = EntryOf(k)
<1>1. \A k : Text(k)' = Text(k)
  BY DEF Text
<1>2. \A k : FlagsTextOf(k)' = FlagsTextOf(k)
  BY <1>1 DEF FlagsTextOf
<1>3. \A k : Slashed(k)' <=> Slashed(k)
  BY <1>1 DEF Slashed
<1>4. \A t : Decode(t)' = Decode(t)
  BY DEF Decode, DecodeFlags
<1>5. \A k : FlagsOf(k)' = FlagsOf(k)
  BY <1>2, <1>3, <1>4 DEF FlagsOf
<1>6. \A k : IsBad(k)' <=> IsBad(k)
  BY <1>2, <1>5 DEF IsBad
<1>7. \A k : WordOf(k)' = WordOf(k)
  BY <1>1 DEF WordOf
<1>8. \A k : HasEntry(k)' <=> HasEntry(k)
  BY <1>6, <1>7 DEF HasEntry
<1>9. \A k : EntryOf(k)' = EntryOf(k)
  BY <1>5, <1>7 DEF EntryOf
<1>10. QED
  BY <1>1, <1>6, <1>8, <1>9

(* The lines of the file that is read, how many they are and where it breaks. *)
LEMMA FileFacts ==
  ASSUME Control, pc \in Reading
  PROVE  /\ Len(file.lines) \in Nat /\ DOMAIN file.lines = 1 .. Len(file.lines)
         /\ file.breaks \in Nat /\ file.has_count \in BOOLEAN
<1>1. file.lines \in Seq(Range(file.lines)) /\ file.breaks \in Nat /\ file.has_count \in BOOLEAN
  BY DicFilesAssumption DEF Control, IsSequence
<1>2. QED
  BY <1>1

-----------------------------------------------------------------------------
(* A step that emplaces nothing keeps what is known of the words.          *)
LEMMA WordsKept ==
  ASSUME IsSequence(words), Covered, UNCHANGED <<words, aff>>
  PROVE  IsSequence(words)' /\ Covered'
BY DEF Covered, IsCovered, IsSequence

(* The first line says whether there is anything to read. *)
LEMMA ReadCountKeeps ==
  ASSUME IInv, ReadCount, UNCHANGED affVars
  PROVE  IInv'
<1>1. /\ pc = "count" /\ AtStart /\ Control
      /\ UNCHANGED <<file, aff, aff_file, n, line, i, end_word_pos, words>>
      /\ IF file.has_count THEN pc' = "lines" /\ UNCHANGED success
                           ELSE pc' = "done" /\ success' = FALSE
  BY DEF IInv, Control, Reading, ReadCount, FixedInput, affVars
<1>2. Len(file.lines) \in Nat /\ file.breaks \in Nat /\ file.has_count \in BOOLEAN
  BY <1>1, FileFacts DEF Reading
<1>3. Control'
  BY <1>1, <1>2 DEF Control, Reading, AtStart
<1>4. IsSequence(words)' /\ Covered'
  BY <1>1, WordsKept DEF IInv
<1>5. IsSequence(line)' /\ PlacesAreInLine'
  BY <1>1 DEF IInv, IsSequence, PlacesAreInLine
<1>6. ScanOfText'
  BY <1>1 DEF ScanOfText
<1>7. SuccessSoFar'
  <2>1. ASSUME pc' = "lines" PROVE success' /\ file'.has_count /\ LinesDone' = 0
    BY <1>1, <1>2, <2>1 DEF AtStart, LinesDone
  <2>2. QED
    BY <1>1, <2>1 DEF SuccessSoFar
<1>8. FailureReported'
  BY <1>1, <1>2 DEF FailureReported
<1>9. QED
  BY <1>3, <1>4, <1>5, <1>6, <1>7, <1>8 DEF IInv

(* A fresh line is its text, and nothing is erased yet. *)
LEMMA NextLineKeeps ==
  ASSUME IInv, NextLine, UNCHANGED affVars
  PROVE  IInv'
<1>1. /\ pc = "lines" /\ Control /\ n < Len(file.lines) /\ n < file.breaks
      /\ UNCHANGED <<file, aff, aff_file, words, success>>
      /\ n' = n + 1 /\ line' = Chomp(file.lines[n + 1])
      /\ i' = 0 /\ end_word_pos' = NPos /\ pc' = "scan"
  BY DEF IInv, NextLine, More, FixedInput, affVars
<1>2. Len(file.lines) \in Nat /\ file.breaks \in Nat
  BY <1>1, FileFacts DEF Reading
<1>3. /\ n \in Nat /\ n + 1 \in 1 .. Len(file.lines) /\ aff_file \in AffFiles
      /\ file \in DicFiles(aff_file.dics) /\ success \in BOOLEAN
  BY <1>1, <1>2 DEF Control, Reading
<1>4. line' = Text(n + 1) /\ IsSequence(Text(n + 1))
  BY <1>1, <1>3, TextFacts
<1>5. Text(n)' = Text(n + 1)
  BY <1>1 DEF Text
<1>6. Control'
  BY <1>1, <1>2, <1>3 DEF Control, Reading
<1>7. IsSequence(words)' /\ Covered'
  BY <1>1, WordsKept DEF IInv
<1>8. PICK t : t = Text(n + 1)
  OBVIOUS
<1>9. t \in Seq(Range(t)) /\ Len(t) \in Nat /\ line' = t /\ Text(n)' = t
  BY <1>4, <1>5, <1>8 DEF IsSequence
<1>10. IsSequence(line)' /\ PlacesAreInLine'
  BY <1>1, <1>9 DEF IsSequence, PlacesAreInLine
<1>11. ScanOfText'
  <2>1. Shifted(0)'
    BY <1>1, <1>9 DEF Shifted
  <2>2. QED
    BY <1>9, <2>1 DEF ScanOfText
<1>12. SuccessSoFar'
  <2>1. LinesDone' = LinesDone
    BY <1>1, <1>3 DEF LinesDone
  <2>2. QED
    BY <1>1, <2>1, FixedFacts DEF IInv, SuccessSoFar
<1>13. FailureReported'
  BY <1>1 DEF FailureReported
<1>14. QED
  BY <1>6, <1>7, <1>10, <1>11, <1>12, <1>13 DEF IInv

(* All lines are accounted for when the file has ended. *)
LEMMA EndOfFileKeeps ==
  ASSUME IInv, EndOfFile, UNCHANGED affVars
  PROVE  IInv'
<1>1. /\ pc = "lines" /\ Control /\ ~ (n < Len(file.lines) /\ n < file.breaks)
      /\ UNCHANGED <<file, aff, aff_file, n, line, i, end_word_pos, words>>
      /\ success' = (n = Len(file.lines) /\ n < file.breaks /\ success)
      /\ pc' = "done"
  BY DEF IInv, EndOfFile, More, EofReached, FixedInput, affVars
<1>2. /\ Len(file.lines) \in Nat /\ file.breaks \in Nat
      /\ DOMAIN file.lines = 1 .. Len(file.lines)
  BY <1>1, FileFacts DEF Reading
<1>3. n \in 0 .. Len(file.lines) /\ n <= file.breaks /\ success \in BOOLEAN
  BY <1>1 DEF Control, Reading
<1>4. file.has_count /\ (success <=> \A k \in 1 .. n : ~ IsBad(k))
  BY <1>1 DEF IInv, SuccessSoFar, LinesDone
<1>5. Control'
  BY <1>1, <1>2, <1>3 DEF Control, Reading
<1>6. IsSequence(words)' /\ Covered'
  BY <1>1, WordsKept DEF IInv
<1>7. IsSequence(line)' /\ PlacesAreInLine'
  BY <1>1 DEF IInv, IsSequence, PlacesAreInLine
<1>8. ScanOfText' /\ SuccessSoFar'
  BY <1>1 DEF ScanOfText, SuccessSoFar
<1>9. FailureReported'
  <2>1. success' <=> file.breaks > Len(file.lines) /\ \A k \in DOMAIN file.lines : ~ IsBad(k)
    <3>1. CASE n = Len(file.lines) /\ n < file.breaks
      BY <1>1, <1>2, <1>4, <3>1
    <3>2. CASE ~ (n = Len(file.lines) /\ n < file.breaks)
      <4>1. ~ (file.breaks > Len(file.lines))
        BY <1>1, <1>2, <1>3, <3>2
      <4>2. QED
        BY <1>1, <3>2, <4>1
    <3>3. QED
      BY <3>1, <3>2
  <2>2. QED
    BY <1>1, <1>4, <2>1, FixedFacts DEF FailureReported
<1>10. QED
  BY <1>5, <1>6, <1>7, <1>8, <1>9 DEF IInv

-----------------------------------------------------------------------------
(* What is known in the line, and what a step of the scan leaves as it is. *)
LEMMA LineFacts ==
  ASSUME IInv, pc \in {"scan", "insert"}
  PROVE  /\ IsSequence(line) /\ IsSequence(Text(n)) /\ PlacesAreInLine
         /\ n \in Nat /\ n >= 1
         /\ \E r \in 0 .. Len(Text(n)) : Shifted(r)
<1>1. Control /\ pc \in Reading
  BY DEF IInv, Reading
<1>2. Len(file.lines) \in Nat
  BY <1>1, FileFacts
<1>3. /\ n \in 1 .. Len(file.lines) /\ n \in Nat /\ n >= 1
      /\ aff_file \in AffFiles /\ file \in DicFiles(aff_file.dics)
  BY <1>1, <1>2 DEF Control
<1>4. IsSequence(Text(n))
  BY <1>3, TextFacts
<1>5. QED
  BY <1>3, <1>4 DEF IInv, ScanOfText

(* A step that only scans, and what is left to show for it. *)
LEMMA ScanKeeps ==
  ASSUME IInv, pc = "scan", pc' \in {"scan", "insert"},
         UNCHANGED <<file, aff, aff_file, n, words, success>>,
         IsSequence(line)', PlacesAreInLine', ScanOfText'
  PROVE  IInv'
<1>1. Control'
  BY DEF IInv, Control, Reading
<1>2. IsSequence(words)' /\ Covered'
  BY WordsKept DEF IInv
<1>3. SuccessSoFar'
  <2>1. LinesDone' = LinesDone
    BY DEF LinesDone
  <2>2. QED
    BY <2>1, FixedFacts DEF IInv, SuccessSoFar
<1>4. FailureReported'
  BY DEF FailureReported
<1>5. QED
  BY <1>1, <1>2, <1>3, <1>4 DEF IInv

(* The slash moves to the place of its backslash: one more is gone.        *)
LEMMA UnescapeKeeps ==
  ASSUME IInv, Unescape, UNCHANGED affVars
  PROVE  IInv'
<1>1. /\ pc = "scan" /\ pc' = "scan" /\ i # Len(line) /\ end_word_pos = NPos
      /\ IsEscaped(i) /\ line' = RemoveAt(line, i) /\ i' = i
      /\ end_word_pos' = end_word_pos
      /\ UNCHANGED <<file, aff, aff_file, n, words, success>>
  BY DEF Unescape, Scanning, WithoutBackslash, AfterUnescape, FixedInput, affVars
<1>2. IsSequence(line) /\ IsSequence(Text(n)) /\ PlacesAreInLine
  BY <1>1, LineFacts
<1>3. PICK r \in 0 .. Len(Text(n)) : Shifted(r)
  BY <1>1, LineFacts
<1>4. PICK N \in Nat : N = Len(line)
  BY <1>2 DEF IsSequence
<1>5. PICK s : s = Text(n)
  OBVIOUS
<1>6. PICK M \in Nat : M = Len(s)
  BY <1>2, <1>5 DEF IsSequence
<1>7. /\ N + r = M /\ r \in Nat
      /\ \A k \in 1 .. N : k >= i => line[k] = s[k + r]
      /\ \A k \in 1 .. i + r : ~ Ends(s, k)
  BY <1>3, <1>4, <1>5, <1>6 DEF Shifted
<1>8. i \in 1 .. N - 1 /\ i > 0
  BY <1>1, <1>2, <1>4 DEF PlacesAreInLine, IsEscaped
<1>9. ~ Ends(s, i + r + 1)
  BY <1>1, <1>2, <1>3, <1>4, <1>5, <1>8, EndAgrees
<1>10. /\ line' \in Seq(Range(line)) /\ Len(line') = N - 1
       /\ \A k \in 1 .. N - 1 : line'[k] = IF k < i THEN line[k] ELSE line[k + 1]
  <2>1. line \in Seq(Range(line)) /\ i \in 1 .. Len(line)
    BY <1>2, <1>4, <1>8 DEF IsSequence
  <2>2. QED
    BY <1>1, <1>4, <2>1, RemoveAtFacts
<1>11. IsSequence(line')
  BY <1>10, SequenceOf
<1>12. PlacesAreInLine'
  BY <1>1, <1>8, <1>10 DEF PlacesAreInLine
<1>13. Text(n)' = s
  BY <1>1, <1>5 DEF Text
<1>14. PICK q \in 0 .. M : q = r + 1
  BY <1>7, <1>8
<1>15. Shifted(q)'
  <2>1. Len(line') + q = M /\ i # 0
    BY <1>7, <1>8, <1>10, <1>14
  <2>2. ASSUME NEW k \in 1 .. N - 1, k >= i PROVE line'[k] = s[k + q]
    <3>1. line'[k] = line[k + 1] /\ k + 1 \in 1 .. N /\ k + 1 >= i
      BY <1>8, <1>10, <2>2
    <3>2. (k + 1) + r = k + q
      BY <1>14, <1>7
    <3>3. QED
      BY <1>7, <3>1, <3>2
  <2>3. ASSUME NEW k \in 1 .. i + q PROVE ~ Ends(s, k)
    BY <1>7, <1>8, <1>9, <1>14, <2>3
  <2>4. QED
    BY <1>1, <1>6, <1>10, <1>13, <2>1, <2>2, <2>3 DEF Shifted
<1>16. ScanOfText'
  BY <1>6, <1>13, <1>14, <1>15 DEF ScanOfText
<1>17. QED
  BY <1>1, <1>11, <1>12, <1>16, ScanKeeps DEF IsSequence

(* The end that is remembered is the first one of the text. *)
LEMMA FindEndKeeps ==
  ASSUME IInv, FindEnd, UNCHANGED affVars
  PROVE  IInv'
<1>1. /\ pc = "scan" /\ pc' = "scan" /\ i # Len(line) /\ end_word_pos = NPos
      /\ IsEnd(i) /\ end_word_pos' = i
      /\ UNCHANGED <<file, aff, aff_file, n, line, i, words, success>>
  BY DEF FindEnd, Scanning, FixedInput, affVars
<1>2. IsSequence(line) /\ IsSequence(Text(n)) /\ PlacesAreInLine
  BY <1>1, LineFacts
<1>3. PICK r \in 0 .. Len(Text(n)) : Shifted(r)
  BY <1>1, LineFacts
<1>4. i \in 0 .. Len(line) - 1
  BY <1>1, <1>2 DEF PlacesAreInLine, IsSequence
<1>5. ~ IsEscaped(i)
  <2>1. "/" # "\t" /\ "/" # " "
    OBVIOUS
  <2>2. QED
    BY <1>1, <2>1 DEF IsEnd, IsEscaped
<1>6. Ends(Text(n), i + r + 1)
  BY <1>1, <1>2, <1>3, <1>4, <1>5, EndAgrees
<1>7. Text(n)' = Text(n)
  BY <1>1 DEF Text
<1>8. Shifted(r)'
  BY <1>1, <1>3, <1>6, <1>7 DEF Shifted
<1>9. ScanOfText'
  BY <1>7, <1>8 DEF ScanOfText
<1>10. IsSequence(line)' /\ PlacesAreInLine'
  BY <1>1, <1>2, <1>4 DEF IsSequence, PlacesAreInLine
<1>11. QED
  BY <1>1, <1>9, <1>10, ScanKeeps

(* A byte that is passed over is no end of the word in the text. *)
LEMMA StepKeeps ==
  ASSUME IInv, Step, UNCHANGED affVars
  PROVE  IInv'
<1>1. /\ pc = "scan" /\ pc' = "scan" /\ i # Len(line) /\ end_word_pos = NPos
      /\ ~ IsEscaped(i) /\ ~ IsEnd(i) /\ i' = i + 1
      /\ UNCHANGED <<file, aff, aff_file, n, line, end_word_pos, words, success>>
  BY DEF Step, Scanning, FixedInput, affVars
<1>2. IsSequence(line) /\ IsSequence(Text(n)) /\ PlacesAreInLine
  BY <1>1, LineFacts
<1>3. PICK r \in 0 .. Len(Text(n)) : Shifted(r)
  BY <1>1, LineFacts
<1>4. PICK N \in Nat : N = Len(line)
  BY <1>2 DEF IsSequence
<1>5. i \in 0 .. N - 1 /\ i \in Nat
  BY <1>1, <1>2, <1>4 DEF PlacesAreInLine
<1>6. ~ Ends(Text(n), i + r + 1)
  BY <1>1, <1>2, <1>3, <1>4, <1>5, EndAgrees
<1>7. Text(n)' = Text(n)
  BY <1>1 DEF Text
<1>8. \E q \in 0 .. Len(Text(n)) : Shifted(q)'
  <2>1. r \in Nat
    BY <1>2, <1>3 DEF IsSequence
  <2>2. \A k \in 1 .. N : k >= i + 1 => line[k] = Text(n)[k + r]
    BY <1>3, <1>4, <1>5 DEF Shifted
  <2>3. \A k \in 1 .. (i + 1) + r : ~ Ends(Text(n), k)
    <3>1. \A k \in 1 .. i + r : ~ Ends(Text(n), k)
      BY <1>3 DEF Shifted
    <3>2. \A k \in 1 .. (i + 1) + r : k \in 1 .. i + r \/ k = i + r + 1
      BY <1>5, <2>1
    <3>3. QED
      BY <1>6, <3>1, <3>2
  <2>4. Len(line) + r = Len(Text(n)) /\ i + 1 # 0
    BY <1>3, <1>5 DEF Shifted
  <2>5. Shifted(r)'
    BY <1>1, <1>4, <1>7, <2>2, <2>3, <2>4 DEF Shifted
  <2>6. QED
    BY <2>5
<1>9. ScanOfText'
  BY <1>7, <1>8 DEF ScanOfText
<1>10. IsSequence(line)' /\ PlacesAreInLine'
  BY <1>1, <1>2, <1>4, <1>5 DEF IsSequence, PlacesAreInLine
<1>11. QED
  BY <1>1, <1>9, <1>10, ScanKeeps

(* The scan leaves the line and its place to what inserts the word. *)
LEMMA EndScanKeeps ==
  ASSUME IInv, EndScan, UNCHANGED affVars
  PROVE  IInv'
<1>1. /\ pc = "scan" /\ pc' = "insert" /\ (i = Len(line) \/ end_word_pos # NPos)
      /\ UNCHANGED <<file, aff, aff_file, n, line, i, end_word_pos, words, success>>
  BY DEF EndScan, Scanning, FixedInput, affVars
<1>2. IsSequence(line) /\ PlacesAreInLine
  BY <1>1, LineFacts
<1>3. PICK r \in 0 .. Len(Text(n)) : Shifted(r)
  BY <1>1, LineFacts
<1>4. Text(n)' = Text(n)
  BY <1>1 DEF Text
<1>5. Shifted(r)'
  BY <1>1, <1>3, <1>4 DEF Shifted
<1>6. ScanOfText'
  BY <1>4, <1>5 DEF ScanOfText
<1>7. IsSequence(line)' /\ PlacesAreInLine'
  BY <1>1, <1>2 DEF IsSequence, PlacesAreInLine
<1>8. QED
  BY <1>1, <1>6, <1>7, ScanKeeps

-----------------------------------------------------------------------------
(* A line that is done with counts as it should, whatever became of its word. *)
LEMMA LineDone ==
  ASSUME IInv, pc = "insert", pc' = "lines",
         UNCHANGED <<file, aff, aff_file, n, line, i, end_word_pos>>,
         success' = (success /\ ~ BadFlags),
         IsSequence(words)', Covered'
  PROVE  IInv'
<1>1. IsSequence(line) /\ IsSequence(Text(n)) /\ PlacesAreInLine /\ n \in Nat /\ n >= 1
  BY LineFacts
<1>2. PICK r \in 0 .. Len(Text(n)) : Shifted(r)
  BY LineFacts
<1>3. BadFlags <=> IsBad(n)
  BY <1>1, <1>2, BadAgrees
<1>4. Control'
  <2>1. success' \in BOOLEAN
    OBVIOUS
  <2>2. QED
    BY <2>1 DEF IInv, Control, Reading
<1>5. IsSequence(line)' /\ PlacesAreInLine'
  BY <1>1 DEF IsSequence, PlacesAreInLine
<1>6. SuccessSoFar'
  <2>1. file.has_count /\ (success <=> \A k \in 1 .. n - 1 : ~ IsBad(k))
    BY DEF IInv, SuccessSoFar, LinesDone
  <2>2. \A k \in 1 .. n : k \in 1 .. n - 1 \/ k = n
    BY <1>1
  <2>3. n \in 1 .. n /\ \A k \in 1 .. n - 1 : k \in 1 .. n
    BY <1>1
  <2>4. success' <=> \A k \in 1 .. n : ~ IsBad(k)
    BY <1>3, <2>1, <2>2, <2>3
  <2>5. LinesDone' = n
    BY DEF LinesDone
  <2>6. QED
    BY <2>1, <2>4, <2>5, FixedFacts DEF SuccessSoFar
<1>7. ScanOfText' /\ FailureReported'
  BY DEF ScanOfText, FailureReported
<1>8. QED
  BY <1>4, <1>5, <1>6, <1>7 DEF IInv

(* A line with bad flags is a failure, and takes no word with it. *)
LEMMA RejectLineKeeps ==
  ASSUME IInv, RejectLine, UNCHANGED affVars
  PROVE  IInv'
<1>1. /\ pc = "insert" /\ pc' = "lines" /\ BadFlags /\ success' = FALSE
      /\ UNCHANGED <<file, aff, aff_file, n, line, i, end_word_pos, words>>
  BY DEF RejectLine, FixedInput, affVars
<1>2. IsSequence(words)' /\ Covered'
  BY <1>1, WordsKept DEF IInv
<1>3. success' = (success /\ ~ BadFlags)
  BY <1>1
<1>4. QED
  BY <1>1, <1>2, <1>3, LineDone

(* A line that has no word for the list is no failure. *)
LEMMA SkipLineKeeps ==
  ASSUME IInv, SkipLine, UNCHANGED affVars
  PROVE  IInv'
<1>1. /\ pc = "insert" /\ pc' = "lines" /\ ~ BadFlags /\ success' = success
      /\ UNCHANGED <<file, aff, aff_file, n, line, i, end_word_pos, words>>
  BY DEF SkipLine, FixedInput, affVars
<1>2. IsSequence(words)' /\ Covered'
  BY <1>1, WordsKept DEF IInv
<1>3. success \in BOOLEAN
  BY <1>1 DEF IInv, Control, Reading
<1>4. success' = (success /\ ~ BadFlags)
  BY <1>1, <1>3
<1>5. QED
  BY <1>1, <1>2, <1>4, LineDone

(* A word in capitals has a homonym only if it has flags, and any other    *)
(* word that has one has a lowercase letter.                               *)
LEMMA HomonymFacts ==
  ASSUME NeedsHomonym
  PROVE  /\ aff.forbidden \notin Decoded.flags
         /\ Count(U8Word, Lowers) = 0 => Decoded.flags # {}
<1>1. PICK w : w = U8Word
  OBVIOUS
<1>2. Casing(w) \in {"PASCAL", "CAMEL"} => Count(w, Lowers) # 0
  BY DEF Casing
<1>3. QED
  BY <1>1, <1>2 DEF NeedsHomonym

(* The entry that a homonym is the title case of. *)
LEMMA VisibleEntry ==
  ASSUME NEW w, NEW f
  PROVE  [word |-> w, form |-> "word", flags |-> f, hidden |-> FALSE] =
           [[word |-> w, form |-> "title", flags |-> f, hidden |-> TRUE]
              EXCEPT !.form = "word", !.hidden = FALSE]
<1>1. PICK g, a, h, b : g = "word" /\ a = "title" /\ h = FALSE /\ b = TRUE
  OBVIOUS
<1>2. PICK s : s = [[word |-> w, form |-> a, flags |-> f, hidden |-> b] EXCEPT !.form = g]
  OBVIOUS
<1>3. s = [word |-> w, form |-> g, flags |-> f, hidden |-> b]
  BY <1>2
<1>4. [s EXCEPT !.hidden = h] = [word |-> w, form |-> g, flags |-> f, hidden |-> h]
  BY <1>3
<1>5. [s EXCEPT !.hidden = h] =
        [[word |-> w, form |-> a, flags |-> f, hidden |-> b] EXCEPT !.form = g, !.hidden = h]
  BY <1>2
<1>6. QED
  BY <1>1, <1>4, <1>5

(* A word is appended, and behind it its homonym, if it has one. *)
LEMMA InsertAppends ==
  ASSUME IsSequence(words), Insert, NEW L \in Nat, L = Len(words)
  PROVE  /\ IsSequence(words)'
         /\ \E K \in 0 .. 1 :
              /\ DOMAIN words' = 1 .. L + 1 + K
              /\ \A k \in 1 .. L : words'[k] = words[k]
              /\ words'[L + 1] = Entry(U8Word, "word", FALSE)
              /\ K = 1 => NeedsHomonym /\ words'[L + 2] = Homonym /\ words'[L + 2].hidden = TRUE
<1> DEFINE e == Entry(U8Word, "word", FALSE)
           more == IF NeedsHomonym THEN <<Homonym>> ELSE <<>>
           T == Range(words) \cup {e, Homonym}
<1>1. words' = words \o <<e>> \o more
  BY DEF Insert
<1>2. words \in Seq(T)
  <2>1. words \in Seq(Range(words))
    BY DEF IsSequence
  <2>2. QED
    BY <2>1, SeqMonotonic
<1>3. e \in T /\ Homonym \in T
  OBVIOUS
<1> HIDE DEF e, T
<1>4. PICK K \in 0 .. 1 : K = IF NeedsHomonym THEN 1 ELSE 0
  OBVIOUS
<1>5. more \in Seq(T) /\ Len(more) = K /\ (K = 1 => NeedsHomonym /\ more[1] = Homonym)
  BY <1>3, <1>4
<1> HIDE DEF more
<1>6. PICK u : u = words \o <<e>>
  OBVIOUS
<1>7. /\ u \in Seq(T) /\ Len(u) = L + 1 /\ u[L + 1] = e
      /\ \A k \in 1 .. L : u[k] = words[k]
  BY <1>2, <1>3, <1>6
<1>8. /\ words' \in Seq(T) /\ Len(words') = L + 1 + K
      /\ \A k \in 1 .. L + 1 + K :
            words'[k] = IF k <= L + 1 THEN u[k] ELSE more[k - (L + 1)]
  <2>1. /\ u \o more \in Seq(T) /\ Len(u \o more) = Len(u) + Len(more)
        /\ \A k \in 1 .. Len(u) + Len(more) :
              (u \o more)[k] = IF k <= Len(u) THEN u[k] ELSE more[k - Len(u)]
    BY <1>5, <1>7, ConcatProperties
  <2>2. words' = u \o more
    BY <1>1, <1>6
  <2>3. QED
    BY <1>5, <1>7, <2>1, <2>2
<1>9. words'[L + 1] = e /\ \A k \in 1 .. L : words'[k] = words[k]
  <2>1. \A k \in 1 .. L + 1 : k \in 1 .. L + 1 + K /\ k <= L + 1
    OBVIOUS
  <2>2. L + 1 \in 1 .. L + 1 /\ \A k \in 1 .. L : k \in 1 .. L + 1
    OBVIOUS
  <2>3. QED
    BY <1>7, <1>8, <2>1, <2>2
<1>10. K = 1 => NeedsHomonym /\ words'[L + 2] = Homonym /\ Homonym.hidden = TRUE
  <2>1. K = 1 => L + 2 \in 1 .. L + 1 + K /\ ~ (L + 2 <= L + 1) /\ (L + 2) - (L + 1) = 1
    OBVIOUS
  <2>2. Homonym.hidden = TRUE
    BY DEF Homonym, Entry
  <2>3. QED
    BY <1>5, <1>8, <2>1, <2>2
<1>11. IsSequence(words)'
  BY <1>8, SequenceOf DEF IsSequence
<1>12. DOMAIN words' = 1 .. L + 1 + K
  BY <1>8
<1>13. QED
  BY <1>9, <1>10, <1>11, <1>12 DEF e

(* What is known of the words covers both. *)
LEMMA InsertKeeps ==
  ASSUME IInv, Insert, UNCHANGED affVars
  PROVE  IInv'
<1> DEFINE e == Entry(U8Word, "word", FALSE)
<1>1. /\ pc = "insert" /\ pc' = "lines" /\ ~ BadFlags /\ success' = success
      /\ UNCHANGED <<file, aff, aff_file, n, line, i, end_word_pos>>
  BY DEF Insert, FixedInput, affVars
<1>2. PICK L \in Nat : L = Len(words) /\ DOMAIN words = 1 .. L
  BY DEF IInv, IsSequence
<1>3. IsSequence(words)'
  BY <1>2, InsertAppends DEF IInv
<1>4. PICK K \in 0 .. 1 :
        /\ DOMAIN words' = 1 .. L + 1 + K
        /\ \A k \in 1 .. L : words'[k] = words[k]
        /\ words'[L + 1] = e
        /\ K = 1 => NeedsHomonym /\ words'[L + 2] = Homonym
  BY <1>2, InsertAppends DEF IInv
<1>5. /\ e.form = "word" /\ e.hidden = FALSE
      /\ Homonym.form = "title" /\ Homonym.hidden = TRUE
      /\ Homonym.flags = Decoded.flags /\ Homonym.word = U8Word
      /\ e = [Homonym EXCEPT !.form = "word", !.hidden = FALSE]
  <2>1. PICK w, f : w = U8Word /\ f = Decoded.flags
    OBVIOUS
  <2>2. /\ e = [word |-> w, form |-> "word", flags |-> f, hidden |-> FALSE]
        /\ Homonym = [word |-> w, form |-> "title", flags |-> f, hidden |-> TRUE]
    BY <2>1 DEF Entry, Homonym
  <2> HIDE DEF e
  <2>3. e = [Homonym EXCEPT !.form = "word", !.hidden = FALSE]
    <3>1. e = [[word |-> w, form |-> "title", flags |-> f, hidden |-> TRUE]
                  EXCEPT !.form = "word", !.hidden = FALSE]
      BY <2>2, VisibleEntry
    <3>2. QED
      BY <2>2, <3>1
  <2>4. QED
    BY <2>1, <2>2, <2>3
<1> HIDE DEF e
<1>6. ASSUME NEW k \in DOMAIN words' PROVE IsCovered(k)'
  <2>0. aff' = aff
    BY <1>1
  <2>1. k \in 1 .. L + 1 + K
    BY <1>4, <1>6
  <2>2. CASE k \in 1 .. L
    <3>1. IsCovered(k)
      BY <1>2, <2>2 DEF IInv, Covered
    <3>2. words'[k] = words[k] /\ (k > 1 => words'[k - 1] = words[k - 1])
      BY <1>4, <2>2
    <3>3. words[k].hidden => k > 1
      BY <3>1 DEF IsCovered
    <3>4. QED
      BY <2>0, <3>1, <3>2, <3>3 DEF IsCovered
  <2>3. CASE k = L + 1
    BY <1>4, <1>5, <2>3 DEF IsCovered
  <2>4. CASE k = L + 2
    <3>1. K = 1 /\ k - 1 = L + 1 /\ k > 1
      BY <2>1, <2>4
    <3>2. words'[k] = Homonym /\ words'[k - 1] = e /\ NeedsHomonym
      BY <1>4, <2>4, <3>1
    <3>3. QED
      BY <1>5, <2>0, <3>1, <3>2, HomonymFacts DEF IsCovered
  <2>5. QED
    BY <2>1, <2>2, <2>3, <2>4
<1>7. Covered'
  BY <1>6 DEF Covered
<1>8. success \in BOOLEAN
  BY <1>1 DEF IInv, Control, Reading
<1>9. success' = (success /\ ~ BadFlags)
  BY <1>1, <1>8
<1>10. QED
  BY <1>1, <1>3, <1>7, <1>9, LineDone

-----------------------------------------------------------------------------
(* While the options are read nothing else is; then a .dic file is taken that *)
(* stands beside the file they were read from.                                *)
LEMMA OptionsFirst ==
  ASSUME AffNext
  PROVE  /\ pc \in {"aff", "values"} /\ pc' \in {"aff", "values", "count", "failed"}
         /\ UNCHANGED <<aff_file, n, line, i, end_word_pos, words>>
         /\ \/ pc' \in {"aff", "values"} /\ success' = success
            \/ pc' = "count" /\ file' \in DicFiles(aff_file.dics) /\ success' = success
            \/ pc' = "failed" /\ success' = FALSE
<1>1. CASE SkipComment
  BY <1>1 DEF SkipComment, dicVars
<1>2. CASE ReadOption
  BY <1>2 DEF ReadOption, UnlessSet, Reads, Begin, dicVars
<1>3. CASE ReadBool
  BY <1>3 DEF ReadBool, Reads, Begin, dicVars
<1>4. CASE ReadFlagType
  BY <1>4 DEF ReadFlagType, Reads, Begin, dicVars
<1>5. CASE ReadTable
  BY <1>5 DEF ReadTable, Reads, Begin, dicVars
<1>6. CASE ReadAffix
  BY <1>6 DEF ReadAffix, Reads, Begin, dicVars
<1>7. CASE ExtractWord
  BY <1>7 DEF ExtractWord, Extracting, Fixed, dicVars
<1>8. CASE ExtractAffixFlag
  BY <1>8 DEF ExtractAffixFlag, Extracting, Fixed, dicVars
<1>9. CASE ExtractCount
  BY <1>9 DEF ExtractCount, Extracting, Fixed, dicVars
<1>10. CASE ExtractShort
  BY <1>10 DEF ExtractShort, Extracting, Fixed, dicVars
<1>11. CASE EndLine
  BY <1>11 DEF EndLine, dicVars
<1>12. CASE EndOfAff
  BY <1>12 DEF EndOfAff
<1>13. QED
  BY <1>1, <1>2, <1>3, <1>4, <1>5, <1>6, <1>7, <1>8, <1>9, <1>10, <1>11, <1>12 DEF AffNext

(* Until the options are read there are no words. *)
LEMMA OptionsKeep ==
  ASSUME IInv, AffNext
  PROVE  IInv'
<1> DEFINE Early == pc \in {"aff", "values"}
           Same == UNCHANGED <<aff_file, n, line, i, end_word_pos, words>>
           More_ == pc' \in {"aff", "values"} /\ success' = success
           Over ==
             \/ pc' = "count" /\ file' \in DicFiles(aff_file.dics) /\ success' = success
             \/ pc' = "failed" /\ success' = FALSE
<1>1. Early /\ Same /\ (More_ \/ Over)
  BY OptionsFirst
<1>2. AtStart /\ aff_file \in AffFiles /\ success = TRUE
  <2>1. AtStart /\ aff_file \in AffFiles
    BY <1>1 DEF IInv, Control, Reading
  <2>2. QED
    BY <1>1, <2>1 DEF AtStart
<1> HIDE DEF Early, More_, Over
<1>3. AtStart'
  BY <1>1, <1>2 DEF AtStart, More_, Over
<1>4. pc' \in {"aff", "values", "count", "failed"} /\ aff_file' \in AffFiles
  BY <1>1, <1>2 DEF More_, Over
<1>5. pc' = "count" => /\ file' \in DicFiles(aff_file.dics) /\ aff_file' = aff_file
                       /\ success' = TRUE
  BY <1>1, <1>2 DEF More_, Over
<1>6. Control'
  <2>1. ASSUME pc' = "count"
        PROVE  n' \in 0 .. Len(file'.lines) /\ n' <= file'.breaks
    <3>1. file' \in DicFiles(aff_file.dics)
      BY <1>5, <2>1
    <3>2. IsSequence(file'.lines) /\ file'.breaks \in Nat
      BY <1>2, <3>1, DicFilesAssumption
    <3>3. QED
      BY <1>3, <3>2 DEF AtStart, IsSequence
  <2>2. QED
    BY <1>3, <1>4, <1>5, <2>1 DEF Control, Reading
<1>7. IsSequence(line)' /\ IsSequence(words)' /\ PlacesAreInLine' /\ Covered'
  BY <1>3 DEF AtStart, IsSequence, PlacesAreInLine, Covered
<1>8. ScanOfText' /\ SuccessSoFar' /\ FailureReported'
  BY <1>4 DEF ScanOfText, SuccessSoFar, FailureReported
<1>9. QED
  BY <1>6, <1>7, <1>8 DEF IInv

-----------------------------------------------------------------------------
(* A function that lists a set of numbers from the smallest to the greatest. *)
IsOrder(f, m, S) ==
    /\ m \in Nat /\ f \in [1 .. m -> S]
    /\ \A a, b \in 1 .. m : a < b => f[a] < f[b]
    /\ \A x \in S : \E a \in 1 .. m : f[a] = x

(* As many numbers of such a list are at most its a-th as a says. *)
LEMMA OrderCounts ==
  ASSUME NEW S \in SUBSET Int, NEW m \in Nat, NEW f, IsOrder(f, m, S), NEW a \in 1 .. m
  PROVE  Cardinality({j \in S : j <= f[a]}) = a
<1> DEFINE T == {j \in S : j <= f[a]}
<1>1. \A b \in 1 .. m : f[b] \in S /\ f[b] \in Int
  BY DEF IsOrder
<1>2. \A b, c \in 1 .. m : (b < c => f[b] < f[c]) /\ (f[b] = f[c] => b = c)
  BY <1>1 DEF IsOrder
<1>3. \A b \in 1 .. m : f[b] <= f[a] <=> b <= a
  BY <1>1, <1>2
<1>4. PICK h : h = [b \in 1 .. a |-> f[b]]
  OBVIOUS
<1>5. h \in [1 .. a -> T]
  BY <1>1, <1>3, <1>4
<1>6. \A b, c \in 1 .. a : h[b] = h[c] => b = c
  BY <1>2, <1>4
<1>7. \A t \in T : \E b \in 1 .. a : h[b] = t
  <2>1. SUFFICES ASSUME NEW t \in T PROVE \E b \in 1 .. a : h[b] = t
    OBVIOUS
  <2>2. PICK b \in 1 .. m : f[b] = t
    BY DEF IsOrder
  <2>3. b \in 1 .. a
    BY <1>3, <2>2
  <2>4. QED
    BY <1>4, <2>2, <2>3
<1> HIDE DEF T
<1>8. h \in Bijection(1 .. a, T)
  BY <1>5, <1>6, <1>7 DEF Bijection, Injection, Surjection, IsInjective
<1>9. ExistsBijection(1 .. a, T)
  BY <1>8 DEF ExistsBijection
<1>10. IsFiniteSet(1 .. a) /\ Cardinality(1 .. a) = a
  <2>1. 1 \in Int /\ a \in Int /\ ~ (1 > a) /\ a - 1 + 1 = a
    OBVIOUS
  <2>2. QED
    BY <2>1, FS_Interval
<1>11. Cardinality(T) = a
  BY <1>9, <1>10, FS_Bijection
<1>12. QED
  BY <1>11 DEF T

(* There is only one such list, the one InOrder gives. *)
LEMMA OrderIs ==
  ASSUME NEW S \in SUBSET Int, NEW m, NEW f, IsOrder(f, m, S)
  PROVE  InOrder(S) = f
<1> DEFINE C(k) == Cardinality({j \in S : j <= k})
<1>0. m \in Nat
  BY DEF IsOrder
<1>1. \A a \in 1 .. m : f[a] \in S /\ C(f[a]) = a
  BY <1>0, OrderCounts DEF IsOrder
<1>2. Cardinality(S) = m
  <2>1. CASE m = 0
    <3>1. S = {}
      BY <2>1 DEF IsOrder
    <3>2. QED
      BY <2>1, <3>1, FS_EmptySet
  <2>2. CASE m > 0
    <3>1. m \in 1 .. m
      BY <1>0, <2>2
    <3>2. \A b \in 1 .. m : b = m \/ b < m
      BY <1>0
    <3>3. \A b \in 1 .. m : f[b] <= f[m]
      <4>1. \A b \in 1 .. m : f[b] \in Int
        BY <1>1
      <4>2. \A b \in 1 .. m : b < m => f[b] < f[m]
        BY <3>1 DEF IsOrder
      <4>3. QED
        BY <3>1, <3>2, <4>1, <4>2
    <3>4. {j \in S : j <= f[m]} = S
      BY <3>3 DEF IsOrder
    <3>5. QED
      BY <1>1, <3>1, <3>4
  <2>3. QED
    BY <1>0, <2>1, <2>2
<1> HIDE DEF C
<1>3. ASSUME NEW a \in 1 .. m PROVE (CHOOSE k \in S : C(k) = a) = f[a]
  <2>1. \A k \in S : C(k) = a => k = f[a]
    BY <1>1 DEF IsOrder
  <2>2. QED
    BY <1>1, <2>1
<1>4. InOrder(S) = [a \in 1 .. m |-> CHOOSE k \in S : C(k) = a]
  BY <1>2 DEF InOrder, C
<1>5. f = [a \in 1 .. m |-> f[a]]
  BY DEF IsOrder
<1>6. QED
  BY <1>3, <1>4, <1>5

(* The list grows at its end with the set. *)
LEMMA OrderGrows ==
  ASSUME NEW S \in SUBSET Int, NEW m, NEW f, IsOrder(f, m, S),
         NEW x \in Int, \A k \in S : k < x,
         NEW g, g = [a \in 1 .. m + 1 |-> IF a <= m THEN f[a] ELSE x]
  PROVE  IsOrder(g, m + 1, S \cup {x})
<1>1. /\ m \in Nat /\ m + 1 \in Nat /\ m + 1 \in 1 .. m + 1
      /\ \A a \in 1 .. m + 1 : a \in 1 .. m \/ a = m + 1
      /\ \A a \in 1 .. m : a \in 1 .. m + 1 /\ a <= m /\ a < m + 1
      /\ ~ (m + 1 <= m)
  BY DEF IsOrder
<1>2. g[m + 1] = x /\ \A a \in 1 .. m : g[a] = f[a] /\ f[a] \in S
  BY <1>1 DEF IsOrder
<1>3. g \in [1 .. m + 1 -> S \cup {x}]
  BY <1>1, <1>2
<1>4. ASSUME NEW a \in 1 .. m + 1, NEW b \in 1 .. m + 1, a < b PROVE g[a] < g[b]
  <2>1. a \in 1 .. m
    BY <1>1, <1>4
  <2>2. CASE b \in 1 .. m
    BY <1>2, <1>4, <2>1, <2>2 DEF IsOrder
  <2>3. CASE b = m + 1
    BY <1>2, <2>1, <2>3
  <2>4. QED
    BY <1>1, <2>2, <2>3
<1>5. ASSUME NEW y \in S \cup {x} PROVE \E a \in 1 .. m + 1 : g[a] = y
  BY <1>1, <1>2, <1>5 DEF IsOrder
<1>6. QED
  BY <1>1, <1>3, <1>4, <1>5 DEF IsOrder

(* Its greatest number may be exchanged for a greater one. *)
LEMMA OrderLast ==
  ASSUME NEW S \in SUBSET Int, NEW m, NEW f, IsOrder(f, m, S), NEW q \in S,
         NEW x \in Int, \A k \in S : k <= q, q < x,
         NEW g, g = [a \in 1 .. m |-> IF a < m THEN f[a] ELSE x]
  PROVE  IsOrder(g, m, (S \ {q}) \cup {x}) /\ m > 0 /\ f[m] = q
<1>0. m \in Nat /\ \A a \in 1 .. m : f[a] \in S
  BY DEF IsOrder
<1>1. PICK c \in 1 .. m : f[c] = q
  BY DEF IsOrder
<1>2. m \in 1 .. m /\ m > 0 /\ \A a \in 1 .. m : a < m \/ a = m
  BY <1>0, <1>1
<1>3. c = m
  <2>1. c < m => f[c] < f[m] /\ f[m] <= f[c]
    BY <1>0, <1>1, <1>2 DEF IsOrder
  <2>2. f[c] \in Int /\ f[m] \in Int
    BY <1>0, <1>2
  <2>3. QED
    BY <1>2, <2>1, <2>2
<1>4. \A a \in 1 .. m : a < m => f[a] < q
  BY <1>1, <1>2, <1>3 DEF IsOrder
<1>5. g[m] = x /\ \A a \in 1 .. m : a < m => g[a] = f[a] /\ g[a] \in S /\ g[a] # q /\ g[a] < x
  <2>1. g[m] = x
    BY <1>0, <1>2
  <2>2. ASSUME NEW a \in 1 .. m, a < m
        PROVE  g[a] = f[a] /\ g[a] \in S /\ g[a] # q /\ g[a] < x
    <3>1. g[a] = f[a] /\ f[a] \in S /\ f[a] < q
      BY <1>0, <1>4, <2>2
    <3>2. f[a] \in Int /\ q \in Int
      BY <3>1
    <3>3. f[a] < x /\ f[a] # q
      BY <3>1, <3>2
    <3>4. QED
      BY <3>1, <3>3
  <2>3. QED
    BY <2>1, <2>2
<1>6. g \in [1 .. m -> (S \ {q}) \cup {x}]
  BY <1>2, <1>5
<1>7. ASSUME NEW a \in 1 .. m, NEW b \in 1 .. m, a < b PROVE g[a] < g[b]
  <2>1. a < m
    BY <1>0, <1>7
  <2>2. CASE b < m
    BY <1>5, <1>7, <2>1, <2>2 DEF IsOrder
  <2>3. CASE b = m
    BY <1>5, <2>1, <2>3
  <2>4. QED
    BY <1>2, <2>2, <2>3
<1>8. ASSUME NEW y \in (S \ {q}) \cup {x} PROVE \E a \in 1 .. m : g[a] = y
  <2>1. CASE y = x
    BY <1>2, <1>5, <2>1
  <2>2. CASE y \in S /\ y # q
    <3>1. PICK a \in 1 .. m : f[a] = y
      BY <2>2 DEF IsOrder
    <3>2. a < m
      BY <1>1, <1>2, <1>3, <2>2, <3>1
    <3>3. QED
      BY <1>5, <3>1, <3>2
  <2>3. QED
    BY <1>8, <2>1, <2>2
<1>9. QED
  BY <1>0, <1>1, <1>2, <1>3, <1>6, <1>7, <1>8 DEF IsOrder

-----------------------------------------------------------------------------
(* What has been scanned of the line is the text it came from, unescaped.  *)
Erased == Len(Text(n)) - Len(line)
KeptTo(s, q) == {k \in 1 .. q : ~ (s[k] = "\\" /\ k < q /\ s[k + 1] = "/")}
Scanned(f) ==
    /\ IsOrder(f, i, KeptTo(Text(n), i + Erased))
    /\ \A k \in 1 .. i : line[k] = Text(n)[f[k]]
ScannedIsText == pc \in {"scan", "insert"} => \E f : Scanned(f)

(* The entries to be found so far are those of the lines that are done. *)
Listed(m, f, g) ==
    /\ IsOrder(f, m, Visible)
    /\ IsOrder(g, m, {k \in 1 .. LinesDone : HasEntry(k)})
    /\ \A a \in 1 .. m : words[f[a]] = EntryOf(g[a])
EntriesSoFar == pc \in {"lines", "scan", "insert"} => \E m, f, g : Listed(m, f, g)

EInv == ScannedIsText /\ EntriesSoFar /\ EntriesAreLines

(* The places in question are numbers. *)
LEMMA PlacesAreInts ==
  ASSUME IsSequence(words)
  PROVE  /\ \A s, q : KeptTo(s, q) \in SUBSET Int
         /\ Visible \in SUBSET Int
         /\ {k \in 1 .. LinesDone : HasEntry(k)} \in SUBSET Int
<1>1. DOMAIN words \subseteq Int
  BY DEF IsSequence
<1>2. QED
  BY <1>1 DEF KeptTo, Visible

(* What is scanned stays as it is while only the stage changes. *)
LEMMA ScannedStays ==
  ASSUME ScannedIsText, pc \in {"scan", "insert"}, UNCHANGED <<file, n, line, i>>
  PROVE  ScannedIsText'
<1>1. PICK f : Scanned(f)
  BY DEF ScannedIsText
<1>2. Text(n)' = Text(n)
  BY DEF Text
<1>3. Erased' = Erased
  BY <1>2 DEF Erased
<1>4. Scanned(f)'
  BY <1>1, <1>2, <1>3 DEF Scanned
<1>5. QED
  BY <1>4 DEF ScannedIsText

(* And so do the entries, while no line is finished. *)
LEMMA EntriesStay ==
  ASSUME EntriesSoFar, pc \in {"lines", "scan", "insert"}, pc' # "done",
         UNCHANGED <<file, aff, words>>, LinesDone' = LinesDone
  PROVE  EntriesSoFar' /\ EntriesAreLines'
<1>1. PICK m, f, g : Listed(m, f, g)
  BY DEF EntriesSoFar
<1>2. \A k : (HasEntry(k)' <=> HasEntry(k)) /\ EntryOf(k)' = EntryOf(k)
  BY FixedFacts
<1>3. Visible' = Visible
  BY DEF Visible
<1>4. {k \in 1 .. LinesDone : HasEntry(k)}' = {k \in 1 .. LinesDone : HasEntry(k)}
  BY <1>2
<1>5. Listed(m, f, g)'
  BY <1>1, <1>2, <1>3, <1>4 DEF Listed
<1>6. QED
  BY <1>5 DEF EntriesSoFar, EntriesAreLines

(* The first line says whether there are any. *)
LEMMA ReadCountLists ==
  ASSUME IInv, EInv, ReadCount, UNCHANGED affVars
  PROVE  EInv'
<1>1. /\ pc = "count" /\ AtStart /\ Control
      /\ UNCHANGED <<file, aff, aff_file, n, line, i, end_word_pos, words>>
      /\ IF file.has_count THEN pc' = "lines" ELSE pc' = "done"
  BY DEF IInv, Control, Reading, ReadCount, FixedInput, affVars
<1>2. file.has_count \in BOOLEAN
  BY <1>1, FileFacts DEF Reading
<1>3. Visible' = {} /\ n' = 0
  BY <1>1 DEF AtStart, Visible
<1>4. PICK e : e = [a \in 1 .. 0 |-> 0]
  OBVIOUS
<1>5. IsOrder(e, 0, {})
  BY <1>4 DEF IsOrder
<1>6. CASE file.has_count
  <2>1. pc' = "lines"
    BY <1>1, <1>6
  <2>2. {k \in 1 .. LinesDone : HasEntry(k)}' = {}
    BY <1>3, <2>1 DEF LinesDone
  <2>3. Listed(0, e, e)'
    BY <1>3, <1>5, <2>2 DEF Listed
  <2>4. QED
    BY <2>1, <2>3 DEF EInv, ScannedIsText, EntriesSoFar, EntriesAreLines
<1>7. CASE ~ file.has_count
  <2>1. pc' = "done"
    BY <1>1, <1>7
  <2>2. {k \in DOMAIN file.lines : file.has_count /\ k <= file.breaks /\ HasEntry(k)}' = {}
    BY <1>1, <1>7
  <2>3. EntriesAreLines'
    <3>1. PICK o : o = InOrder({})
      OBVIOUS
    <3>2. o = e /\ DOMAIN e = {}
      BY <1>4, <1>5, <3>1, OrderIs
    <3>3. [a \in DOMAIN o |-> words'[o[a]]] = [a \in DOMAIN o |-> EntryOf(o[a])']
      BY <3>2
    <3>4. QED
      BY <1>3, <2>2, <3>1, <3>3 DEF EntriesAreLines
  <2>4. QED
    BY <2>1, <2>3 DEF EInv, ScannedIsText, EntriesSoFar
<1>8. QED
  BY <1>2, <1>6, <1>7

(* Nothing is scanned of a fresh line. *)
LEMMA NextLineLists ==
  ASSUME IInv, EInv, NextLine, UNCHANGED affVars
  PROVE  EInv'
<1>1. /\ pc = "lines" /\ Control /\ n < Len(file.lines) /\ n < file.breaks
      /\ UNCHANGED <<file, aff, aff_file, words, success>>
      /\ n' = n + 1 /\ line' = Chomp(file.lines[n + 1])
      /\ i' = 0 /\ pc' = "scan"
  BY DEF IInv, NextLine, More, FixedInput, affVars
<1>2. Len(file.lines) \in Nat /\ file.breaks \in Nat
  BY <1>1, FileFacts DEF Reading
<1>3. /\ n \in Nat /\ n + 1 \in 1 .. Len(file.lines) /\ aff_file \in AffFiles
      /\ file \in DicFiles(aff_file.dics)
  BY <1>1, <1>2 DEF Control, Reading
<1>4. line' = Text(n + 1) /\ IsSequence(Text(n + 1))
  BY <1>1, <1>3, TextFacts
<1>5. Text(n)' = Text(n + 1)
  BY <1>1 DEF Text
<1>6. Erased' = 0
  BY <1>4, <1>5 DEF Erased, IsSequence
<1>7. PICK e : e = [a \in 1 .. 0 |-> 0]
  OBVIOUS
<1>8. IsOrder(e, 0, {})
  BY <1>7 DEF IsOrder
<1>9. Scanned(e)'
  <2>1. i' = 0 /\ i' + Erased' = 0
    BY <1>1, <1>6
  <2>2. KeptTo(Text(n + 1), 0) = {}
    BY DEF KeptTo
  <2>3. IsOrder(e, 0, KeptTo(Text(n + 1), 0))
    BY <1>8, <2>2
  <2>4. QED
    BY <1>5, <2>1, <2>3 DEF Scanned
<1>10. LinesDone' = LinesDone
  BY <1>1, <1>3 DEF LinesDone
<1>11. QED
  BY <1>1, <1>9, <1>10, EntriesStay DEF EInv, ScannedIsText

(* When the file has ended, or broken off, the lines that are done are all. *)
LEMMA EndOfFileLists ==
  ASSUME IInv, EInv, EndOfFile, UNCHANGED affVars
  PROVE  EInv'
<1>1. /\ pc = "lines" /\ Control /\ ~ (n < Len(file.lines) /\ n < file.breaks)
      /\ UNCHANGED <<file, aff, n, words>> /\ pc' = "done"
  BY DEF IInv, EndOfFile, More, EofReached, FixedInput
<1>2. /\ Len(file.lines) \in Nat /\ file.breaks \in Nat
      /\ DOMAIN file.lines = 1 .. Len(file.lines)
  BY <1>1, FileFacts DEF Reading
<1>3. n \in 0 .. Len(file.lines) /\ n <= file.breaks /\ file.has_count
  BY <1>1 DEF Control, Reading, IInv, SuccessSoFar
<1>4. PICK m, f, g : Listed(m, f, g)
  BY <1>1 DEF EInv, EntriesSoFar
<1>5. \A k : (HasEntry(k)' <=> HasEntry(k)) /\ EntryOf(k)' = EntryOf(k)
  BY <1>1, FixedFacts
<1>6. Visible' = Visible
  BY <1>1 DEF Visible
<1> DEFINE R == {k \in DOMAIN file.lines : file.has_count /\ k <= file.breaks /\ HasEntry(k)}
<1>7. R = {k \in 1 .. LinesDone : HasEntry(k)}
  <2>1. LinesDone = n
    BY <1>1 DEF LinesDone
  <2>2. \A k \in 1 .. Len(file.lines) : k <= file.breaks <=> k <= n
    BY <1>1, <1>2, <1>3
  <2>3. QED
    BY <1>2, <1>3, <2>1, <2>2
<1>8. R' = R
  BY <1>1, <1>5
<1> HIDE DEF R
<1>9. InOrder(Visible) = f /\ InOrder(R) = g
  BY <1>4, <1>7, PlacesAreInts, OrderIs DEF Listed, IInv
<1>10. DOMAIN f = 1 .. m /\ DOMAIN g = 1 .. m /\ \A a \in 1 .. m : words[f[a]] = EntryOf(g[a])
  BY <1>4 DEF Listed, IsOrder
<1>11. [a \in DOMAIN f |-> words'[f[a]]] = [a \in DOMAIN g |-> EntryOf(g[a])']
  BY <1>1, <1>5, <1>10
<1>12. EntriesAreLines'
  <2>1. InOrder(Visible)' = f
    BY <1>6, <1>9
  <2>2. InOrder(R)' = g
    BY <1>8, <1>9
  <2>3. QED
    BY <1>11, <2>1, <2>2 DEF EntriesAreLines, R
<1>13. QED
  BY <1>1, <1>12 DEF EInv, ScannedIsText, EntriesSoFar

-----------------------------------------------------------------------------
(* Where the scan is in the text, and what lies ahead of it. *)
LEMMA ScanFacts ==
  ASSUME IInv, EInv, pc \in {"scan", "insert"},
         NEW N, N = Len(line), NEW r, r = Erased, NEW s, s = Text(n)
  PROVE  /\ N \in Nat /\ r \in Nat /\ i \in 0 .. N /\ Len(s) = N + r /\ r \in 0 .. Len(s)
         /\ IsSequence(line) /\ IsSequence(s) /\ Shifted(r)
         /\ i = 0 => r = 0
         /\ \A k \in 1 .. N : k >= i => line[k] = s[k + r]
         /\ KeptTo(s, i + r) \in SUBSET Int
         /\ \E f : /\ IsOrder(f, i, KeptTo(s, i + r))
                   /\ \A k \in 1 .. i : line[k] = s[f[k]]
<1>1. IsSequence(line) /\ IsSequence(s) /\ PlacesAreInLine
  BY LineFacts
<1>2. PICK q \in 0 .. Len(s) : Shifted(q)
  BY LineFacts
<1>3. N \in Nat /\ Len(s) \in Nat /\ q \in Nat /\ N + q = Len(s)
  BY <1>1, <1>2 DEF Shifted, IsSequence
<1>4. r = q
  BY <1>3 DEF Erased
<1>5. \E f : /\ IsOrder(f, i, KeptTo(s, i + r))
             /\ \A k \in 1 .. i : line[k] = s[f[k]]
  BY DEF EInv, ScannedIsText, Scanned
<1>6. i \in 0 .. N
  BY <1>1 DEF PlacesAreInLine
<1>7. KeptTo(s, i + r) \in SUBSET Int
  BY DEF KeptTo
<1>8. QED
  BY <1>1, <1>2, <1>3, <1>4, <1>5, <1>6, <1>7 DEF Shifted

(* The slash takes the place of its backslash, in the line and in the list  *)
(* of the places that are kept.                                             *)
LEMMA UnescapeLists ==
  ASSUME IInv, EInv, Unescape, UNCHANGED affVars
  PROVE  EInv'
<1>1. /\ pc = "scan" /\ pc' = "scan" /\ i # Len(line)
      /\ IsEscaped(i) /\ line' = RemoveAt(line, i) /\ i' = i
      /\ UNCHANGED <<file, aff, n, words>>
  BY DEF Unescape, Scanning, WithoutBackslash, AfterUnescape, FixedInput
<1>2. PICK N, r, s : N = Len(line) /\ r = Erased /\ s = Text(n)
  OBVIOUS
<1>3. /\ N \in Nat /\ r \in Nat /\ i \in 0 .. N /\ Len(s) = N + r
      /\ IsSequence(line)
      /\ \A k \in 1 .. N : k >= i => line[k] = s[k + r]
      /\ KeptTo(s, i + r) \in SUBSET Int
  BY <1>1, <1>2, ScanFacts
<1>4. PICK f : IsOrder(f, i, KeptTo(s, i + r)) /\ \A k \in 1 .. i : line[k] = s[f[k]]
  BY <1>1, <1>2, ScanFacts
<1>5. i \in 1 .. N - 1 /\ i > 0 /\ i \in Nat
  BY <1>1, <1>2, <1>3 DEF IsEscaped
<1>6. /\ Len(line') = N - 1
      /\ \A k \in 1 .. N - 1 : line'[k] = IF k < i THEN line[k] ELSE line[k + 1]
  <2>1. line \in Seq(Range(line)) /\ i \in 1 .. Len(line)
    BY <1>2, <1>3, <1>5 DEF IsSequence
  <2>2. QED
    BY <1>1, <1>2, <2>1, RemoveAtFacts
<1>7. PICK q \in Nat : q = i + r
  BY <1>3, <1>5
<1>8. q >= 1 /\ s[q] = "\\" /\ s[q + 1] = "/"
  <2>1. line[i] = s[i + r] /\ line[i + 1] = s[i + 1 + r]
    BY <1>3, <1>5
  <2>2. i + 1 + r = q + 1 /\ (i - 1) + 1 = i
    BY <1>3, <1>5, <1>7
  <2>3. QED
    BY <1>1, <1>3, <1>5, <1>7, <2>1, <2>2 DEF IsEscaped, At
<1>9. KeptTo(s, q + 1) = (KeptTo(s, q) \ {q}) \cup {q + 1}
  <2>1. ASSUME NEW k \in 1 .. q - 1
        PROVE  k \in KeptTo(s, q + 1) <=> k \in KeptTo(s, q)
    BY <1>7, <2>1 DEF KeptTo
  <2>2. q \notin KeptTo(s, q + 1) /\ q + 1 \in KeptTo(s, q + 1)
    BY <1>8 DEF KeptTo
  <2>3. /\ \A k \in KeptTo(s, q + 1) : k \in 1 .. q - 1 \/ k = q \/ k = q + 1
        /\ \A k \in KeptTo(s, q) : k \in 1 .. q - 1 \/ k = q
        /\ \A k \in 1 .. q - 1 : k # q /\ k # q + 1
    BY DEF KeptTo
  <2>4. QED
    BY <2>1, <2>2, <2>3
<1>10. q \in KeptTo(s, q) /\ \A k \in KeptTo(s, q) : k <= q
  BY <1>7, <1>8 DEF KeptTo
<1>11. PICK g : g = [a \in 1 .. i |-> IF a < i THEN f[a] ELSE q + 1]
  OBVIOUS
<1>12. IsOrder(g, i, KeptTo(s, q + 1))
  <2>1. q + 1 \in Int /\ q < q + 1
    OBVIOUS
  <2>2. QED
    BY <1>3, <1>4, <1>7, <1>9, <1>10, <1>11, <2>1, OrderLast
<1>13. ASSUME NEW k \in 1 .. i PROVE line'[k] = s[g[k]]
  <2>1. CASE k < i
    BY <1>4, <1>5, <1>6, <1>11, <2>1
  <2>2. CASE k = i
    <3>1. line'[k] = line[k + 1] /\ g[k] = q + 1
      BY <1>5, <1>6, <1>11, <2>2
    <3>2. line[i + 1] = s[i + 1 + r] /\ i + 1 + r = q + 1
      BY <1>3, <1>5, <1>7
    <3>3. QED
      BY <2>2, <3>1, <3>2
  <2>3. QED
    BY <1>5, <2>1, <2>2
<1>14. Text(n)' = s
  BY <1>1, <1>2 DEF Text
<1>15. i' + Erased' = q + 1
  BY <1>1, <1>3, <1>5, <1>6, <1>7, <1>14 DEF Erased
<1>16. Scanned(g)'
  BY <1>1, <1>12, <1>13, <1>14, <1>15 DEF Scanned
<1>17. LinesDone' = LinesDone
  BY <1>1 DEF LinesDone
<1>18. QED
  BY <1>1, <1>16, <1>17, EntriesStay DEF EInv, ScannedIsText

(* A byte that is passed over is kept where it is. *)
LEMMA StepLists ==
  ASSUME IInv, EInv, Step, UNCHANGED affVars
  PROVE  EInv'
<1>1. /\ pc = "scan" /\ pc' = "scan" /\ i # Len(line)
      /\ ~ IsEscaped(i) /\ i' = i + 1
      /\ UNCHANGED <<file, aff, n, line, words>>
  BY DEF Step, Scanning, FixedInput
<1>2. PICK N, r, s : N = Len(line) /\ r = Erased /\ s = Text(n)
  OBVIOUS
<1>3. /\ N \in Nat /\ r \in Nat /\ i \in 0 .. N /\ Len(s) = N + r
      /\ i = 0 => r = 0
      /\ \A k \in 1 .. N : k >= i => line[k] = s[k + r]
      /\ KeptTo(s, i + r) \in SUBSET Int
  BY <1>1, <1>2, ScanFacts
<1>4. PICK f : IsOrder(f, i, KeptTo(s, i + r)) /\ \A k \in 1 .. i : line[k] = s[f[k]]
  BY <1>1, <1>2, ScanFacts
<1>5. i \in Nat /\ i + 1 \in 1 .. N
  BY <1>1, <1>2, <1>3
<1>6. PICK q \in Nat : q = i + r
  BY <1>3, <1>5
<1>7. q \in 1 .. q => ~ (s[q] = "\\" /\ s[q + 1] = "/")
  <2>1. q \in 1 .. q => i > 0
    BY <1>3, <1>5, <1>6
  <2>2. line[i + 1] = s[i + 1 + r] /\ i + 1 + r = q + 1
    BY <1>3, <1>5, <1>6
  <2>3. i > 0 => line[i] = s[i + r] /\ (i - 1) + 1 = i
    BY <1>3, <1>5
  <2>4. QED
    BY <1>1, <1>6, <2>1, <2>2, <2>3 DEF IsEscaped, At
<1>8. KeptTo(s, q + 1) = KeptTo(s, q) \cup {q + 1}
  <2>1. ASSUME NEW k \in 1 .. q
        PROVE  k \in KeptTo(s, q + 1) <=> k \in KeptTo(s, q)
    <3>1. CASE k = q
      BY <1>7, <3>1 DEF KeptTo
    <3>2. CASE k < q
      BY <3>2 DEF KeptTo
    <3>3. QED
      BY <3>1, <3>2
  <2>2. q + 1 \in KeptTo(s, q + 1)
    BY DEF KeptTo
  <2>3. /\ \A k \in KeptTo(s, q + 1) : k \in 1 .. q \/ k = q + 1
        /\ \A k \in KeptTo(s, q) : k \in 1 .. q
    BY DEF KeptTo
  <2>4. QED
    BY <2>1, <2>2, <2>3
<1>9. \A k \in KeptTo(s, q) : k < q + 1
  BY DEF KeptTo
<1>10. PICK g : g = [a \in 1 .. i + 1 |-> IF a <= i THEN f[a] ELSE q + 1]
  OBVIOUS
<1>11. IsOrder(g, i + 1, KeptTo(s, q + 1))
  BY <1>3, <1>4, <1>6, <1>8, <1>9, <1>10, OrderGrows
<1>12. ASSUME NEW k \in 1 .. i + 1 PROVE line[k] = s[g[k]]
  <2>1. CASE k <= i
    BY <1>4, <1>5, <1>10, <2>1
  <2>2. CASE k = i + 1
    <3>1. g[k] = q + 1
      BY <1>5, <1>10, <2>2
    <3>2. line[i + 1] = s[i + 1 + r] /\ i + 1 + r = q + 1
      BY <1>3, <1>5, <1>6
    <3>3. QED
      BY <2>2, <3>1, <3>2
  <2>3. QED
    BY <1>5, <2>1, <2>2
<1>13. Text(n)' = s
  BY <1>1, <1>2 DEF Text
<1>14. i' + Erased' = q + 1
  <2>1. Erased' = r
    BY <1>1, <1>2, <1>13 DEF Erased
  <2>2. QED
    BY <1>1, <1>3, <1>5, <1>6, <2>1
<1>15. Scanned(g)'
  BY <1>1, <1>11, <1>12, <1>13, <1>14 DEF Scanned
<1>16. LinesDone' = LinesDone
  BY <1>1 DEF LinesDone
<1>17. QED
  BY <1>1, <1>15, <1>16, EntriesStay DEF EInv, ScannedIsText

(* The end of the word changes nothing in what was scanned. *)
LEMMA FindEndLists ==
  ASSUME IInv, EInv, FindEnd \/ EndScan, UNCHANGED affVars
  PROVE  EInv'
<1>1. /\ pc = "scan" /\ pc' \in {"scan", "insert"}
      /\ UNCHANGED <<file, aff, n, line, i, words>>
  BY DEF FindEnd, EndScan, Scanning, FixedInput
<1>2. LinesDone' = LinesDone
  BY <1>1 DEF LinesDone
<1>3. QED
  BY <1>1, <1>2, ScannedStays, EntriesStay DEF EInv

-----------------------------------------------------------------------------
(* The word that is cut out of the line is the one the text says. *)
LEMMA WordAgrees ==
  ASSUME IInv, EInv, pc = "insert"
  PROVE  /\ Word = WordOf(n) /\ Decoded = FlagsOf(n)
         /\ BadFlags <=> IsBad(n)
<1>1. PICK N, r, s : N = Len(line) /\ r = Erased /\ s = Text(n)
  OBVIOUS
<1>2. /\ N \in Nat /\ r \in Nat /\ i \in 0 .. N /\ Len(s) = N + r /\ r \in 0 .. Len(s)
      /\ IsSequence(line) /\ IsSequence(s) /\ Shifted(r)
      /\ KeptTo(s, i + r) \in SUBSET Int
  BY <1>1, ScanFacts
<1>3. PICK f : IsOrder(f, i, KeptTo(s, i + r)) /\ \A k \in 1 .. i : line[k] = s[f[k]]
  BY <1>1, ScanFacts
<1>4. PlacesAreInLine
  BY LineFacts
<1>5. /\ BadFlags <=> IsBad(n)
      /\ Decoded = FlagsOf(n) /\ FirstEnd(s) = i + r + 1
  BY <1>1, <1>2, <1>4, BadAgrees
<1>6. PICK q \in Nat : q = i + r
  BY <1>2
<1>7. PICK u : u = SubSeq(s, 1, q)
  OBVIOUS
<1>8. u \in Seq(Range(s)) /\ Len(u) = q /\ \A k \in 1 .. q : u[k] = s[k]
  <2>1. s \in Seq(Range(s)) /\ q <= Len(s)
    BY <1>2, <1>6 DEF IsSequence
  <2>2. QED
    BY <1>2, <1>7, <2>1
<1>9. WordOf(n) = Unescaped(u)
  <2>1. (i + r + 1) - 1 = q
    BY <1>2, <1>6
  <2>2. QED
    BY <1>1, <1>5, <1>7, <2>1 DEF WordOf
<1>10. Kept(u) = KeptTo(s, q)
  <2>1. DOMAIN u = 1 .. q
    BY <1>8
  <2>2. \A k \in 1 .. q : k < q => k + 1 \in 1 .. q
    OBVIOUS
  <2>3. QED
    BY <1>8, <2>1, <2>2 DEF Kept, KeptTo
<1>11. InOrder(Kept(u)) = f
  BY <1>2, <1>3, <1>6, <1>10, OrderIs
<1>12. /\ DOMAIN f = 1 .. i
       /\ \A k \in 1 .. i : u[f[k]] = line[k]
  <2>1. \A k \in 1 .. i : f[k] \in 1 .. q
    BY <1>3, <1>6 DEF IsOrder, KeptTo
  <2>2. QED
    BY <1>3, <1>8, <2>1 DEF IsOrder
<1>13. Unescaped(u) = [k \in 1 .. i |-> line[k]]
  <2>1. Unescaped(u) = [k \in DOMAIN f |-> u[f[k]]]
    BY <1>11 DEF Unescaped
  <2>2. QED
    BY <1>12, <2>1
<1>14. Word = [k \in 1 .. i |-> line[k]]
  <2>1. line \in Seq(Range(line)) /\ i \in Nat /\ i <= N
    BY <1>2 DEF IsSequence
  <2>2. CASE end_word_pos = NPos
    <3>1. i = N /\ Word = line
      BY <1>1, <1>2, <2>2 DEF Shifted, Word
    <3>2. line = [k \in 1 .. N |-> line[k]]
      BY <1>1, <2>1
    <3>3. QED
      BY <3>1, <3>2
  <2>3. CASE end_word_pos # NPos
    <3>1. Word = SubSeq(line, 1, i)
      BY <1>2, <2>3 DEF Shifted, Word
    <3>2. PICK v : v = SubSeq(line, 1, i)
      OBVIOUS
    <3>3. v \in Seq(Range(line)) /\ Len(v) = i /\ \A k \in 1 .. i : v[k] = line[k]
      BY <1>1, <2>1, <3>2
    <3>4. v = [k \in 1 .. i |-> v[k]]
      BY <3>3
    <3>5. QED
      BY <3>1, <3>2, <3>3, <3>4
  <2>4. QED
    BY <2>2, <2>3
<1>15. QED
  BY <1>5, <1>9, <1>13, <1>14

(* A line without a word for the list adds nothing to be listed. *)
LEMMA NoEntryLists ==
  ASSUME IInv, EInv, RejectLine \/ SkipLine, UNCHANGED affVars
  PROVE  EInv'
<1>1. /\ pc = "insert" /\ pc' = "lines" /\ UNCHANGED <<file, aff, n, words>>
      /\ \/ BadFlags
         \/ ~ BadFlags /\ (Word = <<>> \/ Range(Word) \cap Invalid # {})
  BY DEF RejectLine, SkipLine, FixedInput
<1>2. ~ HasEntry(n)
  BY <1>1, WordAgrees DEF HasEntry
<1>3. n \in Nat /\ n >= 1
  BY <1>1, LineFacts
<1>4. PICK m, f, g : Listed(m, f, g)
  BY <1>1 DEF EInv, EntriesSoFar
<1>5. \A k : (HasEntry(k)' <=> HasEntry(k)) /\ EntryOf(k)' = EntryOf(k)
  BY <1>1, FixedFacts
<1>6. Visible' = Visible
  BY <1>1 DEF Visible
<1>7. {k \in 1 .. LinesDone : HasEntry(k)}' = {k \in 1 .. LinesDone : HasEntry(k)}
  <2>1. LinesDone = n - 1 /\ LinesDone' = n
    BY <1>1 DEF LinesDone
  <2>2. \A k : k \in 1 .. n <=> k \in 1 .. n - 1 \/ k = n
    BY <1>3
  <2>3. QED
    BY <1>2, <1>5, <2>1, <2>2
<1>8. Listed(m, f, g)'
  BY <1>1, <1>4, <1>5, <1>6, <1>7 DEF Listed
<1>9. QED
  BY <1>1, <1>8 DEF EInv, ScannedIsText, EntriesSoFar, EntriesAreLines

(* A word is listed behind all others, as its line is behind theirs. *)
LEMMA InsertLists ==
  ASSUME IInv, EInv, Insert, UNCHANGED affVars
  PROVE  EInv'
<1> DEFINE e == Entry(U8Word, "word", FALSE)
<1>1. /\ pc = "insert" /\ pc' = "lines" /\ ~ BadFlags
      /\ Word # <<>> /\ Range(Word) \cap Invalid = {}
      /\ UNCHANGED <<file, aff, n>>
  BY DEF Insert, FixedInput
<1>2. HasEntry(n) /\ e = EntryOf(n) /\ e.hidden = FALSE
  <2>1. Word = WordOf(n) /\ Decoded = FlagsOf(n) /\ (BadFlags <=> IsBad(n))
    BY <1>1, WordAgrees
  <2>2. HasEntry(n)
    BY <1>1, <2>1 DEF HasEntry
  <2>3. e = EntryOf(n)
    BY <2>1 DEF Entry, EntryOf, U8Word
  <2>4. EntryOf(n).hidden = FALSE
    BY DEF EntryOf
  <2>5. QED
    BY <2>2, <2>3, <2>4
<1> HIDE DEF e
<1>3. PICK L \in Nat : L = Len(words) /\ DOMAIN words = 1 .. L
  BY DEF IInv, IsSequence
<1>4. PICK K \in 0 .. 1 :
        /\ DOMAIN words' = 1 .. L + 1 + K
        /\ \A k \in 1 .. L : words'[k] = words[k]
        /\ words'[L + 1] = e
        /\ K = 1 => words'[L + 2].hidden = TRUE
  BY <1>3, InsertAppends DEF e, IInv
<1>5. Visible' = Visible \cup {L + 1}
  <2>1. \A k \in 1 .. L + 1 + K : k \in 1 .. L \/ k = L + 1 \/ (k = L + 2 /\ K = 1)
    OBVIOUS
  <2>2. \A k \in 1 .. L : k \in 1 .. L + 1 + K
    OBVIOUS
  <2>3. L + 1 \in 1 .. L + 1 + K /\ (L + 2 \in 1 .. L + 1 + K => K = 1)
    OBVIOUS
  <2>4. Visible' = {j \in 1 .. L + 1 + K : ~ words'[j].hidden}
    BY <1>4 DEF Visible
  <2>5. Visible = {j \in 1 .. L : ~ words[j].hidden}
    BY <1>3 DEF Visible
  <2>6. QED
    BY <1>2, <1>4, <2>1, <2>2, <2>3, <2>4, <2>5
<1>6. n \in Nat /\ n >= 1
  BY <1>1, LineFacts
<1>7. PICK m, f, g : Listed(m, f, g)
  BY <1>1 DEF EInv, EntriesSoFar
<1>8. \A k : (HasEntry(k)' <=> HasEntry(k)) /\ EntryOf(k)' = EntryOf(k)
  BY <1>1, FixedFacts
<1> DEFINE R == {k \in 1 .. LinesDone : HasEntry(k)}
<1>9. R' = R \cup {n}
  <2>1. LinesDone = n - 1 /\ LinesDone' = n
    BY <1>1 DEF LinesDone
  <2>2. \A k : k \in 1 .. n <=> k \in 1 .. n - 1 \/ k = n
    BY <1>6
  <2>3. QED
    BY <1>2, <1>8, <2>1, <2>2
<1>10. \A k \in R : k < n
  <2>1. LinesDone = n - 1
    BY <1>1 DEF LinesDone
  <2>2. QED
    BY <1>6, <2>1
<1>11. Visible \in SUBSET Int /\ R \in SUBSET Int /\ \A k \in Visible : k < L + 1
  <2>1. \A k \in 1 .. L : k < L + 1
    OBVIOUS
  <2>2. QED
    BY <1>3, <2>1, PlacesAreInts DEF Visible, IInv
<1>12. IsOrder(f, m, Visible) /\ IsOrder(g, m, R)
  BY <1>7 DEF Listed
<1> HIDE DEF R
<1>13. PICK h : h = [a \in 1 .. m + 1 |-> IF a <= m THEN f[a] ELSE L + 1]
  OBVIOUS
<1>14. PICK l : l = [a \in 1 .. m + 1 |-> IF a <= m THEN g[a] ELSE n]
  OBVIOUS
<1>15. IsOrder(h, m + 1, Visible \cup {L + 1})
  BY <1>11, <1>12, <1>13, OrderGrows
<1>16. IsOrder(l, m + 1, R \cup {n})
  BY <1>6, <1>10, <1>11, <1>12, <1>14, OrderGrows
<1>17. ASSUME NEW a \in 1 .. m + 1 PROVE words'[h[a]] = EntryOf(l[a])'
  <2>0. m \in Nat
    BY <1>12 DEF IsOrder
  <2>1. CASE a \in 1 .. m
    <3>1. h[a] = f[a] /\ l[a] = g[a] /\ f[a] \in 1 .. L
      BY <1>3, <1>12, <1>13, <1>14, <2>0, <2>1 DEF IsOrder, Visible
    <3>2. words[f[a]] = EntryOf(g[a])
      BY <1>7, <2>1 DEF Listed
    <3>3. QED
      BY <1>4, <1>8, <3>1, <3>2
  <2>2. CASE a = m + 1
    <3>1. h[a] = L + 1 /\ l[a] = n
      BY <1>13, <1>14, <2>0, <2>2
    <3>2. QED
      BY <1>2, <1>4, <1>8, <3>1
  <2>3. QED
    BY <2>0, <2>1, <2>2
<1>18. Listed(m + 1, h, l)'
  BY <1>5, <1>9, <1>15, <1>16, <1>17 DEF Listed, R
<1>19. QED
  BY <1>1, <1>18 DEF EInv, ScannedIsText, EntriesSoFar, EntriesAreLines

-----------------------------------------------------------------------------
(* Flags that were decoded without an error are not none.                    *)
NumberErrors == {"INVALID_NUMERIC_FLAG", "FLAG_ABOVE_65535"}
SomeFlags(d) ==
    /\ d.err \in {"ok", "MISSING_FLAGS", "UNPAIRED_LONG_FLAG", "INVALID_UTF8"} \cup NumberErrors
    /\ d.err = "ok" => d.flags # {}

(* The digits at a place of a text end in it. *)
LEMMA DigitsFacts ==
  ASSUME NEW s, IsSequence(s), NEW k \in 0 .. Len(s)
  PROVE  Len(Digits(From(s, k))) \in 0 .. Len(s) - k
<1>1. s \in Seq(Range(s)) /\ Len(s) \in Nat /\ k \in Nat /\ k <= Len(s)
  BY DEF IsSequence
<1>2. PICK x : x = From(s, k)
  OBVIOUS
<1>3. x \in Seq(Range(s)) /\ Len(x) = Len(s) - k
  BY <1>1, <1>2 DEF From
<1>4. PICK j : j = ScanNot(x, 0, {"1"})
  OBVIOUS
<1>5. j \in 0 .. Len(x)
  <2>1. 0 \in 0 .. Len(x)
    BY <1>1, <1>3
  <2>2. QED
    BY <1>3, <1>4, <2>1, ScanNotFacts
<1>6. Len(SubSeq(x, 1, j)) = j
  BY <1>3, <1>5
<1>7. QED
  BY <1>2, <1>3, <1>4, <1>5, <1>6 DEF Digits

(* Numbers is a recursion towards the end of the text; that it is defined    *)
(* everywhere, and what it gives, is an induction over what is left.         *)
LEMMA NumbersFacts ==
  ASSUME NEW s, IsSequence(s)
  PROVE  SomeFlags(Numbers(s))
<1> DEFINE N == Len(s)
           Upto(m) == {k \in 0 .. N : N - k <= m}
           Rest_(g, k) ==
             LET d == Digits(From(s, k))
                 e == k + Len(d)
             IN  IF d = <<>> THEN Error("INVALID_NUMERIC_FLAG")
                 ELSE IF Len(d) > MaxDigits THEN Error("FLAG_ABOVE_65535")
                 ELSE IF e = Len(s) \/ At(s, e) # "," THEN Ok({d})
                 ELSE LET rest == g[e + 1]
                      IN  IF rest.err = "ok" THEN Ok({d} \cup rest.flags) ELSE rest
           Body(D, g) == [k \in D |-> Rest_(g, k)]
           M == {m \in Nat : \E g : g = Body(Upto(m), g)}
           After_(k) == k + Len(Digits(From(s, k)))
<1>0. N \in Nat
  BY DEF IsSequence
<1>next. ASSUME NEW m \in Nat, NEW k \in Upto(m), After_(k) # N
         PROVE  m > 0 /\ After_(k) + 1 \in Upto(m - 1) /\ After_(k) + 1 \in Upto(m)
  <2>1. k \in 0 .. N /\ k \in Nat /\ N - k <= m
    BY <1>0
  <2>2. Len(Digits(From(s, k))) \in 0 .. N - k
    BY <2>1, DigitsFacts
  <2>3. PICK e : e = After_(k)
    OBVIOUS
  <2>4. e \in k .. N /\ e # N
    BY <1>0, <2>1, <2>2, <2>3, <1>next
  <2>5. e + 1 \in 0 .. N /\ N - (e + 1) <= m - 1 /\ m > 0
    BY <1>0, <2>1, <2>4
  <2>6. QED
    BY <1>0, <2>3, <2>5
<1>up. ASSUME NEW m \in Nat PROVE Upto(m) \subseteq Upto(m + 1)
  BY <1>0
<1>zero. ASSUME NEW k \in Upto(0) PROVE After_(k) = N
  BY <1>next
<1>same. ASSUME NEW g, NEW h, NEW k, After_(k) # N => g[After_(k) + 1] = h[After_(k) + 1]
         PROVE  Rest_(g, k) = Rest_(h, k)
  BY <1>same
<1> HIDE DEF Upto, After_
<1>1. Nat \subseteq M
  <2>1. 0 \in M
    <3>1. PICK g : g = [k \in Upto(0) |-> Rest_(<<>>, k)]
      OBVIOUS
    <3>2. \A k \in Upto(0) : g[k] = Rest_(g, k)
      <4>1. SUFFICES ASSUME NEW k \in Upto(0) PROVE g[k] = Rest_(g, k)
        OBVIOUS
      <4>2. g[k] = Rest_(<<>>, k)
        BY <3>1
      <4>3. Rest_(<<>>, k) = Rest_(g, k)
        BY <1>same, <1>zero
      <4> HIDE DEF Rest_
      <4>4. QED
        BY <4>2, <4>3
    <3> HIDE DEF Rest_
    <3>3. g = Body(Upto(0), g)
      BY <3>1, <3>2
    <3> HIDE DEF Body
    <3>4. QED
      BY <3>3
  <2>2. ASSUME NEW m \in Nat, m \in M PROVE m + 1 \in M
    <3> HIDE DEF Rest_
    <3>1. PICK g : g = Body(Upto(m), g)
      BY <2>2
    <3>2. ASSUME NEW k \in Upto(m) PROVE g[k] = Rest_(g, k)
      <4>1. \A x : Body(Upto(m), x)[k] = Rest_(x, k)
        OBVIOUS
      <4>2. g[k] = Body(Upto(m), g)[k]
        BY <3>1
      <4> HIDE DEF Body
      <4>3. QED
        BY <4>1, <4>2
    <3>3. PICK h : h = [k \in Upto(m + 1) |-> Rest_(g, k)]
      OBVIOUS
    <3>4. ASSUME NEW k \in Upto(m + 1) PROVE h[k] = Rest_(h, k)
      <4>1. ASSUME After_(k) # N PROVE h[After_(k) + 1] = g[After_(k) + 1]
        <5>1. After_(k) + 1 \in Upto(m) /\ After_(k) + 1 \in Upto(m + 1)
          <6>1. (m + 1) - 1 = m /\ m + 1 \in Nat
            OBVIOUS
          <6>2. QED
            BY <1>next, <4>1, <6>1
        <5>2. QED
          BY <3>2, <3>3, <5>1
      <4>2. Rest_(g, k) = Rest_(h, k)
        BY <1>same, <4>1
      <4>3. QED
        BY <3>3, <4>2
    <3>5. h = Body(Upto(m + 1), h)
      BY <3>3, <3>4
    <3> HIDE DEF Body
    <3>6. QED
      BY <3>5
  <2>3. QED
    BY <2>1, <2>2, SetInduction
<1>2. Upto(N) = 0 .. N
  BY <1>0 DEF Upto
<1>3. PICK at : Numbers(s) = at[0] /\ at = CHOOSE g : g = Body(0 .. N, g)
  BY DEF Numbers
<1>4. at = Body(0 .. N, at)
  <2>1. \E g : g = Body(0 .. N, g)
    BY <1>0, <1>1, <1>2
  <2> HIDE DEF Body
  <2>2. QED
    BY <1>3, <2>1
<1>5. ASSUME NEW k \in 0 .. N PROVE at[k] = Rest_(at, k)
  <2>1. \A x : Body(0 .. N, x)[k] = Rest_(x, k)
    OBVIOUS
  <2>2. at[k] = Body(0 .. N, at)[k]
    BY <1>4
  <2> HIDE DEF Body, Rest_
  <2>3. QED
    BY <2>1, <2>2
<1> HIDE DEF Body
<1> DEFINE P == {m \in Nat : \A k \in Upto(m) : SomeFlags(at[k])}
<1>one. ASSUME NEW k \in 0 .. N, After_(k) # N => SomeFlags(at[After_(k) + 1])
        PROVE  SomeFlags(Rest_(at, k))
  <2>1. PICK d : d = Digits(From(s, k))
    OBVIOUS
  <2>2. PICK e : e = After_(k) /\ e = k + Len(d)
    BY <2>1 DEF After_
  <2>3. \A f : Ok(f).err = "ok" /\ Ok(f).flags = f
    BY DEF Ok
  <2>4. \A x : Error(x).err = x
    BY DEF Error
  <2>5. CASE d = <<>>
    <3>1. Rest_(at, k) = Error("INVALID_NUMERIC_FLAG")
      BY <2>1, <2>5
    <3> HIDE DEF Rest_
    <3>2. QED
      BY <2>4, <3>1 DEF SomeFlags, NumberErrors
  <2>6. CASE d # <<>> /\ Len(d) > MaxDigits
    <3>1. Rest_(at, k) = Error("FLAG_ABOVE_65535")
      BY <2>1, <2>6
    <3> HIDE DEF Rest_
    <3>2. QED
      BY <2>4, <3>1 DEF SomeFlags, NumberErrors
  <2>7. CASE d # <<>> /\ ~ (Len(d) > MaxDigits) /\ (e = Len(s) \/ At(s, e) # ",")
    <3>1. Rest_(at, k) = Ok({d})
      BY <2>1, <2>2, <2>7
    <3> HIDE DEF Rest_
    <3>2. QED
      BY <2>3, <3>1 DEF SomeFlags
  <2>8. CASE d # <<>> /\ ~ (Len(d) > MaxDigits) /\ ~ (e = Len(s) \/ At(s, e) # ",")
    <3>1. PICK rest : rest = at[e + 1]
      OBVIOUS
    <3>2. Rest_(at, k) = IF rest.err = "ok" THEN Ok({d} \cup rest.flags) ELSE rest
      BY <2>1, <2>2, <2>8, <3>1
    <3>3. SomeFlags(rest)
      BY <1>one, <2>2, <2>8, <3>1
    <3> HIDE DEF Rest_
    <3>4. CASE rest.err = "ok"
      BY <2>3, <3>2, <3>4 DEF SomeFlags
    <3>5. CASE rest.err # "ok"
      BY <3>2, <3>3, <3>5
    <3>6. QED
      BY <3>4, <3>5
  <2>9. QED
    BY <2>5, <2>6, <2>7, <2>8
<1> HIDE DEF Rest_
<1>6. Nat \subseteq P
  <2>1. 0 \in P
    <3>1. ASSUME NEW k \in Upto(0) PROVE SomeFlags(at[k])
      <4>1. k \in 0 .. N /\ After_(k) = N
        BY <1>zero DEF Upto
      <4>2. QED
        BY <1>5, <1>one, <4>1
    <3>2. QED
      BY <3>1
  <2>2. ASSUME NEW m \in Nat, m \in P PROVE m + 1 \in P
    <3>1. ASSUME NEW k \in Upto(m + 1) PROVE SomeFlags(at[k])
      <4>1. k \in 0 .. N
        BY DEF Upto
      <4>2. (m + 1) - 1 = m /\ m + 1 \in Nat
        OBVIOUS
      <4>3. After_(k) # N => After_(k) + 1 \in Upto(m)
        BY <1>next, <4>2
      <4>4. QED
        BY <1>5, <1>one, <2>2, <4>1, <4>3
    <3>2. QED
      BY <3>1
  <2>3. QED
    BY <2>1, <2>2, SetInduction
<1>7. 0 \in Upto(N)
  BY <1>0, <1>2
<1>8. SomeFlags(at[0])
  BY <1>0, <1>6, <1>7
<1>9. QED
  BY <1>3, <1>8

FlagTypes == {"single", "long", "num", "utf8"}

(* A text that is decoded without an error gives a flag at least. *)
LEMMA DecodedFlags ==
  ASSUME NEW s, IsSequence(s), aff.flag_type \in FlagTypes
  PROVE  SomeFlags(DecodeFlags(s))
<1>1. s \in Seq(Range(s)) /\ Len(s) \in Nat
  BY DEF IsSequence
<1>2. \A f : Ok(f).err = "ok" /\ Ok(f).flags = f
  BY DEF Ok
<1>3. \A x : Error(x).err = x
  BY DEF Error
<1>4. CASE s = <<>>
  <2>1. DecodeFlags(s) = Error("MISSING_FLAGS")
    BY <1>4 DEF DecodeFlags
  <2>2. QED
    BY <1>3, <2>1 DEF SomeFlags
<1>5. CASE s # <<>> /\ aff.flag_type = "single"
  <2>1. DecodeFlags(s) = Ok({<<c>> : c \in Range(s)})
    BY <1>5 DEF DecodeFlags
  <2>2. {<<c>> : c \in Range(s)} # {}
    <3>1. s[1] \in Range(s)
      BY <1>1, <1>5
    <3>2. <<s[1]>> \in {<<c>> : c \in Range(s)}
      BY <3>1
    <3>3. QED
      BY <3>2
  <2>3. QED
    BY <1>2, <2>1, <2>2 DEF SomeFlags
<1>6. CASE s # <<>> /\ aff.flag_type = "long"
  <2>1. DecodeFlags(s) = IF Len(s) % 2 = 1 THEN Error("UNPAIRED_LONG_FLAG")
                         ELSE Ok({<<s[2 * k - 1], s[2 * k]>> : k \in 1 .. Len(s) \div 2})
    BY <1>6 DEF DecodeFlags
  <2>2. CASE Len(s) % 2 = 1
    BY <1>3, <2>1, <2>2 DEF SomeFlags
  <2>3. CASE Len(s) % 2 # 1
    <3>1. Len(s) >= 1
      BY <1>1, <1>6
    <3>2. 1 \in 1 .. Len(s) \div 2
      BY <1>1, <2>3, <3>1
    <3>3. {<<s[2 * k - 1], s[2 * k]>> : k \in 1 .. Len(s) \div 2} # {}
      BY <3>2
    <3>4. QED
      BY <1>2, <2>1, <2>3, <3>3 DEF SomeFlags
  <2>4. QED
    BY <2>2, <2>3
<1>7. CASE s # <<>> /\ aff.flag_type = "num"
  <2>1. DecodeFlags(s) = Numbers(s)
    BY <1>7 DEF DecodeFlags
  <2>2. QED
    BY <2>1, NumbersFacts
<1>8. CASE s # <<>> /\ aff.flag_type = "utf8"
  <2>1. DecodeFlags(s) = IF Range(s) \cap Invalid # {} THEN Error("INVALID_UTF8")
                         ELSE Ok({<<c>> : c \in Range(s)})
    BY <1>8 DEF DecodeFlags
  <2>2. {<<c>> : c \in Range(s)} # {}
    <3>1. s[1] \in Range(s)
      BY <1>1, <1>8
    <3>2. <<s[1]>> \in {<<c>> : c \in Range(s)}
      BY <3>1
    <3>3. QED
      BY <3>2
  <2>3. CASE Range(s) \cap Invalid # {}
    BY <1>3, <2>1, <2>3 DEF SomeFlags
  <2>4. CASE Range(s) \cap Invalid = {}
    BY <1>2, <2>1, <2>2, <2>4 DEF SomeFlags
  <2>5. QED
    BY <2>3, <2>4
<1>9. QED
  BY <1>4, <1>5, <1>6, <1>7, <1>8 DEF FlagTypes

-----------------------------------------------------------------------------
(* The options.  An element of a table is without its last values only while *)
(* they are yet to be extracted, or once its line has failed.                *)
ElementKinds == {"string", "rule", "word/flag", "replacement", "word/flags", "condition"}
Elements == (Tables \ {"AF"}) \cup Affixes
Size(c) == IF c \in Tables THEN Len(Entry_[c]) ELSE 2 + Len(AffixEntry)
InElement == pc = "values" /\ command \in Elements /\ todo # <<>> /\ todo[1] \in ElementKinds
InAlias == pc = "values" /\ todo = <<"flags">>
Missing(c, k) == IF InElement /\ command = c /\ k = Len(conf[c]) THEN Len(todo) ELSE 0
Clean == ~ error_happened /\ ~ (pc = "values" /\ ss.fail)

ConfTyped ==
    \A c \in Elements :
        /\ c \in DOMAIN conf /\ IsSequence(conf[c])
        /\ \A k \in 1 .. Len(conf[c]) : IsSequence(conf[c][k])
ConfWhole ==
    Clean => \A c \in Elements : \A k \in 1 .. Len(conf[c]) :
                Len(conf[c][k]) + Missing(c, k) = Size(c)
AffTyped ==
    /\ {"flag_type", "aliases", "ignored", "forbidden"} \subseteq DOMAIN aff
    /\ aff.flag_type \in FlagTypes /\ IsSequence(aff.aliases)
AliasesWhole ==
    Clean => \A k \in 1 .. Len(aff.aliases) :
                aff.aliases[k] # {} \/ (InAlias /\ k = Len(aff.aliases))
\* The stream of the line that is being read.
Stream(s) ==
    /\ {"toks", "eof", "fail", "err"} \subseteq DOMAIN s /\ s.fail \in BOOLEAN
    /\ IsSequence(s.toks) /\ \A t \in Range(s.toks) : IsSequence(t)
\* The values to be extracted are those of the command, and none once it failed.
TodoFits ==
    pc = "values" =>
        /\ Stream(ss) /\ (todo # <<>> => ~ ss.fail)
        /\ \/ todo = <<>>
           \/ command \in Tables /\ todo = <<"count">>
           \/ command \in Affixes /\ todo = <<"affix flag">>
           \/ command \in Shorts /\ todo = <<"short">>
           \/ command = "AF" /\ todo = <<"flags">> /\ Len(aff.aliases) > 0
           \/ command = "FLAG" /\ todo = <<"flag type">>
           \/ command \in Elements /\ todo \in Seq(ElementKinds) /\ Len(conf[command]) > 0
           \/ command \in {"IGNORE", "TRY", "SET", "FORBIDDENWORD"} /\
              todo \in {<<"string">>, <<"encoding">>, <<"flag">>}

Options == pc \in {"aff", "values"}
OInv ==
    /\ Options => /\ line_num \in Nat /\ error_happened \in BOOLEAN
                  /\ ConfTyped /\ ConfWhole /\ AffTyped /\ AliasesWhole /\ TodoFits
    /\ NothingHalfRead

(* Nothing is being put into a table. *)
Idle == ~ InElement /\ ~ InAlias

(* A step that puts nothing into the tables leaves them whole. *)
LEMMA TablesStay ==
  ASSUME OInv, Options, Options',
         \A c \in Elements : c \in DOMAIN conf' /\ conf'[c] = conf[c],
         line_num' \in Nat, error_happened' \in BOOLEAN,
         AffTyped', aff'.aliases = aff.aliases, TodoFits',
         Clean' => Clean /\ Idle /\ Idle'
  PROVE  OInv'
<1>1. ConfTyped'
  BY DEF OInv, ConfTyped
<1>2. ConfWhole'
  <2>1. SUFFICES ASSUME Clean', NEW c \in Elements, NEW k \in 1 .. Len(conf'[c])
                 PROVE  Len(conf'[c][k]) + Missing(c, k)' = Size(c)
    BY DEF ConfWhole, Size
  <2>2. Missing(c, k)' = 0 /\ Missing(c, k) = 0
    BY <2>1 DEF Idle, Missing
  <2>3. Len(conf[c][k]) + Missing(c, k) = Size(c)
    BY <2>1 DEF OInv, ConfWhole
  <2>4. QED
    BY <2>2, <2>3
<1>3. AliasesWhole'
  BY DEF OInv, AliasesWhole, Idle
<1>4. NothingHalfRead'
  BY DEF NothingHalfRead, Options
<1>5. QED
  BY <1>1, <1>2, <1>3, <1>4 DEF OInv

(* The constants of the tables. *)
Others == {"AF", "FLAG", "IGNORE", "TRY", "SET", "FORBIDDENWORD", "FULLSTRIP"} \cup Shorts
LEMMA EntryFacts ==
  /\ \A c \in Tables \ {"AF"} : Entry_[c] \in Seq(ElementKinds) /\ Len(Entry_[c]) > 0
  /\ AffixEntry \in Seq(ElementKinds) /\ Len(AffixEntry) = 3
  /\ Entry_["AF"] = <<"flags">>
  /\ Elements \cap Others = {}
<1>1. ASSUME NEW c \in Tables \ {"AF"} PROVE Entry_[c] \in Seq(ElementKinds) /\ Len(Entry_[c]) > 0
  <2>1. CASE c \in {"MAP", "BREAK"}
    <3>1. Entry_[c] = <<"string">>
      BY <2>1 DEF Entry_, Tables, Pairs
    <3>2. QED
      BY <3>1 DEF ElementKinds
  <2>2. CASE c \in Pairs
    <3>1. Entry_[c] = <<"string", "string">>
      BY <2>2 DEF Entry_, Tables, Pairs
    <3>2. QED
      BY <3>1 DEF ElementKinds
  <2>3. CASE c = "COMPOUNDRULE"
    <3>1. Entry_[c] = <<"rule">>
      BY <2>3 DEF Entry_, Tables, Pairs
    <3>2. QED
      BY <3>1 DEF ElementKinds
  <2>4. CASE c = "CHECKCOMPOUNDPATTERN"
    <3>1. Entry_[c] = <<"word/flag", "word/flag", "replacement">>
      BY <2>4 DEF Entry_, Tables, Pairs
    <3>2. QED
      BY <3>1 DEF ElementKinds
  <2>5. QED
    BY <2>1, <2>2, <2>3, <2>4 DEF Tables
<1>2. AffixEntry \in Seq(ElementKinds) /\ Len(AffixEntry) = 3
  BY DEF AffixEntry, ElementKinds
<1>3. Entry_["AF"] = <<"flags">>
  BY DEF Entry_, Tables, Pairs
<1>4. Elements \cap Others = {}
  BY DEF Others, Elements, Tables, Pairs, Affixes, Shorts
<1>5. QED
  BY <1>1, <1>2, <1>3, <1>4

(* What a line has left after its command is a stream that has not failed.  *)
LEMMA LineBegins ==
  ASSUME OInv, aff_file \in AffFiles, NEW c, Reads(c)
  PROVE  /\ pc = "aff" /\ Command = c
         /\ line_num + 1 \in Nat /\ error_happened \in BOOLEAN
         /\ Stream(Rest(Line)) /\ Rest(Line).fail = FALSE
         /\ \A w : Stream(WithWarning(Rest(Line), w)) /\ WithWarning(Rest(Line), w).fail = FALSE
<1>1. /\ pc = "aff" /\ Command = c /\ line_num \in Nat /\ error_happened \in BOOLEAN
      /\ line_num < Len(aff_file.lines) /\ Line.toks # <<>>
  BY DEF Reads, OInv, Options, MoreLines, IsSkipped
<1>2. /\ IsSequence(aff_file.lines)
      /\ \A l \in Range(aff_file.lines) :
            IsSequence(l.toks) /\ \A t \in Range(l.toks) : IsSequence(t)
  BY AffFilesAssumption
<1>3. Line \in Range(aff_file.lines)
  <2>1. line_num + 1 \in 1 .. Len(aff_file.lines)
    BY <1>1, <1>2 DEF IsSequence
  <2>2. aff_file.lines \in Seq(Range(aff_file.lines))
    BY <1>2 DEF IsSequence
  <2>3. QED
    BY <2>1, <2>2 DEF Line
<1>4. PICK l : l = Line
  OBVIOUS
<1>5. IsSequence(l.toks) /\ l.toks # <<>> /\ \A t \in Range(l.toks) : IsSequence(t)
  BY <1>1, <1>2, <1>3, <1>4
<1>6. PICK t : t = Tail(l.toks)
  OBVIOUS
<1>7. IsSequence(t) /\ \A x \in Range(t) : IsSequence(x)
  BY <1>5, <1>6, TailIsSequence
<1>8. PICK e \in BOOLEAN : e = (Len(l.toks) = 1 /\ ~ l.tail)
  OBVIOUS
<1>9. Rest(l) = [toks |-> t, eof |-> e, fail |-> FALSE, err |-> "ok"]
  BY <1>6, <1>8 DEF Rest
<1>10. Stream(Rest(l)) /\ Rest(l).fail = FALSE
  BY <1>7, <1>9 DEF Stream
<1>11. ASSUME NEW w
       PROVE  Stream(WithWarning(Rest(l), w)) /\ WithWarning(Rest(l), w).fail = FALSE
  BY <1>7, <1>9 DEF Stream, WithWarning
<1>12. line_num + 1 \in Nat
  BY <1>1
<1>13. QED
  BY <1>1, <1>4, <1>10, <1>11, <1>12

(* A line that begins no element of a table. *)
LEMMA OtherLine ==
  ASSUME OInv, aff_file \in AffFiles, NEW c, Reads(c), NEW values, NEW s, Begin(values, s),
         s = Rest(Line) \/ \E w : s = WithWarning(Rest(Line), w),
         \A d \in Elements : d \in DOMAIN conf' /\ conf'[d] = conf[d],
         AffTyped', aff'.aliases = aff.aliases,
         \/ values = <<>>
         \/ c \in Tables /\ values = <<"count">>
         \/ c \in Affixes /\ values = <<"affix flag">>
         \/ c \in Shorts /\ values = <<"short">>
         \/ c = "FLAG" /\ values = <<"flag type">>
         \/ c \in {"IGNORE", "TRY", "SET", "FORBIDDENWORD"} /\
            values \in {<<"string">>, <<"encoding">>, <<"flag">>}
  PROVE  OInv'
<1>1. pc = "aff" /\ Command = c /\ Stream(s) /\ s.fail = FALSE
  BY LineBegins
<1>2. /\ pc' = "values" /\ command' = c /\ todo' = values /\ ss' = s
      /\ line_num' = line_num + 1 /\ error_happened' = error_happened
  BY <1>1 DEF Begin
<1>3. line_num' \in Nat /\ error_happened' \in BOOLEAN
  <2>1. line_num + 1 \in Nat /\ error_happened \in BOOLEAN
    BY LineBegins
  <2>2. QED
    BY <1>2, <2>1, Zenon
<1>4. Stream(ss)'
  BY <1>1, <1>2 DEF Stream
<1>5. TodoFits'
  BY <1>1, <1>2, <1>4 DEF TodoFits
<1>6. Idle /\ Clean' => Clean
  BY <1>1, <1>2 DEF Idle, InElement, InAlias, Clean
<1>7. Idle'
  <2>1. ASSUME InElement' PROVE FALSE
    <3>1. c \in Elements /\ values # <<>> /\ values[1] \in ElementKinds
      BY <1>2, <2>1 DEF InElement
    <3>2. c \notin Shorts \cup {"FLAG", "IGNORE", "TRY", "SET", "FORBIDDENWORD"}
      BY <3>1, EntryFacts DEF Others
    <3>3. values = <<>> \/ values = <<"count">> \/ values = <<"affix flag">>
      BY <3>2, Zenon
    <3>4. CASE values = <<"count">>
      <4>1. values[1] = "count"
        BY <3>4
      <4>2. QED
        BY <3>1, <4>1 DEF ElementKinds
    <3>5. CASE values = <<"affix flag">>
      <4>1. values[1] = "affix flag"
        BY <3>5
      <4>2. QED
        BY <3>1, <4>1 DEF ElementKinds
    <3>6. QED
      BY <3>1, <3>3, <3>4, <3>5
  <2>2. ASSUME InAlias' PROVE FALSE
    <3>1. values = <<"flags">>
      BY <1>2, <2>2 DEF InAlias
    <3>2. values[1] = "flags"
      BY <3>1
    <3>3. values \in {<<>>, <<"count">>, <<"affix flag">>, <<"short">>, <<"flag type">>,
                      <<"string">>, <<"encoding">>, <<"flag">>}
      BY Zenon
    <3>4. QED
      BY <3>1, <3>2, <3>3
  <2>3. QED
    BY <2>1, <2>2 DEF Idle
<1>8. Idle
  BY <1>1 DEF Idle, InElement, InAlias
<1>9. QED
  BY <1>1, <1>2, <1>3, <1>5, <1>6, <1>7, <1>8, TablesStay DEF Options

LEMMA ReadOptionWhole ==
  ASSUME OInv, aff_file \in AffFiles, ReadOption
  PROVE  OInv'
<1>1. UNCHANGED <<aff, conf>>
  BY DEF ReadOption
<1>2. PICK c, values, s :
        /\ Reads(c) /\ Begin(values, s)
        /\ s = Rest(Line) \/ \E w : s = WithWarning(Rest(Line), w)
        /\ \/ values = <<>>
           \/ c \in Shorts /\ values = <<"short">>
           \/ c \in {"IGNORE", "TRY", "SET", "FORBIDDENWORD"} /\
              values \in {<<"string">>, <<"encoding">>, <<"flag">>}
  <2>1. CASE Reads("IGNORE") /\ UnlessSet(aff.ignored # {}, "string")
    BY <2>1 DEF UnlessSet
  <2>2. CASE \E c \in {"TRY", "SET"} :
               Reads(c) /\ UnlessSet(conf[c] # <<>>, IF c = "SET" THEN "encoding" ELSE "string")
    BY <2>2 DEF UnlessSet
  <2>3. CASE \E c \in Shorts : Reads(c) /\ Begin(<<"short">>, Rest(Line))
    BY <2>3
  <2>4. CASE Reads("FORBIDDENWORD") /\ Begin(<<"flag">>, Rest(Line))
    BY <2>4
  <2>5. CASE Reads("UNKNOWN") /\ Begin(<<>>, Rest(Line))
    BY <2>5
  <2>6. QED
    BY <2>1, <2>2, <2>3, <2>4, <2>5 DEF ReadOption
<1>3. Options
  BY <1>2, LineBegins DEF Options
<1>4. AffTyped' /\ \A d \in Elements : d \in DOMAIN conf' /\ conf'[d] = conf[d]
  BY <1>1, <1>3 DEF OInv, AffTyped, ConfTyped
<1>5. QED
  BY <1>1, <1>2, <1>4, OtherLine

LEMMA ReadBoolWhole ==
  ASSUME OInv, aff_file \in AffFiles, ReadBool
  PROVE  OInv'
<1>1. /\ Reads("FULLSTRIP") /\ Begin(<<>>, Rest(Line)) /\ aff' = aff
      /\ conf' = [conf EXCEPT !.FULLSTRIP = TRUE]
  BY DEF ReadBool
<1>2. Options
  BY <1>1, LineBegins DEF Options
<1>3. AffTyped'
  BY <1>1, <1>2 DEF OInv, AffTyped
<1>4. \A d \in Elements : d \in DOMAIN conf' /\ conf'[d] = conf[d]
  BY <1>1, <1>2, EntryFacts DEF OInv, ConfTyped, Others
<1>5. QED
  BY <1>1, <1>3, <1>4, OtherLine

LEMMA ReadFlagTypeWhole ==
  ASSUME OInv, aff_file \in AffFiles, ReadFlagType
  PROVE  OInv'
<1>1. /\ Reads("FLAG") /\ Begin(<<"flag type">>, Rest(Line)) /\ conf' = conf
      /\ aff' = [aff EXCEPT !.flag_type = "single"]
  BY DEF ReadFlagType
<1>2. Options
  BY <1>1, LineBegins DEF Options
<1>3. AffTyped /\ \A d \in Elements : d \in DOMAIN conf' /\ conf'[d] = conf[d]
  BY <1>1, <1>2 DEF OInv, ConfTyped
<1>4. AffTyped' /\ aff'.aliases = aff.aliases
  BY <1>1, <1>3 DEF AffTyped, FlagTypes
<1>5. QED
  BY <1>1, <1>3, <1>4, OtherLine

LEMMA ReadAffixWhole ==
  ASSUME OInv, aff_file \in AffFiles, ReadAffix
  PROVE  OInv'
<1>1. PICK c \in Affixes : Reads(c) /\ Begin(<<"affix flag">>, Rest(Line))
  BY DEF ReadAffix
<1>2. UNCHANGED <<aff, conf>>
  BY DEF ReadAffix
<1>3. Options
  BY <1>1, LineBegins DEF Options
<1>4. AffTyped' /\ \A d \in Elements : d \in DOMAIN conf' /\ conf'[d] = conf[d]
  BY <1>2, <1>3 DEF OInv, AffTyped, ConfTyped
<1>5. QED
  BY <1>1, <1>2, <1>4, OtherLine

(* An element is begun empty, and lacks all its values. *)
LEMMA ElementBegins ==
  ASSUME OInv, Options, Clean' => Clean /\ Idle,
         NEW c \in Elements, NEW e, IsSequence(e),
         conf' = [conf EXCEPT ![c] = Append(@, e)], aff' = aff,
         pc' = "values", command' = c, line_num' \in Nat, error_happened' \in BOOLEAN,
         Stream(ss'), ss'.fail = FALSE,
         todo' \in Seq(ElementKinds), Len(todo') > 0, Len(e) + Len(todo') = Size(c)
  PROVE  OInv'
<1>1. ConfTyped /\ ConfWhole /\ AffTyped /\ AliasesWhole
  BY DEF OInv
<1>2. PICK s : s = conf[c]
  OBVIOUS
<1>3. c \in DOMAIN conf /\ IsSequence(s) /\ Len(s) \in Nat
  BY <1>1, <1>2 DEF ConfTyped, IsSequence
<1>4. PICK t : t = Append(s, e)
  OBVIOUS
<1>5. /\ IsSequence(t) /\ Len(t) = Len(s) + 1 /\ t[Len(s) + 1] = e
      /\ \A k \in 1 .. Len(s) : t[k] = s[k]
  BY <1>3, <1>4, AppendIsSequence
<1>6. /\ DOMAIN conf' = DOMAIN conf /\ conf'[c] = t
      /\ \A d \in Elements : d # c => conf'[d] = conf[d]
  BY <1>1, <1>2, <1>3, <1>4 DEF ConfTyped
<1>7. ConfTyped'
  <2>1. ASSUME NEW d \in Elements
        PROVE  /\ d \in DOMAIN conf' /\ IsSequence(conf'[d])
               /\ \A k \in 1 .. Len(conf'[d]) : IsSequence(conf'[d][k])
    <3>1. CASE d = c
      <4>1. ASSUME NEW k \in 1 .. Len(t) PROVE IsSequence(t[k])
        <5>1. k \in 1 .. Len(s) \/ k = Len(s) + 1
          BY <1>3, <1>5
        <5>2. QED
          BY <1>1, <1>2, <1>5, <5>1 DEF ConfTyped
      <4>2. QED
        BY <1>3, <1>5, <1>6, <3>1, <4>1
    <3>2. CASE d # c
      BY <1>1, <1>6, <3>2 DEF ConfTyped
    <3>3. QED
      BY <3>1, <3>2
  <2>2. QED
    BY <2>1 DEF ConfTyped, IsSequence, Elements, Tables, Pairs, Affixes
<1>8. todo' # <<>> /\ todo'[1] \in ElementKinds
  OBVIOUS
<1>9. ConfWhole'
  <2>1. SUFFICES ASSUME Clean', NEW d \in Elements, NEW k \in 1 .. Len(conf'[d])
                 PROVE  Len(conf'[d][k]) + Missing(d, k)' = Size(d)
    BY DEF ConfWhole, Size
  <2>2. \A j \in 1 .. Len(conf[d]) : Len(conf[d][j]) = Size(d)
    <3>1. Clean /\ ~ InElement
      BY <2>1 DEF Idle
    <3>2. \A j \in 1 .. Len(conf[d]) : Len(conf[d][j]) + 0 = Size(d)
      BY <1>1, <3>1 DEF ConfWhole, Missing
    <3>3. \A j \in 1 .. Len(conf[d]) : Len(conf[d][j]) \in Nat
      BY <1>1 DEF ConfTyped, IsSequence
    <3>4. QED
      BY <3>2, <3>3
  <2>3. CASE d = c
    <3>1. CASE k = Len(s) + 1
      <4>1. Missing(d, k)' = Len(todo')
        BY <1>5, <1>6, <1>8, <2>3, <3>1 DEF Missing, InElement
      <4>2. QED
        BY <1>5, <1>6, <2>3, <3>1, <4>1
    <3>2. CASE k \in 1 .. Len(s)
      <4>1. k # Len(t)
        BY <1>3, <1>5, <3>2
      <4>2. Missing(d, k)' = 0
        BY <1>6, <2>3, <4>1 DEF Missing
      <4>3. Len(conf'[d][k]) = Size(d)
        BY <1>2, <1>5, <1>6, <2>2, <2>3, <3>2
      <4>4. Len(conf'[d][k]) \in Nat
        BY <1>7 DEF ConfTyped, IsSequence
      <4>5. QED
        BY <4>2, <4>3, <4>4
    <3>3. QED
      BY <1>3, <1>5, <1>6, <2>3, <3>1, <3>2
  <2>4. CASE d # c
    <3>1. Missing(d, k)' = 0
      BY <2>4 DEF Missing
    <3>2. Len(conf'[d][k]) = Size(d)
      BY <1>6, <2>2, <2>4
    <3>3. Len(conf'[d][k]) \in Nat
      BY <1>7 DEF ConfTyped, IsSequence
    <3>4. QED
      BY <3>1, <3>2, <3>3
  <2>5. QED
    BY <2>3, <2>4
<1>10. AffTyped'
  BY <1>1 DEF AffTyped
<1>11. AliasesWhole'
  BY <1>1 DEF AliasesWhole, Idle
<1>12. TodoFits'
  <2>1. Len(conf'[c]) > 0
    BY <1>3, <1>5, <1>6
  <2>2. Stream(ss)'
    BY DEF Stream
  <2>3. QED
    BY <2>1, <2>2 DEF TodoFits
<1>13. NothingHalfRead'
  BY DEF NothingHalfRead
<1>14. QED
  BY <1>7, <1>9, <1>10, <1>11, <1>12, <1>13 DEF OInv

LEMMA ReadTableWhole ==
  ASSUME OInv, aff_file \in AffFiles, ReadTable
  PROVE  OInv'
<1>1. PICK c \in Tables :
        /\ Reads(c)
        /\ \/ Begin(<<"count">>, Rest(Line)) /\ UNCHANGED <<conf, aff>>
           \/ /\ c = "AF" /\ aff' = [aff EXCEPT !.aliases = Append(@, {})] /\ UNCHANGED conf
              /\ Begin(Entry_[c], Rest(Line))
           \/ /\ c # "AF" /\ conf' = [conf EXCEPT ![c] = Append(@, <<>>)] /\ UNCHANGED aff
              /\ Begin(Entry_[c], Rest(Line))
           \/ /\ Begin(<<>>, WithWarning(Rest(Line), "ARRAY_COMMAND_EXTRA_ENTRIES_WARNING"))
              /\ UNCHANGED <<conf, aff>>
  BY DEF ReadTable
<1>2. /\ pc = "aff" /\ Command = c /\ Stream(Rest(Line)) /\ Rest(Line).fail = FALSE
      /\ line_num + 1 \in Nat /\ error_happened \in BOOLEAN
  BY <1>1, LineBegins
<1>3. Options /\ Idle
  BY <1>2 DEF Options, Idle, InElement, InAlias
<1>4. ConfTyped /\ ConfWhole /\ AffTyped /\ AliasesWhole
  BY <1>3 DEF OInv
<1>5. CASE UNCHANGED <<conf, aff>>
  <2>1. AffTyped' /\ \A d \in Elements : d \in DOMAIN conf' /\ conf'[d] = conf[d]
    BY <1>4, <1>5 DEF AffTyped, ConfTyped
  <2>2. CASE Begin(<<"count">>, Rest(Line))
    BY <1>1, <1>5, <2>1, <2>2, OtherLine
  <2>3. CASE Begin(<<>>, WithWarning(Rest(Line), "ARRAY_COMMAND_EXTRA_ENTRIES_WARNING"))
    BY <1>1, <1>5, <2>1, <2>3, OtherLine
  <2>4. CASE /\ Begin(Entry_[c], Rest(Line)) /\ c = "AF"
             /\ aff' = [aff EXCEPT !.aliases = Append(@, {})]
    <3>1. Len(aff.aliases) \in Nat /\ Len(aff'.aliases) = Len(aff.aliases) + 1
      BY <1>4, <2>4, AppendIsSequence DEF AffTyped, IsSequence
    <3>2. QED
      BY <1>5, <3>1
  <2>5. CASE /\ Begin(Entry_[c], Rest(Line)) /\ c # "AF"
             /\ conf' = [conf EXCEPT ![c] = Append(@, <<>>)]
    <3>1. c \in Elements
      BY <2>5 DEF Elements
    <3>2. Len(conf[c]) \in Nat /\ Len(conf'[c]) = Len(conf[c]) + 1
      BY <1>4, <2>5, <3>1, AppendIsSequence DEF ConfTyped, IsSequence
    <3>3. QED
      BY <1>5, <3>2
  <2>6. QED
    BY <1>1, <2>2, <2>3, <2>4, <2>5
<1>6. CASE c = "AF" /\ aff' = [aff EXCEPT !.aliases = Append(@, {})] /\ conf' = conf /\
           Begin(Entry_[c], Rest(Line))
  <2>1. /\ pc' = "values" /\ command' = "AF" /\ todo' = <<"flags">> /\ ss' = Rest(Line)
        /\ line_num' = line_num + 1 /\ error_happened' = error_happened
    BY <1>2, <1>6, EntryFacts DEF Begin
  <2>2. PICK s : s = aff.aliases
    OBVIOUS
  <2>3. IsSequence(s) /\ Len(s) \in Nat /\ aff.flag_type \in FlagTypes
    BY <1>4, <2>2 DEF AffTyped, IsSequence
  <2>4. PICK t : t = Append(s, {})
    OBVIOUS
  <2>5. /\ IsSequence(t) /\ Len(t) = Len(s) + 1 /\ t[Len(s) + 1] = {}
        /\ \A k \in 1 .. Len(s) : t[k] = s[k]
    BY <2>3, <2>4, AppendIsSequence
  <2>6. aff'.aliases = t /\ aff'.flag_type = aff.flag_type /\ DOMAIN aff' = DOMAIN aff
    BY <1>4, <1>6, <2>2, <2>4 DEF AffTyped
  <2>7. ConfTyped' /\ AffTyped'
    BY <1>4, <1>6, <2>3, <2>5, <2>6 DEF ConfTyped, AffTyped
  <2>8. Clean' => Clean
    BY <1>2, <2>1 DEF Clean
  <2>9. ~ InElement' /\ InAlias'
    <3>1. todo'[1] = "flags"
      BY <2>1
    <3>2. QED
      BY <2>1, <3>1 DEF InElement, InAlias, ElementKinds
  <2>10. ConfWhole'
    <3>1. \A d, k : Missing(d, k)' = Missing(d, k)
      BY <1>3, <2>9 DEF Missing, Idle
    <3>2. QED
      BY <1>4, <1>6, <2>8, <3>1 DEF ConfWhole, Size
  <2>11. AliasesWhole'
    <3>1. SUFFICES ASSUME Clean', NEW k \in 1 .. Len(t)
                   PROVE  t[k] # {} \/ k = Len(t)
      BY <2>6, <2>9 DEF AliasesWhole
    <3>2. \A j \in 1 .. Len(s) : s[j] # {}
      BY <1>3, <1>4, <2>2, <2>8, <3>1 DEF AliasesWhole, Idle
    <3>3. k \in 1 .. Len(s) \/ k = Len(t)
      BY <2>3, <2>5
    <3>4. QED
      BY <2>5, <3>2, <3>3
  <2>12. TodoFits'
    <3>1. Len(aff'.aliases) > 0
      BY <2>3, <2>5, <2>6
    <3>2. Stream(ss)'
      BY <1>2, <2>1 DEF Stream
    <3>3. QED
      BY <1>2, <2>1, <3>1, <3>2 DEF TodoFits
  <2>13. line_num' \in Nat /\ error_happened' \in BOOLEAN
    BY <1>2, <2>1, Zenon
  <2>14. NothingHalfRead'
    BY <2>1 DEF NothingHalfRead
  <2>15. QED
    BY <2>7, <2>10, <2>11, <2>12, <2>13, <2>14 DEF OInv
<1>7. CASE c # "AF" /\ conf' = [conf EXCEPT ![c] = Append(@, <<>>)] /\ aff' = aff /\
           Begin(Entry_[c], Rest(Line))
  <2>1. /\ pc' = "values" /\ command' = c /\ todo' = Entry_[c] /\ ss' = Rest(Line)
        /\ line_num' = line_num + 1 /\ error_happened' = error_happened
    BY <1>2, <1>7 DEF Begin
  <2>2. line_num' \in Nat /\ error_happened' \in BOOLEAN
    BY <1>2, <2>1, Zenon
  <2>3. c \in Elements /\ todo' \in Seq(ElementKinds) /\ Len(todo') > 0
    BY <1>7, <2>1, EntryFacts DEF Elements
  <2>4. IsSequence(<<>>) /\ Len(<<>>) + Len(todo') = Size(c)
    BY <1>7, <2>1, <2>3 DEF IsSequence, Size
  <2>5. Stream(ss') /\ ss'.fail = FALSE
    BY <1>2, <2>1
  <2>6. Clean' => Clean /\ Idle
    BY <1>2, <1>3, <2>1 DEF Clean
  <2>7. QED
    BY <1>3, <1>7, <2>1, <2>2, <2>3, <2>4, <2>5, <2>6, ElementBegins
<1>8. QED
  BY <1>1, <1>5, <1>6, <1>7

LEMMA SkipCommentWhole ==
  ASSUME OInv, SkipComment
  PROVE  OInv'
<1>1. /\ pc = "aff" /\ pc' = "aff" /\ line_num' = line_num + 1
      /\ aff' = aff /\ conf' = conf /\ error_happened' = error_happened
  BY DEF SkipComment
<1>2. /\ line_num \in Nat /\ error_happened \in BOOLEAN /\ Options /\ Options'
      /\ ConfTyped /\ AffTyped
  BY <1>1 DEF OInv, Options
<1>3. line_num' \in Nat
  <2>1. line_num + 1 \in Nat
    BY <1>2
  <2>2. QED
    BY <1>1, <2>1
<1>4. AffTyped' /\ aff'.aliases = aff.aliases
  BY <1>1, <1>2 DEF AffTyped
<1>5. TodoFits' /\ (Clean' => Clean /\ Idle /\ Idle')
  BY <1>1 DEF TodoFits, Clean, Idle, InElement, InAlias
<1>6. \A c \in Elements : c \in DOMAIN conf' /\ conf'[c] = conf[c]
  BY <1>1, <1>2 DEF ConfTyped
<1>7. error_happened' \in BOOLEAN
  BY <1>1, <1>2, Zenon
<1>8. QED
  BY <1>2, <1>3, <1>4, <1>5, <1>6, <1>7, TablesStay

-----------------------------------------------------------------------------
(* What is to be extracted says what the command is. *)
IsLast(kind) == todo = <<kind>> /\ todo[1] = kind /\ Tail(todo) = <<>>
LEMMA TodoCases ==
  ASSUME OInv, pc = "values", todo # <<>>
  PROVE  /\ Stream(ss) /\ ss.fail = FALSE
         /\ ConfTyped /\ ConfWhole /\ AffTyped /\ AliasesWhole
         /\ line_num \in Nat /\ error_happened \in BOOLEAN
         /\ todo[1] = "affix flag" => command \in Affixes /\ todo = <<"affix flag">>
         /\ todo[1] = "count" => command \in Tables /\ todo = <<"count">>
         /\ todo[1] = "short" => command \in Shorts /\ todo = <<"short">>
         /\ todo[1] \in WordKinds \ {"affix flag"} =>
              \/ command = "AF" /\ todo = <<"flags">> /\ Len(aff.aliases) > 0 /\ IsLast("flags")
              \/ command = "FLAG" /\ IsLast("flag type")
              \/ InElement /\ todo \in Seq(ElementKinds) /\ Len(conf[command]) > 0
              \/ command \in {"IGNORE", "TRY", "SET", "FORBIDDENWORD"} /\
                 \E kind \in {"string", "encoding", "flag"} : IsLast(kind)
<1>1. /\ ConfTyped /\ ConfWhole /\ AffTyped /\ AliasesWhole /\ TodoFits
      /\ line_num \in Nat /\ error_happened \in BOOLEAN
  BY DEF OInv, Options
<1>2. Stream(ss) /\ ss.fail = FALSE
  BY <1>1 DEF TodoFits, Stream
<1>3. \/ command \in Tables /\ todo = <<"count">>
      \/ command \in Affixes /\ todo = <<"affix flag">>
      \/ command \in Shorts /\ todo = <<"short">>
      \/ command = "AF" /\ todo = <<"flags">> /\ Len(aff.aliases) > 0
      \/ command = "FLAG" /\ todo = <<"flag type">>
      \/ command \in Elements /\ todo \in Seq(ElementKinds) /\ Len(conf[command]) > 0
      \/ command \in {"IGNORE", "TRY", "SET", "FORBIDDENWORD"} /\
         todo \in {<<"string">>, <<"encoding">>, <<"flag">>}
  BY <1>1 DEF TodoFits
<1>4. CASE command \in Tables /\ todo = <<"count">>
  <2>1. todo[1] = "count"
    BY <1>4
  <2>2. QED
    BY <1>1, <1>2, <1>4, <2>1 DEF WordKinds
<1>5. CASE command \in Affixes /\ todo = <<"affix flag">>
  <2>1. todo[1] = "affix flag"
    BY <1>5
  <2>2. QED
    BY <1>1, <1>2, <1>5, <2>1
<1>6. CASE command \in Shorts /\ todo = <<"short">>
  <2>1. todo[1] = "short"
    BY <1>6
  <2>2. QED
    BY <1>1, <1>2, <1>6, <2>1 DEF WordKinds
<1>7. CASE command = "AF" /\ todo = <<"flags">> /\ Len(aff.aliases) > 0
  <2>1. IsLast("flags")
    BY <1>7 DEF IsLast
  <2>2. QED
    BY <1>1, <1>2, <1>7, <2>1 DEF IsLast
<1>8. CASE command = "FLAG" /\ todo = <<"flag type">>
  <2>1. IsLast("flag type")
    <3>1. todo = <<"flag type">>
      BY <1>8, Zenon
    <3>2. todo[1] = "flag type" /\ Tail(todo) = <<>>
      BY <3>1, SingleValue, Zenon
    <3>3. QED
      BY <3>1, <3>2, Zenon DEF IsLast
  <2>2. QED
    BY <1>1, <1>2, <1>8, <2>1 DEF IsLast
<1>9. CASE command \in Elements /\ todo \in Seq(ElementKinds) /\ Len(conf[command]) > 0
  <2>1. todo[1] \in ElementKinds
    BY <1>9
  <2>2. InElement
    BY <1>9, <2>1 DEF InElement
  <2>3. QED
    BY <1>1, <1>2, <1>9, <2>1, <2>2 DEF ElementKinds
<1>10. CASE command \in {"IGNORE", "TRY", "SET", "FORBIDDENWORD"} /\
            todo \in {<<"string">>, <<"encoding">>, <<"flag">>}
  <2>1. CASE todo = <<"string">>
    <3>1. IsLast("string")
      BY <2>1 DEF IsLast
    <3>2. QED
      BY <1>1, <1>2, <1>10, <3>1 DEF IsLast
  <2>2. CASE todo = <<"encoding">>
    <3>1. IsLast("encoding")
      BY <2>2 DEF IsLast
    <3>2. QED
      BY <1>1, <1>2, <1>10, <3>1 DEF IsLast
  <2>3. CASE todo = <<"flag">>
    <3>1. IsLast("flag")
      BY <2>3 DEF IsLast
    <3>2. QED
      BY <1>1, <1>2, <1>10, <3>1 DEF IsLast
  <2>4. QED
    BY <1>10, <2>1, <2>2, <2>3
<1>11. QED
  BY <1>3, <1>4, <1>5, <1>6, <1>7, <1>8, <1>9, <1>10

(* What the steps of an extraction leave of the stream. *)
LEMMA StreamFacts ==
  ASSUME NEW s, Stream(s)
  PROVE  /\ \A e : Stream(Failed(s, e)) /\ Failed(s, e).fail = TRUE
         /\ \A w : Stream(WithWarning(s, w)) /\ WithWarning(s, w).fail = s.fail
         /\ Stream([s EXCEPT !.fail = FALSE, !.err = "ok"])
         /\ [s EXCEPT !.fail = FALSE, !.err = "ok"].fail = FALSE
         /\ \A f \in BOOLEAN : Stream([s EXCEPT !.fail = f])
  BY DEF Stream, Failed, WithWarning

LEMMA AdvancedFacts ==
  ASSUME Stream(ss), ss.fail = FALSE, NEW s, s = Advanced(ss)
  PROVE  /\ Stream(s)
         /\ s.fail = FALSE => IsSequence(ss.toks[1])
<1>1. CASE ss.eof \/ ss.toks = <<>>
  <2>1. s = [ss EXCEPT !.eof = TRUE, !.fail = TRUE]
    BY <1>1 DEF Advanced
  <2>2. QED
    BY <2>1 DEF Stream
<1>2. CASE ~ (ss.eof \/ ss.toks = <<>>)
  <2>1. PICK x, e : /\ x = Tail(ss.toks)
                    /\ s = [ss EXCEPT !.toks = x, !.eof = e]
    BY <1>2 DEF Advanced
  <2>2. IsSequence(ss.toks) /\ \A t \in Range(ss.toks) : IsSequence(t)
    BY DEF Stream
  <2>3. IsSequence(x) /\ \A t \in Range(x) : IsSequence(t)
    BY <1>2, <2>1, <2>2, TailIsSequence
  <2>4. ss.toks[1] \in Range(ss.toks)
    BY <1>2, <2>2 DEF IsSequence
  <2>5. Stream(s)
    BY <2>1, <2>3 DEF Stream
  <2>6. QED
    BY <2>2, <2>4, <2>5
<1>3. QED
  BY <1>1, <1>2

(* A line of which nothing more is extracted, and that either put nothing    *)
(* into a table or failed.                                                   *)
LEMMA LineStops ==
  ASSUME OInv, pc = "values", todo # <<>>, pc' = pc, line_num' = line_num,
         error_happened' = error_happened,
         \A c \in Elements : c \in DOMAIN conf' /\ conf'[c] = conf[c],
         AffTyped', aff'.aliases = aff.aliases,
         Stream(ss'), todo' = <<>>, Idle \/ ss'.fail
  PROVE  OInv'
<1>1. ss.fail = FALSE /\ line_num \in Nat /\ error_happened \in BOOLEAN
  BY TodoCases
<1>2. Options /\ Options'
  BY DEF Options
<1>3. line_num' \in Nat /\ error_happened' \in BOOLEAN
  BY <1>1, Zenon
<1>4. TodoFits'
  BY DEF TodoFits, Stream
<1>5. Idle'
  BY DEF Idle, InElement, InAlias
<1>6. Clean' => Clean /\ Idle
  BY <1>1 DEF Clean
<1>7. QED
  BY <1>2, <1>3, <1>4, <1>5, <1>6, TablesStay

(* A number puts nothing into a table. *)
LEMMA ExtractCountWhole ==
  ASSUME OInv, ExtractCount
  PROVE  OInv'
<1>1. /\ pc = "values" /\ todo # <<>> /\ todo[1] = "count" /\ todo' = <<>>
      /\ pc' = pc /\ line_num' = line_num /\ error_happened' = error_happened
      /\ aff' = aff /\ conf' = conf
      /\ ss' = IF IsNumeral THEN ss ELSE Failed(ss, "ARRAY_COMMAND_NO_COUNT")
  BY DEF ExtractCount, Extracting, Fixed
<1>2. Stream(ss) /\ ConfTyped /\ AffTyped /\ todo = <<"count">>
  BY <1>1, TodoCases
<1>3. Stream(ss')
  BY <1>1, <1>2, StreamFacts
<1>4. Idle
  BY <1>1, <1>2 DEF Idle, InElement, InAlias, ElementKinds
<1>5. AffTyped' /\ \A c \in Elements : c \in DOMAIN conf' /\ conf'[c] = conf[c]
  BY <1>1, <1>2 DEF AffTyped, ConfTyped
<1>6. QED
  BY <1>1, <1>3, <1>4, <1>5, LineStops

LEMMA ExtractShortWhole ==
  ASSUME OInv, ExtractShort
  PROVE  OInv'
<1>1. /\ pc = "values" /\ todo # <<>> /\ todo[1] = "short" /\ todo' = <<>>
      /\ pc' = pc /\ line_num' = line_num /\ error_happened' = error_happened
      /\ aff' = aff
      /\ ss' = [ss EXCEPT !.fail = ~IsNumeral \/ Numeral > MaxShort]
  BY DEF ExtractShort, Extracting, Fixed
<1>2. PICK v : conf' = [conf EXCEPT ![command] = v]
  BY DEF ExtractShort
<1>3. Stream(ss) /\ ConfTyped /\ AffTyped /\ todo = <<"short">> /\ command \in Shorts
  BY <1>1, TodoCases
<1>4. Stream(ss')
  BY <1>1, <1>3, StreamFacts
<1>5. Idle
  BY <1>1, <1>3 DEF Idle, InElement, InAlias, ElementKinds
<1>6. command \notin Elements
  BY <1>3, EntryFacts DEF Others
<1>7. AffTyped' /\ \A c \in Elements : c \in DOMAIN conf' /\ conf'[c] = conf[c]
  BY <1>1, <1>2, <1>3, <1>6 DEF AffTyped, ConfTyped
<1>8. QED
  BY <1>1, <1>4, <1>5, <1>7, LineStops

(* The header of an affix puts nothing into its table; an entry begins with *)
(* its flag and whether it may be crossed.                                  *)
LEMMA ExtractAffixFlagWhole ==
  ASSUME OInv, ExtractAffixFlag
  PROVE  OInv'
<1>1. /\ pc = "values" /\ todo # <<>> /\ todo[1] = "affix flag"
      /\ pc' = pc /\ line_num' = line_num /\ error_happened' = error_happened
      /\ aff' = aff /\ command' = command
  BY DEF ExtractAffixFlag, Extracting, Fixed
<1>2. PICK s, r :
        /\ s = Advanced(ss)
        /\ s.fail => IsError(r.err)
        /\ \/ /\ todo' = <<>> /\ conf' = conf
              /\ \/ ss' = s
                 \/ \E e : ss' = Failed(s, e)
                 \/ \E w : ss' = WithWarning(s, w)
           \/ /\ ~ IsError(r.err)
              /\ \E e, cross : /\ e = <<r.val, cross>>
                               /\ conf' = [conf EXCEPT ![command] = Append(@, e)]
              /\ todo' = AffixEntry /\ ss' = s
  <2>1. PICK s, r, key :
          /\ s = Advanced(ss)
          /\ r = IF s.fail THEN Wrong("ISTREAM_READING_ERROR") ELSE FlagOf(ss.toks[1])
          /\ IF IsError(r.err)
             THEN todo' = <<>> /\ ss' = Failed(s, r.err) /\ UNCHANGED <<conf, cmd_affix>>
             ELSE IF key \notin DOMAIN cmd_affix
             THEN \E h \in {CrossAndCount(s)} :
                     /\ cmd_affix' = Put(cmd_affix, key, IF h.err = "ok" THEN h.val ELSE NoEntries)
                     /\ todo' = <<>> /\ ss' = (IF h.err = "ok" THEN s ELSE Failed(s, h.err))
                     /\ UNCHANGED conf
             ELSE IF cmd_affix[key].cnt # 0
             THEN /\ cmd_affix' = [cmd_affix EXCEPT ![key].cnt = @ - 1]
                  /\ conf' = [conf EXCEPT ![command] = Append(@, <<r.val, cmd_affix[key].cross>>)]
                  /\ todo' = AffixEntry /\ ss' = s
             ELSE /\ todo' = <<>> /\ ss' = WithWarning(s, "ARRAY_COMMAND_EXTRA_ENTRIES_WARNING")
                  /\ UNCHANGED <<conf, cmd_affix>>
    BY DEF ExtractAffixFlag
  <2>2. s.fail => IsError(r.err)
    BY <2>1 DEF Wrong, IsError, Warnings
  <2>3. QED
    BY <2>1, <2>2
<1>3. /\ Stream(ss) /\ ss.fail = FALSE /\ ConfTyped /\ AffTyped
      /\ command \in Affixes /\ todo = <<"affix flag">>
      /\ line_num \in Nat /\ error_happened \in BOOLEAN
  BY <1>1, TodoCases
<1>4. Stream(s) /\ s.fail \in BOOLEAN
  BY <1>2, <1>3, AdvancedFacts DEF Stream
<1>5. Idle
  BY <1>1, <1>3 DEF Idle, InElement, InAlias, ElementKinds
<1>6. CASE /\ todo' = <<>> /\ conf' = conf
           /\ \/ ss' = s
              \/ \E e : ss' = Failed(s, e)
              \/ \E w : ss' = WithWarning(s, w)
  <2>1. Stream(ss')
    <3>1. CASE ss' = s
      BY <1>4, <3>1
    <3>2. CASE \E e : ss' = Failed(s, e)
      <4>1. PICK e : ss' = Failed(s, e)
        BY <3>2
      <4>2. Stream(Failed(s, e))
        BY <1>4, StreamFacts
      <4>3. QED
        BY <4>1, <4>2
    <3>3. CASE \E w : ss' = WithWarning(s, w)
      <4>1. PICK w : ss' = WithWarning(s, w)
        BY <3>3
      <4>2. Stream(WithWarning(s, w))
        BY <1>4, StreamFacts
      <4>3. QED
        BY <4>1, <4>2
    <3>4. QED
      BY <1>6, <3>1, <3>2, <3>3
  <2>2. AffTyped' /\ \A c \in Elements : c \in DOMAIN conf' /\ conf'[c] = conf[c]
    BY <1>1, <1>3, <1>6 DEF AffTyped, ConfTyped
  <2>3. QED
    BY <1>1, <1>5, <1>6, <2>1, <2>2, LineStops
<1>7. CASE /\ ~ IsError(r.err)
           /\ \E e, cross : /\ e = <<r.val, cross>>
                            /\ conf' = [conf EXCEPT ![command] = Append(@, e)]
           /\ todo' = AffixEntry /\ ss' = s
  <2>1. PICK e, cross : e = <<r.val, cross>> /\ conf' = [conf EXCEPT ![command] = Append(@, e)]
    BY <1>7
  <2>2. IsSequence(e) /\ Len(e) = 2
    <3>1. e \in Seq({r.val, cross}) /\ Len(e) = 2
      BY <2>1
    <3>2. QED
      BY <3>1, SequenceOf
  <2>3. Stream(ss') /\ ss'.fail = FALSE
    BY <1>2, <1>4, <1>7
  <2>4. command \in Elements /\ command \notin Tables
    BY <1>3 DEF Elements, Affixes, Tables, Pairs
  <2>5. todo' \in Seq(ElementKinds) /\ Len(todo') > 0 /\ Len(e) + Len(todo') = Size(command)
    BY <1>7, <2>2, <2>4, EntryFacts DEF Size
  <2>6. Clean' => Clean /\ Idle
    BY <1>1, <1>3, <1>5 DEF Clean
  <2>7. Options /\ line_num' \in Nat /\ error_happened' \in BOOLEAN
    BY <1>1, <1>3, Zenon DEF Options
  <2>8. QED
    BY <1>1, <2>1, <2>2, <2>3, <2>4, <2>5, <2>6, <2>7, ElementBegins
<1>8. QED
  BY <1>2, <1>6, <1>7

LEMMA EndLineWhole ==
  ASSUME OInv, EndLine
  PROVE  OInv'
<1>1. /\ pc = "values" /\ pc' = "aff" /\ todo = <<>> /\ line_num' = line_num
      /\ aff' = aff /\ conf' = conf /\ error_happened' = (error_happened \/ ss.fail)
  BY DEF EndLine, Failures
<1>2. /\ line_num \in Nat /\ error_happened \in BOOLEAN /\ Options /\ Options'
      /\ ConfTyped /\ AffTyped /\ TodoFits
  BY <1>1 DEF OInv, Options
<1>3. ss.fail \in BOOLEAN
  BY <1>1, <1>2 DEF TodoFits, Stream
<1>4. error_happened' \in BOOLEAN
  BY <1>1
<1>5. AffTyped' /\ aff'.aliases = aff.aliases
  BY <1>1, <1>2 DEF AffTyped
<1>6. Clean' => Clean
  BY <1>1 DEF Clean
<1>7. TodoFits' /\ Idle /\ Idle'
  BY <1>1 DEF TodoFits, Idle, InElement, InAlias
<1>8. \A c \in Elements : c \in DOMAIN conf' /\ conf'[c] = conf[c]
  BY <1>1, <1>2 DEF ConfTyped
<1>9. line_num' \in Nat
  BY <1>1, <1>2, Zenon
<1>10. QED
  BY <1>2, <1>4, <1>5, <1>6, <1>7, <1>8, <1>9, TablesStay

-----------------------------------------------------------------------------
(* A value that is put into the element lacks no longer. *)
LEMMA ElementGrows ==
  ASSUME OInv, InElement, todo \in Seq(ElementKinds), Len(conf[command]) > 0,
         NEW x, conf' = [conf EXCEPT ![command][Len(conf[command])] = Append(@, x)],
         aff' = aff, pc' = pc, command' = command, line_num' = line_num,
         error_happened' = error_happened,
         todo' = Tail(todo), Stream(ss'), ss'.fail = FALSE
  PROVE  OInv'
<1>1. /\ pc = "values" /\ command \in Elements /\ todo # <<>> /\ todo[1] \in ElementKinds
  BY DEF InElement
<1>2. /\ Stream(ss) /\ ss.fail = FALSE
      /\ ConfTyped /\ ConfWhole /\ AffTyped /\ AliasesWhole
      /\ line_num \in Nat /\ error_happened \in BOOLEAN
  BY <1>1, TodoCases
<1>3. PICK s, m, e, t, f :
        /\ s = conf[command] /\ m = Len(s) /\ e = s[m]
        /\ f = Append(e, x) /\ t = [s EXCEPT ![m] = f]
  OBVIOUS
<1>4. IsSequence(s) /\ m \in Nat /\ m \in 1 .. Len(s) /\ IsSequence(e)
  <2>1. IsSequence(s) /\ m \in Nat /\ m > 0
    BY <1>1, <1>2, <1>3 DEF ConfTyped, IsSequence
  <2>2. m \in 1 .. Len(s)
    BY <1>3, <2>1
  <2>3. QED
    BY <1>1, <1>2, <1>3, <2>1, <2>2 DEF ConfTyped
<1>5. IsSequence(f) /\ Len(f) = Len(e) + 1 /\ Len(e) \in Nat
  BY <1>3, <1>4, AppendIsSequence DEF IsSequence
<1>6. /\ IsSequence(t) /\ Len(t) = m /\ t[m] = f
      /\ \A k \in 1 .. m : k # m => t[k] = s[k]
  <2>1. DOMAIN t = DOMAIN s /\ t = [k \in DOMAIN t |-> t[k]]
    BY <1>3
  <2>2. IsSequence(t) /\ Len(t) = Len(s)
    BY <1>4, <2>1, SameLength
  <2>3. DOMAIN s = 1 .. m
    BY <1>3, <1>4 DEF IsSequence
  <2>4. QED
    BY <1>3, <1>4, <2>2, <2>3
<1>7. /\ DOMAIN conf' = DOMAIN conf /\ conf'[command] = t
      /\ \A d \in Elements : d # command => conf'[d] = conf[d]
  BY <1>1, <1>2, <1>3 DEF ConfTyped
<1>8. ConfTyped'
  <2>1. ASSUME NEW d \in Elements
        PROVE  /\ d \in DOMAIN conf' /\ IsSequence(conf'[d])
               /\ \A k \in 1 .. Len(conf'[d]) : IsSequence(conf'[d][k])
    <3>1. CASE d = command
      <4>1. ASSUME NEW k \in 1 .. m PROVE IsSequence(t[k])
        <5>1. CASE k = m
          BY <1>5, <1>6, <5>1
        <5>2. CASE k # m
          <6>1. IsSequence(s[k])
            BY <1>1, <1>2, <1>3 DEF ConfTyped
          <6>2. QED
            BY <1>6, <5>2, <6>1
        <5>3. QED
          BY <5>1, <5>2
      <4>2. QED
        BY <1>1, <1>2, <1>6, <1>7, <3>1, <4>1 DEF ConfTyped
    <3>2. CASE d # command
      BY <1>2, <1>7, <3>2 DEF ConfTyped
    <3>3. QED
      BY <3>1, <3>2
  <2>2. QED
    BY <2>1 DEF ConfTyped, IsSequence, Elements, Tables, Pairs, Affixes
<1>9. PICK left : left = Tail(todo)
  OBVIOUS
<1>10. todo' = left /\ left \in Seq(ElementKinds) /\ Len(todo) = Len(left) + 1 /\ Len(left) \in Nat
  BY <1>1, <1>9
<1>11. left # <<>> => left[1] \in ElementKinds
  BY <1>10
<1>12. ConfWhole'
  <2>1. SUFFICES ASSUME Clean', NEW d \in Elements, NEW k \in 1 .. Len(conf'[d])
                 PROVE  Len(conf'[d][k]) + Missing(d, k)' = Size(d)
    BY DEF ConfWhole, Size
  <2>2. Clean
    BY <1>2, <2>1 DEF Clean
  <2>3. CASE d = command /\ k = m
    <3>1. Missing(d, k)' = Len(left)
      <4>1. CASE left = <<>>
        BY <1>10, <4>1 DEF Missing, InElement
      <4>2. CASE left # <<>>
        BY <1>1, <1>6, <1>7, <1>10, <1>11, <2>3, <4>2 DEF Missing, InElement
      <4>3. QED
        BY <4>1, <4>2
    <3>2. Missing(d, k) = Len(todo)
      BY <1>3, <2>3 DEF Missing
    <3>3. Len(conf[d][k]) + Missing(d, k) = Size(d)
      BY <1>2, <1>3, <1>4, <2>2, <2>3 DEF ConfWhole
    <3>4. conf[d][k] = e /\ conf'[d][k] = f
      BY <1>3, <1>6, <1>7, <2>3
    <3>5. Len(e) + Len(todo) = Size(d)
      BY <3>2, <3>3, <3>4
    <3>6. Len(conf'[d][k]) + Missing(d, k)' = (Len(e) + 1) + Len(left)
      BY <1>5, <3>1, <3>4
    <3>7. QED
      BY <1>5, <1>10, <3>5, <3>6
  <2>4. CASE ~ (d = command /\ k = m)
    <3>1. k \in 1 .. Len(conf[d]) /\ conf'[d][k] = conf[d][k]
      <4>1. CASE d = command
        BY <1>3, <1>6, <1>7, <2>4, <4>1
      <4>2. CASE d # command
        BY <1>7, <4>2
      <4>3. QED
        BY <4>1, <4>2
    <3>2. Missing(d, k) = 0
      BY <1>3, <2>4 DEF Missing
    <3>3. Missing(d, k)' = 0
      BY <1>6, <1>7, <2>4 DEF Missing
    <3>4. Len(conf[d][k]) + Missing(d, k) = Size(d)
      BY <1>2, <2>2, <3>1 DEF ConfWhole
    <3>5. QED
      BY <3>1, <3>2, <3>3, <3>4
  <2>5. QED
    BY <2>3, <2>4
<1>13. AffTyped'
  BY <1>2 DEF AffTyped
<1>14. AliasesWhole'
  <2>1. ~ InAlias
    BY <1>1 DEF InAlias, ElementKinds
  <2>2. Clean' => Clean
    BY <1>2 DEF Clean
  <2>3. QED
    BY <1>2, <2>1, <2>2 DEF AliasesWhole
<1>15. TodoFits'
  <2>1. Len(conf'[command]) > 0
    BY <1>4, <1>6, <1>7
  <2>2. Stream(ss)'
    BY DEF Stream
  <2>3. QED
    BY <1>1, <1>10, <2>1, <2>2 DEF TodoFits
<1>16. line_num' \in Nat /\ error_happened' \in BOOLEAN
  BY <1>2, Zenon
<1>17. NothingHalfRead'
  BY <1>1 DEF NothingHalfRead
<1>18. QED
  BY <1>8, <1>12, <1>13, <1>14, <1>15, <1>16, <1>17 DEF OInv

(* An alias is given its flags, which are some. *)
LEMMA AliasGiven ==
  ASSUME OInv, pc = "values", command = "AF", todo = <<"flags">>, Len(aff.aliases) > 0,
         NEW v, v # {}, aff' = [aff EXCEPT !.aliases[Len(aff.aliases)] = v],
         conf' = conf, pc' = pc, line_num' = line_num, error_happened' = error_happened,
         todo' = <<>>, Stream(ss'), ss'.fail = FALSE
  PROVE  OInv'
<1>1. todo # <<>> /\ todo[1] = "flags"
  OBVIOUS
<1>2. /\ Stream(ss) /\ ss.fail = FALSE
      /\ ConfTyped /\ ConfWhole /\ AffTyped /\ AliasesWhole
      /\ line_num \in Nat /\ error_happened \in BOOLEAN
  BY <1>1, TodoCases
<1>3. PICK s, m, t : s = aff.aliases /\ m = Len(s) /\ t = [s EXCEPT ![m] = v]
  OBVIOUS
<1>4. IsSequence(s) /\ m \in 1 .. Len(s) /\ Len(s) \in Nat
  BY <1>2, <1>3 DEF AffTyped, IsSequence
<1>5. /\ IsSequence(t) /\ Len(t) = m /\ t[m] = v
      /\ \A k \in 1 .. m : k # m => t[k] = s[k]
  <2>1. DOMAIN t = DOMAIN s /\ t = [k \in DOMAIN t |-> t[k]]
    BY <1>3
  <2>2. IsSequence(t) /\ Len(t) = Len(s)
    BY <1>4, <2>1, SameLength
  <2>3. DOMAIN s = 1 .. m
    BY <1>3, <1>4 DEF IsSequence
  <2>4. QED
    BY <1>3, <1>4, <2>2, <2>3
<1>6. aff'.aliases = t /\ aff'.flag_type = aff.flag_type /\ DOMAIN aff' = DOMAIN aff
  BY <1>2, <1>3 DEF AffTyped
<1>7. ConfTyped' /\ AffTyped'
  BY <1>2, <1>5, <1>6 DEF ConfTyped, AffTyped
<1>8. Clean' => Clean
  BY <1>2 DEF Clean
<1>9. ~ InElement /\ ~ InElement'
  BY <1>1 DEF InElement, ElementKinds
<1>10. ConfWhole'
  <2>1. \A d, k : Missing(d, k)' = Missing(d, k)
    BY <1>9 DEF Missing
  <2>2. QED
    BY <1>2, <1>8, <2>1 DEF ConfWhole, Size
<1>11. AliasesWhole'
  <2>1. SUFFICES ASSUME Clean', NEW k \in 1 .. Len(t) PROVE t[k] # {}
    BY <1>6 DEF AliasesWhole
  <2>2. CASE k = m
    BY <1>5, <2>2
  <2>3. CASE k # m
    <3>1. s[k] # {}
      BY <1>2, <1>3, <1>5, <1>8, <2>1, <2>3 DEF AliasesWhole
    <3>2. QED
      BY <1>5, <2>3, <3>1
  <2>4. QED
    BY <2>2, <2>3
<1>12. TodoFits'
  BY DEF TodoFits, Stream
<1>13. line_num' \in Nat /\ error_happened' \in BOOLEAN
  BY <1>2, Zenon
<1>14. NothingHalfRead'
  BY DEF NothingHalfRead
<1>15. QED
  BY <1>7, <1>10, <1>11, <1>12, <1>13, <1>14 DEF OInv

(* A word that is extracted is put where it belongs, or ends its line. *)
LEMMA ExtractWordWhole ==
  ASSUME OInv, ExtractWord
  PROVE  OInv'
<1>1. /\ pc = "values" /\ todo # <<>> /\ todo[1] \in WordKinds \ {"affix flag"}
      /\ pc' = pc /\ line_num' = line_num /\ error_happened' = error_happened
      /\ command' = command
  BY DEF ExtractWord, Extracting, Fixed
<1>2. PICK s, r :
        /\ s = Advanced(ss)
        /\ r = IF s.fail THEN Wrong("ISTREAM_READING_ERROR") ELSE Parsed(todo[1], ss.toks[1])
        /\ \/ /\ ~ IsError(r.err)
              /\ Stored(r.val) /\ todo' = Tail(todo) /\ ss' = WithWarning(s, r.err)
           \/ /\ todo[1] \in {"condition", "replacement"}
              /\ \E v : Stored(v)
              /\ todo' = Tail(todo) /\ ss' = [s EXCEPT !.fail = FALSE, !.err = "ok"]
           \/ /\ todo' = <<>> /\ ss' = Failed(s, r.err) /\ conf' = conf
              /\ aff' = aff \/ aff' = [aff EXCEPT !.forbidden = <<>>]
  <2>1. PICK s, r :
          /\ s = Advanced(ss)
          /\ r = IF s.fail THEN Wrong("ISTREAM_READING_ERROR") ELSE Parsed(todo[1], ss.toks[1])
          /\ IF ~IsError(r.err)
             THEN Stored(r.val) /\ todo' = Tail(todo) /\ ss' = WithWarning(s, r.err)
             ELSE IF IsAbsent(todo[1], s)
             THEN /\ Stored(IF todo[1] = "condition" THEN <<".">> ELSE <<>>)
                  /\ todo' = Tail(todo) /\ ss' = [s EXCEPT !.fail = FALSE, !.err = "ok"]
             ELSE /\ todo' = <<>> /\ ss' = Failed(s, r.err) /\ UNCHANGED conf
                  /\ IF command = "FORBIDDENWORD" THEN aff' = [aff EXCEPT !.forbidden = <<>>]
                     ELSE UNCHANGED aff
    BY DEF ExtractWord
  <2>2. CASE ~ IsError(r.err)
    BY <2>1, <2>2
  <2>3. CASE IsError(r.err) /\ IsAbsent(todo[1], s)
    <3>1. todo[1] \in {"condition", "replacement"}
      BY <2>3 DEF IsAbsent
    <3>2. /\ Stored(IF todo[1] = "condition" THEN <<".">> ELSE <<>>)
          /\ todo' = Tail(todo) /\ ss' = [s EXCEPT !.fail = FALSE, !.err = "ok"]
      BY <2>1, <2>3
    <3>3. \E v : Stored(v)
      BY <3>2
    <3>4. QED
      BY <2>1, <3>1, <3>2, <3>3
  <2>4. CASE IsError(r.err) /\ ~ IsAbsent(todo[1], s)
    BY <2>1, <2>4
  <2>5. QED
    BY <2>2, <2>3, <2>4
<1>3. /\ Stream(ss) /\ ss.fail = FALSE
      /\ ConfTyped /\ ConfWhole /\ AffTyped /\ AliasesWhole
      /\ \/ command = "AF" /\ todo = <<"flags">> /\ Len(aff.aliases) > 0 /\ IsLast("flags")
         \/ command = "FLAG" /\ IsLast("flag type")
         \/ InElement /\ todo \in Seq(ElementKinds) /\ Len(conf[command]) > 0
         \/ command \in {"IGNORE", "TRY", "SET", "FORBIDDENWORD"} /\
            \E kind \in {"string", "encoding", "flag"} : IsLast(kind)
  BY <1>1, TodoCases
<1>4. Stream(s) /\ s.fail \in BOOLEAN /\ (s.fail = FALSE => IsSequence(ss.toks[1]))
  BY <1>2, <1>3, AdvancedFacts DEF Stream
<1>5. \A d \in Elements : conf' = conf => d \in DOMAIN conf' /\ conf'[d] = conf[d]
  BY <1>3 DEF ConfTyped
<1>6. CASE /\ todo' = <<>> /\ ss' = Failed(s, r.err) /\ conf' = conf
           /\ aff' = aff \/ aff' = [aff EXCEPT !.forbidden = <<>>]
  <2>1. Stream(ss') /\ ss'.fail = TRUE
    BY <1>4, <1>6, StreamFacts
  <2>2. AffTyped' /\ aff'.aliases = aff.aliases
    BY <1>3, <1>6 DEF AffTyped
  <2>3. QED
    BY <1>1, <1>5, <1>6, <2>1, <2>2, LineStops
<1>7. CASE InElement /\ todo \in Seq(ElementKinds) /\ Len(conf[command]) > 0 /\
           todo' = Tail(todo) /\ Stream(ss') /\ ss'.fail = FALSE /\ \E v : Stored(v)
  <2>1. PICK v : Stored(v)
    BY <1>7
  <2>2. command \in Tables \cup Affixes /\ command \notin {"AF", "FLAG", "IGNORE", "FORBIDDENWORD"}
    BY <1>7, EntryFacts DEF InElement, Elements, Others
  <2>3. /\ conf' = [conf EXCEPT ![command][Len(conf[command])] = Append(@, Field(v))]
        /\ aff' = aff
    BY <2>1, <2>2 DEF Stored
  <2>4. PICK x : x = Field(v)
    OBVIOUS
  <2>5. conf' = [conf EXCEPT ![command][Len(conf[command])] = Append(@, x)]
    BY <2>3, <2>4
  <2>6. QED
    BY <1>1, <1>7, <2>3, <2>5, ElementGrows
<1>8. CASE /\ todo[1] \in {"condition", "replacement"}
           /\ \E v : Stored(v)
           /\ todo' = Tail(todo) /\ ss' = [s EXCEPT !.fail = FALSE, !.err = "ok"]
  <2>1. Stream(ss') /\ ss'.fail = FALSE
    BY <1>4, <1>8, StreamFacts
  <2>2. InElement /\ todo \in Seq(ElementKinds) /\ Len(conf[command]) > 0
    BY <1>3, <1>8 DEF IsLast
  <2>3. QED
    BY <1>7, <1>8, <2>1, <2>2
<1>9. CASE /\ ~ IsError(r.err)
           /\ Stored(r.val) /\ todo' = Tail(todo) /\ ss' = WithWarning(s, r.err)
  <2>1. s.fail = FALSE /\ r = Parsed(todo[1], ss.toks[1]) /\ IsSequence(ss.toks[1])
    <3>1. Wrong("ISTREAM_READING_ERROR").err = "ISTREAM_READING_ERROR"
      BY DEF Wrong
    <3>2. IsError("ISTREAM_READING_ERROR")
      BY DEF IsError, Warnings
    <3>3. QED
      BY <1>2, <1>4, <1>9, <3>1, <3>2
  <2>2. Stream(ss') /\ ss'.fail = FALSE
    BY <1>4, <1>9, <2>1, StreamFacts
  <2>3. CASE command = "AF" /\ todo = <<"flags">> /\ Len(aff.aliases) > 0 /\ IsLast("flags")
    <3>1. todo[1] = "flags" /\ todo' = <<>>
      BY <1>9, <2>3 DEF IsLast
    <3>2. PICK d : d = DecodeFlags(ss.toks[1])
      OBVIOUS
    <3>3. SomeFlags(d)
      BY <1>3, <2>1, <3>2, DecodedFlags DEF AffTyped
    <3>4. r = [val |-> d.flags, err |-> d.err]
      BY <2>1, <3>1, <3>2 DEF Parsed, FlagSet
    <3>5. r.val # {}
      BY <1>9, <3>3, <3>4 DEF SomeFlags, NumberErrors, IsError, Warnings
    <3>6. aff' = [aff EXCEPT !.aliases[Len(aff.aliases)] = r.val] /\ conf' = conf
      BY <1>9, <2>3 DEF Stored
    <3>7. QED
      BY <1>1, <2>2, <2>3, <3>1, <3>5, <3>6, AliasGiven
  <2>4. CASE command = "FLAG" /\ IsLast("flag type")
    <3>1. todo[1] = "flag type" /\ todo' = <<>>
      BY <1>9, <2>4 DEF IsLast
    <3>2. Idle
      BY <3>1, <2>4 DEF IsLast, Idle, InElement, InAlias, ElementKinds
    <3>3. aff' = [aff EXCEPT !.flag_type = r.val] /\ conf' = conf
      BY <1>9, <2>4 DEF Stored
    <3>4. r.val \in FlagTypes
      <4>1. PICK w : w = ss.toks[1]
        OBVIOUS
      <4>2. r = IF w \in {<<"long">>, <<"num">>, <<"utf8">>} THEN Value_(w[1])
                ELSE Wrong("INVALID_FLAG_TYPE")
        BY <2>1, <3>1, <4>1 DEF Parsed
      <4>3. w \in {<<"long">>, <<"num">>, <<"utf8">>}
        <5>1. Wrong("INVALID_FLAG_TYPE").err = "INVALID_FLAG_TYPE"
          BY DEF Wrong
        <5>2. IsError("INVALID_FLAG_TYPE")
          BY DEF IsError, Warnings
        <5>3. QED
          BY <1>9, <4>2, <5>1, <5>2
      <4>4. r.val = w[1]
        BY <4>2, <4>3 DEF Value_
      <4>5. QED
        BY <4>3, <4>4 DEF FlagTypes
    <3>5. AffTyped' /\ aff'.aliases = aff.aliases
      BY <1>3, <3>3, <3>4 DEF AffTyped
    <3>6. QED
      BY <1>1, <1>5, <2>2, <3>1, <3>2, <3>3, <3>5, LineStops
  <2>5. CASE InElement /\ todo \in Seq(ElementKinds) /\ Len(conf[command]) > 0
    <3>1. \E v : Stored(v)
      BY <1>9
    <3>2. QED
      BY <1>7, <1>9, <2>2, <2>5, <3>1
  <2>6. CASE command \in {"IGNORE", "TRY", "SET", "FORBIDDENWORD"} /\
             \E kind \in {"string", "encoding", "flag"} : IsLast(kind)
    <3>1. todo' = <<>> /\ todo[1] # "flags"
      BY <1>9, <2>6 DEF IsLast
    <3>2. command \notin Elements
      BY <2>6, EntryFacts DEF Others
    <3>3. Idle
      BY <3>1, <3>2 DEF Idle, InElement, InAlias
    <3>4. command \notin Tables \cup Affixes
      BY <2>6 DEF Tables, Pairs, Affixes
    <3>5. \/ /\ conf' = conf
             /\ \/ aff' = [aff EXCEPT !.ignored = Range(r.val)]
                \/ aff' = [aff EXCEPT !.forbidden = r.val]
          \/ conf' = [conf EXCEPT ![command] = r.val] /\ aff' = aff
      BY <1>9, <2>6, <3>4 DEF Stored
    <3>6. AffTyped' /\ aff'.aliases = aff.aliases
      BY <1>3, <3>5 DEF AffTyped
    <3>7. \A d \in Elements : d \in DOMAIN conf' /\ conf'[d] = conf[d]
      BY <1>3, <1>5, <3>2, <3>5 DEF ConfTyped
    <3>8. QED
      BY <1>1, <2>2, <3>1, <3>3, <3>6, <3>7, LineStops
  <2>7. QED
    BY <1>3, <2>3, <2>4, <2>5, <2>6
<1>10. QED
  BY <1>2, <1>6, <1>8, <1>9

(* What is done to the tables when all options are read leaves their        *)
(* elements as long as they are.                                            *)
LEMMA EndOfAffWhole ==
  ASSUME OInv, EndOfAff
  PROVE  OInv'
<1>1. PICK breaks \in {IF HasBreak THEN conf.BREAK
                      ELSE <<<<<<"-">>>>, <<<<"^", "-">>>>, <<<<"-", "$">>>>>>},
           reps \in {[k \in DOMAIN conf.REP |->
                        IF Len(conf.REP[k]) < 2 THEN conf.REP[k]
                        ELSE <<conf.REP[k][1], WithSpaces(conf.REP[k][2])>>]},
           sfx \in {[k \in DOMAIN conf.SFX |-> WithoutIgnored(conf.SFX[k])]},
           pfx \in {[k \in DOMAIN conf.PFX |-> WithoutIgnored(conf.PFX[k])]} :
        conf' = [conf EXCEPT !.BREAK = breaks, !.REP = reps, !.SFX = sfx, !.PFX = pfx]
  BY DEF EndOfAff
<1>2. /\ pc = "aff" /\ aff' = aff
      /\ \/ pc' = "count" /\ ~ error_happened
         \/ pc' = "failed"
  BY DEF EndOfAff
<1>3. CASE pc' = "failed"
  BY <1>3 DEF OInv, Options, NothingHalfRead
<1>4. CASE pc' = "count" /\ ~ error_happened
  <2>1. /\ ConfTyped /\ ConfWhole /\ AffTyped /\ AliasesWhole
        /\ Clean /\ ~ InElement /\ ~ InAlias
    BY <1>2, <1>4 DEF OInv, Options, Clean, InElement, InAlias
  <2>2. ASSUME NEW c \in Elements
        PROVE  /\ c \in DOMAIN conf /\ IsSequence(conf[c]) /\ DOMAIN conf[c] = 1 .. Len(conf[c])
               /\ \A k \in DOMAIN conf[c] : IsSequence(conf[c][k]) /\ Len(conf[c][k]) = Size(c)
    <3>1. /\ c \in DOMAIN conf /\ IsSequence(conf[c])
          /\ \A k \in 1 .. Len(conf[c]) : IsSequence(conf[c][k])
      BY <2>1 DEF ConfTyped
    <3>2. DOMAIN conf[c] = 1 .. Len(conf[c])
      BY <3>1 DEF IsSequence
    <3>3. ASSUME NEW k \in 1 .. Len(conf[c]) PROVE Len(conf[c][k]) = Size(c)
      <4>1. Missing(c, k) = 0
        BY <2>1 DEF Missing
      <4>2. Len(conf[c][k]) + Missing(c, k) = Size(c)
        BY <2>1 DEF ConfWhole
      <4>3. Len(conf[c][k]) \in Nat
        BY <3>1 DEF IsSequence
      <4>4. QED
        BY <4>1, <4>2, <4>3
    <3>4. QED
      BY <3>1, <3>2, <3>3
  <2>3. /\ {"BREAK", "REP", "SFX", "PFX"} \subseteq Elements
        /\ Size("BREAK") = 1 /\ Size("REP") = 2 /\ Size("SFX") = 5 /\ Size("PFX") = 5
    <3>1. {"BREAK", "REP", "SFX", "PFX"} \subseteq Elements
      BY DEF Elements, Tables, Pairs, Affixes
    <3>2. Entry_["BREAK"] = <<"string">> /\ Entry_["REP"] = <<"string", "string">>
      BY DEF Entry_, Tables, Pairs
    <3>3. Size("BREAK") = 1 /\ Size("REP") = 2
      BY <3>2 DEF Size, Tables, Pairs
    <3>4. Size("SFX") = 5 /\ Size("PFX") = 5
      BY EntryFacts DEF Size, Tables, Pairs
    <3>5. QED
      BY <3>1, <3>3, <3>4
  <2>4. \A k \in DOMAIN breaks : Len(breaks[k]) = 1
    <3>1. CASE HasBreak
      BY <1>1, <2>2, <2>3, <3>1
    <3>2. CASE ~ HasBreak
      BY <1>1, <3>2
    <3>3. QED
      BY <3>1, <3>2
  <2>5. \A k \in DOMAIN reps : Len(reps[k]) = 2
    <3>1. ASSUME NEW k \in DOMAIN reps PROVE Len(reps[k]) = 2
      <4>1. k \in DOMAIN conf["REP"] /\ Len(conf["REP"][k]) = 2
        BY <1>1, <2>2, <2>3
      <4>2. reps[k] = <<conf["REP"][k][1], WithSpaces(conf["REP"][k][2])>>
        BY <1>1, <4>1
      <4>3. QED
        BY <4>2
    <3>2. QED
      BY <3>1
  <2>6. ASSUME NEW e, IsSequence(e), Len(e) = 5
        PROVE  Len(WithoutIgnored(e)) = 5
    <3>1. ~ (Len(e) < 4)
      BY <2>6
    <3>2. PICK t : t = WithoutIgnored(e)
      OBVIOUS
    <3>3. t = [e EXCEPT ![4][1] = SelectNot(@, aff.ignored)]
      BY <3>1, <3>2 DEF WithoutIgnored
    <3>4. DOMAIN t = DOMAIN e /\ t = [k \in DOMAIN t |-> t[k]]
      BY <3>3
    <3>5. QED
      BY <2>6, <3>2, <3>4, SameLength
  <2>7. \A k \in DOMAIN sfx : Len(sfx[k]) = 5
    <3>1. ASSUME NEW k \in DOMAIN sfx PROVE Len(sfx[k]) = 5
      <4>1. k \in DOMAIN conf["SFX"] /\ sfx[k] = WithoutIgnored(conf["SFX"][k])
        BY <1>1
      <4>2. IsSequence(conf["SFX"][k]) /\ Len(conf["SFX"][k]) = 5
        BY <2>2, <2>3, <4>1
      <4>3. QED
        BY <2>6, <4>1, <4>2
    <3>2. QED
      BY <3>1
  <2>8. \A k \in DOMAIN pfx : Len(pfx[k]) = 5
    <3>1. ASSUME NEW k \in DOMAIN pfx PROVE Len(pfx[k]) = 5
      <4>1. k \in DOMAIN conf["PFX"] /\ pfx[k] = WithoutIgnored(conf["PFX"][k])
        BY <1>1
      <4>2. IsSequence(conf["PFX"][k]) /\ Len(conf["PFX"][k]) = 5
        BY <2>2, <2>3, <4>1
      <4>3. QED
        BY <2>6, <4>1, <4>2
    <3>2. QED
      BY <3>1
  <2>9. ASSUME NEW c \in Elements, NEW k \in DOMAIN conf'[c]
        PROVE  Len(conf'[c][k]) = Size(c)
    <3>1. /\ conf'["BREAK"] = breaks /\ conf'["REP"] = reps
          /\ conf'["SFX"] = sfx /\ conf'["PFX"] = pfx
          /\ c \notin {"BREAK", "REP", "SFX", "PFX"} => conf'[c] = conf[c]
      BY <1>1, <2>2, <2>3
    <3>2. CASE c = "BREAK"
      BY <2>3, <2>4, <2>9, <3>1, <3>2
    <3>3. CASE c = "REP"
      BY <2>3, <2>5, <2>9, <3>1, <3>3
    <3>4. CASE c = "SFX"
      BY <2>3, <2>7, <2>9, <3>1, <3>4
    <3>5. CASE c = "PFX"
      BY <2>3, <2>8, <2>9, <3>1, <3>5
    <3>6. CASE c \notin {"BREAK", "REP", "SFX", "PFX"}
      BY <2>2, <2>9, <3>1, <3>6
    <3>7. QED
      BY <3>2, <3>3, <3>4, <3>5, <3>6
  <2>10. \A k \in DOMAIN aff'.aliases : aff'.aliases[k] # {}
    <3>1. DOMAIN aff.aliases = 1 .. Len(aff.aliases)
      BY <2>1 DEF AffTyped, IsSequence
    <3>2. QED
      BY <1>2, <2>1, <3>1 DEF AliasesWhole
  <2>11. NothingHalfRead'
    <3>1. \A c \in Tables \ {"AF"} : \A k \in DOMAIN conf'[c] : Len(conf'[c][k]) = Len(Entry_[c])
      BY <2>9 DEF Elements, Size
    <3>2. \A c \in Affixes : \A k \in DOMAIN conf'[c] : Len(conf'[c][k]) = 2 + Len(AffixEntry)
      <4>1. Affixes \subseteq Elements /\ Affixes \cap Tables = {}
        BY DEF Elements, Affixes, Tables, Pairs
      <4>2. QED
        BY <2>9, <4>1 DEF Size
    <3>3. QED
      BY <2>10, <3>1, <3>2 DEF NothingHalfRead, AffixEntry, Entry_, Tables, Pairs, Affixes
  <2>12. QED
    BY <1>4, <2>11 DEF OInv, Options
<1>5. QED
  BY <1>2, <1>3, <1>4

LEMMA OptionsWhole ==
  ASSUME OInv, aff_file \in AffFiles, AffNext
  PROVE  OInv'
<1>1. CASE SkipComment
  BY <1>1, SkipCommentWhole
<1>2. CASE ReadOption
  BY <1>2, ReadOptionWhole
<1>3. CASE ReadBool
  BY <1>3, ReadBoolWhole
<1>4. CASE ReadFlagType
  BY <1>4, ReadFlagTypeWhole
<1>5. CASE ReadTable
  BY <1>5, ReadTableWhole
<1>6. CASE ReadAffix
  BY <1>6, ReadAffixWhole
<1>7. CASE ExtractWord
  BY <1>7, ExtractWordWhole
<1>8. CASE ExtractAffixFlag
  BY <1>8, ExtractAffixFlagWhole
<1>9. CASE ExtractCount
  BY <1>9, ExtractCountWhole
<1>10. CASE ExtractShort
  BY <1>10, ExtractShortWhole
<1>11. CASE EndLine
  BY <1>11, EndLineWhole
<1>12. CASE EndOfAff
  BY <1>12, EndOfAffWhole
<1>13. QED
  BY <1>1, <1>2, <1>3, <1>4, <1>5, <1>6, <1>7, <1>8, <1>9, <1>10, <1>11, <1>12 DEF AffNext

(* No step that reads words reads options again. *)
LEMMA WordsOnly ==
  ASSUME Next
  PROVE  pc' \in {"lines", "scan", "insert", "done"}
<1>1. CASE ReadCount
  BY <1>1 DEF ReadCount
<1>2. CASE NextLine
  BY <1>2 DEF NextLine
<1>3. CASE EndOfFile
  BY <1>3 DEF EndOfFile
<1>4. CASE Unescape \/ FindEnd \/ Step
  BY <1>4 DEF Unescape, FindEnd, Step, Scanning
<1>5. CASE EndScan
  BY <1>5 DEF EndScan
<1>6. CASE RejectLine \/ SkipLine \/ Insert
  BY <1>6 DEF RejectLine, SkipLine, Insert
<1>7. QED
  BY <1>1, <1>2, <1>3, <1>4, <1>5, <1>6 DEF Next

-----------------------------------------------------------------------------
(* What is known of a dictionary in every state of its loading.             *)
THEOREM DicParserIInv == LoadSpec => []IInv
<1>1. LoadInit => IInv
  <2> SUFFICES ASSUME LoadInit PROVE IInv
    OBVIOUS
  <2>1. AtStart /\ pc = "aff" /\ aff_file \in AffFiles
    BY DEF LoadInit, Init, AtStart
  <2>2. Control
    BY <2>1 DEF Control, Reading
  <2>3. IsSequence(line) /\ IsSequence(words) /\ PlacesAreInLine /\ Covered
    BY <2>1 DEF AtStart, IsSequence, PlacesAreInLine, Covered
  <2>4. ScanOfText /\ SuccessSoFar /\ FailureReported
    BY <2>1 DEF ScanOfText, SuccessSoFar, FailureReported
  <2>5. QED
    BY <2>2, <2>3, <2>4 DEF IInv
<1>2. IInv /\ [LoadNext]_<<vars, affVars>> => IInv'
  <2> SUFFICES ASSUME IInv, [LoadNext]_<<vars, affVars>> PROVE IInv'
    OBVIOUS
  <2>1. CASE AffNext
    BY <2>1, OptionsKeep
  <2>2. CASE Next /\ UNCHANGED affVars
    <3>1. CASE ReadCount
      BY <2>2, <3>1, ReadCountKeeps
    <3>2. CASE NextLine
      BY <2>2, <3>2, NextLineKeeps
    <3>3. CASE EndOfFile
      BY <2>2, <3>3, EndOfFileKeeps
    <3>4. CASE Unescape
      BY <2>2, <3>4, UnescapeKeeps
    <3>5. CASE FindEnd
      BY <2>2, <3>5, FindEndKeeps
    <3>6. CASE Step
      BY <2>2, <3>6, StepKeeps
    <3>7. CASE EndScan
      BY <2>2, <3>7, EndScanKeeps
    <3>8. CASE RejectLine
      BY <2>2, <3>8, RejectLineKeeps
    <3>9. CASE SkipLine
      BY <2>2, <3>9, SkipLineKeeps
    <3>10. CASE Insert
      BY <2>2, <3>10, InsertKeeps
    <3>11. QED
      BY <2>2, <3>1, <3>2, <3>3, <3>4, <3>5, <3>6, <3>7, <3>8, <3>9, <3>10 DEF Next
  <2>3. CASE UNCHANGED <<vars, affVars>>
    <3>1. UNCHANGED <<file, aff, aff_file, n, line, i, end_word_pos, words, success, pc>>
      BY <2>3 DEF vars, affVars
    <3>2. \A k : Text(k)' = Text(k) /\ (IsBad(k)' <=> IsBad(k))
      BY <3>1, FixedFacts
    <3>3. Control' /\ IsSequence(line)' /\ IsSequence(words)' /\ PlacesAreInLine' /\ Covered'
      BY <3>1, WordsKept DEF IInv, Control, AtStart, IsSequence, PlacesAreInLine
    <3>4. \A r : Shifted(r)' <=> Shifted(r)
      BY <3>1, <3>2 DEF Shifted
    <3>5. ScanOfText'
      BY <3>1, <3>2, <3>4 DEF IInv, ScanOfText
    <3>6. LinesDone' = LinesDone
      BY <3>1 DEF LinesDone
    <3>7. SuccessSoFar' /\ FailureReported'
      BY <3>1, <3>2, <3>6 DEF IInv, SuccessSoFar, FailureReported
    <3>8. QED
      BY <3>3, <3>5, <3>7 DEF IInv
  <2>4. QED
    BY <2>1, <2>2, <2>3 DEF LoadNext
<1>3. QED
  BY <1>1, <1>2, PTL DEF LoadSpec

(* The scan stays in the line it shortens, and every title-cased homonym    *)
(* follows the visible entry it repeats (aff_data.cxx, parse_dic).          *)
THEOREM DicParserHomonyms == LoadSpec => []HomonymsAreCovered
<1>1. IInv => HomonymsAreCovered
  BY DEF IInv, Covered, HomonymsAreCovered
<1>2. QED
  BY <1>1, DicParserIInv, PTL

(* Failure is reported exactly when the file says so as it stands, and not  *)
(* as the scan left it.                                                     *)
THEOREM DicParserFailure == LoadSpec => []FailureReported
<1>1. IInv => FailureReported
  BY DEF IInv
<1>2. QED
  BY <1>1, DicParserIInv, PTL

(* What is listed of the lines in every state of the loading. *)
THEOREM DicParserEInv == LoadSpec => []EInv
<1>1. LoadInit => EInv
  BY DEF LoadInit, EInv, ScannedIsText, EntriesSoFar, EntriesAreLines
<1>2. IInv /\ EInv /\ [LoadNext]_<<vars, affVars>> => EInv'
  <2> SUFFICES ASSUME IInv, EInv, [LoadNext]_<<vars, affVars>> PROVE EInv'
    OBVIOUS
  <2>1. CASE AffNext
    <3>1. pc' \in {"aff", "values", "count", "failed"}
      BY <2>1, OptionsFirst
    <3>2. QED
      BY <3>1 DEF EInv, ScannedIsText, EntriesSoFar, EntriesAreLines
  <2>2. CASE Next /\ UNCHANGED affVars
    BY <2>2, ReadCountLists, NextLineLists, EndOfFileLists, UnescapeLists, FindEndLists,
       StepLists, NoEntryLists, InsertLists DEF Next
  <2>3. CASE UNCHANGED <<vars, affVars>>
    <3>1. UNCHANGED <<file, aff, n, line, i, words, pc>>
      BY <2>3 DEF vars
    <3>2. LinesDone' = LinesDone
      BY <3>1 DEF LinesDone
    <3>3. ScannedIsText'
      BY <3>1, ScannedStays DEF EInv, ScannedIsText
    <3>4. EntriesSoFar'
      BY <3>1, <3>2, EntriesStay DEF EInv, EntriesSoFar
    <3>5. EntriesAreLines'
      <4>1. \A k : (HasEntry(k)' <=> HasEntry(k)) /\ EntryOf(k)' = EntryOf(k)
        BY <3>1, FixedFacts
      <4>2. Visible' = Visible
        BY <3>1 DEF Visible
      <4>3. {k \in DOMAIN file.lines : file.has_count /\ k <= file.breaks /\ HasEntry(k)}' =
              {k \in DOMAIN file.lines : file.has_count /\ k <= file.breaks /\ HasEntry(k)}
        BY <3>1, <4>1
      <4>4. QED
        BY <3>1, <4>1, <4>2, <4>3 DEF EInv, EntriesAreLines
    <3>6. QED
      BY <3>3, <3>4, <3>5 DEF EInv
  <2>4. QED
    BY <2>1, <2>2, <2>3 DEF LoadNext
<1>3. QED
  BY <1>1, <1>2, DicParserIInv, PTL DEF LoadSpec

(* The words visible in the list are exactly those of the lines read, in     *)
(* their order and with their flags (aff_data.cxx, parse_dic): whatever the  *)
(* scan does to a line, it cuts out of it the word that its text says.       *)
THEOREM DicParserEntries == LoadSpec => []EntriesAreLines
<1>1. EInv => EntriesAreLines
  BY DEF EInv
<1>2. QED
  BY <1>1, DicParserEInv, PTL

(* The elements of the tables lack only what is yet to be extracted of their *)
(* line, and an alias has its flags (aff_data.cxx:598-601, 640-658).         *)
THEOREM AffParserOInv == LoadSpec => []OInv
<1>1. LoadInit => OInv
  <2> SUFFICES ASSUME LoadInit PROVE OInv
    OBVIOUS
  <2>1. /\ pc = "aff" /\ line_num = 0 /\ error_happened = FALSE
        /\ aff = [flag_type |-> "single", aliases |-> <<>>, ignored |-> {}, forbidden |-> <<>>]
    BY DEF LoadInit
  <2>2. \A c \in Elements : c \in DOMAIN conf /\ conf[c] = <<>>
    BY DEF LoadInit, Elements, Tables, Pairs, Affixes, Strings, Shorts
  <2>3. ConfTyped /\ ConfWhole
    <3>1. IsSequence(<<>>) /\ \A k \in 1 .. Len(<<>>) : FALSE
      BY DEF IsSequence
    <3>2. \A c \in Elements : IsSequence(conf[c]) /\ \A k \in 1 .. Len(conf[c]) : FALSE
      BY <2>2, <3>1
    <3>3. QED
      BY <2>2, <3>2 DEF ConfTyped, ConfWhole
  <2>4. AffTyped /\ AliasesWhole
    BY <2>1 DEF AffTyped, AliasesWhole, FlagTypes, IsSequence
  <2>5. TodoFits /\ NothingHalfRead
    BY <2>1 DEF TodoFits, NothingHalfRead
  <2>6. QED
    BY <2>1, <2>3, <2>4, <2>5 DEF OInv
<1>2. IInv /\ OInv /\ [LoadNext]_<<vars, affVars>> => OInv'
  <2> SUFFICES ASSUME IInv, OInv, [LoadNext]_<<vars, affVars>> PROVE OInv'
    OBVIOUS
  <2>1. CASE AffNext
    BY <2>1, OptionsWhole DEF IInv, Control
  <2>2. CASE Next /\ UNCHANGED affVars
    BY <2>2, WordsOnly DEF OInv, Options, NothingHalfRead
  <2>3. CASE UNCHANGED <<vars, affVars>>
    <3>1. UNCHANGED <<aff, pc, line_num, conf, command, todo, ss, error_happened>>
      BY <2>3 DEF vars, affVars
    <3>2. (\A c, k : Missing(c, k)' = Missing(c, k)) /\ Clean' = Clean /\ InAlias' = InAlias
      BY <3>1 DEF Missing, InElement, Clean, InAlias
    <3>3. ConfTyped' = ConfTyped /\ ConfWhole' = ConfWhole
      BY <3>1, <3>2 DEF ConfTyped, ConfWhole, Size
    <3>4. AffTyped' = AffTyped /\ AliasesWhole' = AliasesWhole
      BY <3>1, <3>2 DEF AffTyped, AliasesWhole
    <3>5. TodoFits' = TodoFits /\ NothingHalfRead' = NothingHalfRead
      BY <3>1 DEF TodoFits, Stream, NothingHalfRead
    <3>6. QED
      BY <3>1, <3>3, <3>4, <3>5 DEF OInv, Options
  <2>4. QED
    BY <2>1, <2>2, <2>3 DEF LoadNext
<1>3. QED
  BY <1>1, <1>2, DicParserIInv, PTL DEF LoadSpec

(* No dictionary goes on to its words with an element of a table that lacks  *)
(* one of its values, or an alias without flags (aff_data.cxx:598-665).      *)
THEOREM AffParserNothingHalfRead == LoadSpec => []NothingHalfRead
<1>1. OInv => NothingHalfRead
  BY DEF OInv
<1>2. QED
  BY <1>1, AffParserOInv, PTL
=============================================================================
