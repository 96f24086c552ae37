----------------------- MODULE CompoundCorrectorProofs -----------------------
(***************************************************************************)
(* The invariants of CorrectWithStatus for any tokens, any configuration   *)
(* and any answers of the dictionary, and that its status codes implement  *)
(* TokenStatus.                                                            *)
(*                                                                         *)
(* The argument: the words built so far end where the scan stands, so a    *)
(* new word meets only tokens that no word has and whose status is 0;      *)
(* words never overlap, so the fix of one leaves the status of the others  *)
(* alone.  What is true of the tokens of a merge is known of its candidate *)
(* from the moment it is weighed.                                          *)
(***************************************************************************)
EXTENDS CompoundCorrector, TLAPS, SequenceTheorems

(* A candidate joins only tokens that may be joined. *)
Joinable(l, r) ==
  ~ l.tail /\ ~ l.inert /\ ~ r.inert /\ ~ (l.stop /\ r.stop)

CandidatesJoinable ==
  \A t \in DOMAIN mergeInfo :
    /\ t + 1 \in DOMAIN tokens
    /\ mergeInfo[t].valid => Joinable(tokens[t], tokens[t + 1])

(* Where the steps stand. *)
Stages ==
  /\ pc = "single" => i = 1 /\ merged = << >> /\ Len(tokens) < 2
  /\ pc = "candidates" => merged = << >> /\ Len(mergeInfo) = i - 1
  /\ pc = "scan" =>
       /\ Len(tokens) - 1 <= Len(mergeInfo)
       /\ Len(merged) <= i - 1
       /\ \A k \in DOMAIN merged : merged[k].last <= i - 1
  /\ pc = "fix" => Len(merged) <= Len(tokens)

WordsDisjoint ==
  \A k, m \in DOMAIN merged : k < m => merged[k].last < merged[m].first

(* CandidatesResolved, as far as the scan has got. *)
Resolved(t) ==
  \/ status[t] = 1
  \/ status[t] = -1
  \/ /\ t + 1 \in DOMAIN mergeInfo
     /\ mergeInfo[t + 1].valid
     /\ mergeInfo[t + 1].logprob > mergeInfo[t].logprob

ResolvedSoFar ==
  \A t \in DOMAIN mergeInfo :
    mergeInfo[t].valid /\ (pc \in {"fix", "done"} \/ (pc = "scan" /\ t < i))
      => Resolved(t)

IInv ==
  /\ TypeOK
  /\ Stages
  /\ CandidatesJoinable
  /\ WordsCoverTokens
  /\ WordsDisjoint
  /\ StatusTellsOutput
  /\ PunctuationKept
  /\ InertAndStopWordsKept
  /\ ResolvedSoFar

-----------------------------------------------------------------------------
(* What Append does to a sequence, index by index. *)
LEMMA AppendFacts ==
  ASSUME NEW S, NEW seq \in Seq(S), NEW e \in S
  PROVE  /\ Append(seq, e) \in Seq(S)
         /\ Len(Append(seq, e)) = Len(seq) + 1
         /\ DOMAIN Append(seq, e) = 1 .. Len(seq) + 1
         /\ DOMAIN seq = 1 .. Len(seq)
         /\ Len(seq) \in Nat
         /\ \A k \in 1 .. Len(seq) : Append(seq, e)[k] = seq[k]
         /\ Append(seq, e)[Len(seq) + 1] = e
         /\ Append(seq, e) # << >>
OBVIOUS

LEMMA SameInterval ==
  ASSUME NEW m \in Nat, NEW n \in Nat, 1 .. m = 1 .. n
  PROVE  m = n
<1>1. \A k \in {m, n} : k \in 1 .. m <=> k \in 1 .. n
  OBVIOUS
<1>2. QED
  BY <1>1

(* The weight of a candidate is a log-probability of the tables or of the  *)
(* configuration.                                                          *)
LEMMA CandidateType ==
  ASSUME NEW l, NEW r, NEW found \in Lookup
  PROVE  Candidate(l, r, found) \in [valid : BOOLEAN, logprob : Int]
<1>1. /\ found.logprob \in Int
      /\ UpperWeight(found) \in Int
      /\ Floor \in Int
  BY ConfigAssumption DEF Lookup, UpperWeight
<1>2. QED
  BY <1>1 DEF Candidate, AsTyped, InUpper

(* Only tokens that may be joined become a valid candidate: an inert token *)
(* is a long valid one, a stop word a short one, and two short ones are    *)
(* joined only if they are not both stop words.                            *)
LEMMA CandidateJoinable ==
  ASSUME NEW l \in TokenKinds, NEW r \in TokenKinds, NEW found \in Lookup,
         Candidate(l, r, found).valid
  PROVE  Joinable(l, r)
<1>1. TryMerge(l, r, found)
  BY DEF Candidate, AsTyped, InUpper
<1>2. \A t \in {l, r} :
        /\ t.inert => Class(t) = "LONG_VALID"
        /\ t.stop => Class(t) = "SHORT_VALID"
  BY TokenAssumption DEF Class, Token
<1>3. ~ l.tail /\ MergeableClasses(l, r, found)
  BY <1>1 DEF TryMerge
<1>4. ~ l.inert /\ ~ r.inert
  BY <1>2, <1>3 DEF MergeableClasses, ShortShort
<1>5. ~ (l.stop /\ r.stop)
  BY <1>2, <1>3 DEF MergeableClasses, ShortShort
<1>6. QED
  BY <1>3, <1>4, <1>5 DEF Joinable

(* What the fix pass asks of a token before it substitutes it. *)
FixAllowed(t) ==
  /\ t.inert => t.tail /\ ~ t.wordInert
  /\ ~ t.spelled /\ ~ t.titled

LEMMA MayFixAllowed ==
  ASSUME NEW t \in TokenKinds, MayFix(t)
  PROVE  FixAllowed(t)
BY TokenAssumption DEF MayFix, LeftAlone, FixAllowed, Token

-----------------------------------------------------------------------------
LEMMA InitInvariant == Init => IInv
<1> SUFFICES ASSUME Init PROVE IInv
  OBVIOUS
<1>1. tokens \in Seq(TokenKinds) /\ Len(tokens) \in Nat /\ DOMAIN tokens = 1 .. Len(tokens)
  BY ConfigAssumption DEF Init, BoundedSeq, SeqOf
<1>2. TypeOK
  BY <1>1 DEF Init, TypeOK
<1>3. Stages /\ CandidatesJoinable
  BY <1>1 DEF Init, Stages, CandidatesJoinable
<1>4. WordsCoverTokens /\ WordsDisjoint
  BY DEF Init, WordsCoverTokens, WordsDisjoint
<1>5. StatusTellsOutput /\ PunctuationKept /\ InertAndStopWordsKept
  BY DEF Init, StatusTellsOutput, PunctuationKept, InertAndStopWordsKept
<1>6. ResolvedSoFar
  BY DEF Init, ResolvedSoFar
<1>7. QED
  BY <1>2, <1>3, <1>4, <1>5, <1>6 DEF IInv

(* A step that changes neither the words nor the statuses keeps what is    *)
(* said of them alone.                                                     *)
LEMMA SameWords ==
  ASSUME IInv, UNCHANGED <<tokens, merged, status>>
  PROVE  WordsDisjoint' /\ StatusTellsOutput' /\ PunctuationKept' /\ InertAndStopWordsKept'
<1>1. WordsDisjoint'
  BY DEF IInv, WordsDisjoint
<1>2. StatusTellsOutput'
  BY DEF IInv, StatusTellsOutput
<1>3. PunctuationKept'
  BY DEF IInv, PunctuationKept
<1>4. InertAndStopWordsKept'
  BY DEF IInv, InertAndStopWordsKept
<1>5. QED
  BY <1>1, <1>2, <1>3, <1>4

LEMMA WeighPairInvariant == IInv /\ WeighPair => IInv'
<1> SUFFICES ASSUME IInv, WeighPair PROVE IInv'
  OBVIOUS
<1>1. PICK found \in Lookup :
        mergeInfo' = Append(mergeInfo, Candidate(tokens[i], tokens[i + 1], found))
  BY DEF WeighPair
<1> DEFINE new == Candidate(tokens[i], tokens[i + 1], found)
<1>2. /\ tokens \in Seq(TokenKinds) /\ i \in 1 .. Len(tokens) - 1
      /\ mergeInfo \in Seq([valid : BOOLEAN, logprob : Int])
      /\ Len(mergeInfo) = i - 1 /\ merged = << >>
      /\ tokens[i] \in TokenKinds /\ tokens[i + 1] \in TokenKinds
  BY DEF IInv, TypeOK, Stages, WeighPair
<1>3. new \in [valid : BOOLEAN, logprob : Int]
  BY CandidateType
<1>4. new.valid => Joinable(tokens[i], tokens[i + 1])
  BY <1>2, CandidateJoinable
<1> HIDE DEF new
<1>5. /\ mergeInfo' \in Seq([valid : BOOLEAN, logprob : Int])
      /\ Len(mergeInfo') = Len(mergeInfo) + 1
      /\ DOMAIN mergeInfo' = 1 .. Len(mergeInfo) + 1
      /\ DOMAIN mergeInfo = 1 .. Len(mergeInfo)
      /\ \A k \in 1 .. Len(mergeInfo) : mergeInfo'[k] = mergeInfo[k]
      /\ mergeInfo'[Len(mergeInfo) + 1] = new
  <2>1. mergeInfo' = Append(mergeInfo, new)
    BY <1>1 DEF new
  <2>2. QED
    BY <2>1, <1>2, <1>3, AppendFacts
<1>6. TypeOK'
  BY <1>2, <1>5 DEF IInv, TypeOK, WeighPair
<1>7. Stages'
  BY <1>2, <1>5 DEF WeighPair, Stages
<1>8. CandidatesJoinable'
  BY <1>2, <1>4, <1>5 DEF IInv, CandidatesJoinable, WeighPair
<1>9. WordsCoverTokens'
  BY <1>2 DEF WeighPair, WordsCoverTokens
<1>10. ResolvedSoFar'
  BY DEF WeighPair, ResolvedSoFar
<1>11. QED
  BY <1>6, <1>7, <1>8, <1>9, <1>10, SameWords DEF IInv, WeighPair

(* The words that stand for the whole input when there is nothing to do. *)
LEMMA SingleInvariant == IInv /\ (PassThrough \/ FixSingleToken) => IInv'
<1> SUFFICES ASSUME IInv, PassThrough \/ FixSingleToken PROVE IInv'
  OBVIOUS
<1> DEFINE W == [first : DOMAIN tokens, last : DOMAIN tokens,
                 tail : BOOLEAN, fixed : BOOLEAN]
<1>1. /\ tokens \in Seq(TokenKinds) /\ Len(tokens) \in {0, 1}
      /\ DOMAIN tokens = 1 .. Len(tokens)
      /\ merged = << >> /\ i = 1 /\ pc = "single"
      /\ status \in [DOMAIN tokens -> {-1, 0, 1, 2}]
  <2>1. pc = "single"
    BY DEF PassThrough, FixSingleToken
  <2>2. merged = << >> /\ i = 1 /\ Len(tokens) < 2
    BY <2>1 DEF IInv, Stages
  <2>3. tokens \in Seq(TokenKinds) /\ status \in [DOMAIN tokens -> {-1, 0, 1, 2}]
    BY DEF IInv, TypeOK
  <2>4. Len(tokens) \in Nat /\ DOMAIN tokens = 1 .. Len(tokens)
    BY <2>3
  <2>5. QED
    BY <2>1, <2>2, <2>3, <2>4
<1>a. \A t \in DOMAIN tokens : tokens[t].tail \in BOOLEAN
  <2>1. \A t \in DOMAIN tokens : tokens[t] \in Token
    BY <1>1, TokenAssumption
  <2>2. QED
    BY <2>1 DEF Token
<1>2. \A t \in DOMAIN tokens : status[t] = 0
  BY <1>1 DEF IInv, StatusTellsOutput
<1>3. /\ DOMAIN merged' = DOMAIN tokens /\ merged' \in Seq(W)
      /\ \A k \in DOMAIN merged' :
           /\ k = 1 /\ merged'[k].first = 1 /\ merged'[k].last = 1
           /\ merged'[k].tail = tokens[1].tail
           /\ status'[1] = IF merged'[k].fixed THEN 2 ELSE 0
      /\ status' \in [DOMAIN tokens -> {-1, 0, 1, 2}]
      /\ \A t \in DOMAIN tokens : status'[t] \in {0, 2}
  <2>1. CASE PassThrough
    BY <1>1, <1>a, <1>2, <2>1 DEF PassThrough, Word
  <2>2. CASE FixSingleToken
    <3>1. merged' = <<[first |-> 1, last |-> 1, tail |-> tokens[1].tail, fixed |-> TRUE]>>
      BY <2>2 DEF FixSingleToken, Word
    <3>2. Len(tokens) = 1 /\ status' = <<2>>
      BY <2>2 DEF FixSingleToken
    <3>3. QED
      BY <1>1, <1>a, <3>1, <3>2
  <2>3. QED
    BY <2>1, <2>2
<1>4. /\ UNCHANGED <<tokens, fixSingle, i, mergeInfo>> /\ pc' = "done"
  BY DEF PassThrough, FixSingleToken
<1>b. /\ Len(merged') = Len(tokens)
      /\ merged' = << >> => Len(tokens) = 0
  <2>1. Len(merged') \in Nat /\ DOMAIN merged' = 1 .. Len(merged')
    BY <1>3
  <2>2. 1 .. Len(merged') = 1 .. Len(tokens)
    BY <2>1, <1>1, <1>3
  <2>3. Len(merged') = Len(tokens)
    <3>1. Len(tokens) \in Nat
      BY <1>1
    <3>2. QED
      BY <2>1, <2>2, <3>1, SameInterval
  <2>4. QED
    BY <2>3
<1>5. TypeOK'
  BY <1>1, <1>3, <1>4 DEF IInv, TypeOK
<1>6. Stages' /\ CandidatesJoinable'
  BY <1>4 DEF IInv, Stages, CandidatesJoinable
<1>7. WordsCoverTokens'
  BY <1>1, <1>3, <1>4, <1>b DEF WordsCoverTokens
<1>8. WordsDisjoint' /\ PunctuationKept' /\ InertAndStopWordsKept'
  <2>1. WordsDisjoint' /\ PunctuationKept'
    BY <1>1, <1>3, <1>4 DEF WordsDisjoint, PunctuationKept
  <2>2. ASSUME NEW k \in DOMAIN merged', merged'[k].fixed
        PROVE  FixAllowed(tokens[1])
    <3>1. DOMAIN tokens # {} /\ status'[1] = 2
      BY <1>3, <2>2
    <3>2. status[1] = 0
      BY <1>1, <1>2, <3>1
    <3>3. PassThrough => status'[1] = 0
      BY <3>2 DEF PassThrough
    <3>4. FixSingleToken
      BY <3>1, <3>3
    <3> QED
      <4>1. tokens[1] \in TokenKinds /\ MayFix(tokens[1])
        BY <1>1, <3>1, <3>4 DEF FixSingleToken
      <4>2. QED
        BY <4>1, MayFixAllowed
  <2> QED
    BY <1>3, <1>4, <2>1, <2>2 DEF InertAndStopWordsKept, FixAllowed
<1>9. StatusTellsOutput'
  BY <1>1, <1>3, <1>4 DEF StatusTellsOutput
<1>10. ResolvedSoFar'
  <2>1. DOMAIN mergeInfo = {}
    BY <1>1 DEF IInv, CandidatesJoinable, TypeOK
  <2>2. QED
    BY <2>1, <1>4 DEF ResolvedSoFar
<1>11. QED
  BY <1>5, <1>6, <1>7, <1>8, <1>9, <1>10 DEF IInv

(* The steps that only move on to the next stage or the next word. *)
LEMMA MoveOnInvariant ==
  IInv /\ (StartScan \/ FinishScan \/ LeaveWord \/ FinishFix) => IInv'
<1> SUFFICES ASSUME IInv, StartScan \/ FinishScan \/ LeaveWord \/ FinishFix
             PROVE  IInv'
  OBVIOUS
<1>1. UNCHANGED <<tokens, fixSingle, mergeInfo, merged, status>>
  BY DEF StartScan, FinishScan, LeaveWord, FinishFix
<1>2. /\ Len(tokens) \in Nat /\ i \in 1 .. Len(tokens) + 1
      /\ Len(merged) \in Nat /\ Len(mergeInfo) \in Nat
      /\ DOMAIN tokens = 1 .. Len(tokens)
      /\ DOMAIN mergeInfo = 1 .. Len(mergeInfo)
      /\ DOMAIN merged = 1 .. Len(merged)
  BY DEF IInv, TypeOK
<1>3. i' \in 1 .. Len(tokens) + 1
  BY <1>2 DEF IInv, Stages, StartScan, FinishScan, LeaveWord, FinishFix
<1>4. TypeOK'
  BY <1>1, <1>3 DEF IInv, TypeOK, StartScan, FinishScan, LeaveWord, FinishFix
<1>5. Stages'
  <2>1. CASE StartScan
    BY <2>1, <1>1, <1>2 DEF IInv, Stages, StartScan
  <2>2. CASE FinishScan
    BY <2>2, <1>1, <1>2 DEF IInv, Stages, FinishScan
  <2>3. CASE LeaveWord \/ FinishFix
    BY <2>3, <1>1, <1>2 DEF IInv, Stages, LeaveWord, FinishFix
  <2>4. QED
    BY <2>1, <2>2, <2>3
<1>6. CandidatesJoinable'
  BY <1>1 DEF IInv, CandidatesJoinable
<1>7. WordsCoverTokens'
  BY <1>1, <1>2 DEF IInv, WordsCoverTokens, Stages, StartScan, FinishScan,
                    LeaveWord, FinishFix
<1>8. ResolvedSoFar'
  <2>1. CASE StartScan
    BY <2>1, <1>1, <1>2 DEF ResolvedSoFar, StartScan
  <2>2. CASE FinishScan
    <3>1. \A t \in DOMAIN mergeInfo : t < i
      BY <2>2, <1>2 DEF IInv, CandidatesJoinable, FinishScan
    <3>2. \A t \in DOMAIN mergeInfo : mergeInfo[t].valid => Resolved(t)
      BY <2>2, <3>1 DEF IInv, ResolvedSoFar, FinishScan
    <3>3. QED
      BY <1>1, <3>2 DEF ResolvedSoFar, Resolved
  <2>3. CASE LeaveWord \/ FinishFix
    <3>1. \A t \in DOMAIN mergeInfo : mergeInfo[t].valid => Resolved(t)
      BY <2>3 DEF IInv, ResolvedSoFar, LeaveWord, FinishFix
    <3>2. QED
      BY <1>1, <3>1 DEF ResolvedSoFar, Resolved
  <2>4. QED
    BY <2>1, <2>2, <2>3
<1>9. QED
  BY <1>1, <1>4, <1>5, <1>6, <1>7, <1>8, SameWords DEF IInv

-----------------------------------------------------------------------------
(* The types of a word and of a candidate. *)
LEMMA WordType ==
  ASSUME TypeOK, NEW k \in DOMAIN merged
  PROVE  /\ merged[k] \in [first : DOMAIN tokens, last : DOMAIN tokens,
                           tail : BOOLEAN, fixed : BOOLEAN]
         /\ merged[k].first \in DOMAIN tokens
         /\ merged[k].last \in DOMAIN tokens
<1> DEFINE W == [first : DOMAIN tokens, last : DOMAIN tokens,
                 tail : BOOLEAN, fixed : BOOLEAN]
<1>1. merged \in Seq(W)
  BY DEF TypeOK
<1> HIDE DEF W
<1>2. merged[k] \in W
  BY <1>1
<1>3. QED
  BY <1>2 DEF W

LEMMA CandidateInfoType ==
  ASSUME TypeOK, NEW t \in DOMAIN mergeInfo
  PROVE  mergeInfo[t].logprob \in Int
<1> DEFINE M == [valid : BOOLEAN, logprob : Int]
<1>1. mergeInfo \in Seq(M)
  BY DEF TypeOK
<1> HIDE DEF M
<1>2. mergeInfo[t] \in M
  BY <1>1
<1>3. QED
  BY <1>2 DEF M

(* Where the scan stands before a round: the words so far end just before  *)
(* token i, and no word has a token from i on.                             *)
LEMMA BeforeRound ==
  ASSUME IInv, pc = "scan", i <= Len(tokens)
  PROVE  /\ tokens \in Seq(TokenKinds) /\ Len(tokens) \in Nat
         /\ i \in 1 .. Len(tokens) /\ DOMAIN tokens = 1 .. Len(tokens)
         /\ Len(merged) \in Nat /\ DOMAIN merged = 1 .. Len(merged)
         /\ Len(merged) <= i - 1
         /\ merged = << >> => i = 1
         /\ merged # << >> => /\ Len(merged) \in DOMAIN merged
                             /\ merged[Len(merged)].last = i - 1
         /\ \A k \in DOMAIN merged :
              /\ merged[k].first \in DOMAIN tokens
              /\ merged[k].last \in DOMAIN tokens
              /\ merged[k].first <= merged[k].last
              /\ merged[k].last <= i - 1
         /\ \A t \in DOMAIN tokens : t >= i => status[t] = 0
         /\ status \in [DOMAIN tokens -> {-1, 0, 1, 2}]
         /\ DOMAIN mergeInfo \subseteq Nat
<1>1. /\ tokens \in Seq(TokenKinds) /\ Len(tokens) \in Nat
      /\ i \in 1 .. Len(tokens) /\ DOMAIN tokens = 1 .. Len(tokens)
      /\ Len(merged) \in Nat /\ DOMAIN merged = 1 .. Len(merged)
      /\ status \in [DOMAIN tokens -> {-1, 0, 1, 2}]
      /\ DOMAIN mergeInfo \subseteq Nat
  <2>1. /\ tokens \in Seq(TokenKinds) /\ i \in 1 .. Len(tokens) + 1
        /\ status \in [DOMAIN tokens -> {-1, 0, 1, 2}]
        /\ mergeInfo \in Seq([valid : BOOLEAN, logprob : Int])
        /\ merged \in Seq([first : DOMAIN tokens, last : DOMAIN tokens,
                           tail : BOOLEAN, fixed : BOOLEAN])
    <3>1. TypeOK
      BY DEF IInv
    <3>2. QED
      BY <3>1 DEF TypeOK
  <2>2. /\ Len(tokens) \in Nat /\ DOMAIN tokens = 1 .. Len(tokens)
        /\ Len(merged) \in Nat /\ DOMAIN merged = 1 .. Len(merged)
        /\ DOMAIN mergeInfo = 1 .. Len(mergeInfo)
    BY <2>1
  <2>3. QED
    BY <2>1, <2>2
<1>2. Len(merged) <= i - 1 /\ \A k \in DOMAIN merged : merged[k].last <= i - 1
  BY DEF IInv, Stages
<1>3. \A k \in DOMAIN merged :
        merged[k].first \in DOMAIN tokens /\ merged[k].last \in DOMAIN tokens
  <2>1. TypeOK
    BY DEF IInv
  <2>2. QED
    BY <2>1, WordType
<1>4. \A k \in DOMAIN merged : merged[k].first <= merged[k].last
  BY <1>1, <1>3 DEF IInv, WordsCoverTokens
<1>5. merged # << >> => Len(merged) \in DOMAIN merged
  BY DEF IInv, TypeOK
<1>6. /\ merged = << >> => i = 1
      /\ merged # << >> => merged[Len(merged)].last = i - 1
  BY <1>1, <1>3, <1>5 DEF IInv, WordsCoverTokens
<1>7. ASSUME NEW t \in DOMAIN tokens, t >= i PROVE status[t] = 0
  <2>1. \A k \in DOMAIN merged : t \notin merged[k].first .. merged[k].last
    BY <1>1, <1>2, <1>3, <1>7
  <2>2. QED
    BY <2>1 DEF IInv, StatusTellsOutput
<1>8. QED
  BY <1>1, <1>2, <1>3, <1>4, <1>5, <1>6, <1>7

(* What a round adds: a word that begins at token i and ends at last, with *)
(* the statuses of its tokens, none other being changed.                   *)
Adds(last) ==
  /\ pc = "scan"
  /\ i <= Len(tokens) /\ last \in DOMAIN tokens
  /\ merged' = Append(merged, Word(i, last, FALSE))
  /\ i' = last + 1
  /\ UNCHANGED <<tokens, fixSingle, pc, mergeInfo>>

SetsStatus(last) ==
  /\ status' \in [DOMAIN tokens -> {-1, 0, 1, 2}]
  /\ last = i => status' = status
  /\ last = i + 1 => status'[i] = 1 /\ status'[last] = -1
  /\ \A t \in DOMAIN tokens : t \notin i .. last => status'[t] = status[t]

Resolves(last) ==
  \A t \in i .. last :
    t \in DOMAIN mergeInfo /\ mergeInfo[t].valid => Resolved(t)'

LEMMA RoundInvariant ==
  ASSUME IInv, NEW last \in {i, i + 1}, Adds(last), SetsStatus(last), Resolves(last),
         last = i + 1 => Joinable(tokens[i], tokens[last])
  PROVE  IInv'
<1> DEFINE W == [first : DOMAIN tokens, last : DOMAIN tokens,
                 tail : BOOLEAN, fixed : BOOLEAN]
           w == Word(i, last, FALSE)
<1>1. /\ tokens \in Seq(TokenKinds) /\ Len(tokens) \in Nat
      /\ i \in 1 .. Len(tokens) /\ DOMAIN tokens = 1 .. Len(tokens)
      /\ Len(merged) \in Nat /\ DOMAIN merged = 1 .. Len(merged)
      /\ Len(merged) <= i - 1 /\ last \in Nat
      /\ last \in DOMAIN tokens /\ pc = "scan" /\ i' = last + 1
      /\ UNCHANGED <<tokens, fixSingle, pc, mergeInfo>>
  BY BeforeRound DEF Adds
<1>0. /\ \A k \in DOMAIN merged :
           /\ merged[k].first \in 1 .. Len(tokens)
           /\ merged[k].last \in 1 .. Len(tokens)
           /\ merged[k].first <= merged[k].last
           /\ merged[k].last <= i - 1
      /\ merged = << >> => i = 1
      /\ merged # << >> => /\ Len(merged) \in DOMAIN merged
                          /\ merged[Len(merged)].last = i - 1
  BY <1>1, BeforeRound
<1>2. tokens[last].tail \in BOOLEAN
  <2>1. tokens[last] \in Token
    BY <1>1, TokenAssumption
  <2>2. QED
    BY <2>1 DEF Token
<1>3. /\ w \in W /\ w.first = i /\ w.last = last
      /\ w.tail = tokens[last].tail /\ w.fixed = FALSE
  BY <1>1, <1>2 DEF Word
<1>4. merged' = Append(merged, w) /\ merged \in Seq(W)
  BY DEF IInv, TypeOK, Adds
<1> HIDE DEF w, W
<1>5. /\ merged' \in Seq(W) /\ Len(merged') = Len(merged) + 1
      /\ DOMAIN merged' = 1 .. Len(merged) + 1
      /\ \A k \in DOMAIN merged : merged'[k] = merged[k]
      /\ merged'[Len(merged) + 1] = w
      /\ merged' # << >>
  BY <1>1, <1>3, <1>4, AppendFacts
<1>6. TypeOK'
  BY <1>1, <1>5 DEF IInv, TypeOK, SetsStatus, W
<1>7. Stages'
  <2>1. Len(tokens) - 1 <= Len(mergeInfo)
    BY <1>1 DEF IInv, Stages
  <2>2. Len(merged') <= i' - 1
    BY <1>1, <1>5
  <2>3. ASSUME NEW k \in DOMAIN merged' PROVE merged'[k].last <= i' - 1
    <3>1. CASE k \in DOMAIN merged
      <4>1. merged[k].last \in 1 .. Len(tokens) /\ merged[k].last <= i - 1
        BY <3>1, <1>0
      <4>2. QED
        BY <3>1, <4>1, <1>1, <1>5
    <3>2. CASE k = Len(merged) + 1
      BY <3>2, <1>1, <1>3, <1>5
    <3>3. QED
      BY <3>1, <3>2, <1>5, <1>1
  <2>4. QED
    BY <2>1, <2>2, <2>3, <1>1 DEF Stages
<1>8. CandidatesJoinable'
  BY <1>1 DEF IInv, CandidatesJoinable
<1>9. WordsCoverTokens'
  <2>1. ASSUME NEW k \in DOMAIN merged'
        PROVE  /\ merged'[k].first = IF k = 1 THEN 1 ELSE merged'[k - 1].last + 1
               /\ merged'[k].last \in {merged'[k].first, merged'[k].first + 1}
    <3>1. CASE k \in DOMAIN merged
      <4>1. k # 1 => k - 1 \in DOMAIN merged
        BY <3>1, <1>1
      <4>2. QED
        BY <3>1, <4>1, <1>5 DEF IInv, WordsCoverTokens
    <3>2. CASE k = Len(merged) + 1
      <4>1. k = 1 => i = 1
        BY <3>2, <1>1, <1>0 DEF IInv, TypeOK
      <4>2. k # 1 => /\ k - 1 \in DOMAIN merged /\ merged # << >>
                     /\ k - 1 = Len(merged)
        BY <3>2, <1>1
      <4>3. k # 1 => merged[k - 1].last = i - 1
        BY <4>2, <1>0
      <4>4. QED
        BY <3>2, <4>1, <4>2, <4>3, <1>1, <1>3, <1>5
    <3>3. QED
      BY <3>1, <3>2, <1>1, <1>5
  <2>2. merged'[Len(merged')].last = last
    BY <1>3, <1>5
  <2>3. QED
    BY <2>1, <2>2, <1>1, <1>5 DEF WordsCoverTokens
<1>10. WordsDisjoint'
  <2>1. ASSUME NEW k \in DOMAIN merged', NEW m \in DOMAIN merged', k < m
        PROVE  merged'[k].last < merged'[m].first
    <3>1. k \in DOMAIN merged
      BY <2>1, <1>1, <1>5
    <3>2. CASE m \in DOMAIN merged
      BY <2>1, <3>1, <3>2, <1>5 DEF IInv, WordsDisjoint
    <3>3. CASE m = Len(merged) + 1
      <4>1. merged[k].last <= i - 1 /\ merged[k].last \in Nat
        BY <3>1, <1>1, <1>0
      <4>2. QED
        BY <3>1, <3>3, <4>1, <1>1, <1>3, <1>5
    <3>4. QED
      BY <3>2, <3>3, <1>1, <1>5
  <2>2. QED
    BY <2>1 DEF WordsDisjoint
<1>11. \A k \in DOMAIN merged : \A t \in merged[k].first .. merged[k].last :
         t \in DOMAIN tokens /\ t < i /\ status'[t] = status[t]
  <2>1. ASSUME NEW k \in DOMAIN merged, NEW t \in merged[k].first .. merged[k].last
        PROVE  t \in DOMAIN tokens /\ t < i
    BY <1>1, <1>0
  <2>2. ASSUME NEW t \in DOMAIN tokens, t < i PROVE status'[t] = status[t]
    <3>1. t \notin i .. last
      BY <2>2, <1>1
    <3>2. QED
      BY <3>1 DEF SetsStatus
  <2>3. QED
    BY <2>1, <2>2
<1>12. StatusTellsOutput'
  <2>1. ASSUME NEW k \in DOMAIN merged'
        PROVE  IF merged'[k].first = merged'[k].last
               THEN status'[merged'[k].first] = IF merged'[k].fixed THEN 2 ELSE 0
               ELSE /\ ~ merged'[k].fixed /\ status'[merged'[k].first] = 1
                    /\ status'[merged'[k].last] = -1
    <3>1. CASE k \in DOMAIN merged
      <4>1. /\ merged[k].first \in merged[k].first .. merged[k].last
            /\ merged[k].last \in merged[k].first .. merged[k].last
        BY <3>1, <1>1, <1>0
      <4>2. QED
        BY <3>1, <4>1, <1>5, <1>11 DEF IInv, StatusTellsOutput
    <3>2. CASE k = Len(merged) + 1
      <4>1. status[i] = 0
        BY <1>1, BeforeRound
      <4>2. QED
        BY <3>2, <4>1, <1>1, <1>3, <1>5 DEF SetsStatus
    <3>3. QED
      BY <3>1, <3>2, <1>5, <1>1
  <2>2. ASSUME NEW t \in DOMAIN tokens,
               \A k \in DOMAIN merged' : t \notin merged'[k].first .. merged'[k].last
        PROVE  status'[t] = 0
    <3>1. t \notin i .. last
      BY <2>2, <1>1, <1>3, <1>5
    <3>2. \A k \in DOMAIN merged : t \notin merged[k].first .. merged[k].last
      BY <2>2, <1>1, <1>5
    <3>3. status[t] = 0
      BY <3>2 DEF IInv, StatusTellsOutput
    <3>4. QED
      BY <3>1, <3>3 DEF SetsStatus
  <2>3. QED
    BY <2>1, <2>2, <1>1 DEF StatusTellsOutput
<1>13. PunctuationKept'
  <2>1. ASSUME NEW k \in DOMAIN merged', NEW t \in merged'[k].first .. merged'[k].last,
               tokens[t].tail
        PROVE  t = merged'[k].last /\ merged'[k].tail
    <3>1. CASE k \in DOMAIN merged
      BY <2>1, <3>1, <1>5, <1>1 DEF IInv, PunctuationKept
    <3>2. CASE k = Len(merged) + 1
      BY <2>1, <3>2, <1>1, <1>3, <1>5 DEF Joinable
    <3>3. QED
      BY <3>1, <3>2, <1>5, <1>1
  <2>2. QED
    BY <2>1, <1>1 DEF PunctuationKept
<1>14. InertAndStopWordsKept'
  <2>1. ASSUME NEW k \in DOMAIN merged', merged'[k].first # merged'[k].last
        PROVE  LET l == tokens[merged'[k].first]
                   r == tokens[merged'[k].last]
               IN ~ l.inert /\ ~ r.inert /\ ~ (l.stop /\ r.stop)
    <3>1. CASE k \in DOMAIN merged
      BY <2>1, <3>1, <1>5 DEF IInv, InertAndStopWordsKept
    <3>2. CASE k = Len(merged) + 1
      BY <2>1, <3>2, <1>3, <1>5 DEF Joinable
    <3>3. QED
      BY <3>1, <3>2, <1>5, <1>1
  <2>2. ASSUME NEW k \in DOMAIN merged', merged'[k].fixed
        PROVE  /\ merged'[k].first = merged'[k].last
               /\ LET l == tokens[merged'[k].first]
                  IN FixAllowed(l)
    <3>1. CASE k \in DOMAIN merged
      BY <2>2, <3>1, <1>5 DEF IInv, InertAndStopWordsKept, FixAllowed
    <3>2. k # Len(merged) + 1
      BY <2>2, <1>3, <1>5
    <3>3. QED
      BY <3>1, <3>2, <1>5, <1>1
  <2>3. QED
    BY <2>1, <2>2, <1>1 DEF InertAndStopWordsKept, FixAllowed
<1>15. ResolvedSoFar'
  <2>1. ASSUME NEW t \in DOMAIN mergeInfo, mergeInfo[t].valid, t < last + 1
        PROVE  Resolved(t)'
    <3>1. t \in DOMAIN tokens /\ t \in Nat
      <4>1. t \in Nat /\ t + 1 \in DOMAIN tokens /\ t # 0
        BY DEF IInv, CandidatesJoinable, TypeOK
      <4>2. QED
        BY <4>1, <1>1
    <3>2. CASE t < i
      <4>1. Resolved(t)
        BY <2>1, <3>2, <1>1 DEF IInv, ResolvedSoFar
      <4>2. status'[t] = status[t]
        BY <3>1, <3>2, <1>1 DEF SetsStatus
      <4>3. QED
        BY <4>1, <4>2, <1>1 DEF Resolved
    <3>3. CASE t \in i .. last
      BY <2>1, <3>3 DEF Resolves
    <3>4. QED
      BY <2>1, <3>1, <3>2, <3>3, <1>1
  <2>2. QED
    BY <2>1, <1>1 DEF ResolvedSoFar
<1>16. QED
  BY <1>6, <1>7, <1>8, <1>9, <1>10, <1>12, <1>13, <1>14, <1>15 DEF IInv

LEMMA MergePairInvariant == IInv /\ MergePair => IInv'
<1> SUFFICES ASSUME IInv, MergePair PROVE IInv'
  OBVIOUS
<1>1. /\ pc = "scan" /\ i <= Len(tokens) /\ Merges(i)
      /\ status' = [status EXCEPT ![i] = 1, ![i + 1] = -1]
      /\ UNCHANGED <<tokens, fixSingle, pc, mergeInfo>>
  BY DEF MergePair
<1>2. /\ i \in 1 .. Len(tokens) /\ DOMAIN tokens = 1 .. Len(tokens)
      /\ Len(tokens) \in Nat
      /\ status \in [DOMAIN tokens -> {-1, 0, 1, 2}]
      /\ DOMAIN mergeInfo \subseteq Nat
  BY <1>1, BeforeRound
<1>3. i < Len(tokens) /\ mergeInfo[i].valid
  BY <1>1 DEF Merges
<1>4. i \in DOMAIN mergeInfo
  <2>1. Len(tokens) - 1 <= Len(mergeInfo)
    BY <1>1 DEF IInv, Stages
  <2>2. Len(mergeInfo) \in Nat /\ DOMAIN mergeInfo = 1 .. Len(mergeInfo)
    BY DEF IInv, TypeOK
  <2>3. QED
    BY <2>1, <2>2, <1>2, <1>3
<1>5. Joinable(tokens[i], tokens[i + 1])
  BY <1>3, <1>4 DEF IInv, CandidatesJoinable
<1>6. Adds(i + 1)
  BY <1>1, <1>2, <1>3 DEF Adds, MergePair
<1>7. SetsStatus(i + 1) /\ status'[i] = 1 /\ status'[i + 1] = -1
  BY <1>1, <1>2, <1>3 DEF SetsStatus
<1>8. Resolves(i + 1)
  <2>1. \A t \in i .. i + 1 : t = i \/ t = i + 1
    BY <1>2
  <2>2. QED
    BY <2>1, <1>7 DEF Resolves, Resolved
<1>9. QED
  BY <1>5, <1>6, <1>7, <1>8, RoundInvariant

LEMMA KeepTokenInvariant == IInv /\ KeepToken => IInv'
<1> SUFFICES ASSUME IInv, KeepToken PROVE IInv'
  OBVIOUS
<1>1. /\ pc = "scan" /\ i <= Len(tokens) /\ ~ Merges(i)
      /\ UNCHANGED <<tokens, fixSingle, pc, mergeInfo, status>>
  BY DEF KeepToken
<1>2. /\ i \in 1 .. Len(tokens) /\ DOMAIN tokens = 1 .. Len(tokens)
      /\ Len(tokens) \in Nat
      /\ status \in [DOMAIN tokens -> {-1, 0, 1, 2}]
  BY <1>1, BeforeRound
<1>3. Adds(i)
  BY <1>1, <1>2 DEF Adds, KeepToken
<1>4. SetsStatus(i)
  BY <1>1, <1>2 DEF SetsStatus
<1>5. ASSUME i \in DOMAIN mergeInfo, mergeInfo[i].valid
      PROVE  Resolved(i)
  <2>1. /\ mergeInfo \in Seq([valid : BOOLEAN, logprob : Int])
        /\ Len(mergeInfo) \in Nat /\ DOMAIN mergeInfo = 1 .. Len(mergeInfo)
    BY DEF IInv, TypeOK
  <2>2. i + 1 \in DOMAIN tokens /\ i < Len(tokens)
    BY <1>2, <1>5 DEF IInv, CandidatesJoinable
  <2>3. /\ i + 1 < Len(tokens) /\ mergeInfo[i + 1].valid
        /\ ~ (mergeInfo[i].logprob >= mergeInfo[i + 1].logprob)
    BY <1>1, <1>5, <2>2 DEF Merges
  <2>4. i + 1 \in DOMAIN mergeInfo
    <3>1. Len(tokens) - 1 <= Len(mergeInfo)
      BY <1>1 DEF IInv, Stages
    <3>2. QED
      BY <3>1, <2>1, <2>3, <1>2
  <2>5. mergeInfo[i].logprob \in Int /\ mergeInfo[i + 1].logprob \in Int
    BY <2>4, <1>5, CandidateInfoType DEF IInv
  <2>6. QED
    BY <2>3, <2>4, <2>5 DEF Resolved
<1>6. Resolves(i)
  <2>1. \A t \in i .. i : t = i
    BY <1>2
  <2>2. QED
    BY <2>1, <1>1, <1>5 DEF Resolves, Resolved
<1>7. i # i + 1
  BY <1>2
<1>8. QED
  BY <1>3, <1>4, <1>6, <1>7, RoundInvariant

LEMMA FixWordInvariant == IInv /\ FixWord => IInv'
<1> SUFFICES ASSUME IInv, FixWord PROVE IInv'
  OBVIOUS
<1> DEFINE W == [first : DOMAIN tokens, last : DOMAIN tokens,
                 tail : BOOLEAN, fixed : BOOLEAN]
           f == merged[i].first
<1>1. /\ TypeOK /\ merged \in Seq(W) /\ tokens \in Seq(TokenKinds)
      /\ status \in [DOMAIN tokens -> {-1, 0, 1, 2}]
      /\ i \in 1 .. Len(tokens) + 1
  <2>1. TypeOK
    BY DEF IInv
  <2>2. QED
    BY <2>1 DEF TypeOK
<1>2. /\ Len(tokens) \in Nat /\ DOMAIN tokens = 1 .. Len(tokens)
      /\ Len(merged) \in Nat /\ DOMAIN merged = 1 .. Len(merged)
  BY <1>1
<1>3. /\ pc = "fix" /\ i \in DOMAIN merged /\ status[f] = 0
      /\ merged' = [merged EXCEPT ![i] = Word(f, merged[i].last, TRUE)]
      /\ status' = [status EXCEPT ![f] = 2]
      /\ i' = i + 1
      /\ UNCHANGED <<tokens, fixSingle, pc, mergeInfo>>
  BY <1>1, <1>2 DEF FixWord, StatusIndex
<1>4. merged[i] \in W /\ f \in DOMAIN tokens
  BY <1>1, <1>3, WordType
<1>5. merged[i].last = f
  BY <1>3 DEF IInv, StatusTellsOutput
<1>6. tokens[f].tail \in BOOLEAN
  <2>1. tokens[f] \in Token
    BY <1>1, <1>4, TokenAssumption
  <2>2. QED
    BY <2>1 DEF Token
<1>7. /\ merged' \in Seq(W) /\ DOMAIN merged' = DOMAIN merged
      /\ Len(merged') = Len(merged)
      /\ \A k \in DOMAIN merged :
           /\ merged'[k].first = merged[k].first
           /\ merged'[k].last = merged[k].last
           /\ k # i => merged'[k] = merged[k]
      /\ merged'[i].tail = tokens[f].tail /\ merged'[i].fixed = TRUE
      /\ merged' = << >> => merged = << >>
  <2> DEFINE w == Word(f, merged[i].last, TRUE)
  <2>1. /\ w \in W /\ w.first = f /\ w.last = f
        /\ w.tail = tokens[f].tail /\ w.fixed = TRUE
    BY <1>4, <1>5, <1>6 DEF Word
  <2>2. merged' = [merged EXCEPT ![i] = w]
    BY <1>3
  <2> HIDE DEF w, W
  <2>3. QED
    <3>1. merged' \in Seq(W) /\ DOMAIN merged' = DOMAIN merged
      <4>1. i \in 1 .. Len(merged)
        BY <1>2, <1>3
      <4>2. [merged EXCEPT ![i] = w] \in Seq(W)
        BY <4>1, <2>1, <1>1, ExceptSeq
      <4>3. QED
        BY <4>2, <2>2, <1>1
    <3>2. Len(merged') = Len(merged)
      BY <2>2, <1>1
    <3>3. merged'[i] = w
      BY <2>2, <1>1, <1>3
    <3>4. \A k \in DOMAIN merged : k # i => merged'[k] = merged[k]
      BY <2>2, <1>1
    <3>5. merged' = << >> => merged = << >>
      BY <3>1, <3>2, <1>1
    <3>6. \A k \in DOMAIN merged :
            merged'[k].first = merged[k].first /\ merged'[k].last = merged[k].last
      BY <3>3, <3>4, <2>1, <1>5
    <3>7. QED
      BY <3>1, <3>2, <3>3, <3>4, <3>5, <3>6, <2>1
<1> HIDE DEF W
<1>8. \A k \in DOMAIN merged :
        k # i => f \notin merged[k].first .. merged[k].last
  <2>1. ASSUME NEW k \in DOMAIN merged, k # i
        PROVE  f \notin merged[k].first .. merged[k].last
    <3>1. /\ merged[k].first \in 1 .. Len(tokens)
          /\ merged[k].last \in 1 .. Len(tokens)
          /\ f \in 1 .. Len(tokens)
      BY <1>1, <1>2, <1>4, WordType
    <3>2. \/ merged[k].last < f
          \/ f < merged[k].first
      BY <1>2, <1>3, <1>5, <2>1 DEF IInv, WordsDisjoint
    <3>3. QED
      BY <3>1, <3>2
  <2>2. QED
    BY <2>1
<1>9. TypeOK'
  <2>1. i' \in 1 .. Len(tokens) + 1
    BY <1>2, <1>3 DEF IInv, Stages
  <2>2. status' \in [DOMAIN tokens -> {-1, 0, 1, 2}]
    BY <1>1, <1>3, <1>4
  <2>3. QED
    BY <2>1, <2>2, <1>1, <1>3, <1>7 DEF TypeOK, W
<1>10. Stages' /\ CandidatesJoinable'
  BY <1>3, <1>7 DEF IInv, Stages, CandidatesJoinable
<1>11. WordsCoverTokens'
  <2>1. \A k \in DOMAIN merged : k # 1 => k - 1 \in DOMAIN merged
    BY <1>2
  <2>2. merged # << >> => Len(merged) \in DOMAIN merged
    BY <1>1, <1>2
  <2>3. merged # << >> /\ merged' # << >>
    <3>1. DOMAIN merged # {}
      BY <1>3
    <3>2. merged # << >>
      BY <3>1
    <3>3. QED
      BY <3>2, <1>7
  <2>4. merged'[Len(merged')].last = merged[Len(merged)].last
    BY <2>2, <2>3, <1>7
  <2>5. merged[Len(merged)].last = Len(tokens)
    BY <2>3, <1>3 DEF IInv, WordsCoverTokens
  <2>6. \A k \in DOMAIN merged' :
          /\ merged'[k].first = IF k = 1 THEN 1 ELSE merged'[k - 1].last + 1
          /\ merged'[k].last \in {merged'[k].first, merged'[k].first + 1}
    BY <2>1, <1>7 DEF IInv, WordsCoverTokens
  <2>7. QED
    BY <2>3, <2>4, <2>5, <2>6, <1>3 DEF WordsCoverTokens
<1>12. WordsDisjoint'
  BY <1>7 DEF IInv, WordsDisjoint
<1>13. StatusTellsOutput'
  <2>1. ASSUME NEW k \in DOMAIN merged
        PROVE  IF merged'[k].first = merged'[k].last
               THEN status'[merged'[k].first] = IF merged'[k].fixed THEN 2 ELSE 0
               ELSE /\ ~ merged'[k].fixed /\ status'[merged'[k].first] = 1
                    /\ status'[merged'[k].last] = -1
    <3>1. CASE k = i
      BY <3>1, <1>1, <1>3, <1>4, <1>5, <1>7
    <3>2. CASE k # i
      <4>1. /\ merged[k].first \in 1 .. Len(tokens)
            /\ merged[k].last \in 1 .. Len(tokens)
        BY <1>1, <1>2, WordType
      <4>2. merged[k].first <= merged[k].last
        BY <4>1 DEF IInv, WordsCoverTokens
      <4>3. merged[k].first # f /\ merged[k].last # f
        BY <3>2, <4>1, <4>2, <1>8
      <4>4. /\ status'[merged[k].first] = status[merged[k].first]
            /\ status'[merged[k].last] = status[merged[k].last]
        BY <4>1, <4>3, <1>1, <1>2, <1>3
      <4>5. QED
        BY <3>2, <4>4, <1>7 DEF IInv, StatusTellsOutput
    <3>3. QED
      BY <3>1, <3>2
  <2>2. ASSUME NEW t \in DOMAIN tokens,
               \A k \in DOMAIN merged : t \notin merged'[k].first .. merged'[k].last
        PROVE  status'[t] = 0
    <3>1. \A k \in DOMAIN merged : t \notin merged[k].first .. merged[k].last
      BY <2>2, <1>7
    <3>2. t # f
      BY <3>1, <1>2, <1>3, <1>4, <1>5
    <3>3. status[t] = 0
      BY <3>1 DEF IInv, StatusTellsOutput
    <3>4. QED
      BY <3>2, <3>3, <1>1, <1>3
  <2>3. QED
    BY <2>1, <2>2, <1>3, <1>7 DEF StatusTellsOutput
<1>14. PunctuationKept'
  <2>1. ASSUME NEW k \in DOMAIN merged, NEW t \in merged[k].first .. merged[k].last,
               tokens[t].tail
        PROVE  t = merged[k].last /\ merged'[k].tail
    <3>1. t = merged[k].last /\ merged[k].tail
      BY <2>1 DEF IInv, PunctuationKept
    <3>2. CASE k # i
      <4>1. merged'[k] = merged[k]
        BY <1>7, <3>2
      <4>2. QED
        BY <3>1, <4>1
    <3>3. CASE k = i
      <4>1. t = f
        BY <1>5, <3>1, <3>3
      <4>2. merged'[k].tail = tokens[f].tail
        BY <1>7, <3>3
      <4>3. QED
        BY <2>1, <3>1, <4>1, <4>2
    <3>4. QED
      BY <3>2, <3>3
  <2>2. /\ DOMAIN merged' = DOMAIN merged /\ tokens' = tokens
        /\ \A k \in DOMAIN merged : /\ merged'[k].first = merged[k].first
                                    /\ merged'[k].last = merged[k].last
    BY <1>3, <1>7
  <2>3. QED
    BY <2>1, <2>2 DEF PunctuationKept
<1>15. InertAndStopWordsKept'
  <2>1. /\ DOMAIN merged' = DOMAIN merged /\ tokens' = tokens
        /\ \A k \in DOMAIN merged : /\ merged'[k].first = merged[k].first
                                    /\ merged'[k].last = merged[k].last
                                    /\ merged'[k].fixed => merged[k].fixed \/ k = i
    BY <1>3, <1>7
  <2>2. InertAndStopWordsKept
    BY DEF IInv
  <2>3. FixAllowed(tokens[f])
    <3>1. f \in DOMAIN tokens /\ tokens \in Seq(TokenKinds)
      BY <1>1, <1>4 DEF IInv, TypeOK
    <3>2. tokens[f] \in TokenKinds
      BY <3>1
    <3>3. MayFix(tokens[f])
      BY <1>2, <1>3 DEF FixWord
    <3>4. QED
      BY <3>2, <3>3, MayFixAllowed
  <2>4. QED
    BY <1>5, <2>1, <2>2, <2>3 DEF InertAndStopWordsKept, FixAllowed
<1>16. ResolvedSoFar'
  <2>1. \A t \in DOMAIN mergeInfo : Resolved(t) => Resolved(t)'
    BY <1>1, <1>3 DEF Resolved
  <2>2. QED
    BY <2>1, <1>3 DEF IInv, ResolvedSoFar
<1>17. QED
  BY <1>9, <1>10, <1>11, <1>12, <1>13, <1>14, <1>15, <1>16 DEF IInv

LEMMA StutterInvariant == IInv /\ UNCHANGED vars => IInv'
BY DEF IInv, vars, TypeOK, Stages, CandidatesJoinable, WordsCoverTokens,
       WordsDisjoint, StatusTellsOutput, PunctuationKept,
       InertAndStopWordsKept, ResolvedSoFar, Resolved

LEMMA NextInvariant == IInv /\ [Next]_vars => IInv'
BY WeighPairInvariant, SingleInvariant, MoveOnInvariant, MergePairInvariant,
   KeepTokenInvariant, FixWordInvariant, StutterInvariant DEF Next

-----------------------------------------------------------------------------
(* The conjunction that the proofs rest on always holds. *)
THEOREM CompoundCorrectorIInv == Spec => []IInv
BY InitInvariant, NextInvariant, PTL DEF Spec

(* The variables hold values of their types, and no index leaves its       *)
(* sequence, for a sentence of any length.                                 *)
THEOREM CompoundCorrectorTypeOK == Spec => []TypeOK
<1>1. IInv => TypeOK
  BY DEF IInv
<1>2. QED
  BY <1>1, CompoundCorrectorIInv, PTL

(* The words of the output and the status codes stay aligned with the      *)
(* tokens of the input.                                                    *)
THEOREM CompoundCorrectorAlignment == Spec => []WordsCoverTokens
<1>1. IInv => WordsCoverTokens
  BY DEF IInv
<1>2. QED
  BY <1>1, CompoundCorrectorIInv, PTL

(* Each status tells what became of its token, though the statuses belong  *)
(* to the tokens and the fixes are made to the merged words.               *)
THEOREM CompoundCorrectorStatuses == Spec => []StatusTellsOutput
<1>1. IInv => StatusTellsOutput
  BY DEF IInv
<1>2. QED
  BY <1>1, CompoundCorrectorIInv, PTL

(* No punctuation is lost on the way from the tokens to the words.         *)
THEOREM CompoundCorrectorKeeps == Spec => []PunctuationKept
<1>1. IInv => PunctuationKept
  BY DEF IInv
<1>2. QED
  BY <1>1, CompoundCorrectorIInv, PTL

(* Inert tokens and pairs of stop words are never merged, and what the fix *)
(* pass substitutes is one token, not inert as a whole and not known.      *)
THEOREM CompoundCorrectorLeavesAlone == Spec => []InertAndStopWordsKept
<1>1. IInv => InertAndStopWordsKept
  BY DEF IInv
<1>2. QED
  BY <1>1, CompoundCorrectorIInv, PTL

(* The scan leaves no candidate unmerged without a better one beside it.   *)
THEOREM CompoundCorrectorResolved == Spec => []CandidatesResolved
<1>1. IInv => CandidatesResolved
  BY DEF IInv, ResolvedSoFar, Resolved, CandidatesResolved
<1>2. QED
  BY <1>1, CompoundCorrectorIInv, PTL

-----------------------------------------------------------------------------
LEMMA AbsInit == Init => Abs!Init
<1> SUFFICES ASSUME Init PROVE Abs!Init
  OBVIOUS
<1>1. PICK n \in 0 .. MaxTokens : tokens \in [1 .. n -> TokenKinds]
  BY ConfigAssumption DEF Init, BoundedSeq, SeqOf
<1>2. status = [t \in 1 .. n |-> 0]
  BY <1>1 DEF Init
<1>3. QED
  BY <1>2 DEF Abs!Init, Abs!Unchanged

LEMMA AbsNext == IInv /\ [Next]_vars => [Abs!Next]_status
<1> SUFFICES ASSUME IInv, [Next]_vars PROVE Abs!Next \/ UNCHANGED status
  OBVIOUS
<1>1. status \in [DOMAIN tokens -> {-1, 0, 1, 2}] /\ DOMAIN status = DOMAIN tokens
  <2>1. TypeOK
    BY DEF IInv
  <2>2. QED
    BY <2>1 DEF TypeOK
<1>2. CASE MergePair
  <2>1. /\ i \in DOMAIN tokens /\ status[i] = 0
        /\ DOMAIN tokens = 1 .. Len(tokens) /\ Len(tokens) \in Nat
        /\ \A t \in DOMAIN tokens : t >= i => status[t] = 0
    BY <1>2, BeforeRound DEF MergePair
  <2>2. i < Len(tokens)
    BY <1>2 DEF MergePair, Merges
  <2>3. i + 1 \in DOMAIN tokens /\ status[i + 1] = 0
    BY <2>1, <2>2
  <2>4. Abs!Merge(i)
    BY <1>1, <1>2, <2>1, <2>3
       DEF MergePair, Abs!Merge, Abs!Unchanged, Abs!MergedWithNext, Abs!MergedByPrev
  <2>5. QED
    BY <2>1, <2>4, <1>1 DEF Abs!Next
<1>3. CASE FixSingleToken
  <2>1. /\ tokens \in Seq(TokenKinds) /\ Len(tokens) = 1 /\ merged = << >>
        /\ status' = <<2>>
    BY <1>3 DEF IInv, TypeOK, Stages, FixSingleToken
  <2>2. DOMAIN status = {1} /\ status[1] = 0
    BY <2>1, <1>1 DEF IInv, StatusTellsOutput
  <2>3. [status EXCEPT ![1] = 2] = <<2>>
    BY <2>2, <1>1
  <2>4. Abs!Substitute(1)
    BY <2>1, <2>2, <2>3 DEF Abs!Substitute, Abs!Unchanged, Abs!Substituted
  <2>5. QED
    BY <2>2, <2>4 DEF Abs!Next
<1>4. CASE FixWord
  <2>1. merged[i].first \in DOMAIN tokens
    <3>1. TypeOK
      BY DEF IInv
    <3>2. i \in DOMAIN merged
      BY <3>1, <1>4 DEF TypeOK, FixWord
    <3>3. QED
      BY <3>1, <3>2, WordType
  <2>2. Abs!Substitute(merged[i].first)
    BY <1>4 DEF FixWord, StatusIndex, Abs!Substitute, Abs!Unchanged, Abs!Substituted
  <2>3. QED
    BY <2>1, <2>2, <1>1 DEF Abs!Next
<1>5. CASE PassThrough \/ WeighPair \/ StartScan \/ KeepToken \/ FinishScan
             \/ LeaveWord \/ FinishFix \/ UNCHANGED vars
  BY <1>5 DEF PassThrough, WeighPair, StartScan, KeepToken, FinishScan,
              LeaveWord, FinishFix, vars
<1>6. QED
  BY <1>2, <1>3, <1>4, <1>5 DEF Next

(* Every token is decided at most once: a merge claims two undecided       *)
(* neighbours, a substitution one undecided token, and no status is ever   *)
(* taken back.                                                             *)
THEOREM CompoundCorrectorImplements == Spec => ImplementsTokenStatus
BY AbsInit, AbsNext, CompoundCorrectorIInv, PTL
   DEF Spec, ImplementsTokenStatus, Abs!Spec
=============================================================================
