-------------------------- MODULE HashMultimapProofs --------------------------
(***************************************************************************)
(* The invariants of Hash_Multimap for any keys, values, hash function,    *)
(* doubling sequence of capacities and bounds.                             *)
(*                                                                         *)
(* The argument: the number of entries in the buckets plus the number left *)
(* in the old ones plus the insertion that waits (Total) is the number of  *)
(* entries inserted so far, since a step of a rehash takes from one what   *)
(* it adds to another.  It never exceeds maxLoad,                          *)
(* because rehash() raises the count it is given to size() / (7/8) and     *)
(* picks a capacity strictly above it.  That gives NoNestedRehash and      *)
(* LoadBound.  Place puts an entry into the bucket of its hash, behind the *)
(* other entries of its key; that gives the other two invariants.          *)
(***************************************************************************)
EXTENDS HashMultimap, InductionLemmas, FiniteSetTheorems

Waiting == IF pending = NoEntry THEN 0 ELSE 1

Finite == IsFiniteSet(Slots(data)) /\ IsFiniteSet(Slots(src))

Total == sz + Cardinality(Slots(src)) + Waiting

(* The part of the inductive invariant that depends on pc. *)
Stages ==
  /\ pc = "idle" => Slots(src) = {} /\ pending = NoEntry
  /\ pc = "insert" => Slots(src) = {} /\ pending \in Entry
  /\ inserted = Total
  /\ Total <= maxLoad
  /\ Total <= MaxSize

IInv ==
  /\ TypeOK
  /\ cap = 0 => maxLoad = 0
  /\ Finite
  /\ sz = Cardinality(Slots(data))
  /\ Stages
  /\ EntriesInTheirBucket
  /\ KeysContiguous

-----------------------------------------------------------------------------
(* The capacity chosen exceeds the count asked for. *)
LEMMA NewCapacityProperties ==
  ASSUME NEW count \in 0 .. MaxCount
  PROVE  NewCapacity(count) \in Nat \ {0} /\ count < NewCapacity(count)
<1> DEFINE S == {c \in Capacities : count < c}
<1>1. S # {} /\ S \subseteq Nat \ {0}
  BY CapacitiesAssumption
<1>2. \E m \in S : \A n \in S : m <= n
  BY <1>1, LeastNatural
<1>3. Min(S) \in S
  BY <1>2 DEF Min
<1>4. QED
  BY <1>1, <1>3 DEF NewCapacity

(* A capacity above s / (7/8) has room for s entries and one more: its     *)
(* limit is above s.                                                       *)
LEMMA CapacityHasRoom ==
  ASSUME NEW s \in Nat, NEW c \in Nat
  PROVE  /\ MaxLoadOf(c) \in Nat
         /\ (8 * s) \div 7 < c => s < MaxLoadOf(c)
         /\ CountFor(s) < c => s < MaxLoadOf(c)
         /\ CountFor(s) \in Nat
         /\ (8 * s) \div 7 \in Nat
         /\ (8 * s) \div 7 <= CountFor(s)
BY DEF MaxLoadOf, CeilDiv, CountFor

(* reserve asks for more buckets the more entries it is asked for. *)
LEMMA CountForMonotonic ==
  ASSUME NEW m \in Nat, NEW n \in Nat, m <= n
  PROVE  CountFor(m) <= CountFor(n)
BY DEF CeilDiv, CountFor

(* Where a new entry goes: behind the last entry of the first run of its   *)
(* key, or to the end if the key is new.                                   *)
LEMMA RunEndProperties ==
  ASSUME NEW list \in Seq(Entry), NEW k
  PROVE  /\ RunEnd(list, k) \in 0 .. Len(list)
         /\ \/ /\ RunEnd(list, k) \in 1 .. Len(list)
               /\ list[RunEnd(list, k)].key = k
               /\ \/ RunEnd(list, k) = Len(list)
                  \/ list[RunEnd(list, k) + 1].key # k
            \/ /\ RunEnd(list, k) = Len(list)
               /\ \A i \in 1 .. Len(list) : list[i].key # k
<1> DEFINE N    == Len(list)
           hits == {i \in 1 .. N : list[i].key = k}
           ends == {i \in DOMAIN list : list[i].key = k /\ (i = N \/ list[i + 1].key # k)}
<1>1. N \in Nat /\ DOMAIN list = 1 .. N
  OBVIOUS
<1>2. CASE hits = {}
  BY <1>1, <1>2 DEF RunEnd
<1>3. CASE hits # {}
  <2>1. PICK m \in hits : \A n \in hits : n <= m
    BY <1>1, <1>3, GreatestIndex
  <2>2. m \in ends
    <3>1. m \in 1 .. N /\ list[m].key = k
      OBVIOUS
    <3>2. ASSUME m # N PROVE list[m + 1].key # k
      <4>1. m + 1 \in 1 .. N
        <5>1. N \in Nat /\ m \in 1 .. N /\ m # N
          BY <1>1, <3>1, <3>2
        <5> HIDE DEF N, hits
        <5>2. QED
          BY <5>1
      <4>2. ~ (m + 1 <= m)
        BY <1>1, <3>1
      <4>3. m + 1 \notin hits
        BY <2>1, <4>2
      <4>4. QED
        BY <4>1, <4>3
    <3>3. QED
      BY <1>1, <3>1, <3>2
  <2>3. \E e \in ends : \A n \in ends : e <= n
    <3>1. ends \in SUBSET Nat /\ ends # {}
      BY <1>1, <2>2
    <3> HIDE DEF ends
    <3>2. QED
      BY <3>1, LeastNatural
  <2>4. Min(ends) \in ends
    BY <2>3 DEF Min
  <2>5. RunEnd(list, k) = Min(ends)
    BY <2>2 DEF RunEnd
  <2>6. QED
    BY <1>1, <2>4, <2>5
<1>4. QED
  BY <1>2, <1>3

-----------------------------------------------------------------------------
(* One more entry in bucket b: one more slot. *)
LEMMA SlotsGrow ==
  ASSUME NEW n, NEW d \in [n -> Seq(Entry)], NEW b \in n, NEW t \in Seq(Entry),
         Len(t) = Len(d[b]) + 1, IsFiniteSet(Slots(d))
  PROVE  /\ IsFiniteSet(Slots([d EXCEPT ![b] = t]))
         /\ Cardinality(Slots([d EXCEPT ![b] = t])) = Cardinality(Slots(d)) + 1
<1> DEFINE x == <<b, Len(t)>>
<1>1. Len(d[b]) \in Nat /\ \A a \in n : Len(d[a]) \in Nat
  OBVIOUS
<1>2. Slots([d EXCEPT ![b] = t]) = Slots(d) \cup {x}
  BY <1>1 DEF Slots
<1>3. x \notin Slots(d)
  BY <1>1 DEF Slots
<1>4. QED
  BY <1>2, <1>3, FS_AddElement

(* One entry less in bucket b: one slot less. *)
LEMMA SlotsShrink ==
  ASSUME NEW n, NEW d \in [n -> Seq(Entry)], NEW b \in n, d[b] # << >>,
         IsFiniteSet(Slots(d))
  PROVE  /\ IsFiniteSet(Slots([d EXCEPT ![b] = Tail(@)]))
         /\ Cardinality(Slots([d EXCEPT ![b] = Tail(@)])) = Cardinality(Slots(d)) - 1
         /\ Cardinality(Slots(d)) \in Nat \ {0}
<1> DEFINE x == <<b, Len(d[b])>>
<1>1. /\ Len(d[b]) \in Nat \ {0}
      /\ Tail(d[b]) \in Seq(Entry)
      /\ Len(Tail(d[b])) = Len(d[b]) - 1
      /\ \A a \in n : Len(d[a]) \in Nat
  OBVIOUS
<1>2. Slots([d EXCEPT ![b] = Tail(@)]) = Slots(d) \ {x}
  BY <1>1 DEF Slots
<1>3. x \in Slots(d)
  BY <1>1 DEF Slots
<1>4. Cardinality(Slots(d)) \in Nat /\ Cardinality(Slots(d)) # 0
  BY <1>3, FS_CardinalityType, FS_EmptySet
<1> HIDE DEF x
<1>5. /\ IsFiniteSet(Slots(d) \ {x})
      /\ Cardinality(Slots(d) \ {x}) = Cardinality(Slots(d)) - 1
  BY <1>3, FS_RemoveElement
<1>6. QED
  BY <1>2, <1>4, <1>5

(* Fresh buckets hold nothing. *)
LEMMA SlotsFresh ==
  ASSUME NEW c
  PROVE  /\ Slots(FreshBuckets(c)) = {}
         /\ IsFiniteSet(Slots(FreshBuckets(c)))
         /\ Cardinality(Slots(FreshBuckets(c))) = 0
<1>1. Slots(FreshBuckets(c)) = {}
  BY DEF Slots, FreshBuckets
<1>2. QED
  BY <1>1, FS_EmptySet

(* A new entry behind the others of its key leaves every run in one piece. *)
LEMMA PlaceKeepsContiguous ==
  ASSUME NEW list \in Seq(Entry), Contiguous(list), NEW e \in Entry
  PROVE  Contiguous(InsertAt(list, RunEnd(list, e.key) + 1, e))
<1> DEFINE N == Len(list)
           p == RunEnd(list, e.key)
           t == InsertAt(list, p + 1, e)
<1>1. N \in Nat /\ p \in 0 .. N /\ DOMAIN list = 1 .. N
  BY RunEndProperties
<1>2. /\ t \in Seq(Entry)
      /\ Len(t) = N + 1
      /\ \A m \in 1 .. N + 1 :
           t[m] = IF m <= p THEN list[m] ELSE IF m = p + 1 THEN e ELSE list[m - 1]
  <2>1. p \in 0 .. Len(list) /\ list \in Seq(Entry) /\ e \in Entry
    BY <1>1
  <2> HIDE DEF p
  <2>2. QED
    BY <2>1, InsertAtProperties
<1>3. DOMAIN t = 1 .. N + 1
  BY <1>2
<1>4. \/ p \in 1 .. N /\ list[p].key = e.key
      \/ p = N /\ \A i \in 1 .. N : list[i].key # e.key
  BY RunEndProperties
<1> HIDE DEF N, p, t
<1>5. SUFFICES ASSUME NEW i \in 1 .. N + 1, NEW j \in 1 .. N + 1,
                      i < j, t[i].key = t[j].key, NEW m \in i .. j
               PROVE  t[m].key = t[i].key
  BY <1>3 DEF Contiguous, p, t
<1>6. CASE p = N /\ \A a \in 1 .. N : list[a].key # e.key
  <2>1. t[N + 1] = e /\ \A a \in 1 .. N : t[a] = list[a]
    BY <1>1, <1>2, <1>6
  <2>2. j # N + 1
    <3>1. ASSUME j = N + 1 PROVE FALSE
      <4>1. i \in 1 .. N
        BY <1>1, <1>5, <3>1
      <4>2. QED
        BY <1>5, <1>6, <2>1, <3>1, <4>1
    <3>2. QED
      BY <3>1
  <2>3. i \in 1 .. N /\ j \in 1 .. N /\ m \in 1 .. N
    BY <1>1, <1>5, <2>2
  <2>4. QED
    BY <1>1, <1>5, <2>1, <2>3 DEF Contiguous
<1>7. CASE p \in 1 .. N /\ list[p].key = e.key
  <2> DEFINE q(a) == IF a <= p THEN a ELSE a - 1
  <2>1. \A a \in 1 .. N + 1 : q(a) \in 1 .. N /\ t[a].key = list[q(a)].key
    BY <1>1, <1>2, <1>7
  <2>2. m \in 1 .. N + 1 /\ q(i) <= q(m) /\ q(m) <= q(j)
    BY <1>1, <1>5, <1>7
  <2>3. /\ q(i) \in 1 .. N /\ q(j) \in 1 .. N /\ q(m) \in 1 .. N
        /\ list[q(i)].key = list[q(j)].key
    BY <1>5, <2>1, <2>2
  <2>4. list[q(m)].key = list[q(i)].key
    <3> HIDE DEF q
    <3>1. CASE q(i) < q(j)
      BY <1>1, <2>2, <2>3, <3>1 DEF Contiguous
    <3>2. CASE ~ (q(i) < q(j))
      <4>1. q(m) = q(i)
        BY <1>1, <2>2, <2>3, <3>2
      <4>2. QED
        BY <4>1
    <3>3. QED
      BY <3>1, <3>2
  <2>5. QED
    BY <1>5, <2>1, <2>2, <2>4
<1>8. QED
  BY <1>4, <1>6, <1>7

(* What Place(e) does to the buckets, in the table proper and in the fresh *)
(* table of a rehash.                                                      *)
LEMMA PlaceProperties ==
  ASSUME TypeOK, EntriesInTheirBucket, KeysContiguous,
         IsFiniteSet(Slots(data)), sz = Cardinality(Slots(data)),
         NEW e \in Entry, cap # 0, cap' = cap, Place(e)
  PROVE  /\ data' \in [0 .. cap - 1 -> Seq(Entry)]
         /\ sz' = sz + 1
         /\ IsFiniteSet(Slots(data')) /\ sz' = Cardinality(Slots(data'))
         /\ EntriesInTheirBucket'
         /\ KeysContiguous'
<1> DEFINE b    == BucketOf(e.key)
           list == data[b]
           p    == RunEnd(list, e.key)
           t    == InsertAt(list, p + 1, e)
<1>1. e.key \in Key /\ Hash[e.key] \in Nat /\ cap \in Nat \ {0}
  BY HashAssumption DEF Entry, TypeOK
<1>2. b \in 0 .. cap - 1
  BY <1>1 DEF BucketOf
<1>3. list \in Seq(Entry) /\ Contiguous(list)
  BY <1>2 DEF TypeOK, KeysContiguous
<1>4. /\ t \in Seq(Entry)
      /\ Len(t) = Len(list) + 1
      /\ \A m \in 1 .. Len(list) + 1 : t[m] = e \/ \E i \in 1 .. Len(list) : t[m] = list[i]
  <2>1. p \in 0 .. Len(list) /\ Len(list) \in Nat
    BY <1>3, RunEndProperties
  <2> HIDE DEF list, p
  <2>2. /\ t \in Seq(Entry)
        /\ Len(t) = Len(list) + 1
        /\ \A m \in 1 .. Len(list) + 1 :
             t[m] = IF m <= p THEN list[m] ELSE IF m = p + 1 THEN e ELSE list[m - 1]
    <3>1. /\ InsertAt(list, p + 1, e) \in Seq(Entry)
          /\ Len(InsertAt(list, p + 1, e)) = Len(list) + 1
          /\ \A m \in 1 .. Len(list) + 1 :
               InsertAt(list, p + 1, e)[m] =
                 IF m <= p THEN list[m] ELSE IF m = p + 1 THEN e ELSE list[m - 1]
      <4> HIDE DEF t
      <4>1. list \in Seq(Entry)
        BY <1>3
      <4> QED
        BY <2>1, <4>1, InsertAtProperties
    <3> QED
      BY <3>1
  <2> HIDE DEF t
  <2>3. QED
    BY <2>1, <2>2
<1>5. Contiguous(t)
  BY <1>3, PlaceKeepsContiguous
<1>6. data' = [data EXCEPT ![b] = t] /\ sz' = sz + 1
  BY DEF Place
<1>7. data \in [0 .. cap - 1 -> Seq(Entry)]
  BY DEF TypeOK
<1> HIDE DEF b, t
<1>8. data' \in [0 .. cap - 1 -> Seq(Entry)]
  BY <1>2, <1>4, <1>6, <1>7
<1>9. IsFiniteSet(Slots(data')) /\ sz' = Cardinality(Slots(data'))
  BY <1>2, <1>4, <1>6, <1>7, SlotsGrow
<1>10. EntriesInTheirBucket'
  <2>1. SUFFICES ASSUME NEW a \in 0 .. cap - 1, NEW i \in DOMAIN data'[a]
                 PROVE  Hash[data'[a][i].key] % cap = a
    BY <1>8 DEF EntriesInTheirBucket
  <2>2. CASE a # b
    <3>1. data'[a] = data[a]
      BY <1>6, <1>7, <2>2
    <3>2. QED
      BY <1>7, <2>1, <3>1 DEF EntriesInTheirBucket
  <2>3. CASE a = b
    <3>1. data'[a] = t /\ i \in 1 .. Len(list) + 1
      BY <1>2, <1>4, <1>6, <1>7, <2>1, <2>3
    <3>2. CASE t[i] = e
      BY <2>3, <3>1, <3>2 DEF b, BucketOf
    <3>3. CASE \E h \in 1 .. Len(list) : t[i] = list[h]
      BY <1>2, <1>3, <1>7, <2>3, <3>1, <3>3 DEF EntriesInTheirBucket
    <3>4. QED
      BY <1>4, <3>1, <3>2, <3>3
  <2>4. QED
    BY <2>2, <2>3
<1>11. KeysContiguous'
  BY <1>2, <1>5, <1>6, <1>7 DEF KeysContiguous
<1>12. QED
  BY <1>6, <1>8, <1>9, <1>10, <1>11

-----------------------------------------------------------------------------
(* Starting a rehash keeps the inductive invariant: the new capacity has   *)
(* room for the entries there are, and for one more if one waits.          *)
LEMMA StartRehashPreserves ==
  ASSUME IInv, pc = "idle", NEW count \in 0 .. MaxCount, StartRehash(count),
         \/ pending' = NoEntry /\ inserted' = inserted
         \/ /\ pending' \in Entry
            /\ inserted' = inserted + 1
            /\ sz < MaxSize
            /\ CountFor(sz + 1) <= count
  PROVE  IInv'
<1> DEFINE c == NewCapacity(RehashCount(count))
<1>0. pending = NoEntry /\ Cardinality(Slots(src)) = 0
  BY FS_EmptySet DEF IInv, Stages
<1>1. /\ sz \in Nat /\ sz <= MaxSize /\ MaxSize \in Nat
      /\ pending = NoEntry
      /\ Cardinality(Slots(src)) = 0
  BY <1>0, SizesAssumption DEF IInv, TypeOK, Stages, Total, Waiting
<1>2. RehashCount(count) \in 0 .. MaxCount
  <2>1. (8 * sz) \div 7 \in Nat /\ (8 * sz) \div 7 <= CountFor(sz)
    BY <1>1, CapacityHasRoom
  <2>2. CountFor(sz) <= CountFor(MaxSize)
    BY <1>1, CountForMonotonic
  <2>3. CountFor(MaxSize) <= MaxCount /\ MaxCount \in Nat
    BY SizesAssumption
  <2>4. CountFor(sz) \in Nat /\ CountFor(MaxSize) \in Nat
    BY <1>1, CapacityHasRoom
  <2>5. QED
    BY <2>1, <2>2, <2>3, <2>4 DEF RehashCount
<1>3. c \in Nat \ {0} /\ RehashCount(count) < c
  BY <1>2, NewCapacityProperties
<1>4. count < c /\ (8 * sz) \div 7 < c
  BY <1>1, <1>2, <1>3 DEF RehashCount
<1>5. MaxLoadOf(c) \in Nat /\ sz < MaxLoadOf(c)
  BY <1>1, <1>3, <1>4, CapacityHasRoom
<1>6. pending' # NoEntry => sz + 1 < MaxLoadOf(c)
  <2>1. SUFFICES ASSUME pending' # NoEntry PROVE sz + 1 < MaxLoadOf(c)
    OBVIOUS
  <2>2. CountFor(sz + 1) \in Nat /\ CountFor(sz + 1) < c
    BY <1>1, <1>3, <1>4, <2>1, CapacityHasRoom
  <2>3. QED
    BY <1>1, <1>3, <2>2, CapacityHasRoom
<1>7. /\ data' = FreshBuckets(c) /\ cap' = c /\ sz' = 0
      /\ maxLoad' = MaxLoadOf(c) /\ src' = data /\ pc' = "move"
  BY DEF StartRehash
<1> HIDE DEF c
<1>8. data' \in [0 .. c - 1 -> Seq(Entry)] /\ \A b \in DOMAIN data' : data'[b] = << >>
  BY <1>7 DEF FreshBuckets
<1>9. data \in [DOMAIN data -> Seq(Entry)]
  BY DEF IInv, TypeOK
<1>10. TypeOK' /\ inserted' = sz + Waiting'
  <2>1. inserted = sz /\ inserted \in Nat
    BY <1>1 DEF IInv, TypeOK, Stages, Total, Waiting
  <2>2. pending' \in Entry \cup {NoEntry} /\ inserted' \in Nat
    BY <2>1
  <2>3. inserted' = sz + Waiting'
    BY <1>1, <2>1, NoEntryAssumption DEF Waiting
  <2>4. TypeOK'
    BY <1>3, <1>5, <1>7, <1>8, <1>9, <2>2 DEF TypeOK
  <2>5. QED
    BY <2>3, <2>4
<1>11. Finite' /\ (sz = Cardinality(Slots(data)))'
  BY <1>7, SlotsFresh DEF IInv, Finite
<1>12. Stages'
  <2>1. Cardinality(Slots(src)') = sz
    BY <1>7 DEF IInv
  <2>2. pending' # NoEntry => sz < MaxSize
    OBVIOUS
  <2>3. sz + Waiting' <= MaxLoadOf(c) /\ sz + Waiting' <= MaxSize
    BY <1>1, <1>5, <1>6, <2>2 DEF Waiting
  <2>4. Total' = sz + Waiting'
    BY <1>1, <1>7, <2>1 DEF Total, Waiting
  <2>5. QED
    BY <1>7, <1>10, <2>3, <2>4 DEF Stages
<1>13. EntriesInTheirBucket' /\ KeysContiguous'
  BY <1>8 DEF EntriesInTheirBucket, KeysContiguous, Contiguous
<1>14. QED
  BY <1>3, <1>7, <1>10, <1>11, <1>12, <1>13 DEF IInv

LEMMA ReservePreserves ==
  ASSUME IInv, NEW count \in ReserveCounts, Reserve(count)
  PROVE  IInv'
<1>1. count \in Nat /\ CountFor(count) <= MaxCount
  BY SizesAssumption
<1>2. CountFor(count) \in 0 .. MaxCount
  BY <1>1, CapacityHasRoom, SizesAssumption
<1>3. pending' = NoEntry /\ inserted' = inserted
  BY DEF Reserve, IInv, Stages
<1>4. QED
  BY <1>2, <1>3, StartRehashPreserves DEF Reserve, StartReserve

LEMMA EmplaceGrowPreserves ==
  ASSUME IInv, NEW e \in Entry, EmplaceGrow(e)
  PROVE  IInv'
<1>1. sz \in Nat /\ MaxSize \in Nat /\ sz + 1 <= MaxSize
  BY SizesAssumption DEF IInv, TypeOK, EmplaceGrow
<1>2. CountFor(sz + 1) <= CountFor(MaxSize)
  BY <1>1, CountForMonotonic
<1>3. CountFor(MaxSize) <= MaxCount
  BY SizesAssumption
<1>4. CountFor(sz + 1) \in Nat /\ CountFor(MaxSize) \in Nat
  BY <1>1, CapacityHasRoom
<1>5. CountFor(sz + 1) \in 0 .. MaxCount
  BY <1>2, <1>3, <1>4, SizesAssumption
<1>6. QED
  BY <1>1, <1>4, <1>5, StartRehashPreserves DEF EmplaceGrow, StartReserve

(* Emplace, MoveEntry and InsertPending share what Place does. *)
LEMMA EmplacePreserves ==
  ASSUME IInv, NEW e \in Entry, Emplace(e)
  PROVE  IInv'
<1>0. /\ pc = "idle" /\ Slots(src) = {} /\ pending = NoEntry
      /\ Cardinality(Slots(src)) = 0 /\ sz < MaxSize
  BY FS_EmptySet DEF IInv, Stages, Emplace
<1>1. /\ pc = "idle" /\ Slots(src) = {} /\ pending = NoEntry
      /\ sz \in Nat /\ maxLoad \in Nat /\ MaxSize \in Nat
      /\ Cardinality(Slots(src)) = 0
      /\ sz <= maxLoad /\ sz < MaxSize
  BY <1>0, SizesAssumption DEF IInv, TypeOK, Stages, Total, Waiting
<1>2. sz < maxLoad
  BY <1>1 DEF Emplace, MustGrow
<1>3. cap # 0
  BY <1>1, <1>2 DEF IInv
<1>4. /\ data' \in [0 .. cap - 1 -> Seq(Entry)]
      /\ sz' = sz + 1
      /\ IsFiniteSet(Slots(data')) /\ sz' = Cardinality(Slots(data'))
      /\ EntriesInTheirBucket'
      /\ KeysContiguous'
  BY <1>3, PlaceProperties DEF Emplace, IInv, Finite
<1>5. UNCHANGED <<cap, maxLoad, src, pc, pending>> /\ inserted' = sz + 1 /\ inserted' \in Nat
  BY <1>1 DEF Emplace, IInv, Stages, Total, Waiting
<1>6. TypeOK'
  BY <1>1, <1>4, <1>5 DEF TypeOK, IInv
<1>7. Stages'
  <2>1. Slots(src') = {} /\ Cardinality(Slots(src')) = 0
    BY <1>1, <1>5
  <2>2. Total' = sz + 1
    BY <1>1, <1>4, <1>5, <2>1 DEF Total, Waiting
  <2>3. QED
    BY <1>1, <1>2, <1>5, <2>1, <2>2 DEF Stages
<1>8. QED
  BY <1>4, <1>5, <1>6, <1>7 DEF IInv, Finite

LEMMA MoveEntryPreserves ==
  ASSUME IInv, MoveEntry
  PROVE  IInv'
<1>1. PICK b \in DOMAIN src : /\ src[b] # << >>
                              /\ Place(Head(src[b]))
                              /\ src' = [src EXCEPT ![b] = Tail(@)]
  BY DEF MoveEntry
<1>2. /\ IsFiniteSet(Slots(src'))
      /\ Cardinality(Slots(src')) = Cardinality(Slots(src)) - 1
      /\ Cardinality(Slots(src)) \in Nat \ {0}
  BY <1>1, SlotsShrink DEF IInv, TypeOK, Finite
<1>3. Head(src[b]) \in Entry /\ Tail(src[b]) \in Seq(Entry)
  BY <1>1 DEF IInv, TypeOK
<1>4. sz \in Nat /\ maxLoad \in Nat /\ Waiting \in {0, 1} /\ Total <= maxLoad
  BY DEF IInv, TypeOK, Waiting, Stages
<1>5. cap # 0
  BY <1>2, <1>4 DEF IInv, Total
<1>6. UNCHANGED <<cap, maxLoad, pc, pending, inserted>> /\ pc = "move"
  BY DEF MoveEntry
<1>7. /\ data' \in [0 .. cap - 1 -> Seq(Entry)]
      /\ sz' = sz + 1
      /\ IsFiniteSet(Slots(data')) /\ sz' = Cardinality(Slots(data'))
      /\ EntriesInTheirBucket'
      /\ KeysContiguous'
  BY <1>1, <1>3, <1>5, <1>6, PlaceProperties DEF IInv, Finite
<1>8. TypeOK'
  <2>1. src' \in [DOMAIN src' -> Seq(Entry)]
    BY <1>1, <1>3 DEF IInv, TypeOK
  <2>2. QED
    BY <1>4, <1>6, <1>7, <2>1 DEF TypeOK, IInv
<1>9. Stages'
  <2>1. Total' = Total
    BY <1>2, <1>4, <1>6, <1>7 DEF Total, Waiting
  <2>2. QED
    BY <1>6, <2>1 DEF IInv, Stages
<1>10. QED
  BY <1>2, <1>6, <1>7, <1>8, <1>9 DEF IInv, Finite

LEMMA FinishRehashPreserves ==
  ASSUME IInv, FinishRehash
  PROVE  IInv'
<1>1. Slots(src) = {}
  BY DEF FinishRehash, Slots
<1>2. /\ src' = FreshBuckets(0) /\ Slots(src') = {} /\ IsFiniteSet(Slots(src'))
      /\ Cardinality(Slots(src')) = 0 /\ Cardinality(Slots(src)) = 0
  BY <1>1, SlotsFresh, FS_EmptySet DEF FinishRehash
<1>3. UNCHANGED <<data, cap, sz, maxLoad, pending, inserted>>
  BY DEF FinishRehash
<1>4. /\ pc' \in {"idle", "insert"}
      /\ pc' = "idle" => pending = NoEntry
      /\ pc' = "insert" => pending \in Entry
  BY DEF FinishRehash, IInv, TypeOK
<1>5. src' \in [DOMAIN src' -> Seq(Entry)]
  BY <1>2 DEF FreshBuckets
<1>6. TypeOK'
  BY <1>3, <1>4, <1>5 DEF TypeOK, IInv
<1>7. Stages'
  BY <1>2, <1>3, <1>4 DEF IInv, Stages, Total, Waiting
<1>8. EntriesInTheirBucket' /\ KeysContiguous'
  BY <1>3 DEF IInv, EntriesInTheirBucket, KeysContiguous
<1>9. QED
  BY <1>2, <1>3, <1>6, <1>7, <1>8 DEF IInv, Finite

LEMMA InsertPendingPreserves ==
  ASSUME IInv, InsertPending
  PROVE  IInv'
<1>1. /\ pc = "insert" /\ Slots(src) = {} /\ pending \in Entry
      /\ sz \in Nat /\ maxLoad \in Nat /\ MaxSize \in Nat
      /\ Cardinality(Slots(src)) = 0
  BY SizesAssumption, FS_EmptySet DEF IInv, TypeOK, Stages, InsertPending
<1>2. sz + 1 <= maxLoad /\ sz + 1 <= MaxSize
  BY <1>1, NoEntryAssumption DEF IInv, Stages, Total, Waiting
<1>3. cap # 0
  BY <1>1, <1>2 DEF IInv
<1>4. /\ UNCHANGED <<cap, maxLoad, src, inserted>> /\ pending' = NoEntry /\ pc' = "idle"
      /\ inserted = sz + 1
  BY <1>1, NoEntryAssumption DEF InsertPending, IInv, Stages, Total, Waiting
<1>5. /\ data' \in [0 .. cap - 1 -> Seq(Entry)]
      /\ sz' = sz + 1
      /\ IsFiniteSet(Slots(data')) /\ sz' = Cardinality(Slots(data'))
      /\ EntriesInTheirBucket'
      /\ KeysContiguous'
  BY <1>1, <1>3, <1>4, PlaceProperties DEF InsertPending, IInv, Finite
<1>6. TypeOK'
  BY <1>1, <1>4, <1>5 DEF TypeOK, IInv
<1>7. Stages'
  <2>1. /\ Slots(src') = {} /\ Cardinality(Slots(src')) = 0
        /\ inserted' = sz + 1 /\ sz' = sz + 1 /\ Waiting' = 0
    BY <1>1, <1>4, <1>5 DEF Waiting
  <2>2. Total' = sz + 1
    BY <1>1, <2>1 DEF Total
  <2>3. QED
    BY <1>1, <1>2, <1>4, <2>1, <2>2 DEF Stages
<1>8. QED
  BY <1>4, <1>5, <1>6, <1>7 DEF IInv, Finite

LEMMA InitIInv == Init => IInv
<1>1. SUFFICES ASSUME Init PROVE IInv
  OBVIOUS
<1>2. data \in [0 .. cap - 1 -> Seq(Entry)] /\ src \in [DOMAIN src -> Seq(Entry)]
  BY <1>1 DEF Init, FreshBuckets
<1>3. TypeOK
  BY <1>1, <1>2 DEF TypeOK, Init
<1>4. /\ Slots(data) = {} /\ Slots(src) = {} /\ Cardinality(Slots(data)) = 0
      /\ Cardinality(Slots(src)) = 0 /\ Finite
  BY <1>1, SlotsFresh DEF Init, Finite
<1>5. EntriesInTheirBucket /\ KeysContiguous
  BY <1>1 DEF Init, FreshBuckets, EntriesInTheirBucket, KeysContiguous
<1>6. Stages
  BY <1>1, <1>4, SizesAssumption DEF Init, Stages, Total, Waiting
<1>7. QED
  BY <1>1, <1>3, <1>4, <1>5, <1>6 DEF IInv, Init

LEMMA NextIInv == IInv /\ [Next]_vars => IInv'
<1>1. SUFFICES ASSUME IInv, [Next]_vars PROVE IInv'
  OBVIOUS
<1>2. CASE \E count \in ReserveCounts : Reserve(count)
  BY <1>1, <1>2, ReservePreserves
<1>3. CASE \E e \in Entry : Emplace(e)
  BY <1>1, <1>3, EmplacePreserves
<1>4. CASE \E e \in Entry : EmplaceGrow(e)
  BY <1>1, <1>4, EmplaceGrowPreserves
<1>5. CASE MoveEntry
  BY <1>1, <1>5, MoveEntryPreserves
<1>6. CASE FinishRehash
  BY <1>1, <1>6, FinishRehashPreserves
<1>7. CASE InsertPending
  BY <1>1, <1>7, InsertPendingPreserves
<1>8. CASE UNCHANGED vars
  BY <1>1, <1>8 DEF vars, IInv, TypeOK, Finite, Stages, Total, Waiting,
     EntriesInTheirBucket, KeysContiguous, Slots
<1>9. QED
  BY <1>1, <1>2, <1>3, <1>4, <1>5, <1>6, <1>7, <1>8 DEF Next

(* The inductive invariant holds in every state the table reaches. *)
THEOREM HashMultimapIInv == Spec => []IInv
BY InitIInv, NextIInv, PTL DEF Spec

-----------------------------------------------------------------------------
(* The variables of the table have their types in every state. *)
THEOREM HashMultimapTypeOK == Spec => []TypeOK
<1>1. IInv => TypeOK
  BY DEF IInv
<1>2. QED
  BY <1>1, HashMultimapIInv, PTL

(* No insertion into the table a rehash builds makes that table rehash. *)
THEOREM HashMultimapNoNestedRehash == Spec => []NoNestedRehash
<1>1. IInv => NoNestedRehash
  <2>1. SUFFICES ASSUME IInv, NEW b \in DOMAIN src, src[b] # << >>
                 PROVE  sz < maxLoad
    BY DEF NoNestedRehash
  <2>2. Cardinality(Slots(src)) \in Nat \ {0}
    BY <2>1, SlotsShrink DEF IInv, TypeOK, Finite
  <2>3. QED
    BY <2>1, <2>2 DEF IInv, Stages, Total, Waiting, TypeOK
<1>2. QED
  BY <1>1, HashMultimapIInv, PTL

(* The table never holds more entries than its limit, so that the equality *)
(* test for growth is never stepped over, and a rehash starts no other.    *)
THEOREM HashMultimapLoadBound == Spec => []LoadBound
<1>1. IInv /\ NoNestedRehash => LoadBound
  <2>1. SUFFICES ASSUME IInv, NoNestedRehash PROVE LoadBound
    OBVIOUS
  <2>2. Cardinality(Slots(src)) \in Nat /\ sz \in Nat /\ maxLoad \in Nat
    BY <2>1, FS_CardinalityType DEF IInv, Finite, TypeOK
  <2>3. pc = "insert" => Waiting = 1
    BY <2>1, NoEntryAssumption DEF IInv, Stages, Waiting
  <2>4. QED
    BY <2>1, <2>2, <2>3 DEF IInv, Stages, Total, LoadBound, Waiting
<1>2. QED
  BY <1>1, HashMultimapIInv, HashMultimapNoNestedRehash, PTL

(* In every stage of a rehash the entries inserted so far are the sz in    *)
(* the buckets, those left in the old ones and the one that waits: none is *)
(* lost and none is placed twice.                                          *)
THEOREM HashMultimapSizeAccounting == Spec => []SizeAccounting
<1>1. IInv => SizeAccounting
  BY DEF IInv, Stages, Total, Waiting, SizeAccounting
<1>2. QED
  BY <1>1, HashMultimapIInv, PTL

(* A lookup finds every entry of a key: all are in the bucket it searches, *)
(* next to each other.                                                     *)
THEOREM HashMultimapBuckets == Spec => []EntriesInTheirBucket
<1>1. IInv => EntriesInTheirBucket
  BY DEF IInv
<1>2. QED
  BY <1>1, HashMultimapIInv, PTL

(* The entries of a key are one unbroken run, which is what equal_range    *)
(* returns.                                                                *)
THEOREM HashMultimapLookup == Spec => []KeysContiguous
<1>1. IInv => KeysContiguous
  BY DEF IInv
<1>2. QED
  BY <1>1, HashMultimapIInv, PTL

-----------------------------------------------------------------------------
(***************************************************************************)
(* Hash_Multimap implements Multimap: through equal_range a client sees    *)
(* the values of each key in the order they were inserted, whatever        *)
(* capacities the table goes through and in every step of a rehash.        *)
(*                                                                         *)
(* The argument: in a list whose keys are contiguous, what equal_range     *)
(* returns is one interval of the list (IntervalExists, RunIs).  Place     *)
(* appends to the interval of its key and only shifts the others           *)
(* (InsertRun); taking the head off a list takes the first entry off one   *)
(* interval (TailRun).  So an entry that is moved leaves the old run of    *)
(* its key at the front and joins the new one at the end.                  *)
(***************************************************************************)
(* What equal_range returns from one list. *)
Run(list, k) ==
  LET hits == {i \in DOMAIN list : list[i].key = k}
  IN IF hits = {} THEN << >> ELSE SubSeq(list, Min(hits), RunEnd(list, k))

(* The entries of k in the list are the n after the first p. *)
Interval(list, k, p, n) ==
  /\ p + n <= Len(list)
  /\ \A i \in 1 .. Len(list) : list[i].key = k <=> p < i /\ i <= p + n

-----------------------------------------------------------------------------
(* The entries of a key are one interval. *)
LEMMA IntervalExists ==
  ASSUME NEW list \in Seq(Entry), Contiguous(list), NEW k
  PROVE  \E p \in Nat, n \in Nat : Interval(list, k, p, n)
<1> DEFINE N == Len(list)
           hits == {i \in 1 .. N : list[i].key = k}
<1>1. N \in Nat /\ DOMAIN list = 1 .. N
  OBVIOUS
<1>2. CASE hits = {}
  <2>1. Interval(list, k, 0, 0)
    BY <1>1, <1>2 DEF Interval
  <2> QED
    BY <2>1
<1>3. CASE hits # {}
  <2>0. hits \in SUBSET (1 .. N) /\ hits \in SUBSET Nat
    BY <1>1
  <2>1. PICK a \in hits : \A i \in hits : a <= i
    BY <1>3, <2>0, LeastNatural
  <2>2. PICK z \in hits : \A i \in hits : i <= z
    BY <1>1, <1>3, <2>0, GreatestIndex
  <2>3. a \in 1 .. N /\ z \in 1 .. N /\ a <= z /\ list[a].key = k /\ list[z].key = k
    BY <2>1, <2>2
  <2>4. ASSUME NEW i \in 1 .. N PROVE list[i].key = k <=> a <= i /\ i <= z
    <3>1. ASSUME list[i].key = k PROVE a <= i /\ i <= z
      BY <2>1, <2>2, <3>1
    <3>2. ASSUME a <= i, i <= z PROVE list[i].key = k
      <4>1. CASE a < z
        BY <1>1, <2>3, <3>2, <4>1 DEF Contiguous
      <4>2. CASE ~ (a < z)
        <5>1. i = a
          BY <1>1, <2>3, <3>2, <4>2
        <5> QED
          BY <2>3, <5>1
      <4> QED
        BY <4>1, <4>2
    <3> QED
      BY <3>1, <3>2
  <2>5. PICK p \in Nat, n \in Nat : a = p + 1 /\ z = p + n
    <3>1. a - 1 \in Nat /\ z - (a - 1) \in Nat /\ a = (a - 1) + 1
          /\ z = (a - 1) + (z - (a - 1))
      BY <1>1, <2>3
    <3> QED
      BY <3>1
  <2>6. Interval(list, k, p, n)
    BY <1>1, <2>3, <2>4, <2>5 DEF Interval
  <2> QED
    BY <2>6
<1> QED
  BY <1>2, <1>3

(* equal_range finds the interval, and an insertion its end. *)
LEMMA RunIs ==
  ASSUME NEW list \in Seq(Entry), NEW k, NEW p \in Nat, NEW n \in Nat,
         Interval(list, k, p, n)
  PROVE  /\ Run(list, k) \in Seq(Entry)
         /\ Len(Run(list, k)) = n
         /\ \A j \in 1 .. n : Run(list, k)[j] = list[p + j]
         /\ RunEnd(list, k) = IF n = 0 THEN Len(list) ELSE p + n
<1> DEFINE hits == {i \in DOMAIN list : list[i].key = k}
           ends == {i \in DOMAIN list : list[i].key = k
                                        /\ (i = Len(list) \/ list[i + 1].key # k)}
<1>1. /\ Len(list) \in Nat /\ DOMAIN list = 1 .. Len(list) /\ p + n <= Len(list)
      /\ \A i \in 1 .. Len(list) : list[i].key = k <=> p < i /\ i <= p + n
  BY DEF Interval
<1>2. CASE n = 0
  <2>1. hits = {} /\ ends = {}
    BY <1>1, <1>2
  <2>2. Run(list, k) = << >> /\ RunEnd(list, k) = Len(list)
    BY <2>1 DEF Run, RunEnd
  <2> QED
    BY <1>2, <2>2
<1>3. CASE n # 0
  <2>1. hits = p + 1 .. p + n
    BY <1>1, <1>3
  <2>2. ends = {p + n}
    <3>1. p + n \in ends
      <4>1. p + n \in 1 .. Len(list) /\ list[p + n].key = k
        BY <1>1, <1>3
      <4>2. p + n = Len(list) \/ list[p + n + 1].key # k
        <5>1. ASSUME p + n # Len(list)
              PROVE  p + n + 1 \in 1 .. Len(list) /\ ~ (p + n + 1 <= p + n)
          <6>1. Len(list) \in Nat /\ p + n <= Len(list)
            BY <1>1
          <6> HIDE DEF ends, hits
          <6> QED
            BY <5>1, <6>1
        <5> QED
          BY <1>1, <5>1
      <4> QED
        BY <1>1, <4>1, <4>2
    <3>2. ASSUME NEW i \in ends PROVE i = p + n
      <4>1. i \in 1 .. Len(list) /\ p < i /\ i <= p + n
        BY <1>1
      <4>2. i # p + n => i + 1 \in 1 .. Len(list) /\ i # Len(list) /\ p < i + 1 /\ i + 1 <= p + n
        <5>1. Len(list) \in Nat /\ p + n <= Len(list) /\ i \in Nat
          BY <1>1, <4>1
        <5> HIDE DEF ends
        <5> QED
          BY <4>1, <5>1
      <4>3. i # p + n => list[i + 1].key = k
        BY <1>1, <4>2
      <4> QED
        BY <4>2, <4>3
    <3> QED
      BY <3>1, <3>2
  <2>3. Min(hits) = p + 1
    <3>1. p + 1 \in hits /\ \A i \in hits : p + 1 <= i
      BY <1>3, <2>1
    <3>2. \A i \in hits : (\A j \in hits : i <= j) => i = p + 1
      BY <2>1, <3>1
    <3> HIDE DEF hits
    <3> QED
      BY <3>1, <3>2 DEF Min
  <2>4. RunEnd(list, k) = p + n
    <3>1. Min({p + n}) = p + n
      BY DEF Min
    <3> QED
      BY <2>2, <3>1 DEF RunEnd
  <2>5. hits # {}
    <3>1. p + 1 \in p + 1 .. p + n
      BY <1>3
    <3> QED
      BY <2>1, <3>1
  <2>6. Run(list, k) = SubSeq(list, p + 1, p + n)
    BY <2>3, <2>4, <2>5 DEF Run
  <2>7. /\ SubSeq(list, p + 1, p + n) \in Seq(Entry)
        /\ Len(SubSeq(list, p + 1, p + n)) = n
        /\ \A j \in 1 .. n : SubSeq(list, p + 1, p + n)[j] = list[p + j]
    <3>1. \A i \in p + 1 .. p + n : list[i] \in Entry
      BY <1>1
    <3>2. (IF p + 1 <= p + n THEN p + n - (p + 1) + 1 ELSE 0) = n
          /\ \A j \in 1 .. n : p + 1 + j - 1 = p + j
      BY <1>3
    <3> QED
      BY <3>1, <3>2, SubSeqProperties
  <2> QED
    BY <1>3, <2>4, <2>6, <2>7
<1> QED
  BY <1>2, <1>3

-----------------------------------------------------------------------------
(* An insertion joins the run of its key at the end, and no other run. *)
LEMMA InsertRun ==
  ASSUME NEW list \in Seq(Entry), Contiguous(list), NEW e \in Entry
  PROVE  /\ Run(InsertAt(list, RunEnd(list, e.key) + 1, e), e.key)
              = Append(Run(list, e.key), e)
         /\ \A k : k # e.key =>
              Run(InsertAt(list, RunEnd(list, e.key) + 1, e), k) = Run(list, k)
<1> DEFINE r == RunEnd(list, e.key)
           t == InsertAt(list, r + 1, e)
<1>1. PICK N \in Nat : N = Len(list)
  OBVIOUS
<1>2. PICK p \in Nat, n \in Nat : Interval(list, e.key, p, n)
  BY IntervalExists
<1>3. /\ Run(list, e.key) \in Seq(Entry) /\ Len(Run(list, e.key)) = n
      /\ \A j \in 1 .. n : Run(list, e.key)[j] = list[p + j]
      /\ r = IF n = 0 THEN N ELSE p + n
  <2>1. PICK key : key = e.key
    OBVIOUS
  <2>2. Interval(list, key, p, n)
    BY <1>2, <2>1
  <2> HIDE DEF r
  <2>3. /\ Run(list, key) \in Seq(Entry) /\ Len(Run(list, key)) = n
        /\ \A j \in 1 .. n : Run(list, key)[j] = list[p + j]
        /\ RunEnd(list, key) = IF n = 0 THEN Len(list) ELSE p + n
    BY <2>2, RunIs
  <2>4. r = RunEnd(list, key)
    BY <2>1 DEF r
  <2>5. QED
    BY <2>1, <2>3, <2>4, <1>1
<1>4. /\ p + n <= N
      /\ \A i \in 1 .. N : list[i].key = e.key <=> p < i /\ i <= p + n
  BY <1>1, <1>2 DEF Interval
<1>5. r \in 0 .. N
  BY <1>3, <1>4
<1>6. /\ t \in Seq(Entry) /\ Len(t) = N + 1
      /\ \A m \in 1 .. N + 1 :
           t[m] = IF m <= r THEN list[m] ELSE IF m = r + 1 THEN e ELSE list[m - 1]
  <2>1. r \in 0 .. Len(list)
    BY <1>1, <1>5
  <2> HIDE DEF r
  <2>2. /\ InsertAt(list, r + 1, e) \in Seq(Entry)
        /\ Len(InsertAt(list, r + 1, e)) = Len(list) + 1
        /\ \A m \in 1 .. Len(list) + 1 :
             InsertAt(list, r + 1, e)[m]
               = IF m <= r THEN list[m] ELSE IF m = r + 1 THEN e ELSE list[m - 1]
    BY <2>1, InsertAtProperties
  <2> HIDE DEF t
  <2>3. InsertAt(list, r + 1, e) = t
    BY DEF t
  <2> QED
    BY <1>1, <2>2, <2>3
<1> HIDE DEF t, r
<1>7. Run(t, e.key) = Append(Run(list, e.key), e)
  <2> DEFINE q == IF n = 0 THEN N ELSE p
  <2>1. q \in Nat /\ r = q + n /\ q + n <= N
    BY <1>3, <1>4
  <2>2. \A i \in 1 .. N : list[i].key = e.key <=> q < i /\ i <= q + n
    BY <1>4
  <2>3. \A j \in 1 .. n : Run(list, e.key)[j] = list[q + j]
    BY <1>3
  <2> HIDE DEF q
  <2>4. Interval(t, e.key, q, n + 1)
    <3>1. ASSUME NEW i \in 1 .. N + 1
          PROVE  t[i].key = e.key <=> q < i /\ i <= q + (n + 1)
      <4>1. CASE i <= r
        <5>1. i \in 1 .. N /\ t[i] = list[i] /\ i <= q + n /\ i <= q + (n + 1)
          BY <1>5, <1>6, <2>1, <4>1
        <5> QED
          BY <2>2, <5>1
      <4>2. CASE i = r + 1
        <5>1. t[i] = e /\ q < i /\ i <= q + (n + 1)
          BY <1>5, <1>6, <2>1, <4>2
        <5> QED
          BY <5>1
      <4>3. CASE i > r + 1
        <5>1. /\ i - 1 \in 1 .. N /\ t[i] = list[i - 1]
              /\ ~ (i - 1 <= q + n) /\ ~ (i <= q + (n + 1))
          BY <1>5, <1>6, <2>1, <4>3
        <5> QED
          BY <2>2, <5>1
      <4> QED
        BY <1>5, <4>1, <4>2, <4>3
    <3>2. q + (n + 1) <= Len(t)
      BY <1>6, <2>1
    <3> QED
      BY <1>6, <3>1, <3>2 DEF Interval
  <2>5. /\ Run(t, e.key) \in Seq(Entry) /\ Len(Run(t, e.key)) = n + 1
        /\ \A j \in 1 .. n + 1 : Run(t, e.key)[j] = t[q + j]
    <3>1. n + 1 \in Nat
      OBVIOUS
    <3> QED
      BY <1>6, <2>1, <2>4, <3>1, RunIs
  <2>6. /\ Append(Run(list, e.key), e) \in Seq(Entry)
        /\ Len(Append(Run(list, e.key), e)) = n + 1
        /\ \A j \in 1 .. n : Append(Run(list, e.key), e)[j] = list[q + j]
        /\ Append(Run(list, e.key), e)[n + 1] = e
    BY <1>3, <2>3, AppendProperties
  <2>7. ASSUME NEW j \in 1 .. n + 1
        PROVE  Run(t, e.key)[j] = Append(Run(list, e.key), e)[j]
    <3>1. CASE j \in 1 .. n
      <4>1. q + j \in 1 .. N + 1 /\ q + j <= r
        BY <2>1, <3>1
      <4>2. t[q + j] = list[q + j]
        BY <1>6, <4>1
      <4> QED
        BY <2>5, <2>6, <3>1, <4>2
    <3>2. CASE j = n + 1
      <4>1. q + j \in 1 .. N + 1 /\ q + j = r + 1 /\ ~ (q + j <= r)
        BY <2>1, <3>2
      <4>2. t[q + j] = e
        BY <1>6, <4>1
      <4> QED
        BY <2>5, <2>6, <3>2, <4>2
    <3>3. j \in 1 .. n \/ j = n + 1
      OBVIOUS
    <3> QED
      BY <3>1, <3>2, <3>3
  <2> QED
    BY <2>5, <2>6, <2>7, SeqEqual
<1>8. ASSUME NEW k, k # e.key PROVE Run(t, k) = Run(list, k)
  <2>1. PICK a \in Nat, m \in Nat : Interval(list, k, a, m)
    BY IntervalExists
  <2>2. /\ Run(list, k) \in Seq(Entry) /\ Len(Run(list, k)) = m
        /\ \A j \in 1 .. m : Run(list, k)[j] = list[a + j]
    BY <2>1, RunIs
  <2>3. /\ a + m <= N
        /\ \A i \in 1 .. N : list[i].key = k <=> a < i /\ i <= a + m
    BY <1>1, <2>1 DEF Interval
  <2>4. a + m <= r \/ a >= r
    <3>1. CASE n = 0
      BY <1>3, <2>3, <3>1
    <3>2. CASE n # 0
      <4>1. r \in 1 .. N /\ p < r /\ r <= p + n
        BY <1>3, <1>4, <3>2
      <4>2. list[r].key # k
        BY <1>4, <1>8, <4>1
      <4>3. ~ (a < r /\ r <= a + m)
        BY <2>3, <4>1, <4>2
      <4> QED
        BY <4>1, <4>3
    <3> QED
      BY <3>1, <3>2
  <2> DEFINE b == IF a + m <= r THEN a ELSE a + 1
  <2>5. b \in Nat /\ b + m <= N + 1
    BY <2>3
  <2>6. ASSUME NEW i \in 1 .. N + 1 PROVE t[i].key = k <=> b < i /\ i <= b + m
    <3>1. CASE i <= r
      <4>1. i \in 1 .. N /\ t[i] = list[i]
        BY <1>5, <1>6, <3>1
      <4>2. (a < i /\ i <= a + m) <=> (b < i /\ i <= b + m)
        BY <1>5, <2>4, <3>1
      <4> QED
        BY <2>3, <4>1, <4>2
    <3>2. CASE i = r + 1
      <4>1. t[i] = e
        BY <1>5, <1>6, <3>2
      <4>2. ~ (b < i /\ i <= b + m)
        BY <1>5, <2>4, <3>2
      <4> QED
        BY <1>8, <4>1, <4>2
    <3>3. CASE i > r + 1
      <4>1. i - 1 \in 1 .. N /\ t[i] = list[i - 1]
        BY <1>5, <1>6, <3>3
      <4>2. (a < i - 1 /\ i - 1 <= a + m) <=> (b < i /\ i <= b + m)
        BY <1>5, <2>4, <3>3
      <4> QED
        BY <2>3, <4>1, <4>2
    <3> QED
      BY <1>5, <3>1, <3>2, <3>3
  <2>7. ASSUME NEW j \in 1 .. m PROVE t[b + j] = list[a + j]
    <3>1. CASE a + m <= r
      <4>1. b + j = a + j /\ a + j \in 1 .. N + 1 /\ a + j <= r
        BY <1>5, <2>3, <3>1
      <4> QED
        BY <1>6, <4>1
    <3>2. CASE ~ (a + m <= r)
      <4>1. /\ b + j \in 1 .. N + 1 /\ ~ (b + j <= r) /\ b + j # r + 1
            /\ b + j - 1 = a + j
        BY <1>5, <2>3, <2>4, <3>2
      <4>2. PICK i \in 1 .. N + 1 : i = b + j
        BY <4>1
      <4>3. i - 1 = a + j /\ ~ (i <= r) /\ i # r + 1
        BY <4>1, <4>2
      <4>4. t[i] = list[i - 1]
        BY <1>6, <4>3
      <4>5. t[b + j] = t[i] /\ list[i - 1] = list[a + j]
        BY <4>2, <4>3, Zenon
      <4> QED
        BY <4>4, <4>5
    <3> QED
      BY <3>1, <3>2
  <2> HIDE DEF b
  <2>8. Interval(t, k, b, m)
    BY <1>6, <2>5, <2>6 DEF Interval
  <2>9. /\ Run(t, k) \in Seq(Entry) /\ Len(Run(t, k)) = m
        /\ \A j \in 1 .. m : Run(t, k)[j] = t[b + j]
    BY <1>6, <2>5, <2>8, RunIs
  <2> QED
    BY <2>2, <2>7, <2>9, SeqEqual
<1> QED
  BY <1>7, <1>8 DEF t, r

(* Taking the head of a list takes the first entry of the run of its key.  *)
LEMMA TailRun ==
  ASSUME NEW list \in Seq(Entry), Contiguous(list), list # << >>
  PROVE  /\ Contiguous(Tail(list))
         /\ Run(list, Head(list).key) = <<Head(list)>> \o Run(Tail(list), Head(list).key)
         /\ \A k : k # Head(list).key => Run(Tail(list), k) = Run(list, k)
<1> DEFINE t == Tail(list)
<1>1. PICK N \in Nat : Len(list) = N + 1
  <2>1. Len(list) \in Nat /\ Len(list) # 0
    OBVIOUS
  <2>2. Len(list) - 1 \in Nat /\ Len(list) = (Len(list) - 1) + 1
    BY <2>1
  <2> QED
    BY <2>2
<1>2. PICK h \in Entry : h = list[1] /\ h = Head(list)
  OBVIOUS
<1>3. /\ t \in Seq(Entry) /\ Len(t) = N
      /\ \A i \in 1 .. N : t[i] = list[i + 1]
  BY <1>1
<1> HIDE DEF t
<1>4. Contiguous(t)
  <2>1. SUFFICES ASSUME NEW i \in 1 .. N, NEW j \in 1 .. N, i < j,
                        t[i].key = t[j].key, NEW m \in i .. j
                 PROVE  t[m].key = t[i].key
    BY <1>3 DEF Contiguous
  <2>2. /\ i + 1 \in 1 .. N + 1 /\ j + 1 \in 1 .. N + 1 /\ i + 1 < j + 1
        /\ m + 1 \in i + 1 .. j + 1 /\ m \in 1 .. N
    BY <2>1
  <2>3. list[i + 1].key = list[j + 1].key
    BY <1>3, <2>1
  <2>4. DOMAIN list = 1 .. N + 1
    BY <1>1
  <2>5. list[m + 1].key = list[i + 1].key
    BY <2>2, <2>3, <2>4 DEF Contiguous
  <2> QED
    BY <1>3, <2>2, <2>5
<1>5. ASSUME NEW k
      PROVE  \E p \in Nat, n \in Nat :
               /\ Run(t, k) \in Seq(Entry) /\ Len(Run(t, k)) = n
               /\ \A j \in 1 .. n : Run(t, k)[j] = list[p + 1 + j]
               /\ p + n <= N
               /\ \A i \in 1 .. N : list[i + 1].key = k <=> p < i /\ i <= p + n
  <2>1. PICK p \in Nat, n \in Nat : Interval(t, k, p, n)
    BY <1>3, <1>4, IntervalExists
  <2>2. /\ Run(t, k) \in Seq(Entry) /\ Len(Run(t, k)) = n
        /\ \A j \in 1 .. n : Run(t, k)[j] = t[p + j]
    <3>1. t \in Seq(Entry)
      BY <1>3
    <3>2. ASSUME NEW u \in Seq(Entry), Interval(u, k, p, n)
          PROVE  /\ Run(u, k) \in Seq(Entry) /\ Len(Run(u, k)) = n
                 /\ \A j \in 1 .. n : Run(u, k)[j] = u[p + j]
      BY <3>2, RunIs
    <3> QED
      BY <2>1, <3>1, <3>2
  <2>3. /\ p + n <= N
        /\ \A i \in 1 .. N : t[i].key = k <=> p < i /\ i <= p + n
    BY <1>3, <2>1 DEF Interval
  <2>4. ASSUME NEW j \in 1 .. n PROVE t[p + j] = list[p + 1 + j]
    <3>1. p + j \in 1 .. N /\ p + j + 1 = p + 1 + j
      BY <2>3
    <3> QED
      BY <1>3, <3>1
  <2>5. \A j \in 1 .. n : Run(t, k)[j] = list[p + 1 + j]
    BY <2>2, <2>4
  <2>6. \A i \in 1 .. N : list[i + 1].key = k <=> p < i /\ i <= p + n
    BY <1>3, <2>3
  <2> QED
    BY <2>2, <2>3, <2>5, <2>6
<1>6. Run(list, h.key) = <<h>> \o Run(t, h.key)
  <2>1. PICK p \in Nat, n \in Nat :
               /\ Run(t, h.key) \in Seq(Entry) /\ Len(Run(t, h.key)) = n
               /\ \A j \in 1 .. n : Run(t, h.key)[j] = list[p + 1 + j]
               /\ p + n <= N
               /\ \A i \in 1 .. N : list[i + 1].key = h.key <=> p < i /\ i <= p + n
    BY <1>5
  <2>2. PICK a \in Nat, m \in Nat : Interval(list, h.key, a, m)
    BY IntervalExists
  <2>3. /\ Run(list, h.key) \in Seq(Entry) /\ Len(Run(list, h.key)) = m
        /\ \A j \in 1 .. m : Run(list, h.key)[j] = list[a + j]
    BY <2>2, RunIs
  <2>4. /\ a + m <= N + 1
        /\ \A i \in 1 .. N + 1 : list[i].key = h.key <=> a < i /\ i <= a + m
    BY <1>1, <2>2 DEF Interval
  <2>5. a = 0 /\ m # 0
    <3>1. 1 \in 1 .. N + 1 /\ list[1].key = h.key
      BY <1>2
    <3>2. a < 1 /\ 1 <= a + m
      BY <2>4, <3>1
    <3> QED
      BY <3>2
  <2>6. \A i \in 1 .. N : list[i + 1].key = h.key <=> i + 1 <= m
    <3>1. \A i \in 1 .. N : i + 1 \in 1 .. N + 1 /\ 0 < i + 1
      OBVIOUS
    <3> QED
      BY <2>4, <2>5, <3>1
  <2>7. m = n + 1 /\ (n # 0 => p = 0)
    <3>1. \A i \in 1 .. N : (p < i /\ i <= p + n) <=> i + 1 <= m
      BY <2>1, <2>6
    <3>2. CASE n = 0
      <4>1. ASSUME m # 1 PROVE FALSE
        <5>1. 1 \in 1 .. N /\ 1 + 1 <= m
          BY <2>4, <2>5, <4>1
        <5>2. p < 1 /\ 1 <= p + n
          BY <3>1, <5>1
        <5> QED
          BY <3>2, <5>2
      <4> QED
        BY <3>2, <4>1
    <3>3. CASE n # 0
      <4>1. p + 1 \in 1 .. N /\ p + n \in 1 .. N
        BY <2>1, <3>3
      <4>2. p + 1 + 1 <= m /\ p + n + 1 <= m
        <5>1. /\ p < p + 1 /\ p + 1 <= p + n
              /\ p < p + n /\ p + n <= p + n
          BY <3>3
        <5> QED
          BY <3>1, <4>1, <5>1
      <4>3. 1 \in 1 .. N /\ 1 + 1 <= m
        BY <4>1, <4>2
      <4>4. p < 1
        BY <3>1, <4>3
      <4>5. m - 1 \in 1 .. N /\ m - 1 + 1 <= m
        BY <2>4, <2>5, <4>2
      <4>6. m - 1 <= p + n
        BY <3>1, <4>5
      <4> QED
        BY <4>2, <4>4, <4>6
    <3> QED
      BY <3>2, <3>3
  <2>8. /\ <<h>> \o Run(t, h.key) \in Seq(Entry)
        /\ Len(<<h>> \o Run(t, h.key)) = 1 + n
        /\ \A j \in 1 .. 1 + n :
             (<<h>> \o Run(t, h.key))[j] = IF j <= 1 THEN h ELSE Run(t, h.key)[j - 1]
    <3> DEFINE u == <<h>>
    <3>1. u \in Seq(Entry) /\ Len(u) = 1 /\ u[1] = h
      OBVIOUS
    <3> HIDE DEF u
    <3>2. /\ u \o Run(t, h.key) \in Seq(Entry)
          /\ Len(u \o Run(t, h.key)) = 1 + n
          /\ \A j \in 1 .. 1 + n :
               (u \o Run(t, h.key))[j] = IF j <= 1 THEN u[j] ELSE Run(t, h.key)[j - 1]
      <4>1. ASSUME NEW v \in Seq(Entry), Len(v) = n
            PROVE  /\ u \o v \in Seq(Entry)
                   /\ Len(u \o v) = 1 + n
                   /\ \A j \in 1 .. 1 + n :
                        (u \o v)[j] = IF j <= 1 THEN u[j] ELSE v[j - 1]
        <5>1. /\ u \o v \in Seq(Entry)
              /\ Len(u \o v) = Len(u) + Len(v)
              /\ \A j \in 1 .. Len(u) + Len(v) :
                   (u \o v)[j] = IF j <= Len(u) THEN u[j] ELSE v[j - Len(u)]
          BY <3>1, ConcatProperties
        <5> QED
          BY <3>1, <4>1, <5>1
      <4> QED
        BY <2>1, <4>1
    <3>3. \A j \in 1 .. 1 + n : j <= 1 => u[j] = h
      BY <3>1
    <3> QED
      BY <3>2, <3>3 DEF u
  <2>9. ASSUME NEW j \in 1 .. n + 1
        PROVE  Run(list, h.key)[j] = (<<h>> \o Run(t, h.key))[j]
    <3>1. Run(list, h.key)[j] = list[j]
      BY <2>3, <2>5, <2>7
    <3>2. CASE j = 1
      BY <1>2, <2>8, <3>1, <3>2
    <3>3. CASE j # 1
      <4>1. /\ j - 1 \in 1 .. n /\ ~ (j <= 1) /\ j \in 1 .. 1 + n
            /\ n # 0 /\ 0 + 1 + (j - 1) = j
        BY <3>3
      <4>2. Run(t, h.key)[j - 1] = list[j]
        BY <2>1, <2>7, <4>1
      <4> QED
        BY <2>8, <3>1, <4>1, <4>2
    <3> QED
      BY <3>2, <3>3
  <2>10. Len(<<h>> \o Run(t, h.key)) = n + 1
    BY <2>8
  <2> QED
    BY <2>3, <2>7, <2>8, <2>9, <2>10, SeqEqual
<1>7. ASSUME NEW k, k # h.key PROVE Run(t, k) = Run(list, k)
  <2>1. PICK p \in Nat, n \in Nat :
               /\ Run(t, k) \in Seq(Entry) /\ Len(Run(t, k)) = n
               /\ \A j \in 1 .. n : Run(t, k)[j] = list[p + 1 + j]
               /\ p + n <= N
               /\ \A i \in 1 .. N : list[i + 1].key = k <=> p < i /\ i <= p + n
    BY <1>5
  <2>2. Interval(list, k, p + 1, n)
    <3>1. ASSUME NEW i \in 1 .. N + 1
          PROVE  list[i].key = k <=> p + 1 < i /\ i <= p + 1 + n
      <4>1. CASE i = 1
        BY <1>2, <1>7, <4>1
      <4>2. CASE i # 1
        <5>1. /\ i - 1 \in 1 .. N /\ i - 1 + 1 = i
              /\ (p < i - 1 /\ i - 1 <= p + n) <=> (p + 1 < i /\ i <= p + 1 + n)
          BY <4>2
        <5> QED
          BY <2>1, <5>1
      <4> QED
        BY <4>1, <4>2
    <3>2. p + 1 + n <= Len(list)
      BY <1>1, <2>1
    <3> QED
      BY <1>1, <3>1, <3>2 DEF Interval
  <2>3. /\ Run(list, k) \in Seq(Entry) /\ Len(Run(list, k)) = n
        /\ \A j \in 1 .. n : Run(list, k)[j] = list[p + 1 + j]
    <3>1. PICK q \in Nat : q = p + 1
      OBVIOUS
    <3>2. Interval(list, k, q, n)
      BY <2>2, <3>1
    <3>3. /\ Run(list, k) \in Seq(Entry) /\ Len(Run(list, k)) = n
          /\ \A j \in 1 .. n : Run(list, k)[j] = list[q + j]
      BY <3>2, RunIs
    <3> QED
      BY <3>1, <3>3
  <2> QED
    BY <2>1, <2>3, SeqEqual
<1> QED
  BY <1>2, <1>4, <1>6, <1>7 DEF t

-----------------------------------------------------------------------------
(* equal_range on buckets of which every entry is in its own. *)

(* c buckets, each with contiguous keys that hash to it. *)
Hashed(d, c) ==
  /\ d \in [0 .. c - 1 -> Seq(Entry)]
  /\ \A b \in 0 .. c - 1 :
       /\ Contiguous(d[b])
       /\ \A i \in 1 .. Len(d[b]) : Hash[d[b][i].key] % c = b

LEMMA EqualRangeIs ==
  ASSUME NEW c \in Nat, NEW d, Hashed(d, c), NEW k \in Key
  PROVE  /\ c = 0 => EqualRange(d, k) = << >>
         /\ c # 0 => /\ Hash[k] % c \in 0 .. c - 1
                     /\ EqualRange(d, k) = Run(d[Hash[k] % c], k)
         /\ EqualRange(d, k) \in Seq(Entry)
<1>1. DOMAIN d = 0 .. c - 1
  BY DEF Hashed
<1>2. CASE c = 0
  <2>1. DOMAIN d = {}
    BY <1>1, <1>2
  <2>2. EqualRange(d, k) = << >>
    BY <2>1 DEF EqualRange
  <2> QED
    BY <1>2, <2>2
<1>3. CASE c # 0
  <2>1. Cardinality(DOMAIN d) = c
    <3>1. 0 \in Int /\ c - 1 \in Int /\ ~ (0 > c - 1) /\ c - 1 - 0 + 1 = c
      BY <1>3
    <3>2. Cardinality(0 .. c - 1) = IF 0 > c - 1 THEN 0 ELSE c - 1 - 0 + 1
      BY <3>1, FS_Interval
    <3> QED
      BY <1>1, <3>1, <3>2
  <2>2. Hash[k] \in Nat
    BY HashAssumption
  <2>3. Hash[k] % c \in 0 .. c - 1
    BY <1>3, <2>2
  <2>4. DOMAIN d # {}
    BY <1>1, <2>3
  <2>5. EqualRange(d, k) = Run(d[Hash[k] % c], k)
    BY <2>1, <2>4 DEF EqualRange, Run
  <2>6. PICK list \in Seq(Entry) : list = d[Hash[k] % c] /\ Contiguous(list)
    BY <2>3 DEF Hashed
  <2>7. Run(list, k) \in Seq(Entry)
    <3>1. PICK p \in Nat, n \in Nat : Interval(list, k, p, n)
      BY <2>6, IntervalExists
    <3> QED
      BY <3>1, RunIs
  <2> QED
    BY <1>3, <2>3, <2>5, <2>6, <2>7
<1> QED
  BY <1>2, <1>3

(* Empty buckets have nothing for any key. *)
LEMMA EqualRangeEmpty ==
  ASSUME NEW c \in Nat, NEW d, Hashed(d, c), Slots(d) = {}, NEW k \in Key
  PROVE  EqualRange(d, k) = << >>
<1>1. ASSUME NEW b \in 0 .. c - 1 PROVE d[b] = << >>
  <2>1. d[b] \in Seq(Entry) /\ Len(d[b]) \in Nat /\ b \in DOMAIN d
    BY DEF Hashed
  <2>2. ASSUME Len(d[b]) # 0 PROVE FALSE
    <3>1. <<b, 1>> \in {b} \X (1 .. Len(d[b]))
      BY <2>1, <2>2
    <3> QED
      BY <2>1, <3>1 DEF Slots
  <2> QED
    BY <2>1, <2>2
<1>2. Run(<< >>, k) = << >>
  BY DEF Run
<1>3. CASE c = 0
  BY <1>3, EqualRangeIs
<1>4. CASE c # 0
  <2>1. /\ Hash[k] % c \in 0 .. c - 1
        /\ EqualRange(d, k) = Run(d[Hash[k] % c], k)
    BY <1>4, EqualRangeIs
  <2> QED
    BY <1>1, <1>2, <2>1
<1> QED
  BY <1>3, <1>4

(* Place appends to what equal_range returns for the key. *)
LEMMA EqualRangePlace ==
  ASSUME cap \in Nat \ {0}, Hashed(data, cap), NEW e \in Entry, Place(e),
         Hashed(data', cap), NEW k \in Key
  PROVE  EqualRange(data', k) = IF k = e.key THEN Append(EqualRange(data, k), e)
                                             ELSE EqualRange(data, k)
<1>1. /\ Hash[k] % cap \in 0 .. cap - 1
      /\ EqualRange(data, k) = Run(data[Hash[k] % cap], k)
      /\ EqualRange(data', k) = Run(data'[Hash[k] % cap], k)
  BY EqualRangeIs
<1>2. PICK b : b = BucketOf(e.key)
  OBVIOUS
<1>3. PICK list : list = data[b]
  OBVIOUS
<1>4. data' = [data EXCEPT ![b] = InsertAt(list, RunEnd(list, e.key) + 1, e)]
  BY <1>2, <1>3 DEF Place
<1>5. e.key \in Key /\ b = Hash[e.key] % cap
  BY <1>2 DEF Entry, BucketOf
<1>6. b \in 0 .. cap - 1
  BY <1>5, EqualRangeIs
<1>7. list \in Seq(Entry) /\ Contiguous(list)
  BY <1>3, <1>6 DEF Hashed
<1>8. DOMAIN data = 0 .. cap - 1 /\ data = [x \in 0 .. cap - 1 |-> data[x]]
  BY DEF Hashed
<1>9. CASE Hash[k] % cap = b
  <2>1. data'[b] = InsertAt(list, RunEnd(list, e.key) + 1, e)
    BY <1>4, <1>6, <1>8
  <2>2. EqualRange(data', k) = Run(data'[b], k) /\ EqualRange(data, k) = Run(list, k)
    BY <1>1, <1>3, <1>9
  <2>3. CASE k = e.key
    <3>1. Run(data'[b], e.key) = Append(Run(list, e.key), e)
      BY <1>7, <2>1, InsertRun
    <3> QED
      BY <2>2, <2>3, <3>1
  <2>4. CASE k # e.key
    <3>1. Run(data'[b], k) = Run(list, k)
      BY <1>7, <2>1, <2>4, InsertRun
    <3> QED
      BY <2>2, <2>4, <3>1
  <2> QED
    BY <2>3, <2>4
<1>10. CASE Hash[k] % cap # b
  <2>1. data'[Hash[k] % cap] = data[Hash[k] % cap]
    BY <1>1, <1>4, <1>8, <1>10
  <2> QED
    BY <1>1, <1>5, <1>10, <2>1
<1> QED
  BY <1>9, <1>10

(* Taking the head of a bucket takes it off what equal_range returns for   *)
(* its key.                                                                *)
LEMMA EqualRangeTake ==
  ASSUME NEW c \in Nat, NEW d, Hashed(d, c), NEW b \in 0 .. c - 1, d[b] # << >>,
         NEW f \in [0 .. c - 1 -> Seq(Entry)], f[b] = Tail(d[b]),
         \A a \in 0 .. c - 1 : a # b => f[a] = d[a]
  PROVE  /\ Hashed(f, c)
         /\ Head(d[b]) \in Entry
         /\ \A k \in Key : EqualRange(d, k) = IF k = Head(d[b]).key
                                              THEN <<Head(d[b])>> \o EqualRange(f, k)
                                              ELSE EqualRange(f, k)
<1>1. PICK list \in Seq(Entry) : /\ list = d[b] /\ list # << >> /\ Contiguous(list)
                                /\ \A i \in 1 .. Len(list) : Hash[list[i].key] % c = b
  BY DEF Hashed
<1>2. PICK h : h = Head(list)
  OBVIOUS
<1>3. /\ Len(list) \in Nat /\ 1 \in 1 .. Len(list) /\ h \in Entry /\ h = list[1]
      /\ Tail(list) \in Seq(Entry) /\ Len(Tail(list)) = Len(list) - 1
      /\ \A i \in 1 .. Len(list) - 1 : Tail(list)[i] = list[i + 1]
  BY <1>1, <1>2
<1>4. /\ Contiguous(Tail(list))
      /\ Run(list, h.key) = <<h>> \o Run(Tail(list), h.key)
      /\ \A k : k # h.key => Run(Tail(list), k) = Run(list, k)
  BY <1>1, <1>2, TailRun
<1>5. /\ d \in [0 .. c - 1 -> Seq(Entry)]
      /\ f[b] = Tail(list)
      /\ \A a \in 0 .. c - 1 : a # b => f[a] = d[a]
  BY <1>1 DEF Hashed
<1>6. Hashed(f, c)
  <2>1. f \in [0 .. c - 1 -> Seq(Entry)]
    BY <1>1, <1>3, <1>5
  <2>2. ASSUME NEW a \in 0 .. c - 1
        PROVE  /\ Contiguous(f[a])
               /\ \A i \in 1 .. Len(f[a]) : Hash[f[a][i].key] % c = a
    <3>1. CASE a # b
      BY <1>5, <3>1 DEF Hashed
    <3>2. CASE a = b
      <4>1. ASSUME NEW i \in 1 .. Len(Tail(list)) PROVE Hash[Tail(list)[i].key] % c = b
        <5>1. i \in 1 .. Len(list) - 1 /\ i + 1 \in 1 .. Len(list)
          BY <1>3
        <5> QED
          BY <1>1, <1>3, <5>1
      <4> QED
        BY <1>4, <1>5, <3>2, <4>1
    <3> QED
      BY <3>1, <3>2
  <2> QED
    BY <2>1, <2>2 DEF Hashed
<1>7. Hash[h.key] % c = b /\ h.key \in Key /\ c # 0
  BY <1>1, <1>3 DEF Entry
<1>8. ASSUME NEW k \in Key
      PROVE  EqualRange(d, k) = IF k = h.key THEN <<h>> \o EqualRange(f, k)
                                             ELSE EqualRange(f, k)
  <2>1. /\ Hash[k] % c \in 0 .. c - 1
        /\ EqualRange(d, k) = Run(d[Hash[k] % c], k)
        /\ EqualRange(f, k) = Run(f[Hash[k] % c], k)
    BY <1>6, <1>7, EqualRangeIs
  <2>2. CASE Hash[k] % c # b
    <3>1. f[Hash[k] % c] = d[Hash[k] % c] /\ k # h.key
      BY <1>5, <1>7, <2>1, <2>2
    <3> QED
      BY <2>1, <3>1
  <2>3. CASE Hash[k] % c = b
    <3>1. EqualRange(d, k) = Run(list, k) /\ EqualRange(f, k) = Run(Tail(list), k)
      BY <1>1, <1>5, <2>1, <2>3
    <3> QED
      BY <1>4, <3>1
  <2> QED
    BY <2>2, <2>3
<1> QED
  BY <1>1, <1>2, <1>3, <1>6, <1>8

-----------------------------------------------------------------------------
(* The invariant: during a rehash the old buckets are in order too. *)
OldBuckets == \E c \in Nat : Hashed(src, c)

(* The entries a client sees for a key, oldest first. *)
Seen(k) == EqualRange(data, k) \o EqualRange(src, k)

LEMMA NewHashed == IInv => cap \in Nat /\ Hashed(data, cap)
<1>1. SUFFICES ASSUME IInv PROVE cap \in Nat /\ Hashed(data, cap)
  OBVIOUS
<1>2. cap \in Nat /\ data \in [0 .. cap - 1 -> Seq(Entry)]
  BY <1>1 DEF IInv, TypeOK
<1>3. \A b \in 0 .. cap - 1 : DOMAIN data[b] = 1 .. Len(data[b])
  BY <1>2
<1>4. QED
  BY <1>1, <1>2, <1>3 DEF IInv, EntriesInTheirBucket, KeysContiguous, Hashed

LEMMA FreshHashed == Hashed(FreshBuckets(0), 0) /\ Slots(FreshBuckets(0)) = {}
<1>1. Hashed(FreshBuckets(0), 0)
  BY DEF FreshBuckets, Hashed
<1> QED
  BY <1>1, SlotsFresh

LEMMA SameContent ==
  ASSUME \A k \in Key : Seen(k)' = Seen(k)
  PROVE  Content' = Content
BY DEF Content, Seen

LEMMA MoreContent ==
  ASSUME NEW e \in Entry, \A k \in Key : Seen(k) \in Seq(Entry),
         \A k \in Key : Seen(k)' = IF k = e.key THEN Append(Seen(k), e) ELSE Seen(k)
  PROVE  Content' = [Content EXCEPT ![e.key] = Append(@, e.val)]
<1> DEFINE Vals(es) == [i \in DOMAIN es |-> es[i].val]
<1>1. Content = [k \in Key |-> Vals(Seen(k))] /\ e.key \in Key
  BY DEF Content, Seen, Entry
<1>2. Content' = [k \in Key |-> Vals(Seen(k)')]
  BY DEF Content, Seen
<1>3. ASSUME NEW es \in Seq(Entry)
      PROVE  Vals(Append(es, e)) = Append(Vals(es), e.val)
  <2>1. PICK N \in Nat : N = Len(es) /\ DOMAIN es = 1 .. N
    OBVIOUS
  <2>2. /\ Append(es, e) \in Seq(Entry) /\ Len(Append(es, e)) = N + 1
        /\ DOMAIN Append(es, e) = 1 .. N + 1
        /\ \A i \in 1 .. N : Append(es, e)[i] = es[i]
        /\ Append(es, e)[N + 1] = e
    BY <2>1, AppendProperties
  <2>3. ASSUME NEW i \in 1 .. N PROVE es[i].val \in Value
    <3>1. es[i] \in Entry
      BY <2>1
    <3> QED
      BY <3>1 DEF Entry
  <2>4. /\ Vals(es) \in Seq(Value) /\ Len(Vals(es)) = N
        /\ \A i \in 1 .. N : Vals(es)[i] = es[i].val
    BY <2>1, <2>3
  <2>5. e.val \in Value
    BY DEF Entry
  <2>6. /\ Append(Vals(es), e.val) \in Seq(Value)
        /\ Len(Append(Vals(es), e.val)) = N + 1
        /\ \A i \in 1 .. N : Append(Vals(es), e.val)[i] = es[i].val
        /\ Append(Vals(es), e.val)[N + 1] = e.val
    <3> HIDE DEF Vals
    <3> QED
      BY <2>4, <2>5, AppendProperties
  <2>7. /\ Vals(Append(es, e)) = [i \in 1 .. N + 1 |-> Append(es, e)[i].val]
    BY <2>2
  <2>8. \A i \in 1 .. N + 1 : i \in 1 .. N \/ i = N + 1
    OBVIOUS
  <2>9. /\ Append(Vals(es), e.val)
             = [i \in 1 .. N + 1 |-> Append(Vals(es), e.val)[i]]
    <3> HIDE DEF Vals
    <3> QED
      BY <2>6
  <2>10. \A i \in 1 .. N + 1 : Append(es, e)[i].val = Append(Vals(es), e.val)[i]
    <3> HIDE DEF Vals
    <3> QED
      BY <2>2, <2>6, <2>8
  <2> HIDE DEF Vals
  <2> QED
    BY <2>7, <2>9, <2>10
<1> HIDE DEF Vals
<1>4. \A k \in Key : Vals(Seen(k)') = IF k = e.key THEN Append(Vals(Seen(k)), e.val)
                                                   ELSE Vals(Seen(k))
  BY <1>3
<1>5. [Content EXCEPT ![e.key] = Append(@, e.val)]
        = [k \in Key |-> IF k = e.key THEN Append(Vals(Seen(k)), e.val)
                                      ELSE Vals(Seen(k))]
  BY <1>1
<1> QED
  BY <1>2, <1>4, <1>5
(* In every state, what a client sees of a key is a list of entries. *)
LEMMA SeenType ==
  ASSUME IInv, OldBuckets, NEW k \in Key
  PROVE  /\ EqualRange(data, k) \in Seq(Entry)
         /\ EqualRange(src, k) \in Seq(Entry)
         /\ Seen(k) \in Seq(Entry)
<1>1. EqualRange(data, k) \in Seq(Entry)
  BY NewHashed, EqualRangeIs
<1>2. EqualRange(src, k) \in Seq(Entry)
  BY EqualRangeIs DEF OldBuckets
<1>3. ASSUME NEW s \in Seq(Entry), NEW t \in Seq(Entry) PROVE s \o t \in Seq(Entry)
  OBVIOUS
<1> QED
  BY <1>1, <1>2, <1>3 DEF Seen

(* When nothing is left in the old buckets the new ones tell all. *)
LEMMA SeenNoOld ==
  ASSUME IInv, OldBuckets, Slots(src) = {}, NEW k \in Key
  PROVE  Seen(k) = EqualRange(data, k)
<1>1. EqualRange(src, k) = << >>
  BY EqualRangeEmpty DEF OldBuckets
<1>2. EqualRange(data, k) \in Seq(Entry)
  BY SeenType
<1>3. ASSUME NEW s \in Seq(Entry) PROVE s \o << >> = s
  BY ConcatEmptySeq
<1> QED
  BY <1>1, <1>2, <1>3 DEF Seen

-----------------------------------------------------------------------------
LEMMA InitOldBuckets == Init => OldBuckets
BY FreshHashed DEF Init, OldBuckets

(* The empty table is the empty multimap. *)
LEMMA InitRefines == Init => Abs!Init
<1>1. SUFFICES ASSUME Init PROVE Content = [k \in Key |-> << >>]
  BY DEF Abs!Init
<1>2. IInv /\ OldBuckets /\ Slots(src) = {} /\ Slots(data) = {} /\ Hashed(data, 0)
  BY <1>1, InitIInv, InitOldBuckets, FreshHashed DEF Init
<1>3. ASSUME NEW k \in Key PROVE Seen(k) = << >>
  <2>1. Seen(k) = EqualRange(data, k)
    BY <1>2, SeenNoOld
  <2>2. EqualRange(data, k) = << >>
    BY <1>2, EqualRangeEmpty
  <2> QED
    BY <2>1, <2>2
<1>4. Content = [k \in Key |-> [i \in DOMAIN Seen(k) |-> Seen(k)[i].val]]
  BY DEF Content, Seen
<1>5. \A k \in Key : [i \in DOMAIN Seen(k) |-> Seen(k)[i].val] = << >>
  BY <1>3
<1> QED
  BY <1>4, <1>5

(* The start of a rehash hides nothing: the table becomes the old buckets. *)
LEMMA StartRefines ==
  ASSUME IInv, IInv', OldBuckets, pc = "idle", NEW count, StartRehash(count)
  PROVE  OldBuckets' /\ Content' = Content
<1>1. /\ data' = FreshBuckets(NewCapacity(RehashCount(count))) /\ src' = data
      /\ Slots(src) = {}
  BY DEF StartRehash, IInv, Stages
<1>2. OldBuckets'
  BY <1>1, NewHashed DEF OldBuckets
<1>3. Slots(data') = {} /\ cap' \in Nat /\ Hashed(data', cap')
  <2>1. Slots(data') = {}
    BY <1>1, SlotsFresh
  <2>2. (cap \in Nat /\ Hashed(data, cap))'
    BY NewHashed, PTL
  <2> QED
    BY <2>1, <2>2
<1>4. ASSUME NEW k \in Key PROVE Seen(k)' = Seen(k)
  <2>1. EqualRange(data', k) = << >>
    BY <1>3, EqualRangeEmpty
  <2>2. EqualRange(src', k) = EqualRange(data, k)
    BY <1>1
  <2>3. Seen(k) = EqualRange(data, k) /\ EqualRange(data, k) \in Seq(Entry)
    BY <1>1, SeenNoOld, SeenType
  <2>4. ASSUME NEW s \in Seq(Entry) PROVE << >> \o s = s
    BY ConcatEmptySeq
  <2>5. Seen(k)' = EqualRange(data', k) \o EqualRange(src', k)
    BY DEF Seen
  <2> QED
    BY <2>1, <2>2, <2>3, <2>4, <2>5
<1> QED
  BY <1>2, <1>4, SameContent

(* An entry that is moved goes from the front of the old run of its key to *)
(* the end of the new one.                                                 *)
LEMMA MoveRefines ==
  ASSUME IInv, IInv', OldBuckets, MoveEntry
  PROVE  OldBuckets' /\ Content' = Content
<1>1. PICK b \in DOMAIN src : /\ src[b] # << >>
                              /\ Place(Head(src[b]))
                              /\ src' = [src EXCEPT ![b] = Tail(@)]
  BY DEF MoveEntry
<1>2. PICK c \in Nat : Hashed(src, c)
  BY DEF OldBuckets
<1>3. b \in 0 .. c - 1
  BY <1>1, <1>2 DEF Hashed
<1>4. PICK e : e = Head(src[b])
  OBVIOUS
<1>5. /\ Hashed(src', c) /\ e \in Entry
      /\ \A k \in Key : EqualRange(src, k) = IF k = e.key
                                              THEN <<e>> \o EqualRange(src', k)
                                              ELSE EqualRange(src', k)
  <2>1. PICK d : d = src
    OBVIOUS
  <2>2. PICK f : f = [d EXCEPT ![b] = Tail(@)]
    OBVIOUS
  <2>3. f = src' /\ d[b] # << >> /\ Hashed(d, c)
    BY <1>1, <1>2, <2>1, <2>2
  <2>4. /\ f \in [0 .. c - 1 -> Seq(Entry)] /\ f[b] = Tail(d[b])
        /\ \A a \in 0 .. c - 1 : a # b => f[a] = d[a]
    BY <1>3, <2>2, <2>3 DEF Hashed
  <2>5. /\ Hashed(f, c)
        /\ Head(d[b]) \in Entry
        /\ \A k \in Key : EqualRange(d, k) = IF k = Head(d[b]).key
                                              THEN <<Head(d[b])>> \o EqualRange(f, k)
                                              ELSE EqualRange(f, k)
    BY <1>3, <2>3, <2>4, EqualRangeTake
  <2> QED
    BY <1>4, <2>1, <2>3, <2>5
<1>6. cap' = cap /\ cap \in Nat \ {0} /\ Hashed(data, cap) /\ Hashed(data', cap)
  <2>1. cap' = cap
    BY DEF MoveEntry
  <2>2. Cardinality(Slots(src)) \in Nat \ {0}
    BY <1>1, SlotsShrink DEF IInv, TypeOK, Finite
  <2>3. sz \in Nat /\ maxLoad \in Nat /\ Waiting \in {0, 1} /\ Total <= maxLoad
    BY DEF IInv, TypeOK, Waiting, Stages
  <2>4. cap # 0
    BY <2>2, <2>3 DEF IInv, Total
  <2>5. (cap \in Nat /\ Hashed(data, cap))'
    BY NewHashed, PTL
  <2> QED
    BY <2>1, <2>4, <2>5, NewHashed
<1>7. Place(e)
  BY <1>1, <1>4
<1>8. ASSUME NEW k \in Key PROVE Seen(k)' = Seen(k)
  <2>1. EqualRange(data', k) = IF k = e.key THEN Append(EqualRange(data, k), e)
                                            ELSE EqualRange(data, k)
    BY <1>5, <1>6, <1>7, EqualRangePlace
  <2>2. Seen(k)' = EqualRange(data', k) \o EqualRange(src', k)
    BY DEF Seen
  <2>3. EqualRange(data, k) \in Seq(Entry) /\ EqualRange(src', k) \in Seq(Entry)
    BY <1>2, <1>5, SeenType, EqualRangeIs
  <2>4. ASSUME NEW s \in Seq(Entry), NEW t \in Seq(Entry)
        PROVE  Append(s, e) \o t = s \o (<<e>> \o t)
    <3>1. <<e>> \in Seq(Entry) /\ Append(s, e) = s \o <<e>>
      BY <1>5, AppendIsConcat
    <3> DEFINE u == <<e>>
    <3>2. u \in Seq(Entry) /\ Append(s, e) = s \o u
      BY <3>1
    <3> HIDE DEF u
    <3>3. (s \o u) \o t = s \o (u \o t)
      BY <3>2, ConcatAssociative
    <3> QED
      BY <3>2, <3>3 DEF u
  <2>5. CASE k = e.key
    <3>1. EqualRange(src, k) = <<e>> \o EqualRange(src', k)
      BY <1>5, <2>5
    <3>2. Append(EqualRange(data, k), e) \o EqualRange(src', k)
            = EqualRange(data, k) \o (<<e>> \o EqualRange(src', k))
      BY <2>3, <2>4
    <3> QED
      BY <2>1, <2>2, <2>5, <3>1, <3>2 DEF Seen
  <2>6. CASE k # e.key
    <3>1. EqualRange(src, k) = EqualRange(src', k)
      BY <1>5, <2>6
    <3> QED
      BY <2>1, <2>2, <2>6, <3>1 DEF Seen
  <2> QED
    BY <2>5, <2>6
<1>9. OldBuckets'
  BY <1>5 DEF OldBuckets
<1> QED
  BY <1>8, <1>9, SameContent

(* The end of a rehash drops buckets that are empty. *)
LEMMA FinishRefines ==
  ASSUME IInv, IInv', OldBuckets, FinishRehash
  PROVE  OldBuckets' /\ Content' = Content
<1>1. Slots(src) = {}
  BY DEF FinishRehash, Slots
<1>2. src' = FreshBuckets(0) /\ data' = data
  BY DEF FinishRehash
<1>3. OldBuckets' /\ Slots(src') = {}
  BY <1>2, FreshHashed DEF OldBuckets
<1>4. ASSUME NEW k \in Key PROVE Seen(k)' = Seen(k)
  <2>1. EqualRange(src', k) = << >> /\ EqualRange(src, k) = << >>
    BY <1>1, <1>2, FreshHashed, EqualRangeEmpty DEF OldBuckets
  <2> QED
    BY <1>2, <2>1 DEF Seen
<1> QED
  BY <1>3, <1>4, SameContent

(* Outside a rehash, an insertion is seen as the last value of its key. *)
LEMMA PlaceRefines ==
  ASSUME IInv, IInv', OldBuckets, Slots(src) = {}, NEW e \in Entry, Place(e),
         UNCHANGED <<cap, src>>, cap # 0
  PROVE  OldBuckets' /\ Abs!Emplace(e.key, e.val)
<1>1. cap \in Nat \ {0} /\ Hashed(data, cap) /\ Hashed(data', cap)
  <2>1. (cap \in Nat /\ Hashed(data, cap))'
    BY NewHashed, PTL
  <2> QED
    BY <2>1, NewHashed
<1>2. OldBuckets'
  BY DEF OldBuckets
<1>3. ASSUME NEW k \in Key
      PROVE  Seen(k)' = IF k = e.key THEN Append(Seen(k), e) ELSE Seen(k)
  <2>1. EqualRange(data', k) = IF k = e.key THEN Append(EqualRange(data, k), e)
                                            ELSE EqualRange(data, k)
    BY <1>1, EqualRangePlace
  <2>2. Seen(k) = EqualRange(data, k)
    BY SeenNoOld
  <2>3. EqualRange(src, k) = << >> /\ EqualRange(src', k) = << >>
    BY EqualRangeEmpty DEF OldBuckets
  <2>4. ASSUME NEW s \in Seq(Entry) PROVE s \o << >> = s
    BY ConcatEmptySeq
  <2>5. EqualRange(data', k) \in Seq(Entry)
    BY <1>1, EqualRangeIs
  <2>6. Seen(k)' = EqualRange(data', k)
    <3>1. Seen(k)' = EqualRange(data', k) \o EqualRange(src', k)
      BY DEF Seen
    <3> QED
      BY <2>3, <2>4, <2>5, <3>1
  <2> QED
    BY <2>1, <2>2, <2>6
<1>4. \A k \in Key : Seen(k) \in Seq(Entry)
  BY SeenType
<1>5. Content' = [Content EXCEPT ![e.key] = Append(@, e.val)]
  BY <1>3, <1>4, MoreContent
<1> QED
  BY <1>2, <1>5 DEF Abs!Emplace

(* The table has buckets when there is room for one more entry. *)
LEMMA EmplaceRefines ==
  ASSUME IInv, IInv', OldBuckets, NEW e \in Entry, Emplace(e)
  PROVE  OldBuckets' /\ Abs!Emplace(e.key, e.val)
<1>1. Slots(src) = {} /\ Cardinality(Slots(src)) = 0 /\ pending = NoEntry
  BY FS_EmptySet DEF IInv, Stages, Emplace
<1>2. sz \in Nat /\ maxLoad \in Nat /\ sz <= maxLoad /\ sz # maxLoad
  BY <1>1 DEF IInv, TypeOK, Stages, Total, Waiting, Emplace, MustGrow
<1>3. cap # 0
  BY <1>2 DEF IInv
<1> QED
  BY <1>1, <1>3, PlaceRefines DEF Emplace

LEMMA InsertPendingRefines ==
  ASSUME IInv, IInv', OldBuckets, InsertPending
  PROVE  OldBuckets' /\ Abs!Emplace(pending.key, pending.val)
<1>1. /\ Slots(src) = {} /\ pending \in Entry /\ Cardinality(Slots(src)) = 0
      /\ sz \in Nat /\ maxLoad \in Nat
  BY FS_EmptySet DEF IInv, TypeOK, Stages, InsertPending
<1>2. sz + 1 <= maxLoad
  BY <1>1, NoEntryAssumption DEF IInv, Stages, Total, Waiting
<1>3. cap # 0
  BY <1>1, <1>2 DEF IInv
<1> QED
  BY <1>1, <1>3, PlaceRefines DEF InsertPending

-----------------------------------------------------------------------------
(* Every step is an insertion into the multimap or changes nothing of it. *)
LEMMA NextRefines ==
  ASSUME IInv, OldBuckets, [Next]_vars
  PROVE  OldBuckets' /\ [Abs!Next]_Content
<1>1. IInv'
  BY NextIInv
<1>2. ASSUME NEW e \in Entry, Abs!Emplace(e.key, e.val) PROVE Abs!Next
  <2>1. e.key \in Key /\ e.val \in Value
    BY DEF Entry
  <2> QED
    BY <1>2, <2>1 DEF Abs!Next
<1>3. CASE \E count \in ReserveCounts : Reserve(count)
  BY <1>1, <1>3, StartRefines DEF Reserve, StartReserve
<1>4. CASE \E e \in Entry : Emplace(e)
  BY <1>1, <1>2, <1>4, EmplaceRefines
<1>5. CASE \E e \in Entry : EmplaceGrow(e)
  BY <1>1, <1>5, StartRefines DEF EmplaceGrow, StartReserve
<1>6. CASE MoveEntry
  BY <1>1, <1>6, MoveRefines
<1>7. CASE FinishRehash
  BY <1>1, <1>7, FinishRefines
<1>8. CASE InsertPending
  <2>1. pending \in Entry
    BY <1>8 DEF IInv, Stages, InsertPending
  <2> QED
    BY <1>1, <1>2, <1>8, <2>1, InsertPendingRefines
<1>9. CASE UNCHANGED vars
  <2>1. UNCHANGED <<data, src>>
    BY <1>9 DEF vars
  <2>2. OldBuckets'
    BY <2>1 DEF OldBuckets
  <2>3. \A k \in Key : Seen(k)' = Seen(k)
    BY <2>1 DEF Seen
  <2> QED
    BY <2>2, <2>3, SameContent
<1> QED
  BY <1>3, <1>4, <1>5, <1>6, <1>7, <1>8, <1>9 DEF Next

(* Hash_Multimap implements the abstract multimap: a client sees the       *)
(* values of each key in insertion order, and no rehash changes that.      *)
THEOREM HashMultimapImplements == Spec => ImplementsMultimap
<1>1. Init => Abs!Init /\ OldBuckets
  BY InitRefines, InitOldBuckets
<1>2. IInv /\ OldBuckets /\ [Next]_vars => OldBuckets' /\ [Abs!Next]_Content
  BY NextRefines
<1> QED
  BY <1>1, <1>2, HashMultimapIInv, PTL DEF Spec, ImplementsMultimap, Abs!Spec
===============================================================================
