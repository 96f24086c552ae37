---------------------------- MODULE HashMultimap ----------------------------
(***************************************************************************)
(* nuspell::Hash_Multimap, the container behind Aff_Data::words: a vector  *)
(* of buckets, each a singly linked list in which the entries of one key   *)
(* are kept together.  The table grows when an insertion finds             *)
(*     sz == max_load_factor_capacity                                      *)
(* and only then: the test is an equality, so it protects the table only   *)
(* as long as no operation ever steps over the limit.                      *)
(*                                                                         *)
(* An operation that rehashes is split into its steps: the entries of the  *)
(* old buckets are moved one at a time into the fresh table n of rehash(). *)
(* While that goes on, data, cap, sz and maxLoad describe n, and src holds *)
(* what is left in the old buckets; the final data.swap(n.data) is thus a  *)
(* renaming.  The hash mask h & (data.size() - 1) is h % cap because every *)
(* capacity is a power of two.                                             *)
(***************************************************************************)
EXTENDS Integers, Sequences, FiniteSets, FiniteSetsExt, SequencesExt

CONSTANTS
  Key,          (* The keys (words).                                       *)
  Value,        (* What is stored with them (flag sets).                   *)
  NoEntry,      (* Stands for "no insertion waits for the rehash".         *)
  Hash,         (* std::hash of each key.                                  *)
  Capacities,   (* The capacities 16 * 2^j of rehash(), or smaller ones.   *)
  MaxSize,      (* Bound of the model: the most entries inserted.          *)
  ReserveCounts,(* Bound of the model: the counts clients give to reserve. *)
  MaxCount      (* Bound of the model: no rehash(count) has a larger one.   *)

Entry == [key : Key, val : Value]

CeilDiv(a, b) == (a + b - 1) \div b

(* reserve(count) asks rehash for std::ceil(count / max_load_fact). *)
CountFor(count) == CeilDiv(8 * count, 7)

ASSUME SizesAssumption ==
  /\ MaxSize \in Nat
  /\ ReserveCounts \subseteq Nat
  /\ MaxCount \in Nat
  /\ \A n \in ReserveCounts \cup {MaxSize} : CountFor(n) <= MaxCount

ASSUME HashAssumption == Hash \in [Key -> Nat]

ASSUME NoEntryAssumption == NoEntry \notin Entry

(* Doubling from the smallest capacity passes every count in use. *)
ASSUME CapacitiesAssumption ==
  /\ Capacities \subseteq Nat \ {0}
  /\ \A n \in 0 .. MaxCount : \E c \in Capacities : n < c

VARIABLES
  data,     (* The buckets: a function from 0 .. cap-1 to lists of entries. *)
  cap,      (* data.size().                                                 *)
  sz,       (* The number of entries.                                       *)
  maxLoad,  (* max_load_factor_capacity.                                    *)
  src,      (* During a rehash, what is left of the old buckets.            *)
  pc,       (* "idle", "move" (in rehash) or "insert" (rehash returned).    *)
  pending,  (* The entry whose insertion caused the rehash, or NoEntry.     *)
  inserted  (* History: how many entries clients have inserted so far.  No  *)
            (* step reads it; sz of the code is compared with it.           *)

vars == <<data, cap, sz, maxLoad, src, pc, pending, inserted>>

-----------------------------------------------------------------------------
(* std::ceil(capacity * max_load_fact), with max_load_fact = 7/8. *)
MaxLoadOf(c) == CeilDiv(7 * c, 8)

(* The first capacity of the doubling loop that exceeds count. *)
NewCapacity(count) == Min({c \in Capacities : count < c})

(* Faulty variant: entries are always appended to the list. *)
RunEnd_Append(list, k) == Len(list)

(* The index of the last entry of the first run of k, where a new entry of *)
(* k goes; the end of the list if k does not occur.                        *)
RunEnd(list, k) ==
  LET ends == {i \in DOMAIN list :
                 /\ list[i].key = k
                 /\ i = Len(list) \/ list[i + 1].key # k}
  IN IF ends = {} THEN Len(list) ELSE Min(ends)

(* Faulty variant: the mask of the first table is kept when the table grows. *)
BucketOf_StaleMask(k) == Hash[k] % Min(Capacities)

BucketOf(k) == Hash[k] % cap

(* Faulty variant: a new entry goes to the front of its bucket. *)
Place_PushFront(e) ==
  /\ data' = [data EXCEPT ![BucketOf(e.key)] = <<e>> \o @]
  /\ sz' = sz + 1

(* Faulty variant: the entry is spliced in but not counted. *)
Place_Uncounted(e) ==
  /\ data' = [data EXCEPT ![BucketOf(e.key)] =
                InsertAt(@, RunEnd(@, e.key) + 1, e)]
  /\ UNCHANGED sz

(* The part of prepare_for_insert after the test for growth, and the       *)
(* insert_after or splice_after that follows it.                           *)
Place(e) ==
  /\ data' = [data EXCEPT ![BucketOf(e.key)] =
                InsertAt(@, RunEnd(@, e.key) + 1, e)]
  /\ sz' = sz + 1

(* Faulty variant: a client's count is not raised to what size() needs. *)
RehashCount_NoMinimum(count) == count

(* if (count < size() / max_load_fact) count = size() / max_load_fact *)
RehashCount(count) == IF count < (8 * sz) \div 7 THEN (8 * sz) \div 7 ELSE count

FreshBuckets(c) == [b \in 0 .. c - 1 |-> << >>]

(* rehash(count) up to the loop that moves the entries. *)
StartRehash(count) ==
  LET c == NewCapacity(RehashCount(count))
  IN /\ data' = FreshBuckets(c)
     /\ cap' = c
     /\ sz' = 0
     /\ maxLoad' = MaxLoadOf(c)
     /\ src' = data
     /\ pc' = "move"

StartReserve(count) == StartRehash(CountFor(count))

(* Faulty variant: the table grows only when it is full. *)
MustGrow_WhenFull == sz = cap

(* The test for growth in prepare_for_insert. *)
MustGrow == sz = maxLoad

-----------------------------------------------------------------------------
Init ==
  /\ data = FreshBuckets(0)
  /\ cap = 0
  /\ sz = 0
  /\ maxLoad = 0
  /\ src = FreshBuckets(0)
  /\ pc = "idle"
  /\ pending = NoEntry
  /\ inserted = 0

(* reserve(count), called by a client. *)
Reserve(count) ==
  /\ pc = "idle"
  /\ StartReserve(count)
  /\ UNCHANGED <<pending, inserted>>

(* insert or emplace that finds room. *)
Emplace(e) ==
  /\ pc = "idle"
  /\ sz < MaxSize
  /\ ~ MustGrow
  /\ Place(e)
  /\ inserted' = inserted + 1
  /\ UNCHANGED <<cap, maxLoad, src, pc, pending>>

(* insert or emplace that has to grow the table first. *)
EmplaceGrow(e) ==
  /\ pc = "idle"
  /\ sz < MaxSize
  /\ MustGrow
  /\ StartReserve(sz + 1)
  /\ pending' = e
  /\ inserted' = inserted + 1

(* Faulty variant: a bucket is let go of when its first entry is moved. *)
MoveEntry_Drop ==
  /\ pc = "move"
  /\ \E b \in DOMAIN src :
       /\ src[b] # << >>
       /\ \A a \in DOMAIN src : src[a] # << >> => b <= a
       /\ Place(Head(src[b]))
       /\ src' = [src EXCEPT ![b] = << >>]
  /\ UNCHANGED <<cap, maxLoad, pc, pending, inserted>>

(* One round of the inner loop of rehash: n.insert(std::move(x)) for the   *)
(* first entry x that is left.  That n.insert never has to grow n itself   *)
(* is NoNestedRehash, a part of the invariant LoadBound.                   *)
MoveEntry ==
  /\ pc = "move"
  /\ \E b \in DOMAIN src :
       /\ src[b] # << >>
       /\ \A a \in DOMAIN src : src[a] # << >> => b <= a
       /\ Place(Head(src[b]))
       /\ src' = [src EXCEPT ![b] = Tail(@)]
  /\ UNCHANGED <<cap, maxLoad, pc, pending, inserted>>

(* rehash returns; an insertion that waited for it goes on. *)
FinishRehash ==
  /\ pc = "move"
  /\ \A b \in DOMAIN src : src[b] = << >>
  /\ src' = FreshBuckets(0)
  /\ pc' = IF pending = NoEntry THEN "idle" ELSE "insert"
  /\ UNCHANGED <<data, cap, sz, maxLoad, pending, inserted>>

InsertPending ==
  /\ pc = "insert"
  /\ Place(pending)
  /\ pending' = NoEntry
  /\ pc' = "idle"
  /\ UNCHANGED <<cap, maxLoad, src, inserted>>

Next ==
  \/ \E count \in ReserveCounts : Reserve(count)
  \/ \E e \in Entry : Emplace(e)
  \/ \E e \in Entry : EmplaceGrow(e)
  \/ MoveEntry
  \/ FinishRehash
  \/ InsertPending

Spec == Init /\ [][Next]_vars

-----------------------------------------------------------------------------
(* equal_range(k) in the buckets d: the first run of k in its bucket. *)
EqualRange(d, k) ==
  IF DOMAIN d = {} THEN << >>
  ELSE LET list == d[Hash[k] % Cardinality(DOMAIN d)]
           hits == {i \in DOMAIN list : list[i].key = k}
       IN IF hits = {} THEN << >>
          ELSE SubSeq(list, Min(hits), RunEnd(list, k))

(* The values a client sees for each key; in the middle of a rehash, those *)
(* already moved followed by those still in the old buckets.               *)
Content ==
  [k \in Key |->
     LET es == EqualRange(data, k) \o EqualRange(src, k)
     IN [i \in DOMAIN es |-> es[i].val]]

Abs == INSTANCE Multimap WITH content <- Content

-----------------------------------------------------------------------------
(* The positions at which the buckets d hold an entry. *)
Slots(d) == UNION {{b} \X (1 .. Len(d[b])) : b \in DOMAIN d}

(* The variables hold values of their types: as many buckets as the        *)
(* capacity says, each a list of entries, and counters that never go       *)
(* below zero.                                                             *)
TypeOK ==
  /\ cap \in Nat
  /\ data \in [0 .. cap - 1 -> Seq(Entry)]
  /\ sz \in Nat
  /\ maxLoad \in Nat
  /\ pc \in {"idle", "move", "insert"}
  /\ pending \in Entry \cup {NoEntry}
  /\ src \in [DOMAIN src -> Seq(Entry)]
  /\ inserted \in Nat

(* The capacity rehash() picks holds every entry it has to move, so that   *)
(* the n.insert calls of its loop never start a rehash of n in their turn. *)
NoNestedRehash ==
  pc = "move" /\ (\E b \in DOMAIN src : src[b] # << >>) => sz < maxLoad

(* No insertion takes the table past max_load_factor_capacity, and those   *)
(* of a rehash do not even reach it.  The test                             *)
(* sz == max_load_factor_capacity of prepare_for_insert is an equality:    *)
(* one step past the limit and the table would never grow again, its lists *)
(* getting longer without bound.                                           *)
LoadBound ==
  /\ sz <= maxLoad
  /\ pc = "insert" => sz < maxLoad
  /\ NoNestedRehash

(* sz is the number of entries in the buckets, and every entry inserted so *)
(* far is counted there once, still in the old buckets of a rehash, or the *)
(* insertion that waits for it: in every stage of a rehash none is lost,   *)
(* placed twice or left over.  The new table has room for all of them.     *)
SizeAccounting ==
  /\ sz = Cardinality(Slots(data))
  /\ inserted = sz + Cardinality(Slots(src)) + (IF pending = NoEntry THEN 0 ELSE 1)
  /\ pc = "move" => inserted <= maxLoad

(* Every entry is in the bucket equal_range will look into, under the      *)
(* capacity of the moment: also after the table has grown.                 *)
EntriesInTheirBucket ==
  \A b \in DOMAIN data : \A i \in DOMAIN data[b] :
    Hash[data[b][i].key] % cap = b

(* The entries of each key are next to each other. *)
Contiguous(list) ==
  \A i, j \in DOMAIN list :
    i < j /\ list[i].key = list[j].key
      => \A m \in i .. j : list[m].key = list[i].key

(* equal_range returns the first run of a key: the entries of a key must   *)
(* be contiguous or it would miss some.                                    *)
KeysContiguous == \A b \in DOMAIN data : Contiguous(data[b])

(* A client sees a multimap that keeps the insertion order of each key,    *)
(* whatever rehashing goes on inside; a rehash changes nothing it can see. *)
ImplementsMultimap == Abs!Spec
=============================================================================
