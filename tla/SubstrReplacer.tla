---------------------------- MODULE SubstrReplacer ----------------------------
(***************************************************************************)
(* nuspell::Substr_Replacer, the ICONV and OCONV tables: replace() walks   *)
(* over a string and replaces, at each place, the key that find_match      *)
(* gives for the rest of the string.  Strings are sequences of numbers,    *)
(* which are their order.                                                  *)
(***************************************************************************)
EXTENDS Integers, Sequences, SequencesExt, FiniteSets, FiniteSetsExt

CONSTANTS
  Char,           (* The characters.                                   *)
  Keys,           (* Bound of the model: the keys of the tables.       *)
  Replacements,   (* Bound of the model: what they are replaced with.  *)
  MaxPairs,       (* Bound of the model: the largest table.            *)
  MaxLength       (* Bound of the model: the longest string.           *)

(* Assumed where the module is used. *)
StringsAssumption ==
  /\ Char \subseteq Nat
  /\ Keys \subseteq Seq(Char) /\ Replacements \subseteq Seq(Char)
  /\ MaxPairs \in Nat /\ MaxLength \in Nat

VARIABLES
  table,   (* The pairs <<key, replacement>>, sorted by key.              *)
  input,   (* The string replace() was given.                            *)
  s,       (* The string as changed so far.                               *)
  i,       (* Everything before this index is final.                      *)
  pc       (* "loop" or "done".                                           *)

vars == <<table, input, s, i, pc>>

-----------------------------------------------------------------------------
(* std::string::operator< *)
Less(p, q) ==
  \/ IsStrictPrefix(p, q)
  \/ \E n \in 1 .. Len(p) :
       /\ n <= Len(q)
       /\ p[n] < q[n]
       /\ \A m \in 1 .. n - 1 : p[m] = q[m]

(* The tables sort_uniq may leave of a set of pairs: sorted by key, one    *)
(* pair for each key (std::sort does not say which of them), no empty key. *)
SortUniq_KeepEmpty(pairs) ==      (* Faulty variant: "" stays in. *)
  {t \in [1 .. Cardinality({p[1] : p \in pairs}) -> pairs] :
     \A m, n \in DOMAIN t : m < n => Less(t[m][1], t[n][1])}

SortUniq(pairs) ==
  {t \in [1 .. Cardinality({p[1] : p \in pairs} \ {<< >>}) ->
            {p \in pairs : p[1] # << >>}] :
     \A m, n \in DOMAIN t : m < n => Less(t[m][1], t[n][1])}

(* std::upper_bound(it, end(t), str, csr), the order of csr being that of  *)
(* the key and the part of str that is as long.                            *)
UpperBound(it, str) ==
  Min({n \in it .. Len(table) : Less(str, table[n][1])} \cup {Len(table) + 1})

(* Faulty variant: the first key that matches ends the search. *)
FindMatch_First(str) ==
  Min({n \in DOMAIN table : IsPrefix(table[n][1], str)} \cup {Len(table) + 1})

(* find_match(str): its loop from each start it, the last match so far     *)
(* being last; Len(table) + 1 is end(t).                                   *)
FindMatch(str) ==
  LET end == Len(table) + 1
      search[it \in 1 .. end, last \in 1 .. end] ==
        LET it2 == UpperBound(it, str)
        IN IF it2 # it /\ IsPrefix(table[it2 - 1][1], str)
           THEN search[it2, it2 - 1]
           ELSE last
  IN search[1, end]

Rest == SubSeq(s, i, Len(s))

(* Faulty variant: the replacement is looked at again. *)
Advance_Rescan(match) == 0

(* Faulty variant: the length of the key instead of the replacement. *)
Advance_ByKey(match) == Len(table[match][1])

(* How far i moves past a replacement. *)
Advance(match) == Len(table[match][2])

-----------------------------------------------------------------------------
Init ==
  /\ \E pairs \in kSubset(MaxPairs, Keys \X Replacements) :
       table \in SortUniq(pairs)
  /\ input \in BoundedSeq(Char, MaxLength)
  /\ s = input
  /\ i = 1
  /\ pc = IF table = << >> THEN "done" ELSE "loop"

(* A round of the loop of replace() that finds a match. *)
ReplaceMatch ==
  /\ pc = "loop"
  /\ i <= Len(s)
  /\ FindMatch(Rest) \in DOMAIN table
  /\ LET match == FindMatch(Rest)
     IN /\ s' = SubSeq(s, 1, i - 1) \o table[match][2] \o
                SubSeq(s, i + Len(table[match][1]), Len(s))
        /\ i' = i + Advance(match)
  /\ UNCHANGED <<table, input, pc>>

SkipChar ==
  /\ pc = "loop"
  /\ i <= Len(s)
  /\ FindMatch(Rest) \notin DOMAIN table
  /\ i' = i + 1
  /\ UNCHANGED <<table, input, s, pc>>

Return ==
  /\ pc = "loop"
  /\ i > Len(s)
  /\ pc' = "done"
  /\ UNCHANGED <<table, input, s, i>>

Next == ReplaceMatch \/ SkipChar \/ Return

Spec == Init /\ [][Next]_vars

-----------------------------------------------------------------------------
(* The keys that could be replaced at the front of str. *)
Matches(str) == {n \in DOMAIN table : IsPrefix(table[n][1], str)}

(* i stays within the string or one past it. *)
TypeOK ==
  /\ table \in Seq(Keys \X Replacements)
  /\ input \in Seq(Char) /\ s \in Seq(Char)
  /\ i \in 1 .. Len(s) + 1
  /\ pc \in {"loop", "done"}

(* What is still to be looked at is the end of the input as it was given:  *)
(* i stays in the string and no replacement is the subject of another one. *)
SinglePass == TypeOK /\ (pc = "loop" => IsSuffix(Rest, input))

(* When find_match finds a key, no longer key of the table fits as well.   *)
FoundIsLongest ==
  pc = "loop" =>
    LET m == FindMatch(Rest)
    IN m \in DOMAIN table =>
         /\ m \in Matches(Rest)
         /\ \A n \in Matches(Rest) : Len(table[n][1]) <= Len(table[m][1])

(* What the comments of find_match say: where it gives up, "not found", no *)
(* key of the table is a prefix of the rest of the string.                 *)
NotFoundMeansNoMatch ==
  pc = "loop" /\ FindMatch(Rest) \notin DOMAIN table => Matches(Rest) = {}
=============================================================================
