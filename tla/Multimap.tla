------------------------------ MODULE Multimap ------------------------------
(***************************************************************************)
(* What the word list promises its clients (Checker::check_simple_word,    *)
(* the affix strippers, the suggester): a key has the values it was given, *)
(* in the order they were inserted.  Nothing else of Hash_Multimap can be  *)
(* seen through equal_range: neither its capacity nor when it rehashes.    *)
(***************************************************************************)
EXTENDS Sequences

CONSTANTS
  Key,      (* The words.                         *)
  Value     (* The flag sets stored with a word.  *)

VARIABLE content    (* For each key, its values in insertion order. *)

TypeOK == content \in [Key -> Seq(Value)]

Init == content = [k \in Key |-> << >>]

Emplace(k, v) == content' = [content EXCEPT ![k] = Append(@, v)]

Next == \E k \in Key, v \in Value : Emplace(k, v)

Spec == Init /\ [][Next]_content
=============================================================================
