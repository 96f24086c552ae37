-------------------------------- MODULE Bundle --------------------------------
(***************************************************************************)
(* The resource bundle: pack_resources writes it with write_bundle, and a  *)
(* CompoundCorrector constructed from it reads it back with read_bundle.   *)
(* The packer does not look at the state of its output stream, so the file *)
(* may end anywhere: it is cut at any byte before it is read.  The reader  *)
(* looks at the state of its input stream only after a name and after the  *)
(* data; a number it fails to read is zero.                                *)
(***************************************************************************)
EXTENDS Integers, Sequences, SequencesExt, FiniteSets

CONSTANTS
  Contents,     (* What a packed file may hold: sequences of bytes. *)
  Name,         (* The name stored with every entry.                *)
  Magic,        (* BUNDLE_MAGIC                                     *)
  Version       (* BUNDLE_VERSION                                   *)

Byte == 0 .. 255

(* BundleTag; the packer packs the required ones, in this order, and then  *)
(* the proper names if there are any.                                      *)
Required == <<0, 1, 2, 3>>
AFF == 0
DIC == 1
ProperNames == 4

(* Assumed where the module is used. *)
BundleAssumption ==
  /\ Contents \subseteq Seq(Byte) /\ Name \in Seq(Byte)
  /\ Magic \in Byte \ {0} /\ Version \in Byte \ {0}

VARIABLES
  packed,    (* The entries write_bundle was given.                     *)
  file,      (* The bytes on the disk.                                  *)
  pos,       (* How many of them the reader has consumed.               *)
  bad,       (* The reader's stream has failed.                         *)
  left,      (* The entries still to be read, once the count is known.  *)
  entry,     (* The entry being read.                                   *)
  entries,   (* The entries read.                                       *)
  pc         (* Where the reader is; "loaded" or "rejected" at the end. *)

vars == <<packed, file, pos, bad, left, entry, entries, pc>>

-----------------------------------------------------------------------------
(* write_u32_le of a number below 256 *)
U32(n) == <<n, 0, 0, 0>>

(* Faulty variant: the data goes out without its length. *)
WriteEntry_NoLength(e) == U32(e.tag) \o U32(Len(e.name)) \o e.name \o e.data

WriteEntry(e) ==
  U32(e.tag) \o U32(Len(e.name)) \o e.name \o U32(Len(e.data)) \o e.data

WriteBundle(es) ==
  U32(Magic) \o U32(Version) \o U32(Len(es)) \o
  FlattenSeq([n \in DOMAIN es |-> WriteEntry(es[n])])

(* A read of n bytes fails, and the stream with it, if they are not there. *)
Fails(n) == bad \/ pos + n > Len(file)

(* read_u32_le; the numbers of the model are below 256. *)
NumberRead == IF Fails(4) THEN 0 ELSE file[pos + 1]

(* in.read of n bytes into an entry, resized to n zero bytes before. *)
BytesRead(n) ==
  [k \in 1 .. n |-> IF ~ bad /\ pos + k <= Len(file) THEN file[pos + k] ELSE 0]

(* Faulty variant: a read that fails moves on all the same. *)
Consume_Overrun(n) == bad' = Fails(n) /\ pos' = pos + n

(* The stream after a read of n bytes. *)
Consume(n) ==
  /\ bad' = Fails(n)
  /\ pos' = IF Fails(n) THEN Len(file) ELSE pos + n

-----------------------------------------------------------------------------
NoEntryYet == [tag |-> 0, name |-> << >>, data |-> << >>]

Init ==
  /\ \E contents \in [1 .. 4 -> Contents], names \in BoundedSeq(Contents, 1) :
       packed = [n \in 1 .. 4 + Len(names) |->
                   [tag |-> IF n <= 4 THEN Required[n] ELSE ProperNames,
                    name |-> Name,
                    data |-> IF n <= 4 THEN contents[n] ELSE names[n - 4]]]
  /\ \E size \in 0 .. Len(WriteBundle(packed)) :
       file = SubSeq(WriteBundle(packed), 1, size)
  /\ pos = 0
  /\ bad = FALSE
  /\ left = 0
  /\ entry = NoEntryYet
  /\ entries = << >>
  /\ pc = "magic"

(* A number that has to be the expected one. *)
ReadExpected(at, expected, next) ==
  /\ pc = at
  /\ Consume(4)
  /\ pc' = IF NumberRead = expected THEN next ELSE "rejected"
  /\ UNCHANGED <<packed, file, left, entry, entries>>

ReadMagic == ReadExpected("magic", Magic, "version")

ReadVersion == ReadExpected("version", Version, "count")

ReadCount ==
  /\ pc = "count"
  /\ Consume(4)
  /\ left' = NumberRead
  /\ pc' = "entry"
  /\ UNCHANGED <<packed, file, entry, entries>>

ReadTag ==
  /\ pc = "entry"
  /\ left > 0
  /\ Consume(4)
  /\ entry' = [NoEntryYet EXCEPT !.tag = NumberRead]
  /\ pc' = "nameLength"
  /\ UNCHANGED <<packed, file, left, entries>>

(* name.resize, data.resize: what is to be read next is kept in the entry. *)
ReadLength(at, next) ==
  /\ pc = at
  /\ Consume(4)
  /\ entry' = IF at = "nameLength"
              THEN [entry EXCEPT !.name = [k \in 1 .. NumberRead |-> 0]]
              ELSE [entry EXCEPT !.data = [k \in 1 .. NumberRead |-> 0]]
  /\ pc' = next
  /\ UNCHANGED <<packed, file, left, entries>>

ReadNameLength == ReadLength("nameLength", "name")

ReadDataLength == ReadLength("dataLength", "data")

ReadName ==
  /\ pc = "name"
  /\ Consume(Len(entry.name))
  /\ entry' = [entry EXCEPT !.name = BytesRead(Len(entry.name))]
  /\ pc' = IF Fails(Len(entry.name)) THEN "rejected" ELSE "dataLength"
  /\ UNCHANGED <<packed, file, left, entries>>

(* Faulty variant: the stream is not looked at after the data. *)
DataAccepted_Unchecked == TRUE

(* if (!in) throw *)
DataAccepted == ~ Fails(Len(entry.data))

ReadData ==
  /\ pc = "data"
  /\ Consume(Len(entry.data))
  /\ IF DataAccepted
     THEN /\ entries' = Append(entries,
                          [entry EXCEPT !.data = BytesRead(Len(entry.data))])
          /\ left' = left - 1
          /\ pc' = "entry"
     ELSE /\ pc' = "rejected"
          /\ UNCHANGED <<entries, left>>
  /\ entry' = NoEntryYet
  /\ UNCHANGED <<packed, file>>

(* Bundle::find *)
Has(tag) == \E n \in DOMAIN entries : entries[n].tag = tag

(* read_bundle has returned; the constructor wants a dictionary in it. *)
Construct ==
  /\ pc = "entry"
  /\ left = 0
  /\ pc' = IF Has(AFF) /\ Has(DIC) THEN "loaded" ELSE "rejected"
  /\ UNCHANGED <<packed, file, pos, bad, left, entry, entries>>

Next ==
  \/ ReadMagic \/ ReadVersion \/ ReadCount
  \/ ReadTag \/ ReadNameLength \/ ReadName \/ ReadDataLength \/ ReadData
  \/ Construct

Spec == Init /\ [][Next]_vars

-----------------------------------------------------------------------------
Complete == file = WriteBundle(packed)

(* The variables hold values of their types; a stream that has failed is   *)
(* at the end of the file.                                                 *)
TypeOK ==
  /\ pos \in 0 .. Len(file)
  /\ bad => pos = Len(file)
  /\ left \in Nat
  /\ entries \in Seq([tag : Byte, name : Seq(Byte), data : Seq(Byte)])
  /\ pc \in {"magic", "version", "count", "entry", "nameLength", "name",
             "dataLength", "data", "loaded", "rejected"}

(* A bundle is loaded as it was packed or not at all: wherever the file    *)
(* was cut, no entry is missing, cut short or made of the zeros the reader *)
(* gets for what is not there; and one that is whole is not refused.       *)
AllOrNothing ==
  /\ TypeOK
  /\ pc = "loaded" => Complete /\ entries = packed
  /\ Complete => pc # "rejected"
=============================================================================
