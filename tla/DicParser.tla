----------------------------- MODULE DicParser -----------------------------
(***************************************************************************)
(* Aff_Data::parse_dic(), which fills the word list from a .dic file.  A   *)
(* line is scanned in place for the end of its word, erasing the backslash *)
(* of each "\/" on the way; the flags after a slash are decoded; the word  *)
(* is inserted, and a second time in title case, as a hidden homonym, when *)
(* its casing would otherwise keep it from being found at the beginning of *)
(* a sentence.  A line with bad flags is skipped and the rest is loaded.   *)
(*                                                                         *)
(* A file is a record [has_count, lines, breaks]: whether its first line   *)
(* is a number, the lines that follow, and after how many of them reading  *)
(* fails (more than there are: never).  A line is a sequence of tokens,    *)
(* each a byte or a few that are never told apart.  An entry says whether  *)
(* it is the word or its title case: ICU's title casing is outside.  The   *)
(* text of messages is left out.  AffParser begins: it reads the options.  *)
(***************************************************************************)
EXTENDS Integers, Sequences, SequencesExt, FiniteSets

CONSTANTS
    Lowers,     \* tokens with a lowercase letter
    Capitals,   \* tokens with an uppercase letter
    Invalid,    \* tokens that neither the encoding nor a 16-bit flag can hold
    MaxDigits   \* longest number in range

VARIABLES
    file,
    aff,        \* what the .aff file says: [flag_type, aliases, ignored, forbidden]
    n,          \* lines read
    line, i, end_word_pos,
    words,      \* what was emplaced, in order
    success,
    pc          \* "count", "lines", "scan", "insert", or "done"
vars == <<file, aff, n, line, i, end_word_pos, words, success, pc>>

NPos == -1
Spaces == {" ", "\t"}
At(s, k) == s[k + 1]
From(s, k) == SubSeq(s, k + 1, Len(s))
SelectNot(s, bytes) == SelectSeq(s, LAMBDA c : c \notin bytes)
\* The first place from k on with a byte in bytes, or the end.
ScanIs(s, k, bytes) ==
    CHOOSE j \in k..Len(s) :
        /\ j < Len(s) => At(s, j) \in bytes
        /\ \A m \in k..j - 1 : At(s, m) \notin bytes
ScanNot(s, k, bytes) == ScanIs(s, k, {At(s, m) : m \in k..Len(s) - 1} \ bytes)

Init ==
    /\ n = 0 /\ line = <<>> /\ i = 0 /\ end_word_pos = NPos
    /\ words = <<>> /\ success = TRUE

FixedInput == UNCHANGED <<file, aff>>

-----------------------------------------------------------------------------
\* decode_flags(): the flags a text stands for, or an error.
Ok(flags) == [flags |-> flags, err |-> "ok"]
Error(e) == [flags |-> {}, err |-> e]

\* from_chars(): the digits a text begins with.
Digits(s) == SubSeq(s, 1, ScanNot(s, 0, {"1"}))
\* The numbers of a list separated by commas, up to what is not a number.
Numbers(s) ==
    LET at[k \in 0..Len(s)] ==
            LET d == Digits(From(s, k))
                e == k + Len(d)
            IN  IF d = <<>> THEN Error("INVALID_NUMERIC_FLAG")
                ELSE IF Len(d) > MaxDigits THEN Error("FLAG_ABOVE_65535")
                ELSE IF e = Len(s) \/ At(s, e) # "," THEN Ok({d})
                ELSE LET rest == at[e + 1]
                     IN  IF rest.err = "ok" THEN Ok({d} \cup rest.flags) ELSE rest
    IN  at[0]

DecodeFlags(s) ==
    CASE s = <<>> -> Error("MISSING_FLAGS")
      [] s # <<>> /\ aff.flag_type = "single" -> Ok({<<c>> : c \in Range(s)})
      [] s # <<>> /\ aff.flag_type = "long" ->
            IF Len(s) % 2 = 1 THEN Error("UNPAIRED_LONG_FLAG")
            ELSE Ok({<<s[2 * k - 1], s[2 * k]>> : k \in 1..Len(s) \div 2})
      [] s # <<>> /\ aff.flag_type = "num" -> Numbers(s)
      [] s # <<>> /\ aff.flag_type = "utf8" ->
            IF Range(s) \cap Invalid # {} THEN Error("INVALID_UTF8")
            ELSE Ok({<<c>> : c \in Range(s)})

\* decode_flags_possible_alias(): what follows the number is not looked at.
Decode(s) ==
    LET k == Len(Digits(s))   \* of digits 1 only: 1, 11, ...
    IN  IF aff.aliases = <<>> THEN DecodeFlags(s)
        ELSE IF k = 1 /\ k <= Len(aff.aliases) THEN Ok(aff.aliases[k])
        ELSE Error("INVALID_NUMERIC_ALIAS")

\* What parse_dic lets pass: no flags after the slash, and "None" for a number.
Tolerated(s, err) ==
    \/ err = "MISSING_FLAGS"
    \/ err = "INVALID_NUMERIC_FLAG" /\ s = <<"None">>

\* classify_casing()
Count(w, letters) == Cardinality({k \in DOMAIN w : w[k] \in letters})
Casing(w) ==
    IF Count(w, Capitals) = 0 THEN "SMALL"
    ELSE IF w[1] \in Capitals /\ Count(w, Capitals) = 1 THEN "INIT_CAPITAL"
    ELSE IF Count(w, Lowers) = 0 THEN "ALL_CAPITAL"
    ELSE IF w[1] \in Capitals THEN "PASCAL" ELSE "CAMEL"

-----------------------------------------------------------------------------
\* A first line without a number ends it all; what else it holds is skipped.
ReadCount ==
    /\ pc = "count"
    /\ IF file.has_count THEN pc' = "lines" /\ UNCHANGED success
                         ELSE pc' = "done" /\ success' = FALSE
    /\ UNCHANGED <<n, line, i, end_word_pos, words>> /\ FixedInput

More == n < Len(file.lines) /\ n < file.breaks
Chomp(s) == IF s # <<>> /\ Last(s) = "\r" THEN Front(s) ELSE s

NextLine ==
    /\ pc = "lines" /\ More
    /\ n' = n + 1 /\ line' = Chomp(file.lines[n + 1])
    /\ i' = 0 /\ end_word_pos' = NPos /\ pc' = "scan"
    /\ UNCHANGED <<words, success>> /\ FixedInput

\* The loop ends with the file, or before it when reading fails.
\* Mutant: whatever ends the loop is the end of the file.
EofReached_Any == TRUE
EofReached == n = Len(file.lines) /\ n < file.breaks
EndOfFile ==
    /\ pc = "lines" /\ ~More
    /\ success' = (EofReached /\ success) /\ pc' = "done"
    /\ UNCHANGED <<n, line, i, end_word_pos, words>> /\ FixedInput

Scanning == pc = "scan" /\ i # Len(line) /\ end_word_pos = NPos
\* Only blanks, or a field such as "po:", may follow the space that ends a word.
\* Mutant: the first space ends the word.
EndsAtSpace_Always(k) == TRUE
EndsAtSpace(k) ==
    LET f == ScanNot(line, k + 1, Spaces)
    IN  \/ f = Len(line)
        \/ /\ Len(line) - f >= 3 /\ At(line, f + 2) = ":"
           /\ At(line, f) \in Lowers /\ At(line, f + 1) \in Lowers

IsEscaped(k) == At(line, k) = "/" /\ k > 0 /\ At(line, k - 1) = "\\"
IsEnd(k) ==
    \/ At(line, k) = "/" /\ k > 0 /\ ~IsEscaped(k)
    \/ At(line, k) = "\t"
    \/ At(line, k) = " " /\ EndsAtSpace(k)

\* The slash moves to the place of its backslash, and so does the scan.
\* Mutant: the scan does not move back.
AfterUnescape_Stay(k) == k + 1
AfterUnescape(k) == k
WithoutBackslash(k) == RemoveAt(line, k)
Unescape ==
    /\ Scanning /\ IsEscaped(i)
    /\ line' = WithoutBackslash(i) /\ i' = AfterUnescape(i)
    /\ UNCHANGED <<n, end_word_pos, words, success, pc>> /\ FixedInput

FindEnd ==
    /\ Scanning /\ IsEnd(i)
    /\ end_word_pos' = i
    /\ UNCHANGED <<n, line, i, words, success, pc>> /\ FixedInput

Step ==
    /\ Scanning /\ ~IsEscaped(i) /\ ~IsEnd(i)
    /\ i' = i + 1
    /\ UNCHANGED <<n, line, end_word_pos, words, success, pc>> /\ FixedInput

EndScan ==
    /\ pc = "scan" /\ ~Scanning
    /\ pc' = "insert"
    /\ UNCHANGED <<n, line, i, end_word_pos, words, success>> /\ FixedInput

-----------------------------------------------------------------------------
Word == IF end_word_pos = NPos THEN line ELSE SubSeq(line, 1, end_word_pos)
HasSlash == end_word_pos # NPos /\ At(line, end_word_pos) = "/"
FlagsStr ==
    IF HasSlash
    THEN SubSeq(line, end_word_pos + 2, ScanIs(line, end_word_pos, Spaces))
    ELSE <<>>
Decoded == IF HasSlash THEN Decode(FlagsStr) ELSE Ok({})
BadFlags == Decoded.err # "ok" /\ ~Tolerated(FlagsStr, Decoded.err)

RejectLine ==
    /\ pc = "insert" /\ BadFlags
    /\ success' = FALSE /\ pc' = "lines"
    /\ UNCHANGED <<n, line, i, end_word_pos, words>> /\ FixedInput

\* No word, or one that is not in the encoding, is passed over in silence.
SkipLine ==
    /\ pc = "insert" /\ ~BadFlags
    /\ Word = <<>> \/ Range(Word) \cap Invalid # {}
    /\ pc' = "lines"
    /\ UNCHANGED <<n, line, i, end_word_pos, words, success>> /\ FixedInput

U8Word == SelectNot(Word, aff.ignored)
Entry(w, form, hidden) ==
    [word |-> w, form |-> form, flags |-> Decoded.flags, hidden |-> hidden]
\* Mutant: a forbidden word has a homonym as well.
NeedsHomonym_Forbidden ==
    \/ Casing(U8Word) = "ALL_CAPITAL" /\ Decoded.flags # {}
    \/ Casing(U8Word) \in {"PASCAL", "CAMEL"}
NeedsHomonym ==
    /\ \/ Casing(U8Word) = "ALL_CAPITAL" /\ Decoded.flags # {}
       \/ Casing(U8Word) \in {"PASCAL", "CAMEL"}
    /\ aff.forbidden \notin Decoded.flags
Homonym == Entry(U8Word, "title", TRUE)

Insert ==
    /\ pc = "insert" /\ ~BadFlags
    /\ Word # <<>> /\ Range(Word) \cap Invalid = {}
    /\ words' = words \o <<Entry(U8Word, "word", FALSE)>>
                      \o (IF NeedsHomonym THEN <<Homonym>> ELSE <<>>)
    /\ pc' = "lines"
    /\ UNCHANGED <<n, line, i, end_word_pos, success>> /\ FixedInput

Next ==
    \/ ReadCount \/ NextLine \/ EndOfFile \/ Unescape \/ FindEnd \/ Step
    \/ EndScan \/ RejectLine \/ SkipLine \/ Insert

-----------------------------------------------------------------------------
\* The scan stays in the line, which it shortens as it goes, and so does the
\* place it remembers.
PlacesAreInLine == i \in 0..Len(line) /\ end_word_pos \in {NPos} \cup 0..Len(line) - 1

\* What a line says, read from its text as it is in the file: the word ends
\* before the first slash that is neither escaped nor the first byte, the
\* first tab, or the first space that only blanks or a field follow.
Text(k) ==
    LET s == file.lines[k]
    IN  IF s # <<>> /\ s[Len(s)] = "\r" THEN SubSeq(s, 1, Len(s) - 1) ELSE s
IsField(s) == Len(s) >= 3 /\ s[1] \in Lowers /\ s[2] \in Lowers /\ s[3] = ":"
Ends(s, k) ==
    \/ s[k] = "/" /\ k > 1 /\ s[k - 1] # "\\"
    \/ s[k] = "\t"
    \/ /\ s[k] = " "
       /\ \E m \in k + 1..Len(s) + 1 :
            /\ \A j \in k + 1..m - 1 : s[j] \in Spaces
            /\ m = Len(s) + 1 \/ IsField(SubSeq(s, m, Len(s)))
FirstEnd(s) ==
    CHOOSE k \in 1..Len(s) + 1 :
        /\ k <= Len(s) => Ends(s, k)
        /\ \A j \in 1..k - 1 : ~Ends(s, j)
\* The numbers of a set, from the smallest to the greatest.
InOrder(S) ==
    [m \in 1..Cardinality(S) |->
        CHOOSE k \in S : Cardinality({j \in S : j <= k}) = m]
Kept(s) == {k \in DOMAIN s : ~(s[k] = "\\" /\ k < Len(s) /\ s[k + 1] = "/")}
Unescaped(s) ==
    LET kept == InOrder(Kept(s))
    IN  [k \in DOMAIN kept |-> s[kept[k]]]
WordOf(k) == Unescaped(SubSeq(Text(k), 1, FirstEnd(Text(k)) - 1))
FlagsTextOf(k) ==
    LET s == Text(k)
        b == FirstEnd(s) + 1
    IN  SubSeq(s, b, CHOOSE e \in b - 1..Len(s) :
                        /\ e = Len(s) \/ s[e + 1] \in Spaces
                        /\ \A j \in b..e : s[j] \notin Spaces)
Slashed(k) == FirstEnd(Text(k)) <= Len(Text(k)) /\ Text(k)[FirstEnd(Text(k))] = "/"
FlagsOf(k) == IF Slashed(k) THEN Decode(FlagsTextOf(k)) ELSE Ok({})
IsBad(k) == /\ FlagsOf(k).err # "ok"
            /\ ~Tolerated(FlagsTextOf(k), FlagsOf(k).err)
HasEntry(k) == ~IsBad(k) /\ WordOf(k) # <<>> /\ Range(WordOf(k)) \cap Invalid = {}
EntryOf(k) == [word |-> SelectNot(WordOf(k), aff.ignored), form |-> "word",
               flags |-> FlagsOf(k).flags, hidden |-> FALSE]

Visible == {j \in DOMAIN words : ~words[j].hidden}
\* When the parsing is over, the words visible in the list are exactly those
\* of the lines read, in their order and with their flags: the in-place
\* unescaping loses and moves nothing, and a bad line takes no other with it.
EntriesAreLines ==
    pc = "done" =>
        LET visible == InOrder(Visible)
            read == InOrder({k \in DOMAIN file.lines :
                                file.has_count /\ k <= file.breaks /\ HasEntry(k)})
        IN  [m \in DOMAIN visible |-> words[visible[m]]] =
            [m \in DOMAIN read |-> EntryOf(read[m])]

IsCovered(k) ==
    /\ words[k].hidden <=> words[k].form = "title"
    /\ words[k].hidden =>
        /\ k > 1 /\ words[k - 1] = [words[k] EXCEPT !.form = "word", !.hidden = FALSE]
        /\ aff.forbidden \notin words[k].flags
        /\ Count(words[k].word, Lowers) = 0 => words[k].flags # {}
\* A title-cased homonym follows the visible entry it comes from, with the
\* same flags, so that hiding it hides nothing else; it never gives a
\* forbidden word back, nor a word in capitals that no affix can change.
HomonymsAreCovered == PlacesAreInLine /\ \A k \in DOMAIN words : IsCovered(k)

\* The caller is told of failure exactly when the count is missing, reading
\* failed before the end, or the flags of a line could not be decoded.
FailureReported ==
    pc = "done" =>
        (success <=> /\ file.has_count
                     /\ file.breaks > Len(file.lines)
                     /\ \A k \in DOMAIN file.lines : ~IsBad(k))
=============================================================================
