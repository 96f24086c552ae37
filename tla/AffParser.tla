----------------------------- MODULE AffParser -----------------------------
(***************************************************************************)
(* Loading a dictionary: Aff_Data::parse_aff(), which reads the options    *)
(* and tables of an .aff file, and then parse_dic() (DicParser).           *)
(*                                                                         *)
(* The entries of a table are preceded by a line with their number; affix  *)
(* entries by one for every flag.  How a text with flags is understood is  *)
(* said by other lines of the same file, FLAG and AF, so that it depends   *)
(* on what came before.  A line is read from a stream: what is absent and  *)
(* what is wrong are told apart by the state the stream is left in.        *)
(*                                                                         *)
(* A step extracts one value of a line.  A line is a record [toks, tail]:  *)
(* its words, each a sequence of characters (a command is one), and        *)
(* whether white space follows the last.  Of the commands that are handled *)
(* alike, one or two stand for all.                                        *)
(***************************************************************************)
EXTENDS DicParser

CONSTANTS
    AffFiles,   \* records [lines, breaks, dics]: dics names the .dic files that
    DicFiles(_),\* may stand beside it: the files of a name
    Value,      \* digit -> its value
    MaxShort,   \* largest unsigned short
    Malformed   \* texts that are no condition

\* A file is read line by line, and a line token by token; a blank is no letter.
IsSequence(s) == s \in Seq(Range(s))
ASSUME DicFilesAssumption ==
    /\ Lowers \cap Spaces = {}
    /\ \A a \in AffFiles : \A f \in DicFiles(a.dics) :
          /\ f.has_count \in BOOLEAN /\ f.breaks \in Nat
          /\ IsSequence(f.lines) /\ \A l \in Range(f.lines) : IsSequence(l)
ASSUME AffFilesAssumption ==
    \A a \in AffFiles :
        /\ a.breaks \in Nat /\ IsSequence(a.lines)
        /\ \A l \in Range(a.lines) :
              IsSequence(l.toks) /\ l.tail \in BOOLEAN /\ \A t \in Range(l.toks) : IsSequence(t)

VARIABLES
    aff_file,
    line_num,
    conf,           \* options and tables, by command (the one of AF is aff.aliases)
    counts,         \* cmd_with_vec_cnt: command -> entries to come
    cmd_affix,      \* <<command, flag>> -> [cross, cnt]
    command,        \* of the line
    todo,           \* the values yet to be extracted from it
    ss,             \* the stream: [toks, eof, fail, err], err being p.err
    error_happened
affVars == <<aff_file, line_num, conf, counts, cmd_affix, command, todo, ss, error_happened>>
dicVars == <<file, n, line, i, end_word_pos, words>>

Strings == {"IGNORE", "TRY"}
Shorts == {"MAXDIFF", "COMPOUNDMIN"}
Pairs == {"REP", "ICONV"}
Affixes == {"SFX", "PFX"}
Tables == Pairs \cup {"MAP", "BREAK", "AF", "COMPOUNDRULE", "CHECKCOMPOUNDPATTERN"}
\* What is extracted for an entry of each table.
Entry_ ==
    [c \in Tables |->
        CASE c \in {"MAP", "BREAK"} -> <<"string">>
          [] c \in Pairs -> <<"string", "string">>
          [] c = "AF" -> <<"flags">>
          [] c = "COMPOUNDRULE" -> <<"rule">>
          [] c = "CHECKCOMPOUNDPATTERN" -> <<"word/flag", "word/flag", "replacement">>]
AffixEntry == <<"string", "word/flags", "condition">>
\* map[k] = v
Put(map, k, v) == [x \in DOMAIN map \cup {k} |-> IF x = k THEN v ELSE map[x]]

LoadInit ==
    /\ Init /\ pc = "aff" /\ file = <<>>
    /\ aff = [flag_type |-> "single", aliases |-> <<>>, ignored |-> {}, forbidden |-> <<>>]
    /\ aff_file \in AffFiles /\ line_num = 0
    /\ conf = [c \in (Tables \ {"AF"}) \cup Affixes \cup Strings \cup Shorts \cup
                          {"SET", "FULLSTRIP"} |->
                  CASE c = "MAXDIFF" -> 5 [] c = "COMPOUNDMIN" -> 0 [] c = "FULLSTRIP" -> FALSE
                    [] OTHER -> <<>>]
    /\ counts = <<>> /\ cmd_affix = <<>> /\ command = "" /\ todo = <<>>
    /\ ss = [toks |-> <<>>, eof |-> FALSE, fail |-> FALSE, err |-> "ok"]
    /\ error_happened = FALSE

-----------------------------------------------------------------------------
(* The lines. *)

MoreLines == line_num < Len(aff_file.lines) /\ line_num < aff_file.breaks
Rest(l) == [toks |-> Tail(l.toks), eof |-> Len(l.toks) = 1 /\ ~l.tail, fail |-> FALSE, err |-> "ok"]
IsSkipped(l) == IF l.toks = <<>> THEN TRUE ELSE l.toks[1][1] = "#"
WithWarning(s, w) == [s EXCEPT !.err = w]
Line == aff_file.lines[line_num + 1]
Command == Line.toks[1][1]
Reads(c) == pc = "aff" /\ MoreLines /\ ~IsSkipped(Line) /\ Command = c
\* The line is read, and these values will be extracted from it.
Begin(values, s) ==
    /\ line_num' = line_num + 1 /\ command' = Command /\ todo' = values /\ ss' = s
    /\ pc' = "values"
    /\ UNCHANGED <<aff_file, cmd_affix, error_happened, success, dicVars>>
UnlessSet(is_set, value) ==
    IF is_set THEN Begin(<<>>, WithWarning(Rest(Line), "MULTIPLE_ENTRIES_WARNING"))
    ELSE Begin(<<value>>, Rest(Line))

SkipComment ==
    /\ pc = "aff" /\ MoreLines /\ IsSkipped(Line)
    /\ line_num' = line_num + 1
    /\ UNCHANGED <<aff, aff_file, conf, counts, cmd_affix, command, todo, ss, error_happened,
                   pc, success, dicVars>>

ReadOption ==
    /\ \/ Reads("IGNORE") /\ UnlessSet(aff.ignored # {}, "string")
       \/ \E c \in {"TRY", "SET"} :
            Reads(c) /\ UnlessSet(conf[c] # <<>>, IF c = "SET" THEN "encoding" ELSE "string")
       \/ \E c \in Shorts : Reads(c) /\ Begin(<<"short">>, Rest(Line))
       \/ Reads("FORBIDDENWORD") /\ Begin(<<"flag">>, Rest(Line))
       \/ Reads("UNKNOWN") /\ Begin(<<>>, Rest(Line))
    /\ UNCHANGED <<aff, conf, counts>>
ReadBool ==
    /\ Reads("FULLSTRIP") /\ Begin(<<>>, Rest(Line))
    /\ conf' = [conf EXCEPT !.FULLSTRIP = TRUE]
    /\ UNCHANGED <<aff, counts>>
ReadFlagType ==
    /\ Reads("FLAG") /\ Begin(<<"flag type">>, Rest(Line))
    /\ aff' = [aff EXCEPT !.flag_type = "single"]
    /\ UNCHANGED <<conf, counts>>

\* parse_vector_of_T().  An entry begins as an empty element of the table.
\* Mutant: the entries are not counted down
EntriesLeft_Same(c) == counts
EntriesLeft(c) == [counts EXCEPT ![c] = @ - 1]
ReadTable ==
    \E c \in Tables :
        /\ Reads(c)
        /\ IF c \notin DOMAIN counts
           THEN /\ counts' = Put(counts, c, 0) /\ UNCHANGED <<conf, aff>>
                /\ Begin(<<"count">>, Rest(Line))
           ELSE IF counts[c] # 0
           THEN /\ counts' = EntriesLeft(c)
                /\ IF c = "AF" THEN aff' = [aff EXCEPT !.aliases = Append(@, {})] /\ UNCHANGED conf
                   ELSE conf' = [conf EXCEPT ![c] = Append(@, <<>>)] /\ UNCHANGED aff
                /\ Begin(Entry_[c], Rest(Line))
           ELSE /\ Begin(<<>>, WithWarning(Rest(Line), "ARRAY_COMMAND_EXTRA_ENTRIES_WARNING"))
                /\ UNCHANGED <<counts, conf, aff>>
ReadAffix ==
    /\ \E c \in Affixes : Reads(c) /\ Begin(<<"affix flag">>, Rest(Line))
    /\ UNCHANGED <<aff, conf, counts>>

-----------------------------------------------------------------------------
(* What a text stands for: [val, err].  err is "ok", a warning or an error.*)

Value_(v) == [val |-> v, err |-> "ok"]
Wrong(e) == [val |-> <<>>, err |-> e]
Warnings == {"NO_FLAGS_AFTER_SLASH_WARNING", "MULTIPLE_ENTRIES_WARNING",
             "ARRAY_COMMAND_EXTRA_ENTRIES_WARNING"}
IsError(e) == e # "ok" /\ e \notin Warnings

Converted(w, e) == IF Range(w) \cap Invalid # {} THEN Wrong(e) ELSE Value_(w)
String(w) == Converted(w, "INVALID_ENCODING_IDENTIFIER")
WordPart(w) == Converted(w, "ENCODING_CONVERSION_ERROR")
FirstFlag(f) ==
    CASE aff.flag_type \in {"single", "utf8"} -> SubSeq(f, 1, 1)
      [] aff.flag_type = "long" -> SubSeq(f, 1, 2)
      [] aff.flag_type = "num" -> Digits(f)
FlagOf(f) == LET d == DecodeFlags(f) IN IF d.err = "ok" THEN Value_(FirstFlag(f)) ELSE Wrong(d.err)
FlagSet(d) == [val |-> d.flags, err |-> d.err]

Slash(w) == SelectInSeq(w, LAMBDA c : c = "/")
Before(w) == SubSeq(w, 1, Slash(w) - 1)
After(w) == SubSeq(w, Slash(w) + 1, Len(w))
Joined(w, f) ==
    IF IsError(f.err) THEN f
    ELSE IF IsError(w.err) THEN w ELSE [val |-> <<w.val, f.val>>, err |-> f.err]
WordSlashFlag(w) ==
    IF Slash(w) = 0 THEN Joined(WordPart(w), Value_(<<>>)) ELSE Joined(WordPart(Before(w)), FlagOf(After(w)))
WordSlashFlags(w) ==
    IF Slash(w) = 0 THEN Joined(WordPart(w), Value_({}))
    ELSE LET f == FlagSet(Decode(After(w)))
         IN  Joined(WordPart(Before(w)),
                    IF f.err = "MISSING_FLAGS" THEN [f EXCEPT !.err = "NO_FLAGS_AFTER_SLASH_WARNING"]
                    ELSE f)

\* decode_compound_rule(): flags of more than a character are in parentheses.
GroupLength(w) ==
    LET close == SelectInSeq(w, LAMBDA c : c = ")")
        inside == IF aff.flag_type = "long" THEN 2 ELSE Len(Digits(Tail(w)))
    IN  IF w[1] = "(" /\ inside > 0 /\ close = inside + 2 THEN close ELSE 0
IsRule(w) ==
    LET from[k \in 1..Len(w)] ==
            LET g == GroupLength(SubSeq(w, k, Len(w)))
                e == k + g
            IN  IF g = 0 THEN FALSE
                ELSE IF e > Len(w) THEN TRUE
                ELSE IF w[e] \notin {"?", "*"} THEN from[e]
                ELSE IF e < Len(w) THEN from[e + 1]
                ELSE aff.flag_type = "num"
    IN  from[1]
Rule(w) ==
    IF aff.flag_type \in {"single", "utf8"} THEN [FlagSet(DecodeFlags(w)) EXCEPT !.val = w]
    ELSE IF IsRule(w) THEN Value_(w) ELSE Wrong("COMPOUND_RULE_INVALID_FORMAT")

Parsed(kind, w) ==
    CASE kind \in {"string", "replacement", "encoding"} -> String(w)
      [] kind = "condition" ->
            IF w \in Malformed THEN Wrong("AFX_CONDITION_INVALID_FORMAT") ELSE String(w)
      [] kind \in {"flag", "affix flag"} -> FlagOf(w)
      [] kind = "flags" -> FlagSet(DecodeFlags(w))
      [] kind = "word/flag" -> WordSlashFlag(w)
      [] kind = "word/flags" -> WordSlashFlags(w)
      [] kind = "rule" -> Rule(w)
      [] kind = "flag type" ->
            IF w \in {<<"long">>, <<"num">>, <<"utf8">>} THEN Value_(w[1])
            ELSE Wrong("INVALID_FLAG_TYPE")

-----------------------------------------------------------------------------
(* Values are extracted one after the other, until one is wrong. *)

Extracting(kinds) == pc = "values" /\ todo # <<>> /\ todo[1] \in kinds
WordKinds == {"string", "word/flag", "word/flags", "flag", "affix flag", "flags", "rule",
           "condition", "replacement", "encoding", "flag type"}
Fixed == UNCHANGED <<aff_file, line_num, command, error_happened, pc, success, dicVars>>

\* The stream after a word was extracted from it, or none was there.
Advanced(s) ==
    IF s.eof \/ s.toks = <<>> THEN [s EXCEPT !.eof = TRUE, !.fail = TRUE]
    ELSE [s EXCEPT !.toks = Tail(@), !.eof = Len(s.toks) = 1 /\ ~aff_file.lines[line_num].tail]
Failed(s, e) == [s EXCEPT !.fail = TRUE, !.err = e]

\* Where a value goes: the element that was begun, or an option.
Cleared(w) == IF w = <<"0">> THEN <<>> ELSE w
Field(v) ==
    CASE todo[1] = "string" /\ command \in Affixes -> Cleared(v)
      [] todo[1] = "word/flags" -> <<Cleared(v[1]), v[2]>>
      [] OTHER -> v
Stored(v) ==
    IF command = "AF" THEN aff' = [aff EXCEPT !.aliases[Len(aff.aliases)] = v] /\ UNCHANGED conf
    ELSE IF command = "FLAG" THEN aff' = [aff EXCEPT !.flag_type = v] /\ UNCHANGED conf
    ELSE IF command = "IGNORE" THEN aff' = [aff EXCEPT !.ignored = Range(v)] /\ UNCHANGED conf
    ELSE IF command = "FORBIDDENWORD" THEN aff' = [aff EXCEPT !.forbidden = v] /\ UNCHANGED conf
    ELSE IF command \in Tables \cup Affixes
    THEN conf' = [conf EXCEPT ![command][Len(conf[command])] = Append(@, Field(v))] /\ UNCHANGED aff
    ELSE conf' = [conf EXCEPT ![command] = v] /\ UNCHANGED aff

\* What is last on a line may be absent: a failure that also reached its end is
\* taken for that, a wrong value that nothing follows included.
IsAbsent(kind, s) == kind \in {"condition", "replacement"} /\ s.eof

ExtractWord ==
    /\ Extracting(WordKinds \ {"affix flag"}) /\ Fixed /\ UNCHANGED <<counts, cmd_affix>>
    /\ \E s \in {Advanced(ss)} :
       \E r \in {IF s.fail THEN Wrong("ISTREAM_READING_ERROR") ELSE Parsed(todo[1], ss.toks[1])} :
        IF ~IsError(r.err)
        THEN Stored(r.val) /\ todo' = Tail(todo) /\ ss' = WithWarning(s, r.err)
        ELSE IF IsAbsent(todo[1], s)
        THEN /\ Stored(IF todo[1] = "condition" THEN <<".">> ELSE <<>>)
             /\ todo' = Tail(todo) /\ ss' = [s EXCEPT !.fail = FALSE, !.err = "ok"]
        ELSE /\ todo' = <<>> /\ ss' = Failed(s, r.err) /\ UNCHANGED conf
             /\ IF command = "FORBIDDENWORD" THEN aff' = [aff EXCEPT !.forbidden = <<>>]
                ELSE UNCHANGED aff

\* in >> cross_char >> cnt: the number may follow the character at once.
CrossAndCount(s) ==
    LET number == IF Len(s.toks[1]) > 1 THEN Tail(s.toks[1])
                  ELSE IF Len(s.toks) > 1 THEN s.toks[2] ELSE <<"">>
    IN  IF s.eof \/ s.toks = <<>> THEN Wrong("ISTREAM_READING_ERROR")
        ELSE IF number[1] \notin DOMAIN Value THEN Wrong("ISTREAM_READING_ERROR")
        ELSE IF s.toks[1][1] \notin {"Y", "N"} THEN Wrong("AFX_CROSS_CHAR_INVALID")
        ELSE Value_([cross |-> s.toks[1][1] = "Y", cnt |-> Value[number[1]]])
NoEntries == [cross |-> FALSE, cnt |-> 0]

\* parse_affix(): the first line with a flag is the header of its entries.
ExtractAffixFlag ==
    /\ Extracting({"affix flag"}) /\ Fixed /\ UNCHANGED <<aff, counts>>
    /\ \E s \in {Advanced(ss)} :
       \E r \in {IF s.fail THEN Wrong("ISTREAM_READING_ERROR") ELSE FlagOf(ss.toks[1])} :
       \E key \in {<<command, r.val>>} :
        IF IsError(r.err)
        THEN todo' = <<>> /\ ss' = Failed(s, r.err) /\ UNCHANGED <<conf, cmd_affix>>
        ELSE IF key \notin DOMAIN cmd_affix
        THEN \E h \in {CrossAndCount(s)} :
                /\ cmd_affix' = Put(cmd_affix, key, IF h.err = "ok" THEN h.val ELSE NoEntries)
                /\ todo' = <<>> /\ ss' = (IF h.err = "ok" THEN s ELSE Failed(s, h.err))
                /\ UNCHANGED conf
        ELSE IF cmd_affix[key].cnt # 0
        THEN /\ cmd_affix' = [cmd_affix EXCEPT ![key].cnt = @ - 1]
             /\ conf' = [conf EXCEPT ![command] = Append(@, <<r.val, cmd_affix[key].cross>>)]
             /\ todo' = AffixEntry /\ ss' = s
        ELSE /\ todo' = <<>> /\ ss' = WithWarning(s, "ARRAY_COMMAND_EXTRA_ENTRIES_WARNING")
             /\ UNCHANGED <<conf, cmd_affix>>

IsNumeral == ~ss.eof /\ ss.toks # <<>> /\ ss.toks[1][1] \in DOMAIN Value
Numeral == IF IsNumeral THEN Value[ss.toks[1][1]] ELSE 0
\* Without a count there are no entries.
ExtractCount ==
    /\ Extracting({"count"}) /\ Fixed /\ UNCHANGED <<aff, cmd_affix, conf>> /\ todo' = <<>>
    /\ counts' = [counts EXCEPT ![command] = Numeral]
    /\ ss' = IF IsNumeral THEN ss ELSE Failed(ss, "ARRAY_COMMAND_NO_COUNT")

\* A number that is absent changes nothing, one that is wrong is read as 0, one
\* that is too large as the largest; no error is noted.
Normal(v) ==
    CASE command = "COMPOUNDMIN" -> IF v = 0 THEN 1 ELSE v
      [] command = "MAXDIFF" -> IF v > 10 THEN 5 ELSE v
ExtractShort ==
    /\ Extracting({"short"}) /\ Fixed /\ UNCHANGED <<aff, cmd_affix, counts>> /\ todo' = <<>>
    /\ conf' = [conf EXCEPT ![command] =
            Normal(IF ss.eof \/ ss.toks = <<>> THEN @
                   ELSE IF Numeral > MaxShort THEN MaxShort ELSE Numeral)]
    /\ ss' = [ss EXCEPT !.fail = ~IsNumeral \/ Numeral > MaxShort]

\* Mutant: the last line decides
Failures_LastLine == ss.fail
Failures == error_happened \/ ss.fail
EndLine ==
    /\ pc = "values" /\ todo = <<>>
    /\ error_happened' = Failures /\ pc' = "aff"
    /\ UNCHANGED <<aff, aff_file, line_num, conf, counts, cmd_affix, command, todo, ss, success,
                   dicVars>>

\* The default break patterns are for files without any BREAK line; "_" in what
\* REP puts in stands for a space.
WithSpaces(w) == [k \in DOMAIN w |-> IF w[k] = "_" THEN " " ELSE w[k]]
\* Mutant: a table without entries counts as none
HasBreak_Entries == conf.BREAK # <<>>
HasBreak == "BREAK" \in DOMAIN counts
WithoutIgnored(e) == IF Len(e) < 4 THEN e ELSE [e EXCEPT ![4][1] = SelectNot(@, aff.ignored)]
EndOfAff ==
    /\ pc = "aff" /\ ~MoreLines
    /\ \E breaks \in {IF HasBreak THEN conf.BREAK
                      ELSE <<<<<<"-">>>>, <<<<"^", "-">>>>, <<<<"-", "$">>>>>>} :
       \E reps \in {[k \in DOMAIN conf.REP |->
                        IF Len(conf.REP[k]) < 2 THEN conf.REP[k]
                        ELSE <<conf.REP[k][1], WithSpaces(conf.REP[k][2])>>]} :
       \E sfx \in {[k \in DOMAIN conf.SFX |-> WithoutIgnored(conf.SFX[k])]} :
       \E pfx \in {[k \in DOMAIN conf.PFX |-> WithoutIgnored(conf.PFX[k])]} :
            conf' = [conf EXCEPT !.BREAK = breaks, !.REP = reps, !.SFX = sfx, !.PFX = pfx]
    /\ IF line_num < aff_file.breaks /\ ~error_happened
       THEN pc' = "count" /\ file' \in DicFiles(aff_file.dics) /\ UNCHANGED success
       ELSE pc' = "failed" /\ success' = FALSE /\ UNCHANGED file
    /\ UNCHANGED <<aff, aff_file, line_num, counts, cmd_affix, command, todo, ss, error_happened,
                   n, line, i, end_word_pos, words>>

AffNext ==
    \/ SkipComment \/ ReadOption \/ ReadBool \/ ReadFlagType \/ ReadTable \/ ReadAffix
    \/ ExtractWord \/ ExtractAffixFlag \/ ExtractCount \/ ExtractShort
    \/ EndLine \/ EndOfAff
LoadNext == AffNext \/ (Next /\ UNCHANGED affVars)
LoadSpec == LoadInit /\ [][LoadNext]_<<vars, affVars>>

-----------------------------------------------------------------------------
\* A line that could not be parsed leaves what it began in a table, without
\* some of its values; a dictionary never goes on to its words with such an
\* element (aff_data.cxx:598-601, 640-658, 851-863).
NothingHalfRead ==
    pc = "count" =>
        /\ \A c \in Tables \ {"AF"} : \A k \in DOMAIN conf[c] : Len(conf[c][k]) = Len(Entry_[c])
        /\ \A c \in Affixes : \A k \in DOMAIN conf[c] : Len(conf[c][k]) = 2 + Len(AffixEntry)
        /\ \A k \in DOMAIN aff.aliases : aff.aliases[k] # {}

LinesOf(c) ==
    SelectSeq([k \in DOMAIN aff_file.lines |-> k],
              LAMBDA k : LET toks == aff_file.lines[k].toks
                         IN  IF toks = <<>> THEN FALSE ELSE toks[1][1] = c)
Argument(k, m) ==
    LET toks == aff_file.lines[k].toks IN IF m < Len(toks) THEN toks[m + 1] ELSE <<"">>
Number(c) == IF c \in DOMAIN Value THEN Value[c] ELSE 0
\* The entries of a table are as many of the lines after its header as it says.
EntriesOf(c) ==
    LET ks == LinesOf(c)
        cnt == Number(Argument(ks[1], 1)[1])
    IN  IF ks = <<>> THEN <<>>
        ELSE SubSeq(ks, 2, IF cnt < Len(ks) THEN 1 + cnt ELSE Len(ks))
IsAffixEntry(c, k) ==
    LET flag(j) == FlagOf(Argument(j, 1)).val
        same == {j \in Range(LinesOf(c)) : j < k /\ flag(j) = flag(k)}
        header == CHOOSE j \in same : \A m \in same : j <= m
        cross == Argument(header, 2)
    IN  /\ same # {}
        /\ Cardinality(same) <=
              Number(IF Len(cross) > 1 THEN cross[2] ELSE Argument(header, 3)[1])
AffixTexts(k) ==
    LET w == Argument(k, 3)
        condition == Argument(k, 4)
    IN  <<Cleared(Argument(k, 2)),
          SelectNot(Cleared(IF Slash(w) = 0 THEN w ELSE Before(w)), aff.ignored),
          IF condition = <<"">> \/ IsError(Parsed("condition", condition).err) THEN <<".">> ELSE condition>>

FlagTypeFirst(c) == \A j \in Range(LinesOf("FLAG")) : \A k \in Range(LinesOf(c)) : j < k

\* When the options are read without an error, the tables hold what the lines of
\* the file say, line by line and in their order: as many entries as announced,
\* from the lines after the header, with no other line's texts; an affix entry
\* under its flag's header, whatever text the flag was read from (unless FLAG comes
\* after it, which makes another flag of the same text) and, when its condition
\* is absent or is wrong and ends the line, with a condition that is always met; the default break
\* patterns when and only when no line is about them (aff_data.cxx:579-665, 866-890).
TablesAreLines ==
    pc = "count" =>
        /\ \A c \in {"MAP", "REP", "ICONV"} :
            conf[c] = [m \in DOMAIN EntriesOf(c) |->
                LET k == EntriesOf(c)[m]
                IN  CASE c = "MAP" -> <<Argument(k, 1)>>
                      [] c = "REP" -> <<Argument(k, 1), WithSpaces(Argument(k, 2))>>
                      [] c = "ICONV" -> <<Argument(k, 1), Argument(k, 2)>>]
        /\ conf["BREAK"] =
            IF LinesOf("BREAK") = <<>> THEN <<<<<<"-">>>>, <<<<"^", "-">>>>, <<<<"-", "$">>>>>>
            ELSE [m \in DOMAIN EntriesOf("BREAK") |-> <<Argument(EntriesOf("BREAK")[m], 1)>>]
        /\ \A c \in Affixes : FlagTypeFirst(c) =>
            LET ks == SelectSeq(LinesOf(c), LAMBDA k : IsAffixEntry(c, k))
            IN  [m \in DOMAIN conf[c] |-> <<conf[c][m][3], conf[c][m][4][1], conf[c][m][5]>>] =
                [m \in DOMAIN ks |-> AffixTexts(ks[m])]

\* "assert(static_cast<int>(p.err) > 0)" (aff_data.cxx:852): a line whose
\* parsing failed has an error that says why.
FailureHasError == pc = "values" /\ todo = <<>> /\ ss.fail => IsError(ss.err)
=============================================================================
