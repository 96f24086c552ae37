---------------------------- MODULE SuggestEdits ----------------------------
(***************************************************************************)
(* Suggester::suggest_low() and the stages it calls one after the other.   *)
(* Each changes the one word that all of them share, in place, looks the   *)
(* changed word up and changes it back; five of them (and a recursion in   *)
(* one of these) do so only as long as they have attempts left.            *)
(*                                                                         *)
(* A word is a sequence of bytes, whose letters differ in width; TRY, KEY  *)
(* and the characters of MAP are sequences of letters, as nothing changes  *)
(* them.  A step is one turn of an inner loop.  What the checker says of a *)
(* word is a parameter, and so is how many attempts a word is worth.       *)
(***************************************************************************)
EXTENDS Utf8, FiniteSets

CONSTANTS
    Words,      \* what is misspelled, as sequences of letters
    Settings,   \* a sequence of records [try_chars, keyboard, similarities,
                \* reps, ok, known, simple, earlier]: options, what the checker
                \* accepts, and the suggestions made before
    Budgets,    \* what max_attempts_for_long_alogs() may say
    Upper       \* u_toupper() of the letters it changes

\* No word is empty.  What comes from an .aff file is valid UTF-8.  A string to
\* be replaced is never empty, but for that of the pattern ^$.
ASSUME InputAssumption ==
    /\ Words \subseteq Seq(Letter) \ {<<>>}
    /\ Budgets \subseteq Nat
    /\ Upper \in [DOMAIN Upper -> Letter]
ASSUME SettingsAssumption ==
    \A a \in DOMAIN Settings :
        /\ {Settings[a].try_chars, Settings[a].keyboard} \subseteq Seq(Letter)
        /\ Settings[a].similarities \in Seq(Range(Settings[a].similarities))
        /\ \A e \in Range(Settings[a].similarities) :
                e.chars \in Seq(Letter) /\ e.strings \in Seq(Text)
        /\ Settings[a].reps[1] \in Seq(Text \X Text)
        /\ \A list \in 2..4 : Settings[a].reps[list] \in Seq((Text \ {<<>>}) \X Text)
        /\ Settings[a].earlier \in Seq(Seq(Byte))
ASSUME SeparatorAssumption == {" ", "-"} \subseteq Byte

VARIABLES
    input, setting, budget,
    word,       \* as changed so far
    stage,      \* number of the stage
    at,         \* the places its loops have come to; Over after the last
    remaining_attempts,
    tried,      \* what the stage has looked up, in order
    out, high_quality_sugs
vars == <<input, setting, budget, word, stage, at, remaining_attempts, tried, out,
          high_quality_sugs>>

aff == Settings[setting]
Stages == <<"uppercase", "rep", "map", "adjacent_swap", "distant_swap", "keyboard",
            "extra_char", "forgotten_char", "move_char", "bad_char",
            "doubled_two_chars", "two_words">>
Budgeted == {"map", "distant_swap", "forgotten_char", "move_char", "bad_char"}
Over == <<>>

\* The first six places in the word; after the end there is no next one.
NextPlace(i) == IF i = Len(word) THEN i ELSE Advance(word, i)
Place2 == NextPlace(0)
Place3 == NextPlace(Place2)
Place4 == NextPlace(Place3)
Place5 == NextPlace(Place4)
Place6 == NextPlace(Place5)

\* Where the loops of a stage begin.
Start(name) ==
    CASE name \in {"uppercase", "keyboard", "extra_char", "two_words"} -> <<0>>
      [] name = "rep" -> <<1, 1, 0>>
      [] name = "map" -> <<[i |-> 0, k |-> 1, undo |-> <<>>]>>
      [] name \in {"adjacent_swap", "distant_swap"} -> <<0, Advance(word, 0)>>
      [] name \in {"forgotten_char", "bad_char"} -> <<1, 0>>
      [] name = "move_char" -> <<"forward", 0, Advance(word, 0)>>
      [] name = "doubled_two_chars" ->
            IF Place4 = Len(word) THEN Over
            ELSE <<0, Place2, Place3, Place4, Place5>>

Init ==
    /\ input \in Words /\ setting \in DOMAIN Settings /\ budget \in Budgets
    /\ word = FlattenSeq(input) /\ stage = 1 /\ at = Start("uppercase")
    /\ remaining_attempts = budget
    /\ tried = <<>> /\ out = aff.earlier /\ high_quality_sugs = FALSE

In(name) == Stages[stage] = name /\ at # Over
Fixed == UNCHANGED <<input, setting, budget, stage, high_quality_sugs>>

\* map_suggest() is the last of the stages whose suggestions are of high
\* quality; so is a word that is correct when there are similarities.
NextStage ==
    /\ at = Over /\ stage < Len(Stages)
    /\ stage' = stage + 1 /\ at' = Start(Stages[stage + 1])
    /\ remaining_attempts' = budget /\ tried' = <<>>
    /\ high_quality_sugs' =
        IF Stages[stage] # "map" THEN high_quality_sugs
        ELSE \/ Len(out) # Len(aff.earlier)
             \/ aff.similarities # <<>> /\ word \in aff.known
    /\ UNCHANGED <<input, setting, budget, word, out>>

-----------------------------------------------------------------------------
\* add_sug_if_correct(), for each of some words
TryAll(ws) ==
    /\ tried' = tried \o ws
    /\ out' = out \o FlattenSeq([k \in DOMAIN ws |->
                                IF ws[k] \in aff.ok THEN <<ws[k]>> ELSE <<>>])
Try(w) == TryAll(<<w>>)

\* The bytes from change i on are put back.
\* Mutant: as many are taken out as were before.
Restored_OldSize(changed, i, with, from) == Spliced(changed, i, Len(from), from)
Restored(changed, i, with, from) == Spliced(changed, i, Len(with), from)
Changed(i, from, with) == Spliced(word, i, Len(from), with)
TryReplacing(i, from, with) ==
    /\ Try(Changed(i, from, with))
    /\ word' = Restored(Changed(i, from, with), i, with, from)
Untried == UNCHANGED <<word, tried, out>>
\* A turn that costs an attempt.
Spend == remaining_attempts > 0 /\ remaining_attempts' = remaining_attempts - 1
Free == UNCHANGED remaining_attempts
Exhausted == remaining_attempts = 0 /\ at' = Over /\ UNCHANGED remaining_attempts

UpperOf(cp) == IF cp \in DOMAIN Upper THEN Upper[cp] ELSE cp
Mapped(str) == FlattenSeq([k \in DOMAIN Letters(str) |-> UpperOf(Letters(str)[k])])
Uppercase ==
    /\ In("uppercase")
    /\ Try(Mapped(word)) /\ at' = Over
    /\ UNCHANGED word /\ Free /\ Fixed

\* rep_suggest(): four lists, for whole words, starts, ends and any place.
\* at holds the list, the entry and, in the last, where to look from.
Entry == aff.reps[at[1]][at[2]]
RepPlaces ==
    LET from == Entry[1]
        last == Len(word) - Len(from)
    IN  {p \in at[3]..last :
            /\ IsAt(word, p, from)
            /\ at[1] \in {1, 2} => p = 0
            /\ at[1] \in {1, 3} => p = last}
NextEntry == at' = <<at[1], at[2] + 1, 0>>

\* try_rep_suggestion(): a phrase is not looked up after its last space.
Spaces(w) == {k \in 1..Len(w) : w[k] = " "}
\* Mutant: the first part is enough.
IsPhrase_First(w) ==
    LET k == CHOOSE k \in Spaces(w) : \A m \in Spaces(w) : k <= m
    IN  Spaces(w) # {} /\ SubSeq(w, 1, k - 1) \in aff.known
IsPhrase(w) ==
    /\ Spaces(w) # {}
    /\ \A e \in Spaces(w) :
        LET b == {k \in Spaces(w) : k < e}
            begin == IF b = {} THEN 0 ELSE CHOOSE k \in b : \A m \in b : m <= k
        IN  SubSeq(w, begin + 1, e - 1) \in aff.known
Rep ==
    /\ In("rep") /\ at[1] <= 4 /\ at[2] <= Len(aff.reps[at[1]])
    /\ \/ RepPlaces = {} /\ NextEntry /\ Untried
       \/ \E p \in RepPlaces : \E w \in {Changed(p, Entry[1], Entry[2])} :
            /\ \A m \in RepPlaces : p <= m
            /\ tried' = Append(tried, w)
            /\ out' = IF w \in aff.ok \/ IsPhrase(w) THEN Append(out, w) ELSE out
            /\ word' = Restored(w, p, Entry[2], Entry[1])
            /\ IF at[1] = 4 THEN at' = <<4, at[2], p + 1>> ELSE NextEntry
    /\ Free /\ Fixed
RepNextList ==
    /\ In("rep") /\ at[2] > Len(aff.reps[at[1]])
    /\ at' = (IF at[1] = 4 THEN Over ELSE <<at[1] + 1, 1, 0>>)
    /\ Untried /\ Free /\ Fixed

-----------------------------------------------------------------------------
\* map_suggest(), a recursion over the places of the word.  A frame of at is
\* a call: its place, the replacement it has come to there, and what the
\* caller put before it.

\* What may be replaced in a group, and with what: each character, then each
\* string, with all the others.  At most one character is at a place.
Pairs(from, tos) == [k \in DOMAIN tos |-> <<from, tos[k]>>]
GroupPairs(e) ==
    FlattenSeq([k \in DOMAIN e.chars |->
        IF \E m \in 1..k - 1 : e.chars[m] = e.chars[k] THEN <<>>
        ELSE Pairs(e.chars[k], RemoveAt(e.chars, k) \o e.strings)]) \o
    FlattenSeq([k \in DOMAIN e.strings |->
        Pairs(e.strings[k], e.chars \o FlattenSeq([m \in DOMAIN e.strings |->
            IF e.strings[m] = e.strings[k] THEN <<>> ELSE <<e.strings[m]>>]))])
AllPairs ==
    [a \in DOMAIN Settings |->
        LET groups == Settings[a].similarities
        IN  FlattenSeq([g \in DOMAIN groups |-> GroupPairs(groups[g])])]

Frame == Last(at)
WithFrame(f) == Append(Front(at), f)
MapDone == Frame.i = Len(word)
\* The next replacement at the place, if there is one.
MayReplace(k) == IsAt(word, Frame.i, AllPairs[setting][k][1])
MapChoice ==
    {k \in Frame.k..Len(AllPairs[setting]) :
        MayReplace(k) /\ \A m \in Frame.k..k - 1 : ~MayReplace(m)}

MapTry ==
    /\ In("map") /\ ~MapDone /\ Spend
    /\ \E k \in MapChoice : \E o \in {AllPairs[setting][k]} :
           /\ word' = Changed(Frame.i, o[1], o[2])
           /\ Try(Changed(Frame.i, o[1], o[2]))
           /\ at' = Append(WithFrame([Frame EXCEPT !.k = k]),
                           [i |-> Frame.i + Len(o[2]), k |-> 1, undo |-> o])
    /\ Fixed
MapNextPlace ==
    /\ In("map") /\ ~MapDone /\ MapChoice = {}
    /\ at' = WithFrame([i |-> Advance(word, Frame.i), k |-> 1, undo |-> Frame.undo])
    /\ Untried /\ Free /\ Fixed

\* At the end of the word, or with a replacement and no attempt left.
MapReturns == ~MapDone => MapChoice # {} /\ remaining_attempts = 0
\* Mutant: a call that returns for want of attempts leaves the word as it is.
MapUndone_Early == IF MapDone THEN Restored(word, at[Len(at) - 1].i, Frame.undo[2], Frame.undo[1])
                              ELSE word
MapUndone == Restored(word, at[Len(at) - 1].i, Frame.undo[2], Frame.undo[1])
MapReturn ==
    /\ In("map") /\ MapReturns
    /\ IF Len(at) = 1 THEN at' = Over /\ UNCHANGED word
       ELSE /\ word' = MapUndone
            /\ at' = LET caller == at[Len(at) - 1]
                     IN  Append(SubSeq(at, 1, Len(at) - 2), [caller EXCEPT !.k = @ + 1])
    /\ UNCHANGED <<tried, out>> /\ Free /\ Fixed

-----------------------------------------------------------------------------
AdjacentSwap ==
    /\ In("adjacent_swap") /\ at[2] # Len(word)
    /\ \E i3 \in {Advance(word, at[2])} :
       \E there \in {SwapAdjacent(word, at[1], at[2], i3)} :
       \E back \in {SwapAdjacent(there.str, at[1], there.i2, i3)} :
          Try(there.str) /\ word' = back.str /\ at' = <<back.i2, i3>>
    /\ Free /\ Fixed

\* Afterwards two swaps at once, in words of four and five letters.
SwapTwice ==
    /\ In("adjacent_swap") /\ at[2] = Len(word)
    /\ at' = Over
    /\ \/ /\ Place5 = Len(word) /\ Place4 # Len(word)
          /\ \E ab \in {SwapAdjacent(word, 0, Place2, Place3)} :
             \E cd \in {SwapAdjacent(ab.str, Place3, Place4, Place5)} :
             \E ba \in {SwapAdjacent(cd.str, 0, ab.i2, Place3)} :
                Try(cd.str) /\ word' = SwapAdjacent(ba.str, Place3, cd.i2, Place5).str
       \/ /\ Place6 = Len(word) /\ Place5 # Len(word)
          /\ \E ab \in {SwapAdjacent(word, 0, Place2, Place3)} :
             \E de \in {SwapAdjacent(ab.str, Place4, Place5, Place6)} :
             \E ba \in {SwapAdjacent(de.str, 0, ab.i2, Place3)} :
             \E bc \in {SwapAdjacent(ba.str, ba.i2, Place3, Place4)} :
             \E cb \in {SwapAdjacent(bc.str, ba.i2, bc.i2, Place4)} :
                /\ TryAll(<<de.str, bc.str>>)
                /\ word' = SwapAdjacent(cb.str, Place4, de.i2, Place6).str
       \/ (Place4 = Len(word) \/ Place6 # Len(word)) /\ Untried
    /\ Free /\ Fixed

DistantSwapOuter ==
    /\ In("distant_swap") /\ Len(at) = 2
    /\ at' = (IF at[2] = Len(word) THEN Over
             ELSE LET i3 == Advance(word, at[2]) IN <<at[1], at[2], i3, i3>>)
    /\ Untried /\ Free /\ Fixed
DistantSwap ==
    /\ In("distant_swap") /\ Len(at) = 4
    /\ \/ at[4] = Len(word) /\ at' = <<at[2], at[3]>> /\ Untried /\ Free
       \/ at[4] # Len(word) /\ Exhausted /\ Untried
       \/ /\ at[4] # Len(word) /\ Spend
          /\ \E j2 \in {Advance(word, at[4])} :
             \E there \in {SwapCp(word, at[1], at[2], at[4], j2)} :
                 /\ Try(there.str)
                 /\ word' = SwapCp(there.str, at[1], there.i2, there.j1, j2).str
                 /\ at' = <<at[1], at[2], at[3], j2>>
    /\ Fixed

CpAt(i) == Part(word, i, Advance(word, i))
\* The letter in upper case, then its neighbours at each of its places on the
\* keyboard: at is the place in the word, and then also that on the keyboard.
KeysOf(cp, from) == {m \in from..Len(aff.keyboard) : aff.keyboard[m] = cp}
KeyFrom(cp, from) ==
    IF KeysOf(cp, from) = {} THEN 0
    ELSE CHOOSE m \in KeysOf(cp, from) : \A k \in KeysOf(cp, from) : m <= k
\* Mutant: the key just found is found again.
NextKey_Same(cp) == KeyFrom(cp, at[2])
NextKey(cp) == KeyFrom(cp, at[2] + 1)
KeyboardUpper ==
    /\ In("keyboard") /\ Len(at) = 1 /\ at[1] # Len(word)
    /\ IF UpperOf(CpAt(at[1])) = CpAt(at[1]) THEN Untried
       ELSE TryReplacing(at[1], CpAt(at[1]), UpperOf(CpAt(at[1])))
    /\ at' = <<at[1], KeyFrom(CpAt(at[1]), 1)>>
    /\ Free /\ Fixed
KeyAt(m) == IF m \notin DOMAIN aff.keyboard \/ aff.keyboard[m] = <<"|">> THEN <<>>
                                                          ELSE <<aff.keyboard[m]>>
Neighbours(m) == KeyAt(m - 1) \o KeyAt(m + 1)
KeyboardKey ==
    /\ In("keyboard") /\ Len(at) = 2 /\ at[2] # 0
    /\ LET cp == CpAt(at[1])
           keys == Neighbours(at[2])
       IN  /\ TryAll([k \in DOMAIN keys |-> Changed(at[1], cp, keys[k])])
           /\ word' = (IF keys = <<>> THEN word
                       ELSE Restored(Changed(at[1], cp, Last(keys)), at[1], Last(keys), cp))
           /\ at' = <<at[1], NextKey(cp)>>
    /\ Free /\ Fixed
KeyboardNext ==
    /\ In("keyboard")
    /\ \/ Len(at) = 1 /\ at[1] = Len(word) /\ at' = Over
       \/ Len(at) = 2 /\ at[2] = 0 /\ at' = <<Advance(word, at[1])>>
    /\ Untried /\ Free /\ Fixed

ExtraChar ==
    /\ In("extra_char")
    /\ IF at[1] = Len(word) THEN at' = Over /\ Untried
       ELSE TryReplacing(at[1], CpAt(at[1]), <<>>) /\ at' = <<Advance(word, at[1])>>
    /\ Free /\ Fixed

\* The two stages that go through try_chars: at is the letter there, and the
\* place in the word.
TryCp == aff.try_chars[at[1]]
NextTryChar == <<at[1] + 1, 0>>
TriedAllChars == at[1] > Len(aff.try_chars)
ForgottenChar ==
    /\ In("forgotten_char")
    /\ \/ TriedAllChars /\ at' = Over /\ Untried /\ Free
       \/ ~TriedAllChars /\ Exhausted /\ Untried
       \/ /\ ~TriedAllChars /\ Spend
          /\ TryReplacing(at[2], <<>>, TryCp)
          /\ at' = IF at[2] = Len(word) THEN NextTryChar
                                        ELSE <<at[1], Advance(word, at[2])>>
    /\ Fixed

BadChar ==
    /\ In("bad_char")
    /\ \/ TriedAllChars /\ at' = Over /\ Untried /\ Free
       \/ /\ ~TriedAllChars /\ at[2] = Len(word)
          /\ at' = NextTryChar /\ Untried /\ Free
       \/ /\ ~TriedAllChars /\ at[2] # Len(word)
          /\ \/ CpAt(at[2]) = TryCp /\ Untried /\ Free
                /\ at' = <<at[1], Advance(word, at[2])>>
             \/ CpAt(at[2]) # TryCp /\ Exhausted /\ Untried
             \/ /\ CpAt(at[2]) # TryCp /\ Spend
                /\ TryReplacing(at[2], CpAt(at[2]), TryCp)
                /\ at' = <<at[1], Advance(word, at[2])>>
    /\ Fixed

-----------------------------------------------------------------------------
\* move_char_suggest(): the letter at i1 goes forward by swaps, from j1 on;
\* then the letter that ends at i3 goes back.  at is the direction, i1 and
\* i2 (or i2 and i3) and, while a letter moves, the third and j1, j2.
MoveForward ==
    /\ In("move_char") /\ at[1] = "forward" /\ Len(at) = 3
    /\ IF at[3] = Len(word)
       THEN /\ at' = <<"back", Reverse1(word, Len(word)), Len(word)>>
            /\ UNCHANGED word
       ELSE LET i3 == Advance(word, at[3])
                moved == SwapAdjacent(word, at[2], at[3], i3)
            IN  word' = moved.str /\ at' = <<"forward", at[2], at[3], i3, moved.i2, i3>>
    /\ UNCHANGED <<tried, out>> /\ Free /\ Fixed

\* Mutant: only a letter that has come to the end is moved back.
ForwardReverted_End == word
ForwardReverted == Rotate(word, at[2], at[5], at[6])
MoveOnForward ==
    /\ In("move_char") /\ at[1] = "forward" /\ Len(at) = 6
    /\ \/ /\ at[6] = Len(word)
          /\ word' = Rotate(word, at[2], Len(word) - (at[3] - at[2]), Len(word))
          /\ at' = <<"forward", at[3], at[4]>>
          /\ UNCHANGED <<tried, out>> /\ Free
       \/ /\ at[6] # Len(word) /\ Exhausted
          /\ word' = ForwardReverted /\ UNCHANGED <<tried, out>>
       \/ /\ at[6] # Len(word) /\ Spend
          /\ LET j3 == Advance(word, at[6])
                 moved == SwapAdjacent(word, at[5], at[6], j3)
             IN  /\ Try(moved.str) /\ word' = moved.str
                 /\ at' = <<"forward", at[2], at[3], at[4], moved.i2, j3>>
    /\ Fixed

MoveBack ==
    /\ In("move_char") /\ at[1] = "back" /\ Len(at) = 3
    /\ IF at[2] = 0 THEN at' = Over /\ UNCHANGED word
       ELSE LET i1 == Reverse1(word, at[2])
                moved == SwapAdjacent(word, i1, at[2], at[3])
            IN  word' = moved.str /\ at' = <<"back", at[2], at[3], i1, i1, moved.i2>>
    /\ UNCHANGED <<tried, out>> /\ Free /\ Fixed
MoveOnBack ==
    /\ In("move_char") /\ at[1] = "back" /\ Len(at) = 6
    /\ \/ /\ at[5] = 0
          /\ word' = Rotate(word, 0, at[3] - at[2], at[3])
          /\ at' = <<"back", at[4], at[2]>>
          /\ UNCHANGED <<tried, out>> /\ Free
       \/ /\ at[5] # 0 /\ Exhausted
          /\ word' = Rotate(word, at[5], at[6], at[3]) /\ UNCHANGED <<tried, out>>
       \/ /\ at[5] # 0 /\ Spend
          /\ LET j1 == Reverse1(word, at[5])
                 moved == SwapAdjacent(word, j1, at[5], at[6])
             IN  /\ Try(moved.str) /\ word' = moved.str
                 /\ at' = <<"back", at[2], at[3], at[4], j1, moved.i2>>
    /\ Fixed

\* at is i[0], ..., i[3] and j: the last four letters and the next.
DoubledTwoChars ==
    /\ In("doubled_two_chars")
    /\ IF at[5] = Len(word) THEN at' = Over /\ Untried
       ELSE LET end == Advance(word, at[5])
                cp(k) == IF k = 4 THEN Part(word, at[5], end)
                                  ELSE Part(word, at[k + 1], at[k + 2])
                erased == Spliced(word, at[4], end - at[4], <<>>)
            IN  /\ at' = <<at[2], at[3], at[4], at[5], end>>
                /\ IF cp(0) = cp(2) /\ cp(1) = cp(3) /\ cp(0) = cp(4)
                   THEN /\ Try(erased)
                        /\ word' = Spliced(erased, at[4], 0, Part(erased, at[2], at[4]))
                   ELSE Untried
    /\ Free /\ Fixed

\* two_words_suggest(); w1_num_cp is one less than the letters of word1.
Push(list, w) == IF Contains(list, w) THEN list ELSE Append(list, w)
WantsDash(word1, word2) ==
    /\ Len(Letters(word1)) - 1 > 1 /\ Len(Letters(word2)) > 1
    /\ {<<"a">>, <<"-">>} \cap Range(aff.try_chars) # {}
TwoWords ==
    /\ In("two_words")
    /\ LET next_i == Advance(word, at[1])
           word1 == Part(word, 0, next_i)
           word2 == Part(word, next_i, Len(word))
           joined(c) == word1 \o <<c>> \o word2
       IN  IF next_i = Len(word) THEN at' = Over /\ UNCHANGED out
           ELSE /\ at' = <<next_i>>
                /\ out' = IF {word1, word2} \subseteq aff.simple
                          THEN IF WantsDash(word1, word2)
                               THEN Push(Push(out, joined(" ")), joined("-"))
                               ELSE Push(out, joined(" "))
                          ELSE out
    /\ UNCHANGED <<word, tried>> /\ Free /\ Fixed

Next ==
    \/ NextStage \/ Uppercase \/ Rep \/ RepNextList
    \/ MapTry \/ MapNextPlace \/ MapReturn
    \/ AdjacentSwap \/ SwapTwice \/ DistantSwapOuter \/ DistantSwap
    \/ KeyboardUpper \/ KeyboardKey \/ KeyboardNext \/ ExtraChar
    \/ ForgottenChar \/ BadChar
    \/ MoveForward \/ MoveOnForward \/ MoveBack \/ MoveOnBack
    \/ DoubledTwoChars \/ TwoWords

Spec == Init /\ [][Next]_vars
\* The stages are called one after the other by one thread.
FairSpec == Spec /\ WF_vars(Next)

-----------------------------------------------------------------------------
\* The places are those of letters, also while the word is changed: no stage
\* cuts a letter of several bytes or joins parts of two, in the word or in
\* what it looks up; attempts are never spent twice.
PlacesOfWord ==
    CASE Stages[stage] = "map" -> {at[k].i : k \in DOMAIN at}
      [] Stages[stage] = "move_char" ->     \* but for those a letter has left
            {at[k] : k \in IF Len(at) = 3 THEN {2, 3}
                           ELSE IF at[1] = "forward" THEN {2, 5, 6} ELSE {3, 5, 6}}
      [] Stages[stage] \in {"rep", "keyboard"} -> {}
      [] Stages[stage] \in {"forgotten_char", "bad_char"} -> {at[2]}
      [] OTHER -> Range(at)
LettersStayWhole ==
    /\ {word} \cup Range(tried) \subseteq Text
    /\ at # Over => PlacesOfWord \subseteq Starts(word)
    /\ remaining_attempts \in 0..budget
    /\ Stages[stage] \in Budgeted => Len(tried) = budget - remaining_attempts

\* Whatever a stage does to the word, and wherever it stops, the next one
\* gets the word that was misspelled; on the way no letter is cut.
WordHandedBack ==
    /\ LettersStayWhole
    /\ at = Over \/ Stages[stage] \notin {"map", "move_char"} => word = FlattenSeq(input)

\* What the stages are for, on letters.
Put(k, letters) == SubSeq(input, 1, k - 1) \o letters \o SubSeq(input, k + 1, Len(input))
Exchanged(w, j, k) == [w EXCEPT ![j] = w[k], ![k] = w[j]]
TryLetters == Range(aff.try_chars)
Keys == aff.keyboard
Beside(m) == {Keys[k] : k \in {m - 1, m + 1} \cap DOMAIN Keys} \ {<<"|">>}

\* A member of a similarity group may stand for any other.
Members(e) == Range(e.chars) \cup Range(e.strings)
Rewritings ==
    LET w == FlattenSeq(input)
        from[i \in 0..Len(w)] ==    \* <<whether anything is replaced, the rest>>
            IF i = Len(w) THEN {<<FALSE, <<>>>>}
            ELSE {<<r[1], Part(w, i, Advance(w, i)) \o r[2]>> : r \in from[Advance(w, i)]}
                 \cup UNION {UNION {{<<TRUE, p[2] \o r[2]>> : r \in from[i + Len(p[1])]} :
                        p \in {p \in Members(e) \X Members(e) :
                                  p[1] # p[2] /\ IsAt(w, i, p[1])}} :
                             e \in Range(aff.similarities)}
    IN  {r[2] : r \in {r \in from[0] : r[1]}}

RepEdits(list) ==
    LET w == FlattenSeq(input)
    IN  UNION {{SubSeq(w, 1, p) \o r[2] \o SubSeq(w, p + Len(r[1]) + 1, Len(w)) :
                    p \in {p \in 0..Len(w) - Len(r[1]) :
                            /\ SubSeq(w, p + 1, p + Len(r[1])) = r[1]
                            /\ list \in {1, 2} => p = 0
                            /\ list \in {1, 3} => p + Len(r[1]) = Len(w)}} :
               r \in Range(aff.reps[list])}

Edits(name) ==
    LET n == Len(input)
        Flat(ws) == {FlattenSeq(w) : w \in ws}
    IN
    CASE name = "uppercase" -> Flat({[k \in 1..n |-> UpperOf(input[k])]})
      [] name = "rep" -> UNION {RepEdits(list) : list \in 1..4}
      [] name = "map" -> Rewritings
      [] name = "adjacent_swap" ->
            Flat({Exchanged(input, k, k + 1) : k \in 1..n - 1} \cup
                 {Exchanged(Exchanged(input, p[1], p[1] + 1), p[2], p[2] + 1) : p \in
                    IF n = 4 THEN {<<1, 3>>} ELSE IF n = 5 THEN {<<1, 4>>, <<2, 4>>} ELSE {}}
                 )
      [] name = "distant_swap" ->
            Flat({Exchanged(input, p[1], p[2]) : p \in {p \in (1..n) \X (1..n) : p[1] + 1 < p[2]}})
      [] name = "keyboard" ->
            Flat(UNION {{Put(k, <<c>>) : c \in
                    ({UpperOf(input[k])} \ {input[k]}) \cup
                    UNION {Beside(m) : m \in {m \in DOMAIN Keys : Keys[m] = input[k]}}} :
                  k \in 1..n})
      [] name = "extra_char" -> Flat({Put(k, <<>>) : k \in 1..n})
      [] name = "forgotten_char" ->
            Flat({InsertAt(input, k, c) : k \in 1..n + 1, c \in TryLetters})
      [] name = "move_char" ->
            Flat({InsertAt(RemoveAt(input, p[1]), p[2], input[p[1]]) :
                    p \in {p \in (1..n) \X (1..n) : p[1] + 1 < p[2] \/ p[2] + 1 < p[1]}})
      [] name = "bad_char" ->
            Flat(UNION {{Put(k, <<c>>) : c \in TryLetters \ {input[k]}} : k \in 1..n})
      [] name = "doubled_two_chars" ->
            Flat({RemoveAt(RemoveAt(input, k), k) : k \in
                    {k \in 1..n - 4 : /\ input[k] = input[k + 2] /\ input[k + 2] = input[k + 4]
                                      /\ input[k + 1] = input[k + 3]}})
      [] name = "two_words" -> {}

\* When a stage is over it has looked up all of its edits, and nothing else.
\* Only a stage that has spent all its attempts has left some out.
TriedAreTheEdits ==
    at = Over =>
        LET edits == Edits(Stages[stage])
        IN  \/ Range(tried) = edits
            \/ /\ Stages[stage] \in Budgeted /\ remaining_attempts = 0
               /\ Range(tried) \subseteq edits

\* A split of the misspelled word into two known words, with a dash only
\* after three letters or more.
SplitAt(w, k) ==
    LET a == SubSeq(w, 1, k - 1)
        b == SubSeq(w, k + 1, Len(w))
    IN  /\ a \o b = FlattenSeq(input) /\ {a, b} \subseteq aff.simple
        /\ w[k] = "-" => Len(Letters(a)) >= 3 /\ Len(Letters(b)) >= 2
IsKnown(w) ==
    \/ w \in aff.ok
    \/ \E m \in DOMAIN w : w[m] \in {" ", "-"} /\ SplitAt(w, m)
    \/ /\ \E list \in 1..4 : w \in RepEdits(list)
       /\ Spaces(w) # {}
       /\ \A p \in DOMAIN w : \A q \in p..Len(w) - 1 :
            (/\ w[q + 1] = " " /\ (p = 1 \/ w[p - 1] = " ")
             /\ \A m \in p..q : w[m] # " ")
            => SubSeq(w, p, q) \in aff.known

\* What is suggested is a word the checker accepts or two it knows: a split
\* of the misspelled word, or a replacement with spaces, whose last part
\* nobody has looked up.
SuggestionsAreKnown == \A k \in Len(aff.earlier) + 1..Len(out) : IsKnown(out[k])

\* suggest_low() comes to its end, whatever the budget.
Terminates == <>(at = Over /\ stage = Len(Stages))
=============================================================================
