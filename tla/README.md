# Verification of the nuspell compound corrector

TLA+ models of this repository: the spell-checking engine under
`src/nuspell/` (a fork of Nuspell) and the API under `src/api/` that repairs
sentences with it. The modules are checked by TLC on small instances, and the
invariants of seven of them are proved with TLAPS for every value of the
constants. Each definition names, in `PROJECT.json` under `map`, the lines of
the source it stands for; the hazards that the properties were written for are
listed there too, at the line where they bite.

The program is sequential. What is hard in it is not threads but **shared
mutable state inside deep recursion and nested iteration** (one string buffer
that nested searches edit and must give back), **hand-written containers**
whose invariants span several operations, **bookkeeping that has to stay
aligned** over several passes, and **search with early exits** in which a wrong
guard loses a word or accepts a wrong one without any other sign.

## 1. Inventory

| Part | Source | State | Operations | Talks to | What makes it correct |
|---|---|---|---|---|---|
| Word list | `nuspell/structures.hxx` 517-651 | vector of chains, `sz`, `max_load_factor_capacity` | `emplace`, `insert`, `reserve`, `rehash`, `equal_range` | filled by the .dic parser, read by every search | load bound, no entry lost by growth, equal keys in one run and in order |
| Compound corrector | `api/compound_corrector.cxx` | tokens, cores and tails, classes, merge candidates, merged words, `orig_start`, statuses | `CorrectWithStatus`, `try_single_fix`, `SetConfig` | `Dictionary::spell`, `suggest`; the unigram table; acronyms | words and statuses aligned, candidates resolved, punctuation and inert words kept |
| Bundle | `api/bundle.*`, `api/pack_resources.cxx` | streams | `write_bundle`, `read_bundle` | read once when a corrector is constructed | what is loaded is what was packed, or the load fails |
| String replacement | `structures.hxx` 325-440 | sorted table | `find_match`, `replace` | ICONV before checking, OCONV after suggesting | ends, one pass, longest match |
| Affix searches | `nuspell/checker.cxx` 291-1291, 1826-1872 | the buffer `word`, the open loops and their iterators | `check_simple_word`, `check_word_in_compound` and the `strip_...` family | word list, affix index, conditions | sound, complete, buffer handed back |
| Affix index | `structures.hxx` 820-1120 | sorted vector, first-letter index, iterator range | construction, `iterate_prefixes_of` | the affix searches | visits exactly the keys that fit |
| Condition | `structures.hxx` 655-815 | text, number of letters | constructor, `match_prefix`, `match_suffix` | the affix searches | refuses the malformed; verdict = meaning |
| Word judgement | `checker.cxx` 50-236 | buffer, recursion stack | `spell_priv`, `spell_break`, `spell_casing...` | the two checks below | answer = recursive meaning; forbidden words stay so |
| Sharp s | `checker.cxx` 238-274 | buffer, recursion stack | `spell_sharps` | `check_word` | each variant once, buffer restored |
| Compound checking | `checker.cxx` 1381-1930 | buffer, `part`, `num_part`, recursion stack | `check_compound` with its classic, pattern and triple joints | affix searches per part, REP table | what is accepted is a compound within limits; ends |
| Compound rules | `checker.cxx` 1932-2007, `structures.hxx` 1400-1560 | `words_data`, stack of the matcher | `check_compound_with_rules`, `match_simple_regex` | word list | flags matched are those of one cut; verdict = meaning |
| .dic parser | `nuspell/aff_data.cxx` 76-170, 894-1031 | stream, line, index, `success` | `parse_dic` | word list | entries are those of the lines; errors reported and contained |
| .aff parser | `aff_data.cxx` 170-890 | stream of a line, options, tables, counts per command and per affix flag | `parse_aff`, `parse_aff_dic` | all tables; the .dic parser | tables are what the lines say; no half-read entry is used; errors reported |
| Suggester | `nuspell/suggester.cxx` | word buffer, list of results, budgets, recursion over parts | `suggest_priv`, `suggest_low` and its stages, `ngram_suggest` | checker, REP/MAP tables, conversions | buffer handed back; every stage tries its edits; nothing suggested is lost, repeated or refused; ends |
| Dictionary facade | `nuspell/dictionary.*` | the loaded data | load, `spell`, `suggest` | checker, suggester | its calls are the initial states of the modules below it |
| Finder | `nuspell/finder.*` | lists of paths | search, match | file system | *not modelled* |
| Unicode, encodings | `nuspell/utils.*`, `unicode.hxx` | none | walks over UTF-8, casing | everything | letters stay whole |
| Tools | `tools/nuspell.cxx`, `api/*_words.*`, `spellcheck_filter`, `test_compound` | none to speak of | read, call, print | the library | not modelled |
| Vendored, data, tests | `external/`, `res/`, `tests/` | | | | not modelled; tests were read for intent |

**How they interact.** Loading is one pass: `parse_aff` fills the tables,
`parse_dic` fills the word list; after that the data is only read.
`Dictionary::spell` converts its input (string replacement) and calls
`spell_priv`, which recurses over break patterns and casings down to
`check_word`: first the affix searches on the whole word, then compound
checking, which calls the affix searches on each part. The corrector calls
`spell` for cores, joins and titles and `suggest` for the rest; the suggester
asks the checker about every edit it makes. Everything is a
synchronous call; state is shared by passing one `std::string&` down.

**Hard behaviours.** In the order of what they could cost: edits of the shared
buffer undone on every path (affix searches, pattern joints, sharp s, the
stages of the suggester, also when a budget ends them);
bookkeeping along recursion (`words_data`, the text and counts of a nested call); alignment of statuses
with words after merges; growth of the hash table in the middle of an
insertion; partial failure when loading (truncated bundle, bad lines, read
errors); unsigned wrap-around and look-ups past an end that are only safe by an
invariant elsewhere; and termination of recursions whose measure is not
obvious. There are no threads, crashes of persistent state, messages or
timeouts in this code. The one concurrent promise, that `SetConfig` may be
called at any time, is not kept by the code in the presence of threads, of which the repository has none.

## 2. Modules

Conventions: a module is a state machine of one call (or, for the word list,
of a client's calls). `pc` or the stack says where the call is; inputs and
dictionaries are chosen in `Init`; recursion in the code is a stack of records
(`calls`, `loops`), one per activation, with its locals as fields. A definition
named `X_Something`, announced by a comment, is a broken variant of `X`
standing for a plausible bug; it is used by no specification and each property
is known to fail when one of them takes the place of the real one.

* **`Multimap`** – what the word list promises: `emplace` appends to the entries of a key.
* **`HashMultimap`** (implements `Multimap`) – chains as sequences; `Emplace`,
  `Reserve`, and a rehash as `StartRehash`, one `Move` per entry, then the
  delayed insertion. `data`/`n.data` swap is a renaming, see its header.
* **`TokenStatus`** – the abstract life of statuses: undecided, merged with the
  neighbour, substituted, decided at most once.
* **`CompoundCorrector`** (implements `TokenStatus`) – `CorrectWithStatus`:
  weighing of each pair, greedy scan with look-ahead, fix pass. A token is a
  record of what the code asks about it; dictionary and log-probability answers
  are chosen freely.
* **`SingleFix`** – `try_single_fix`: the running maximum over suggestions.
* **`SubstrReplacer`** – the table, the binary search, the replacement loop.
* **`Bundle`** – writer, a cut at any byte, reader with its stream state.
* **`AffixStripping`** – all searches over one buffer: opening a loop on the
  current word, stripping in place, the inner loop, the root look-up with its
  conditions, and the destructor that puts the affix back. `Searches` lists the
  searches in the order the code tries them.
* **`AffixIndex`**, **`Condition`** – the two structures that the affix
  searches depend on, in their own detail (indices, bytes).
* **`Casing`** – `classify_casing`, `to_lower`, `to_title` and the like on letters.
* **`SpellWord`** – `spell_priv`, `spell_break`, casings; unsigned indices
  that wrap at `Width`.
* **`Sharps`** – `spell_sharps` over bytes.
* **`CompoundCheck`** – the recursion of `check_compound`: places, joints
  (plain, each pattern, the simplified triple), counts, limits, the nested call
  on the rest, undo of edits. The stack has room for `StackSize` calls: the
  code has no limit of its own, and a call more ends the program
  (`OverflowStack`). **`CompoundReadings`** extends it with an
  independent definition of what a compound is (recursive operators, for TLC
  only) and the two properties that compare.
* **`CompoundRules`**, **`SimpleRegex`** – COMPOUNDRULE search and its matcher.
  The first uses the *meaning* that the second is checked against.
* **`DicParser`** – `parse_dic`: the in-place scan, flags and aliases, errors,
  the hidden title-case homonym.
* **`AffParser`** (extends `DicParser`) – `parse_aff` and then `parse_dic`. The
  lines of an .aff file are read from a stream that may fail; a step extracts one
  value, and an entry is in its table from its first value on, as in the code. How
  flags are read depends on the FLAG and AF lines before. The .dic file is
  read with the options that the .aff file has left.
* **`Utf8`** – walking, swapping and rotating letters of several bytes in a string;
  `Text` is what is valid UTF-8: every letter ends where the next one starts.
* **`SuggestEdits`** (extends `Utf8`) – `suggest_low`: twelve stages, one shared
  word over bytes that most of them change in place, the budget of each long
  stage, and the recursion of `map_suggest` as a stack of places.
* **`Suggester`** – `suggest_priv`: what is asked for a word of each casing, what
  goes first, the walk over results with a space that rotates them to the front
  one by one, the recursion over the parts between dashes with the list that the
  nested calls share, the filter and the removal of repetitions. A call keeps a
  script of its remaining steps; `suggest_low`, `ngram_suggest` and the
  conversions are functions of a dictionary.
* **`LeafSearches`** – puts the eight routines that call nothing modelled
  (`AffixIndex`, `Condition`, `SimpleRegex`, `CompoundRules`, `Sharps`, `SingleFix`,
  `SubstrReplacer`, `Bundle`) side by side as instances with variables of their
  own; a behaviour is one call of one of them, and each of the properties has a
  conjunct for every routine it concerns. It models no code of its own.
* **`MC...`** give the constants values for TLC. **`InductionLemmas`** (least
  element of a set of naturals, induction over a set, greatest index, `InsertAt`,
  `Front`) and
  **`...Proofs`** hold theorems.

### What is abstracted

Letters are model values or small numbers; only `Condition`, `Sharps`, `Bundle`,
`Utf8` and `SuggestEdits` look at bytes. Flags are strings in sets. ICU (casing,
encodings), `iostream` and `suggest` are outside. Log texts are left out.

## 3. Runs

| Run | Bounds | What it shows |
|---|---|---|
| `HashMultimap` | 2 keys (in one bucket until the table has grown), 2 values, capacities 4/8/16/32, up to 8 entries and two growths, with and without `reserve` | load bound; the entries inserted are those in the buckets, those left to move and the one that waits, and are counted once; no nested rehash, entries where they are looked for, equal keys in one run – in every intermediate state of a rehash; refines `Multimap` |
| `CompoundCorrector` | every kind of token up to 3 tokens, the kinds that merge up to 4 (`Bounded`) | alignment of words, tokens and statuses; no candidate lost; punctuation kept; inert tokens and pairs of stop words not merged, a fixed word unknown, and inert only up to its tail; refines `TokenStatus`; ends |
| `SubstrReplacerNotFound` | tables out of 5 keys that are prefixes of each other, the empty one too | **violated**: see findings |
| `AffixStripping` | dictionaries with one prefix and two suffixes (mirrored for COMPLEXPREFIXES), all combinations of flags the searches tell apart, with at most two of the three affixes out of the ordinary (`Bounded`); whole words and parts | sound and complete against a declarative reading of the affix rules; iterators see their word; buffer handed back |
| `SpellWord` | words of up to 3 characters and longer ones that break often, depth limit 2, indices below 16 (npos is 15) | answer = meaning, which a forbidden word never has; no index past the word; ends |
| `CompoundCheck` | 13 dictionaries, one per way of joining or limiting, words of up to 7 letters over 2, and one whose joints do not shrink; `StackSize` 12 | buffer = edits of open calls; the text of a nested call = that of its caller less a part, with what the joint adds; accepted ⇒ compound; compound ⇒ accepted where joints do not depend on the reading; ends for the dictionaries whose joints shrink |
| `CompoundCheckEndless` | the dictionary whose joints do not shrink | **violated**: see findings |
| `LeafSearches` | one call of one of the eight routines below | each of them ends, and: |
| – `AffixIndex` | all tables of up to 3 keys of up to 3 letters out of 2, and of 4 keys of up to 2; words of up to 3 | exactly the keys that begin the word are visited, comparisons stay inside keys |
| – `Condition` | up to 3 elements, letters of one and two bytes, 9 malformed texts, words of up to 3 letters | refused iff malformed; verdict = meaning; both indices in step |
| – `SimpleRegex` | all rules of up to 3 flags, compounds of up to 3 words | verdict = meaning of `?` and `*` |
| – `Sharps` | words of up to 9 bytes over two letters, limit 3 instead of 5 | each variant of the first `ss` looked up once; buffer restored |
| – `SingleFix` | lists of up to 3 suggestions | the heaviest eligible one, the first on a tie |
| – `CompoundRules` | ordinals as in `en_US` and two more dictionaries, words of up to 5 or 8 letters | `words_data` is one cut; accepted iff such a cut exists |
| – `SubstrReplacer` | tables out of 5 keys that are prefixes of each other, the empty one too | one pass, a found key is the longest, nothing written is scanned again |
| – `Bundle` | files of 0 or 1 byte, cut at every byte | all or nothing; no read past the end |
| `Loading` | .aff files of up to 4 lines out of five families (arrays; suffixes; flags, aliases and compound rules; patterns; options), every line both right and wrong, and one cut by a read error; with six of them all .dic lines of up to 4 tokens and longer ones of fewer tokens, all flag types, files of up to 3 lines with errors and read failures | tables = lines, nothing half read is used; entries = lines; homonyms covered; failure reported exactly |
| `LoadingAssert` | the option files of the above | **violated**: see findings |
| `Suggester` | words of up to 4 characters over a letter in both cases, a dash and a period, and six longer ones; 3 dictionaries with KEEPCASE, forbidden words, conversions, words that force a capital | nothing suggested is lost; no repetition, nothing refused; n-grams only as a last resort; the suggestions of each part, the last one too, replace that part and no other; ends |
| `SuggestEdits` | all words of up to 3 letters of one, two and three bytes, of up to 5 out of two, one of 6; budgets 0, 1, 2, 5 and 100; 3 dictionaries | letters stay whole; the word handed back; each stage tries exactly its edits unless its budget ends it; what is suggested is known; ends |

`Bounded` is a state constraint on what a behaviour keeps from its initial
state (the sentence, the dictionary): it drops whole behaviours and cuts none
short, so liveness is judged on complete behaviours.

**Why the bounds suffice.** Each one lets the interesting case happen and the
case after it: two growths of the table (the second rehash starts from a grown
one), a candidate that overlaps two others, affixes as deep as the deepest
search (three), compounds of three parts with an edit in the middle, a limit
that is met exactly and exceeded, a wrap of an unsigned index, a cut inside
each field. Limits that are numbers in the code and only bound a recursion
(`MAX_SHARPS`, depth 9, 64-bit indices, capacity 16), and the size of the stack,
are constants, scaled down
so that both sides of them are reached. The budget of a long stage is a number
of the environment, since its formula gives no less than some hundred attempts. The broken variants listed under `mutants` are all caught within these bounds.

`CHECK_DEADLOCK FALSE` stands where a call ends and nothing follows.

**Fairness.** The liveness properties say that a call returns. `FairSpec` is
weak fairness of `Next`: the code is sequential and a call that can take a step
takes it. Nothing stronger is used. The affix searches and the parsers have no
liveness property: their loops run over finite tables and texts, with no
recursion whose measure is in doubt.

## 4. Proofs

Proved with TLAPS from the assumptions named in the modules (types of the
constants, and those below), hence for any number of keys, tokens, affixes and
any length of word:

* **`HashMultimapProofs`**. `IInv` joins `TypeOK`, the bucket of each entry, the
  runs, and a case distinction on the stage: outside a rehash
  `sz <= maxLoad`; inside one, the entries still in `src` plus those placed
  plus the one that waits are the total, and the total is below the limit of
  the fresh table. The total is that of `inserted`, a history variable that only
  `Emplace` and `EmplaceGrow` advance, so `SizeAccounting` would notice an entry
  that a step of a rehash drops or places twice. The load bound alone is not inductive: the test in
  `prepare_for_insert` is an equality, so it needs that no step jumps over the
  limit, which needs the count of what is in flight (`NoNestedRehash`).
  Assumptions: the capacities pass every count in use.
* **The refinement**, in the same module. That the table implements `Multimap`: the
  initial states map to the empty multimap, an insertion outside a rehash to
  `Abs!Emplace`, every other step to a stutter. What `equal_range` returns from
  a list whose keys are contiguous is one interval of it; an insertion makes the
  interval of its key one longer at the end and only shifts the others
  (`InsertRun`), taking the head off a list makes one interval shorter at the
  front (`TailRun`). So an entry moved by a rehash leaves the front of the old
  run of its key and joins the end of the new one, and their concatenation, which
  is what a client sees, stays the same (`MoveRefines`). `IInv` is not enough: the
  old buckets must be in order during the rehash too (`OldBuckets`).
* **`CompoundCorrectorProofs`**. `IInv` says that the words made so far cover
  exactly the tokens before `i`, each starting where the previous ends, that
  statuses are those of the cut, and that each skipped candidate has the
  neighbour that beat it. From it: alignment, punctuation, what merges and fixes
  leave alone,
  candidates resolved, and the refinement of `TokenStatus` (each step maps to a
  step or a stutter).
* **`AffixStrippingProofs`**. `IInv` says that the word of loop `k+1` is the word
  of loop `k` with the affix of loop `k` taken off, and that putting it back is
  the inverse because of the test that precedes it (the affix ends the word, or
  begins it). From it: every open iterator sees its word, and the buffer is
  handed back. The table assumption only says that the affixes of a table are of
  its side and are sequences of letters.
  `FoundIsDerived` speaks of the moment an entry is found; `Sound`, in the second
  half of the module, is what makes it inductive. While a search goes down, it remembers
  that each affix that is off passed the guards of its loop
  (`StrippedAllowed`), and that each loop inside another was opened on a word
  that met the condition (`ConditionsHold`). When an entry passes, the words the
  loops have seen, read from the inside out, are what the affixes build from it
  (`BuildsInput`, on top of `RootThenDerived`), and for each of the nine
  searches the guards together are a licence for the chain of affixes
  (`LicitOne` to `LicitAround`, joined in `LicitReading`). From it: what is
  returned is a reading of the word, for every dictionary and mode, and type
  correctness. It also assumes that the places of the word list are numbers.

* **`CompoundCheckProofs`**. `OpenCallsAreSound` speaks of a buffer that all open
  calls share. What makes it inductive is to have one buffer per call: the shared
  one with the edits of this call and of all calls inside it undone (`Found`).
  Then a step changes the last of these buffers only, an edit is undone by the
  same splice the other way round (`SpliceBack`), and each call's places fit the
  buffer it found (`CallFits`). `last` of a call is the length of its buffer less
  the letters of a part, and the nested call starts where its caller's second
  part does (`Nested`); hence the exact length of its text (`TextAccounted`), for
  every dictionary. From it also: the caller's word comes back unchanged however
  the search ends. Two theorems are about the dictionaries whose joints add fewer
  letters than a part has: `JointsShrink` is a hypothesis of their statements and
  not an assumption, since the code does not see to it (finding 3). For these the
  depth is bounded by the letters of the word (`TextsShrink`,
  `CompoundCheckDepth`), a bound that TLC finds to be tight, and a stack with room
  for as many calls as the word has letters suffices (`CompoundCheckStack`).
  `TextAssumption` gives the types of words and patterns, `StackAssumption` that
  one call fits on the stack.
* **`SpellWordProofs`**. The invariant: each call of `spell_break` that waits is at
  a pattern that applies to its word and the call below it has one of the parts
  that the pattern leaves (`Link`); the deepest call has not begun its patterns
  when the depth is at its limit (`TopFits`), which is why a nested call never
  exceeds it; a period that was trimmed leaves room to put one back (`Plain`). That
  a part is cut where the pattern is (`PartsFacts`) rests on `MiddleApplies`: an
  unsigned difference is below `Width`, so npos, its greatest value, is never less
  than it, and a pattern that was found is not longer than the word, so the
  difference has not wrapped. `OrderEntries` leaves no empty pattern
  (`BreaksTyped`), so every part is shorter than the word. `SpellWordForbidden`
  adds that a forbidden word has one call that never leaves the casing test
  (`Refusing`): what the dictionary says of the word as it is written is the
  first candidate of every casing (`ExactFirst`). Assumed: words and patterns are
  sequences of letters, and a word is shorter than `Width` (`TextAssumption`).
* **`DicParserProofs`**, under `LoadSpec`, whose options come from any .aff file.
  `parse_dic` erases bytes of the line that it scans, while `FailureReported` speaks
  of the lines in the file. `Shifted` ties the two: what lies ahead of the scan, and
  the byte before it, is what the text has `r` places further on, `r` grows by
  one with each backslash erased, and no end of the word lies behind the scan. The
  byte before is needed because it decides whether a slash is escaped; at the first
  place nothing has been erased yet, so that "not the first byte" means the same in
  both. Hence the scan stops where the text says (`EndAgrees`, `FirstEndIs`), the
  flags cut out are those of the text (`FlagsAgree`), and a line is rejected if and
  only if its text is bad (`BadAgrees`). `HomonymsAreCovered` needs that the options
  no longer change once there are words (`OptionsKeep`). `EntriesAreLines` asks more:
  that the word cut out of the line is the one of the text. A text without its
  backslashes is given by the list, in order, of the places that are kept (`InOrder`);
  `ScannedIsText` says that the line up to the scan is what such a list picks out of
  the text. A byte passed over adds its place at the end (`OrderGrows`), an erased
  backslash, which was the last place kept, is exchanged for the place of its slash
  (`OrderLast`), and a list that is in order and leaves nothing out is the one
  `InOrder` gives (`OrderIs`, which counts the members below each). The same lemmas
  then serve a second time for the entries: the visible places of the word list and
  the lines that have an entry are two lists in order that grow together
  (`EntriesSoFar`).

  `NothingHalfRead` is about the options that come before: an entry is in its table
  before its line is read, and a line that fails leaves it there, half filled. That no
  element is short when the words begin is not inductive. `OInv` says which elements may
  be short on the way: while no line has failed (`Clean`), only the last one of the table
  that the line is about, and by exactly the values still to be extracted (`ConfWhole`);
  that what is to be extracted belongs to the command (`TodoFits`), without which a value
  could go into another table; and that only an alias that still waits for its flags has
  none (`AliasesWhole`), for which it is needed that flags decoded without an error are
  some (`DecodedFlags`; for numeric flags an induction over the rest of the text,
  `NumbersFacts`). A failure of the stream is remembered at the end of its line
  (`EndLineWhole`), and what is done to the tables when all lines are read, the default
  break patterns and the removal of ignored characters from affixes, keeps elements as
  long as they are (`EndOfAffWhole`). Assumed (`DicFilesAssumption`,
  `AffFilesAssumption`): a file is a sequence of lines, a line of tokens, and a blank is
  no letter.
* **`SuggestEditsProofs`**. A text is cut into letters at its `Starts`, so to say
  that no letter is broken is to say that every place a stage splices, swaps or
  rotates at is one of these. The module first proves what such an edit does to the
  starts, and what undoes it: putting back (`SplicedKeepsPlaces`), swapping the
  same two letters again at the places the code has kept (`SwapThereAndBack`,
  `SwapsApart` for two swaps at once), and rotating the other way. That an occurrence
  of a text in a text begins and ends at starts is `OccurrenceStarts`; it is
  what makes `rep_suggest` and the strings of `map_suggest` safe, and it is false
  of the empty text inside a letter, which is why only the entry for the whole word
  may be empty (`SettingsAssumption`). Then `IInv` has an invariant for each stage
  (`AtStage`) and one lemma per action shows that it is kept. In `map_suggest` the
  word is that of the deepest call; `IsFound` follows the words from call
  to call, and holds for the shorter stack as well when a call returns for want of
  attempts. In `move_char_suggest` the word is a rotation of the misspelled one
  between the place a letter came from and the one it has reached, and so one
  rotation takes all its swaps back. Hence `WordHandedBack`. For
  `SuggestionsAreKnown` each action appends only words that are `IsKnown`
  (`Grows`), that is accepted by the checker, pairs of known words, or phrases all
  of whose words but the last are known, as nobody looks up the last: the phrase
  test of `try_rep_suggestion` walks from space to space, and the definition speaks of every stretch without a space that one follows. `Letters`
  of a text, and `FlattenSeq` of the community modules, are recursive functions; that
  they give letters and texts is an induction over data, which is written out here
  (`LettersOfText`, and `FlattenStays` in `InductionLemmas`: the set of lengths for
  which a function with the defining equation exists and has its values in the set is
  all of `Nat`), as the induction theorems of the library cannot be cited.
  Assumed: words are not empty and valid, and so is
  what comes from the .aff file (`InputAssumption`, `SettingsAssumption`); space and
  dash are bytes (`SeparatorAssumption`).

**Only model-checked**, and why:

* everything temporal: liveness under fairness and `ENABLED` are out of the
  prover's reach;
* properties that compare a search with a recursive meaning (`AnswerIsMeaning` of
  `SpellWord`, `AnswersAreMeant`, `OnlyCompounds` and `CompoundsFound`, which use
  `RECURSIVE` operators): to relate them takes an induction over data;
* `NothingMissed` of `AffixStripping`: what has been tried when a search gives up
  is all earlier iterations of all loops, a history that the state does not keep;
* `NothingLost`, `ResultsAreUsable`, `NGramsAreLastResort` and `OnePartReplaced` of
  `Suggester`: they depend on what its dictionaries answer, and hold for
  dictionaries like those of the run (no conversion that gives a dash, for one),
  not for every function in their place;
* `TablesAreLines` of `AffParser`: it compares the values in all tables with the lines
  that `SelectSeq` picks out of the file, a recursion that the prover does not look into;
  the lines would have to be listed with `InOrder`, as for `EntriesAreLines`, and every
  value followed from the stream to its place;
* `TriedAreTheEdits` of `SuggestEdits`: which edits a stage has looked up is a set
  collected over all its turns, to be compared with a set defined on letters;
* the string structures (`PlacesAreSound`): in reach, not done.

## 5. Findings

1. **`SubstrReplacerNotFound`** (code). `find_match` stops at a key that sorts
   between a match and the text: with keys `a` and `ab`, the text `ac` is
   left alone although `a` matches (`structures.hxx:411-414`).
2. **`LoadingAssert`** (code). `parse_aff` asserts that a line whose stream has
   failed has an error number (`aff_data.cxx:852`); a number that does not parse
   (`MAXDIFF a`, read at line 792) fails the stream and sets none. A build with
   assertions aborts, another one reports the failure with the text of no error.
3. **`CompoundCheckEndless`** (code). With COMPOUNDMIN 1, SIMPLIFIEDTRIPLE and a
   compound word of one letter, `l`, the search for `llx` puts the letter back
   before the rest `x` (`checker.cxx:1592`) and calls itself on `lx`
   (`checker.cxx:1625`), whose rest is `x` again, and so on until the stack is full,
   although `spell` takes "any word" (`dictionary.cxx:143`). A pattern that
   stands for as many letters more than its replacement as a part has, written
   before a rest to which it applies again, may have the same effect.

Observations made on the way, modelled as the code has them and not claimed to be faults:

* `README.md:435` of the repository says that the fix of a single word takes the
  *first* suggestion that satisfies the constraints; `compound_corrector.cxx:248`
  takes the one with the greatest log-probability, the first only on a tie
  (`SingleFix`).
* `README.md:286` there calls number, punctuation and symbol tokens inert. They are
  classified by their core, but the fix pass asks the question of the whole word
  (`compound_corrector.cxx:651`): behind a full-width comma, which is not ASCII, a
  core like `24%` is looked up, and a suggestion may take its place.
  `InertAndStopWordsKept` says how far the promise goes: never without a tail.
* A prefix and a suffix that are both conditional are always checked with the
  prefix taken off first, whichever was stripped first.
* `spell_break` tries only the first occurrence of a middle pattern.
* In `spell_casing_upper`, the path for apostrophes ignores KEEPCASE.
* `check_compound` returns the entry of the first part, the path through the
  rules that of the part before the last.
* In the pattern joint the second REP check sees the pattern as written out,
  and the word modifiers of the first part are not counted.
* Only the first reading of the rest is tried, so with CHECKCOMPOUNDREP or
  patterns on nested parts a legal compound may be refused; `CompoundsFound` is
  stated for the dictionaries where this cannot happen.
* A word that cannot be converted from the encoding of the dictionary is
  dropped by `parse_dic` without a message; flags after a number such as `1x`
  are cut silently.
* A malformed condition, or a malformed replacement in CHECKCOMPOUNDPATTERN, is
  taken for an absent one when it is the last text of its line without a blank
  after it: no error is reported (`aff_data.cxx:570`, `654`).
* The last part of a REP suggestion with spaces is looked up nowhere
  (`suggester.cxx:325-330`).
* What one part between dashes is replaced by may be a suggestion for a part
  before it: the list is not emptied in between (`suggester.cxx:151-165`).
* The dash between two words needs three letters before it and two after.
* `emplace` is reached with an empty word when all characters of a .dic word
  are in IGNORE.

## 6. Not modelled

* **Composition of the checker**: `SpellWord`, `AffixStripping`, `CompoundCheck`,
  `Suggester` and `CompoundCorrector` meet at functions from words to answers. Each
  module says what it promises about its answers (`AnswerIsMeaning`,
  `FoundIsDerived`, `OnlyCompounds`...) and hands its buffer back, which is what
  the next one relies on; a product of them would be beyond TLC with inputs long
  enough to be of interest.
* **`ngram_suggest`**: a scoring function with thresholds over two bounded heaps.
  Its result is a parameter of `Suggester`; the scores themselves have no
  specification to compare with but the code.
* **Phonetic suggestions** are disabled: the table is never filled
  (`aff_data.cxx:881`).
* **Commands that are handled alike** (options of one type, REP and the
  conversions, PFX and SFX) are represented by one or two of them in `AffParser`;
  AM is ignored by the code as well.
* **`Finder`** and the **tools** are input and output around single calls;
  ICU, `iostream` and the ARPA reader are outside.
* **Concurrency**: nothing in the repository starts a thread. `SetConfig` assigns
  the configuration without a lock (`compound_corrector.hxx:105`); run beside a
  correction it would be a data race.
* **Bounds of the machine**: the shift of the capacity of the word list
  (`structures.hxx:555`) and a count of -1 in an .aff file (`aff_data.cxx:589`, read
  as the greatest unsigned number) wrap only for files nobody writes; long flags
  above ASCII in COMPOUNDRULE are joined from signed bytes (`aff_data.cxx:255`).
* **Conversions that leave nothing of a word, or put a dash into it**: the first
  makes the suggester read the last byte of an empty string and divide by zero,
  the second lets the recursion over parts go on for ever (`suggester.cxx:157`,
  `399`). `Suggester` assumes neither; the code refuses neither.
* **A second `load_aff_dic` into one object** would append to the tables of the
  first (`dictionary.cxx:56`); no caller does it.
* **Flags after a later FLAG line** are decoded in another way than those before
  it (`aff_data.cxx:817`); `Loading` has such files and says what each line gives.

What could be proved next: the conjunct of `PlacesAreSound` that says that a replacement
is one pass (`SubstrReplacer`), and `TablesAreLines`, line by line as `EntriesAreLines` was.
