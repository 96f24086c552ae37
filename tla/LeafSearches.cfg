SPECIFICATION FairSpec
CONSTANTS
    Tables <- MCTables
    IndexedWords <- MCIndexedWords
    Conditions <- MCConditions
    ConditionedWords <- MCConditionedWords
    LeadBytes <- MCLeadBytes
    Rules <- MCRules
    WordSequences <- MCCompounds
    Bases <- MCBases
    Lists <- MCLists
    MaxSharps = 3
    Distances = {0, 1, 2}
    LogProbs = {1, 2}
    MaxSuggestions = 3
    Lowest = 0
    Threshold = 1
    Bonus = 1
    Languages <- MCLanguages
    RuledWords <- MCRuledWords
    Char = {1, 2, 3}
    ReplacedKeys <- MCReplacedKeys
    Replacements <- MCReplacements
    MaxPairs = 3
    MaxLength = 4
    Contents <- MCContents
    Name <- MCName
    Magic = 66
    Version = 1
INVARIANTS
    PlacesAreSound
    AnswersAreMeant
PROPERTIES
    Terminates
CHECK_DEADLOCK FALSE
