SPECIFICATION FairSpec
CONSTANTS
    Byte <- MCByte
    Wide <- MCWide
    Trail <- MCTrail
    Words <- MCWords
    Settings <- MCSettings
    Budgets = {0, 1, 2, 5, 100}
    Upper <- MCUpper
INVARIANTS
    WordHandedBack
    TriedAreTheEdits
    SuggestionsAreKnown
PROPERTIES
    Terminates
CHECK_DEADLOCK FALSE
