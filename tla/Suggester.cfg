SPECIFICATION FairSpec
CONSTANTS
    UpperOf <- MCUpperOf
    Inputs <- MCInputs
    Dictionaries <- MCDictionaries
INVARIANTS
    NothingLost
    ResultsAreUsable
    NGramsAreLastResort
    OnePartReplaced
PROPERTIES
    Terminates
CHECK_DEADLOCK FALSE
