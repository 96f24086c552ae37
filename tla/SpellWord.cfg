\* One word against every small dictionary and break table.  DepthLimit is 2
\* here, so that the limit is met; a size_t is less than 16: npos is 15.
SPECIFICATION FairSpec
CONSTANTS
    Dictionaries <- MCDictionaries
    Inputs <- MCInputs
    UpperOf <- MCUpperOf
    Digits <- MCDigits
    Ignored <- MCIgnored
    DepthLimit = 2
    Width = 16
INVARIANTS
    PartsAreOfTheWord
    AnswerIsMeaning
PROPERTIES
    Terminates
CHECK_DEADLOCK FALSE
