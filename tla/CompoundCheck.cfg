\* Width stands for 2^64: sums of syllables are smaller in all that is checked.
\* StackSize: more calls than any word has letters, so that only the dictionary
\* without an end meets it.  The system stops when it is done or out of stack.
SPECIFICATION FairSpec
CONSTANTS
    Languages <- MCLanguages
    Inputs <- MCInputs
    Capitals <- MCCapitals
    Alphabetic <- MCAlphabetic
    Width = 256
    StackSize = 12
INVARIANTS
    OpenCallsAreSound
    OnlyCompounds
    CompoundsFound
PROPERTIES
    Terminates
CHECK_DEADLOCK FALSE
