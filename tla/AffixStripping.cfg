\* Whole words and parts of compounds against every small dictionary.
SPECIFICATION Spec
CONSTANTS
    Letters <- MCLetters
    Languages <- MCLanguages
    Inputs <- MCInputs
    Modes <- MCModes
CONSTRAINT
    Bounded
INVARIANTS
    IteratorsSeeTheirWord
    FoundIsDerived
    NothingMissed
    HandedBack
CHECK_DEADLOCK FALSE
