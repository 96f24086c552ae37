\* The dictionary whose joints add as many letters as a part has.  The system
\* stops when it is done or out of stack.
SPECIFICATION FairSpec
CONSTANTS
    Languages <- MCGrowing
    Inputs <- MCInputs
    Capitals <- MCCapitals
    Alphabetic <- MCAlphabetic
    Width = 256
    StackSize = 12
PROPERTIES
    SpellReturns
CHECK_DEADLOCK FALSE
