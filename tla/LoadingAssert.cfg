SPECIFICATION LoadSpec
CONSTANTS
    AffFiles <- MCOptionFiles
    DicFiles <- MCDicFiles
    Lowers <- MCLowers
    Capitals <- MCCapitals
    Invalid <- MCInvalid
    MaxDigits <- MCMaxDigits
    MaxShort <- MCMaxShort
    Value <- MCValue
    Malformed <- MCMalformed
INVARIANTS
    FailureHasError
CHECK_DEADLOCK FALSE
