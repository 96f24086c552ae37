SPECIFICATION LoadSpec
CONSTANTS
    AffFiles <- MCAffFiles
    DicFiles <- MCDicFiles
    Lowers <- MCLowers
    Capitals <- MCCapitals
    Invalid <- MCInvalid
    MaxDigits <- MCMaxDigits
    MaxShort <- MCMaxShort
    Value <- MCValue
    Malformed <- MCMalformed
INVARIANTS
    EntriesAreLines
    HomonymsAreCovered
    FailureReported
    NothingHalfRead
    TablesAreLines
CHECK_DEADLOCK FALSE
