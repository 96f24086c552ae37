SPECIFICATION Spec
CONSTANTS
  Char = {1, 2, 3}
  Keys <- MCKeys
  Replacements <- MCReplacements
  MaxPairs = 3
  MaxLength = 4
CHECK_DEADLOCK FALSE
INVARIANT
  NotFoundMeansNoMatch
