\* The smallest table has 4 buckets instead of 16, so that it grows twice on
\* the way to MaxSize entries.
SPECIFICATION Spec
CONSTANTS
  k1 = k1
  k2 = k2
  v1 = v1
  v2 = v2
  NoEntry = NoEntry
  Key = {k1, k2}
  Value = {v1, v2}
  Hash <- MCHash
  Capacities = {4, 8, 16, 32}
  MaxSize = 8
  ReserveCounts = {0, 4}
  MaxCount = 18
INVARIANTS
  LoadBound
  SizeAccounting
  EntriesInTheirBucket
  KeysContiguous
PROPERTY
  ImplementsMultimap
