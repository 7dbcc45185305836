\* Three queries whose results do not all fit, in bytes or in entries, growing
\* old on clocks that sleep and are set.
CONSTANTS
  Queries = {q1, q2, q3}
  Sizes = {1, 2, 4}
  Budget = 3
  MaxEntries = 2
  Interval = 2
  Ttl <- MCTtl
  Grace = 1
  MaxAge = 3
  NoEntry = NoEntry
SPECIFICATION CacheSpec
INVARIANTS BytesAccounted FreshForItsInterval
PROPERTIES StoreRestoresBounds EvictsLeastRecentlyUsed
SYMMETRY Interchangeable
