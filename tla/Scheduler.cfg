\* Two queries on one connection, rested for one, two, then three units; passes
\* may break off and the wall clock may be set.
CONSTANTS
  c1 = c1
  Queries = {q1, q2}
  Connections = {c1}
  ConnectionOf <- MCConnectionOf
  Every = 1
  Interval <- MCInterval
  MinInterval = 1
  MaxBackoff = 3
  MaxFactor = 4
  MaxAhead = 1
  TicksMayFail = TRUE
  None = None
SPECIFICATION SchedulerFairSpec
PROPERTIES RestsBetweenRuns KeepsWatching
