\* One query, two polls, one worker; a shutdown at any moment, clocks that are set.
CONSTANTS
  q1 = q1
  Queries = {q1}
  Requests = {r1, r2}
  Tasks = {t1, t2}
  MaxWorkers = 1
  DefaultInterval = 1
  Interval <- MCInterval
  MaxTime = 2
  MaxShutdowns = 1
  None = None
SPECIFICATION FairSpec
INVARIANTS TypeOK OneRefreshPerQuery RestedBeforeRetry NoLostMark
PROPERTY MarkReleased
