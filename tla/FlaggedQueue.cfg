\* A blocking poll and the scheduler, whose syncs overlap, and one reader.
CONSTANTS
  Findings = {a, b}
  Runs = {poll, tick}
  Scheduled = {tick}
  CachesFirst = {tick}
  Users = {u1}
  Tabs = {t1}
  MaxTime = 1
  MaxChanges = 2
  None = None
SPECIFICATION FairSpec
INVARIANTS QueueFollowsRuns UnchangedIsTrue
PROPERTIES FirstSeenSurvives EventuallyThePresent
