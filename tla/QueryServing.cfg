\* The rules and the charts edited once each, with a reader, the refresher and
\* the scheduler.
CONSTANTS
  Readers = {r1}
  Editors = {e1}
  Refresher = refresher
  Scheduler = scheduler
  SchedulerEnabled = TRUE
  Ids = {1, 2, 3, 4, 5}
  MaxEdits <- MCMaxEdits
  SqlEdits = 0
  RulesEdits = 1
  ChartsEdits = 1
  None = None
SPECIFICATION Spec
INVARIANTS OldOnlyIfOverlapped RenderedOldOnlyIfOverlapped
