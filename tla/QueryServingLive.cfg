\* One SQL edit and one chart edit, then nothing but polls.
CONSTANTS
  Readers = {r1}
  Editors = {e1}
  Refresher = refresher
  Scheduler = scheduler
  SchedulerEnabled = FALSE
  Ids = {1, 2, 3, 4}
  MaxEdits <- MCMaxEdits
  SqlEdits = 1
  RulesEdits = 0
  ChartsEdits = 1
  None = None
SPECIFICATION FairSpec
PROPERTY EventuallyCurrent
