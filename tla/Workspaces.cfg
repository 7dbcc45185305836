\* An analyst and an administrator; two requests at a time, three in all.
CONSTANTS
  c1 = c1
  c2 = c2
  c3 = c3
  ana = ana
  adm = adm
  b1 = b1
  q1 = q1
  q2 = q2
  Users = {ana, adm}
  Admins = {adm}
  Queries = {q1, q2}
  Charts = {c1, c2, c3}
  Boards = {b1}
  Threads = {t1, t2}
  Starts <- MCStarts
  Arrangements <- MCArrangements
  Retention = 1
  Keep = 1
  MaxTime = 2
  MaxRequests = 3
  Nobody = Nobody
  None = None
  Gone = Gone
SPECIFICATION Spec
INVARIANTS BoardsStayWhole BoardsShowOwn
PROPERTY PruneKeepsNewest
SYMMETRY Interchangeable
CHECK_DEADLOCK FALSE
