\* Two accounts, each signed in once; three requests, two at a time.
CONSTANTS
  boss = boss
  peer = peer
  s1 = s1
  s2 = s2
  Users = {boss, peer}
  First = boss
  Threads = {t1, t2}
  Tokens = {s1, s2, s3}
  SignedIn <- MCSignedIn
  MaxFailedLogins = 2
  MaxRequests = 3
  None = None
SPECIFICATION Spec
INVARIANTS TypeOK AdminRemains SessionsFollowAccount IssuedIsReplaced TrailTellsTheRow
SYMMETRY Interchangeable
CHECK_DEADLOCK FALSE
