CONSTANTS
  t1 = t1
  t2 = t2
  p1 = p1
  p2 = p2
  l1 = l1
  q1 = q1
  q2 = q2
  n1 = n1
  n2 = n2
  ItemLists = {l1}
  Queries = {q1}
  RuleNames = {n1, n2}
  Threads = {t1, t2}
  Admins = {t2}
  Runners = {p1, p2}
  MaxSaves = 2
  None = None
SPECIFICATION Spec
INVARIANTS MembersAreCurrent SavesReplace RulesReadLists FlagsFollowLists
SYMMETRY MCSymmetry
CHECK_DEADLOCK FALSE
