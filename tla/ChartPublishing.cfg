\* One chart and two requests for it, edited in every part by its author and by
\* an administrator, in two threads.
CONSTANTS
  Charts = {c1}
  Owner = author
  Admins = {a1}
  Threads = {t1, t2}
  Requests = {s1, s2}
  Versions = {0, 1}
  Edited = {"query", "rules", "charts"}
  AdminsEdit = TRUE
  None = None
SPECIFICATION Spec
INVARIANTS TypeOK ApprovedAsReviewed
PROPERTY RequestsDecidedOnce
SYMMETRY Interchangeable
