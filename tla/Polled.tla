------------------------------- MODULE Polled -------------------------------
(***************************************************************************)
(* What the two background parts, the refresher and the scheduler, share:  *)
(* the saved queries, each with its interval (poll_interval_for).          *)
(***************************************************************************)
EXTENDS Integers

CONSTANTS
  Queries,   \* saved queries
  Interval,  \* Interval[q]: the query's poll interval, also the TTL of its result
  None       \* Python's None

Max2(a, b) == IF a >= b THEN a ELSE b
=============================================================================
