---------------------------- MODULE MCResultCache ----------------------------
(***************************************************************************)
(* A small instance of ResultCache in which every query has the same TTL.  *)
(***************************************************************************)
EXTENDS ResultCache, TLC

CONSTANT Interval

MCTtl == [q \in Queries |-> Interval]

\* With one interval for all, queries are interchangeable.
Interchangeable == Permutations(Queries)
=============================================================================
