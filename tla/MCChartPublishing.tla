-------------------------- MODULE MCChartPublishing --------------------------
(***************************************************************************)
(* Small instances of ChartPublishing.                                     *)
(***************************************************************************)
EXTENDS ChartPublishing, TLC

\* Request threads are interchangeable, and so are requests, which are only
\* ever compared with each other.
Interchangeable == Permutations(Threads) \cup Permutations(Requests)
=============================================================================
