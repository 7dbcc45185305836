----------------------------- MODULE MCRefresher -----------------------------
(***************************************************************************)
(* A small instance of Refresher: two request threads and one worker, so   *)
(* that a second refresh really waits in the queue, and a query whose      *)
(* interval is longer than the default a failed load is held off for.      *)
(***************************************************************************)
EXTENDS Refresher

CONSTANT q1

MCInterval == [q \in Queries |-> IF q = q1 THEN 2 ELSE 1]
=============================================================================
