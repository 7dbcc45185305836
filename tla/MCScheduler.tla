----------------------------- MODULE MCScheduler -----------------------------
(***************************************************************************)
(* Small instances of Scheduler: the queries share one connection.         *)
(***************************************************************************)
EXTENDS Scheduler

CONSTANTS c1, Every

MCConnectionOf == [q \in Queries |-> c1]
MCInterval == [q \in Queries |-> Every]
=============================================================================
