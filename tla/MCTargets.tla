------------------------------ MODULE MCTargets ------------------------------
(***************************************************************************)
(* Small instances of Targets.                                             *)
(***************************************************************************)
EXTENDS Targets, TLC

Interchangeable == Permutations(Threads)
=============================================================================
