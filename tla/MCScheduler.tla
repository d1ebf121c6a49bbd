---------------------------- MODULE MCScheduler -----------------------------
(***************************************************************************)
(* Values for checking Scheduler.                                          *)
(***************************************************************************)
EXTENDS Scheduler, TLC

WorkerSymmetry == Permutations(Workers)
=============================================================================
