---------------------------- MODULE MCStepRetry ----------------------------
(***************************************************************************)
(* Values for checking StepRetry.  One unit of time stands for the lease;  *)
(* the backoffs keep the code's order (shorter than the lease, equal to    *)
(* it, longer).                                                            *)
(***************************************************************************)
EXTENDS StepRetry, TLC

MCBackoff4 == <<1, 1, 2>>
MCBackoff3 == <<1, 2>>

AllPoints == Points \ {"idle"}

(* The points at which a lost call leaves a claimed row, or no trace.      *)
ClaimedPoints == Points \ {"idle", "next", "finish"}

WorkerSymmetry == Permutations(Workers)
=============================================================================
