---------------------------- MODULE RunProgress ----------------------------
(***************************************************************************)
(* What one automation run promises to whoever reads it, without workers,  *)
(* claims, retries or crashes: the steps of its frozen plan succeed one at *)
(* a time and in the order of the plan, at most one step breaks the run,   *)
(* and the run is finished once, with the result its steps justify.        *)
(* StepRetry implements this specification (see its Progress).             *)
(***************************************************************************)
EXTENDS Naturals

CONSTANT NumSteps       \* the length of run.plannedSteps

Steps == 1..NumSteps

VARIABLES
    status,             \* "running", "succeeded" or "failed"
    done,               \* the sequence numbers that have succeeded
    broken              \* whether a step has failed for good

vars == <<status, done, broken>>

Init ==
    /\ status = "running"
    /\ done = {}
    /\ broken = FALSE

(* The next step of the plan succeeds.                                     *)
Advance ==
    /\ status = "running"
    /\ ~broken
    /\ \E k \in Steps : done = 1..(k - 1) /\ done' = 1..k
    /\ UNCHANGED <<status, broken>>

(* A step fails for good: no later step will succeed.                      *)
Break ==
    /\ status = "running"
    /\ ~broken
    /\ done # Steps
    /\ broken' = TRUE
    /\ UNCHANGED <<status, done>>

(* The run is finished with the result its steps justify.                  *)
Succeed ==
    /\ status = "running"
    /\ ~broken
    /\ done = Steps
    /\ status' = "succeeded"
    /\ UNCHANGED <<done, broken>>

Fail ==
    /\ status = "running"
    /\ broken
    /\ status' = "failed"
    /\ UNCHANGED <<done, broken>>

Next == Advance \/ Break \/ Succeed \/ Fail

Spec == Init /\ [][Next]_vars
=============================================================================
