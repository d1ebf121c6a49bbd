---------------------------- MODULE RunLifecycle ----------------------------
(***************************************************************************)
(* What one AutomationRun row promises, whoever creates it, decides it or  *)
(* executes it: it is created once, with the plan it keeps; a run that     *)
(* waits for an approval is approved or cancelled, once; its plan is       *)
(* started once, only while it is running, and exactly as recorded; and    *)
(* only a started run succeeds or fails.  AutomationRuns implements this   *)
(* specification for each of its runs (see its Lifecycle).                 *)
(***************************************************************************)
CONSTANTS
    Plans,              \* execution plans
    NoPlan              \* plannedSteps null; no step row yet

VARIABLES
    status,             \* AutomationRun.status; "none": no row
    approval,           \* AutomationRun.approvalStatus; "none": null
    plan,               \* AutomationRun.plannedSteps
    started             \* the plan whose first step has a row

vars == <<status, approval, plan, started>>

Init ==
    /\ status = "none"
    /\ approval = "none"
    /\ plan = NoPlan
    /\ started = NoPlan

(* A row is created in its first status.                                   *)
Create(first, decision, p) ==
    /\ status = "none"
    /\ status' = first
    /\ approval' = decision
    /\ plan' = p
    /\ UNCHANGED started

Skip == \E p \in Plans \cup {NoPlan} : Create("skipped", "none", p)
RefusePlan == Create("failed", "none", NoPlan)
Submit == \E p \in Plans : Create("waiting_approval", "pending", p)
Begin == \E p \in Plans : Create("running", "none", p)

Decide(decision, next) ==
    /\ status = "waiting_approval"
    /\ approval = "pending"
    /\ approval' = decision
    /\ status' = next
    /\ UNCHANGED <<plan, started>>

Approve == Decide("approved", "running")
Cancel == Decide("rejected", "cancelled")

Start ==
    /\ status = "running"
    /\ started = NoPlan
    /\ started' = plan
    /\ UNCHANGED <<status, approval, plan>>

Settle ==
    /\ status = "running"
    /\ started # NoPlan
    /\ status' \in {"succeeded", "failed"}
    /\ UNCHANGED <<approval, plan, started>>

Next == Skip \/ RefusePlan \/ Submit \/ Begin \/ Approve \/ Cancel
        \/ Start \/ Settle

Spec == Init /\ [][Next]_vars
=============================================================================
