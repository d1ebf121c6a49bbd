----------------------------- MODULE OpsActions -----------------------------
(***************************************************************************)
(* The actions an automation step may execute (the Ops action registry)    *)
(* and what is left behind when one is executed again because nobody knows *)
(* how its first attempt ended: the process died, or it is slower than its *)
(* claim.  StepRetry decides when that happens; here is what it does to    *)
(* the data.  Each action has one step run, whose input is a template.     *)
(***************************************************************************)
EXTENDS Naturals, TLC

CONSTANTS
    Calls,              \* attempts in progress at a time
    MaxAttempts         \* MAX_STEP_ATTEMPTS

VARIABLES
    rows,               \* rows each action has left behind
    step,               \* the step run of each action, with its attempts
    input,              \* the value of the placeholders in the event
    overlapped,         \* history: actions with two attempts at once
    call

vars == <<rows, step, input, overlapped, call>>

(* What executing does: "create" inserts a row every time, "complete"      *)
(* inserts what is missing of what it read, "keyed" inserts under a unique *)
(* key, "overwrite" and "read" leave nothing more.                         *)
Descriptor(effect, retrySafe, required) ==
    [effect |-> effect, retrySafe |-> retrySafe, required |-> required]

RunDiagnostic == Descriptor("create", FALSE, {"websiteId"})
RegenerateOpportunities == Descriptor("complete", TRUE, {"auditId"})
PrepareOrganizationSummary == Descriptor("read", TRUE, {})
CreateInternalTask == Descriptor("create", FALSE, {"title"})
SendEmail == Descriptor("keyed", TRUE, {"templateKey"})
OdcPrepareApplicationSummary == Descriptor("overwrite", TRUE, {"applicationId"})
OdcFlagMissingDocuments == Descriptor("create", FALSE, {"applicationId"})
OdcCreateReviewTask == Descriptor("create", FALSE, {"applicationId"})

Registry ==
    [run_diagnostic |-> RunDiagnostic, regenerate |-> RegenerateOpportunities,
     organization_summary |-> PrepareOrganizationSummary,
     internal_task |-> CreateInternalTask, send_email |-> SendEmail,
     application_summary |-> OdcPrepareApplicationSummary,
     missing_documents |-> OdcFlagMissingDocuments,
     review_task |-> OdcCreateReviewTask]

Actions == DOMAIN Registry
(* Mutant: every failure of unknown outcome is retried.                    *)
AlwaysRetrySafe(a) == a \in Actions

IsRetrySafe(a) == Registry[a].retrySafe

(* resolveStepInput: a placeholder the event has no value for is null, and *)
(* canonicalizeInput refuses a required field that is null or blank.       *)
Values == {"text", "blank", "missing"}
ResolveStepInput(a) == [field \in Registry[a].required |-> input]
CanonicalizeInput(a) ==
    \A field \in Registry[a].required : ResolveStepInput(a)[field] = "text"

Idle == [pc |-> "idle", action |-> "none", seen |-> 0]
CallStates ==
    {Idle} \cup [pc : {"read", "write", "record"}, action : Actions, seen : 0..MaxAttempts]
At(c, pc) == call[c].pc = pc
Busy(a) == \E c \in Calls : call[c].action = a

Init ==
    /\ rows = [a \in Actions |-> 0]
    /\ step = [a \in Actions |-> [status |-> "pending", attempts |-> 0]]
    /\ input \in Values
    /\ overlapped = {}
    /\ call = [c \in Calls |-> Idle]

(* The first attempt, or another one of a step whose outcome is unknown.   *)
(* bound: one action is followed at a time.                                *)
Attempt(c, a) ==
    /\ At(c, "idle")
    /\ \A b \in Actions \ {a} : step[b].attempts = 0
    /\ step[a].attempts < MaxAttempts
    /\ \/ step[a].status = "pending"
       \/ step[a].status = "unknown" /\ IsRetrySafe(a)
    /\ step' = [step EXCEPT ![a].attempts = @ + 1,
                            ![a].status = IF CanonicalizeInput(a) THEN "running" ELSE "failed"]
    /\ call' = IF CanonicalizeInput(a)
                 THEN [call EXCEPT ![c] = [pc |-> "read", action |-> a, seen |-> 0]]
                 ELSE call
    /\ overlapped' = IF Busy(a) THEN overlapped \cup {a} ELSE overlapped
    /\ UNCHANGED <<rows, input>>

Read(c) ==
    /\ At(c, "read")
    /\ call' = [call EXCEPT ![c].pc = "write", ![c].seen = rows[call[c].action]]
    /\ UNCHANGED <<rows, step, input, overlapped>>

RowsAfter(a, seen) ==
    CASE Registry[a].effect = "create" -> rows[a] + 1
      [] Registry[a].effect = "complete" -> rows[a] + (IF seen = 0 THEN 1 ELSE 0)
      [] Registry[a].effect \in {"keyed", "overwrite"} -> 1
      [] Registry[a].effect = "read" -> 0

Write(c) ==
    /\ At(c, "write")
    /\ rows' = [rows EXCEPT ![call[c].action] = RowsAfter(call[c].action, call[c].seen)]
    /\ call' = [call EXCEPT ![c].pc = "record"]
    /\ UNCHANGED <<step, input, overlapped>>

(* The attempt that still holds the step records its success.              *)
Record(c) ==
    /\ At(c, "record")
    /\ step' = IF step[call[c].action].status = "running"
                 THEN [step EXCEPT ![call[c].action].status = "succeeded"] ELSE step
    /\ call' = [call EXCEPT ![c] = Idle]
    /\ UNCHANGED <<rows, input, overlapped>>

(* The process dies; or the claim outlives its lease, with the attempt     *)
(* still going on.  Either way the outcome is unknown to the next one.     *)
Die(c) ==
    /\ call[c] # Idle
    /\ step' = IF step[call[c].action].status = "running"
                 THEN [step EXCEPT ![call[c].action].status = "unknown"] ELSE step
    /\ call' = [call EXCEPT ![c] = Idle]
    /\ UNCHANGED <<rows, input, overlapped>>

Outlive(c) ==
    /\ call[c] # Idle
    /\ step[call[c].action].status = "running"
    /\ step' = [step EXCEPT ![call[c].action].status = "unknown"]
    /\ UNCHANGED <<rows, input, overlapped, call>>

Next ==
    \E c \in Calls :
      \/ \E a \in Actions : Attempt(c, a)
      \/ Read(c) \/ Write(c) \/ Record(c) \/ Die(c) \/ Outlive(c)

Spec == Init /\ [][Next]_vars

(***************************************************************************)
(* Properties                                                              *)
(***************************************************************************)
TypeOK ==
    /\ rows \in [Actions -> 0..MaxAttempts]
    /\ \A a \in Actions : step[a].attempts \in 0..MaxAttempts
    /\ overlapped \subseteq Actions
    /\ call \in [Calls -> CallStates]

(* Executing an action again never leaves more behind than executing it    *)
(* once: whatever the registry calls retry-safe, unless two attempts are   *)
(* made at the same time, and for an e-mail or a summary even then.        *)
ReplayIsHarmless ==
    \A a \in Actions :
      a \notin overlapped \/ Registry[a].effect # "complete" => rows[a] <= 1

=============================================================================
