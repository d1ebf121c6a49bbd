--------------------------- MODULE AutomationRuns ---------------------------
(***************************************************************************)
(* How runs come to be: AutomationsService.triggerManual,                  *)
(* triggerScheduled and emitEvent through startRun and persistRun,         *)
(* approveRun and rejectRun, over the automations of one organization,     *)
(* with concurrent edits of the automations, concurrent duplicates of the  *)
(* same trigger and lost calls.                                            *)
(*                                                                         *)
(* A call is one request (or scheduler slot) in progress; it reads the     *)
(* automation once, at its start, and decides on that snapshot.  Every     *)
(* statement sent to Postgres is one step.  The steps of a run are         *)
(* StepRetry's: here a run is started when its first step row exists, and  *)
(* settled by finishRun.                                                   *)
(***************************************************************************)
EXTENDS Naturals

CONSTANTS
    Automations,
    Events,             \* identities (eventType, eventKey) of events
    Occurrences,        \* scheduled occurrences
    Calls,              \* calls, each used once
    Edits,              \* bound: which of an automation's fields are edited
    Payloads,           \* bound: payloads events are emitted with
    MaxCrashes,         \* bound: how many calls are lost
    NoPlan              \* plannedSteps null

(* What an automation's stored steps say: literal inputs, or an input with *)
(* an {{event.<key>}} placeholder.                                         *)
StepLists == {"literal", "templated"}
Plans == StepLists

AutomationRows ==
    [enabled : BOOLEAN, requiresApproval : BOOLEAN, steps : StepLists]

Sources == Events \cup Occurrences \cup Calls
Keys == Automations \X Sources

ASSUME AutomationRunsAssumption ==
    /\ Automations # {}
    /\ Events \cap Occurrences = {}      \* each kind of source has its own
    /\ Events \cap Calls = {}            \* form of dedupKey
    /\ Occurrences \cap Calls = {}
    /\ Edits \subseteq {"enabled", "requiresApproval", "steps", "context"}
    /\ Payloads \subseteq {"full", "bare"}
    /\ MaxCrashes \in Nat
    /\ NoPlan \notin Plans

VARIABLES
    automation,         \* the Automation rows
    passes,             \* whether an automation's conditions hold right now
    event,              \* the stored payload of each AutomationEvent
    run,                \* the AutomationRun row of each dedup key
    started,            \* the plan whose first step row was created
    call,               \* what each call is doing
    crashes             \* calls lost so far

vars == <<automation, passes, event, run, started, call, crashes>>

(***************************************************************************)
(* Rows and calls                                                          *)
(***************************************************************************)
Statuses == {"none", "waiting_approval", "running", "skipped", "cancelled",
             "succeeded", "failed"}
ActiveStatuses == {"waiting_approval", "running"}

RunRows == [status : Statuses,
            approval : {"none", "pending", "approved", "rejected"},
            plan : Plans \cup {NoPlan}]

NewRun(status, approval, plan) ==
    [status |-> status, approval |-> approval, plan |-> plan]

NoRun == NewRun("none", "none", NoPlan)

Points == {"ready", "match", "next", "active", "decide", "persist", "raced",
           "execute", "approve", "reject", "aborted", "lost"}

NoAutomation == "none"

CallRows == [pc : Points, source : Sources,
             current : Automations \cup {NoAutomation},
             left : SUBSET Automations, emits : BOOLEAN,
             snapshot : [Automations -> AutomationRows], want : RunRows]

(* A run's dedupKey: a manual trigger's source is the call itself (a fresh *)
(* UUID), else the event or the occurrence, scoped by the automation.      *)
(* Mutant: the key of an event is shared by its automations.               *)
DedupKeyOfSource(a, s) == <<CHOOSE b \in Automations : TRUE, s>>

DedupKey(a, s) == <<a, s>>

Key(c) == DedupKey(call[c].current, call[c].source)
Snapshot(c) == call[c].snapshot[call[c].current]

At(c, point) == call[c].pc = point

Goto(c, point) == call' = [call EXCEPT ![c] = [@ EXCEPT !.pc = point]]

(* The call is left with the row it will create.                           *)
Want(c, row) ==
    call' = [call EXCEPT ![c] = [@ EXCEPT !.pc = "persist", !.want = row]]

Abort(c) == Goto(c, "aborted")

Rows == <<automation, passes, event, run, started>>

NewCall(c) ==
    [pc |-> "ready", source |-> c, current |-> NoAutomation,
     left |-> {}, emits |-> FALSE, snapshot |-> automation, want |-> NoRun]

HasActiveRun(a) ==
    \E s \in Sources : run[<<a, s>>].status \in ActiveStatuses

Init ==
    /\ automation \in [Automations -> AutomationRows]
    /\ passes \in [Automations -> BOOLEAN]
    /\ event = [e \in Events |-> "none"]
    /\ run = [k \in Keys |-> NoRun]
    /\ started = [k \in Keys |-> NoPlan]
    /\ call = [c \in Calls |-> NewCall(c)]
    /\ crashes = 0

(***************************************************************************)
(* The entry points.  findOne, findMany and the scheduler's re-fetch read  *)
(* the automation the call will decide on.                                 *)
(***************************************************************************)
Enter(c, source, matched, emits) ==
    /\ call' = [call EXCEPT ![c] =
                  [@ EXCEPT !.pc = "next", !.source = source,
                            !.left = matched, !.emits = emits,
                            !.snapshot = automation]]
    /\ UNCHANGED <<Rows, crashes>>

TriggerManual(c) ==
    /\ At(c, "ready")
    /\ \E a \in Automations : Enter(c, c, {a}, FALSE)

(* The scheduler calls with an automation it has just re-fetched enabled.  *)
TriggerScheduled(c) ==
    /\ At(c, "ready")
    /\ \E a \in Automations, o \in Occurrences :
         automation[a].enabled /\ Enter(c, o, {a}, FALSE)

(* getOrCreateEvent: the first payload stored for an event stays.          *)
EmitEvent(c) ==
    /\ At(c, "ready")
    /\ \E e \in Events, payload \in Payloads :
         /\ event' = [event EXCEPT ![e] = IF @ = "none" THEN payload ELSE @]
         /\ call' = [call EXCEPT ![c] = [@ EXCEPT !.pc = "match",
                                                  !.source = e]]
    /\ UNCHANGED <<automation, passes, run, started, crashes>>

MatchAutomations(c) ==
    /\ At(c, "match")
    /\ Enter(c, call[c].source, {a \in Automations : automation[a].enabled},
             TRUE)

(***************************************************************************)
(* startRun                                                                *)
(***************************************************************************)

(* The next automation of the call: a run that already has its dedup key   *)
(* is returned as it is; a disabled automation gets a skipped run.         *)
LookUp(c) ==
    /\ At(c, "next")
    /\ \E a \in call[c].left :
         LET known == run[DedupKey(a, call[c].source)] # NoRun
             enabled == call[c].snapshot[a].enabled
             here == [call[c] EXCEPT !.current = a, !.left = @ \ {a}]
         IN  call' = [call EXCEPT ![c] =
               IF known THEN here
               ELSE IF enabled THEN [here EXCEPT !.pc = "active"]
               ELSE [here EXCEPT !.pc = "persist",
                                 !.want = NewRun("skipped", "none", NoPlan)]]
    /\ UNCHANGED <<Rows, crashes>>

(* The frozen plan: a placeholder needs the field in the stored payload of *)
(* the call's event.                                                       *)
Resolves(c) ==
    \/ Snapshot(c).steps = "literal"
    \/ call[c].source \in Events /\ event[call[c].source] = "full"

(* An active run of the automation is a conflict that ends the whole call. *)
CheckActive(c) ==
    /\ At(c, "active")
    /\ \/ HasActiveRun(call[c].current) /\ Abort(c)
       \/ /\ ~HasActiveRun(call[c].current)
          /\ IF Resolves(c) THEN Goto(c, "decide")
             ELSE Want(c, NewRun("failed", "none", NoPlan))
    /\ UNCHANGED <<Rows, crashes>>

Decide(c) ==
    LET plan == Snapshot(c).steps IN
    /\ At(c, "decide")
    /\ Want(c, IF ~passes[call[c].current]
               THEN NewRun("skipped", "none", plan)
               ELSE IF Snapshot(c).requiresApproval
               THEN NewRun("waiting_approval", "pending", plan)
               ELSE NewRun("running", "none", plan))
    /\ UNCHANGED <<Rows, crashes>>

(* Only a run it wanted running is executed by the call.                   *)
(* Mutant: every run it persists is.                                       *)
AfterPersistAlways(c) == Goto(c, "execute")

AfterPersist(c) ==
    Goto(c, IF call[c].want.status = "running" THEN "execute" ELSE "next")

(* The partial unique index automation_runs_one_active_per_automation.     *)
(* Mutant: it forgets the runs that wait for an approval.                  *)
RunningIndexAllows(c) ==
    call[c].want.status \in ActiveStatuses =>
        ~ \E s \in Sources : run[<<call[c].current, s>>].status = "running"

ActiveIndexAllows(c) ==
    call[c].want.status \in ActiveStatuses => ~HasActiveRun(call[c].current)

(* The caller's status is spread over the default, "queued", which no row  *)
(* ever keeps.  Mutant: the default comes last.                            *)
PersistedQueued(row) == [row EXCEPT !.status = "queued"]

Persisted(row) == row

PersistRun(c) ==
    /\ At(c, "persist")
    /\ IF run[Key(c)] = NoRun /\ ActiveIndexAllows(c)
       THEN /\ run' = [run EXCEPT ![Key(c)] = Persisted(call[c].want)]
            /\ AfterPersist(c)
       ELSE /\ Goto(c, "raced")
            /\ UNCHANGED run
    /\ UNCHANGED <<automation, passes, event, started, crashes>>

(* After a P2002: the row with this dedup key, else an active-run conflict.*)
Raced(c) ==
    /\ At(c, "raced")
    /\ IF run[Key(c)] # NoRun THEN AfterPersist(c) ELSE Abort(c)
    /\ UNCHANGED <<Rows, crashes>>

(* Mutant: the automation's current steps are executed, not the plan.      *)
ExecutedSteps(k) ==
    IF run[k].plan = NoPlan THEN NoPlan ELSE automation[k[1]].steps

ExecutedPlan(k) == run[k].plan

(* executeSteps on the row just created, approved or found: the first step *)
(* row is unique per run, its second creation is a P2002 that ends the     *)
(* call; without a plan there is no step, and the run has succeeded.       *)
ExecuteSteps(c) ==
    LET k == Key(c) IN
    /\ At(c, "execute")
    /\ \/ /\ ExecutedPlan(k) # NoPlan
          /\ started[k] = NoPlan
          /\ started' = [started EXCEPT ![k] = ExecutedPlan(k)]
          /\ Goto(c, "next")
          /\ UNCHANGED run
       \/ /\ ExecutedPlan(k) # NoPlan
          /\ started[k] # NoPlan
          /\ Abort(c)
          /\ UNCHANGED <<run, started>>
       \/ /\ ExecutedPlan(k) = NoPlan
          /\ run' = [run EXCEPT ![k] = [@ EXCEPT !.status = "succeeded"]]
          /\ Goto(c, "next")
          /\ UNCHANGED started
    /\ UNCHANGED <<automation, passes, event, crashes>>

(* finishRun, by whichever call or dispatcher slot drives the steps, and   *)
(* whatever the run's status has become.                                   *)
FinishRun(k) ==
    /\ started[k] # NoPlan
    /\ run[k].status \notin {"succeeded", "failed"}
    /\ \E result \in {"succeeded", "failed"} :
         run' = [run EXCEPT ![k] = [@ EXCEPT !.status = result]]
    /\ UNCHANGED <<automation, passes, event, started, call, crashes>>

(***************************************************************************)
(* approveRun and rejectRun: a read for the friendly error, then the       *)
(* conditional update                                                      *)
(***************************************************************************)
ReadPending(c, point) ==
    /\ At(c, "ready")
    /\ \E k \in Keys :
         /\ run[k].status = "waiting_approval"
         /\ call' = [call EXCEPT ![c] =
                       [@ EXCEPT !.pc = point, !.source = k[2],
                                 !.current = k[1]]]
    /\ UNCHANGED <<Rows, crashes>>

ReadToApprove(c) == ReadPending(c, "approve")
ReadToReject(c) == ReadPending(c, "reject")

(* Mutant: the read is trusted.                                            *)
PendingWhenRead(k) == run[k] # NoRun

Pending(k) ==
    run[k].status = "waiting_approval" /\ run[k].approval = "pending"

ApproveRun(c) ==
    LET k == Key(c) IN
    /\ At(c, "approve")
    /\ \/ /\ Pending(k)
          /\ run' = [run EXCEPT ![k] = [@ EXCEPT !.approval = "approved",
                                                 !.status = "running"]]
          /\ Goto(c, "execute")
       \/ ~Pending(k) /\ Abort(c) /\ UNCHANGED run
    /\ UNCHANGED <<automation, passes, event, started, crashes>>

RejectRun(c) ==
    LET k == Key(c) IN
    /\ At(c, "reject")
    /\ \/ /\ Pending(k)
          /\ run' = [run EXCEPT ![k] = [@ EXCEPT !.approval = "rejected",
                                                 !.status = "cancelled"]]
          /\ Goto(c, "next")
       \/ ~Pending(k) /\ Abort(c) /\ UNCHANGED run
    /\ UNCHANGED <<automation, passes, event, started, crashes>>

(***************************************************************************)
(* The environment                                                         *)
(***************************************************************************)
(* update and setEnabled; what the conditions read changes on its own.     *)
UpdateAutomation(a) ==
    /\ \E row \in AutomationRows :
         /\ row # automation[a]
         /\ \A f \in DOMAIN row : row[f] # automation[a][f] => f \in Edits
         /\ automation' = [automation EXCEPT ![a] = row]
    /\ UNCHANGED <<passes, event, run, started, call, crashes>>

ContextChanges(a) ==
    /\ "context" \in Edits
    /\ passes' = [passes EXCEPT ![a] = ~@]
    /\ UNCHANGED <<automation, event, run, started, call, crashes>>

Ended(c) ==
    \/ call[c].pc \in {"aborted", "lost"}
    \/ At(c, "next") /\ call[c].left = {}

Crash(c) ==
    /\ ~At(c, "ready")
    /\ ~Ended(c)
    /\ crashes < MaxCrashes
    /\ crashes' = crashes + 1
    /\ Goto(c, "lost")
    /\ UNCHANGED Rows

(***************************************************************************)
(* Specification                                                           *)
(***************************************************************************)
Next ==
    \/ \E c \in Calls :
         \/ TriggerManual(c)
         \/ TriggerScheduled(c)
         \/ EmitEvent(c)
         \/ MatchAutomations(c)
         \/ LookUp(c)
         \/ CheckActive(c)
         \/ Decide(c)
         \/ PersistRun(c)
         \/ Raced(c)
         \/ ExecuteSteps(c)
         \/ ReadToApprove(c)
         \/ ReadToReject(c)
         \/ ApproveRun(c)
         \/ RejectRun(c)
         \/ Crash(c)
    \/ \E k \in Keys : FinishRun(k)
    \/ \E a \in Automations : UpdateAutomation(a) \/ ContextChanges(a)

Spec == Init /\ [][Next]_vars

(***************************************************************************)
(* Properties                                                              *)
(***************************************************************************)
(* Every variable has its type. *)
TypeOK ==
    /\ automation \in [Automations -> AutomationRows]
    /\ passes \in [Automations -> BOOLEAN]
    /\ event \in [Events -> {"none", "full", "bare"}]
    /\ run \in [Keys -> RunRows]
    /\ started \in [Keys -> Plans \cup {NoPlan}]
    /\ call \in [Calls -> CallRows]
    /\ crashes \in 0..MaxCrashes

(* An automation has at most one run that waits or runs, through           *)
(* concurrent triggers and approvals (automation_runs_one_active_per_      *)
(* automation).                                                            *)
OneActiveRun ==
    \A a \in Automations : \A s, t \in Sources :
        /\ run[<<a, s>>].status \in ActiveStatuses
        /\ run[<<a, t>>].status \in ActiveStatuses
        => s = t

(* An emitEvent that returns has given each automation it matched its own  *)
(* run of the event (RC20_OPS_AUTOMATION_CORE.md, "chacune obtient son     *)
(* propre run").                                                           *)
Matched(c) == {a \in Automations : call[c].snapshot[a].enabled}

EachMatchHasItsRun ==
    \A c \in Calls : call[c].emits /\ At(c, "next") =>
        \A a \in Matched(c) \ call[c].left :
            run[<<a, call[c].source>>] # NoRun

(* No step exists for a run that waits for an approval, and none is ever   *)
(* created for a rejected one (RC20_OPS_AUTOMATION_CORE.md, "aucun step    *)
(* n'existe encore tant que le run n'est pas approuve").                   *)
NothingRunsUnapproved ==
    \A k \in Keys : run[k].approval \in {"pending", "rejected"}
                      => started[k] = NoPlan

(* When emitEvent ends, no automation it matched is left without having    *)
(* been tried: a conflict concerns one automation only.                    *)
NoMatchIsDropped ==
    \A c \in Calls : call[c].emits /\ At(c, "aborted") => call[c].left = {}

(***************************************************************************)
(* The abstract run                                                        *)
(***************************************************************************)
Lifecycle(k) == INSTANCE RunLifecycle
                  WITH status <- run[k].status, approval <- run[k].approval,
                       plan <- run[k].plan, started <- started[k]

(* Every run keeps RunLifecycle's promise through concurrent triggers,     *)
(* decisions, edits and lost calls: Lifecycle(k)!Spec for every key k,     *)
(* written with one box.                                                   *)
ImplementsLifecycle ==
    /\ \A k \in Keys : Lifecycle(k)!Init
    /\ [][ \A k \in Keys :
            \/ Lifecycle(k)!Next
            \/ UNCHANGED <<run[k].status, run[k].approval, run[k].plan,
                          started[k]>> ]_vars
=============================================================================
