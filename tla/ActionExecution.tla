---------------------------- MODULE ActionExecution ----------------------------
(***************************************************************************)
(* The human approval and the execution reports of one action item         *)
(* (ActionExecutionService, ActionItemsService.updateStatus).  Every       *)
(* operation checks the row it read; its update and its event are one      *)
(* transaction, and an event's idempotency key is unique.                  *)
(***************************************************************************)
EXTENDS Naturals, FiniteSets

CONSTANTS
    Calls,              \* requests in progress at a time
    Keys                \* idempotency keys of the reports

VARIABLES
    item,               \* the ActionItem row
    events,             \* eventType of the submissions, approvals, rejections
    reports,            \* outcome of the execution event of each key
    call                \* what each call is doing, with the row it read

vars == <<item, events, reports, call>>

Outcomes == {"succeeded", "failed"}
Items ==
    [status : {"todo", "in_progress", "done", "blocked"},
     approval : {"not_submitted", "pending", "approved", "rejected"},
     execution : {"not_started", "ready"} \cup Outcomes,
     attemptCount : 0..Cardinality(Keys)]
EventTypes == {"submitted", "approved", "rejected"}
Points == {"idle", "submit", "approve", "reject", "report", "record"}

(* done: the row was read as executed with success.                        *)
Idle == [pc |-> "idle", key |-> "none", outcome |-> "none", done |-> FALSE]
CallStates == [pc : Points, key : Keys \cup {"none"},
               outcome : Outcomes \cup {"none"}, done : BOOLEAN]

At(c, point) == call[c].pc = point
Leave(c) == call' = [call EXCEPT ![c] = Idle]

Init ==
    /\ item = [status |-> "todo", approval |-> "not_submitted",
               execution |-> "not_started", attemptCount |-> 0]
    /\ events = {}
    /\ reports = [k \in Keys |-> "none"]
    /\ call = [c \in Calls |-> Idle]

(***************************************************************************)
(* What each operation checks of the row it reads; a pending submission or *)
(* an approved approval is returned unchanged.                             *)
(***************************************************************************)
Accepts(op) ==
    CASE op = "submit" -> item.approval \in {"not_submitted", "rejected"}
      [] op \in {"approve", "reject"} -> item.approval = "pending"

(* Mutant: an execution is reported for what was submitted.                *)
ReportableSubmitted == item.approval \in {"pending", "approved"}

Reportable == item.approval = "approved"

Begin(c, op) ==
    /\ At(c, "idle")
    /\ Accepts(op)
    /\ call' = [call EXCEPT ![c].pc = op]
    /\ UNCHANGED <<item, events, reports>>

Submit(c) ==
    /\ At(c, "submit")
    /\ item' = [item EXCEPT !.approval = "pending", !.execution = "not_started"]
    /\ events' = events \cup {"submitted"}
    /\ Leave(c)
    /\ UNCHANGED reports

Approve(c) ==
    /\ At(c, "approve")
    /\ item' = [item EXCEPT !.approval = "approved", !.execution = "ready"]
    /\ events' = events \cup {"approved"}
    /\ Leave(c)
    /\ UNCHANGED reports

Reject(c) ==
    /\ At(c, "reject")
    /\ item' = [item EXCEPT !.approval = "rejected", !.execution = "not_started"]
    /\ events' = events \cup {"rejected"}
    /\ Leave(c)
    /\ UNCHANGED reports

(***************************************************************************)
(* recordExecution: the row, then the event of the key, then the           *)
(* transaction.                                                            *)
(***************************************************************************)
BeginReport(c, key, outcome) ==
    /\ At(c, "idle")
    /\ Reportable
    /\ call' = [call EXCEPT ![c] =
         [pc |-> "report", key |-> key, outcome |-> outcome,
          done |-> item.execution = "succeeded"]]
    /\ UNCHANGED <<item, events, reports>>

CheckKey(c) ==
    /\ At(c, "report")
    /\ IF reports[call[c].key] = "none" /\ ~call[c].done
       THEN call' = [call EXCEPT ![c].pc = "record"] ELSE Leave(c)
    /\ UNCHANGED <<item, events, reports>>

(* The unique index refuses the event, and the update with it.  Mutant: the*)
(* check alone.                                                            *)
AnyKey(key) == TRUE

UniqueKey(key) == reports[key] = "none"

RecordExecution(c) ==
    LET key == call[c].key outcome == call[c].outcome IN
    /\ At(c, "record")
    /\ IF UniqueKey(key)
       THEN /\ reports' = [reports EXCEPT ![key] = outcome]
            /\ item' = [item EXCEPT
                 !.status = IF outcome = "succeeded" THEN "done" ELSE "blocked",
                 !.execution = outcome,
                 !.attemptCount = @ + 1]
       ELSE UNCHANGED <<item, reports>>
    /\ Leave(c)
    /\ UNCHANGED events

(* ActionItemsService.updateStatus.                                        *)
UpdateStatus(status) ==
    /\ item' = [item EXCEPT !.status = status]
    /\ UNCHANGED <<events, reports, call>>

Next ==
    \/ \E c \in Calls :
         \/ \E op \in {"submit", "approve", "reject"} : Begin(c, op)
         \/ Submit(c) \/ Approve(c) \/ Reject(c)
         \/ \E key \in Keys, outcome \in Outcomes : BeginReport(c, key, outcome)
         \/ CheckKey(c) \/ RecordExecution(c)
    \/ \E status \in {"todo", "in_progress", "done"} : UpdateStatus(status)

Spec == Init /\ [][Next]_vars

(***************************************************************************)
(* Properties                                                              *)
(***************************************************************************)
TypeOK ==
    /\ item \in Items
    /\ events \subseteq EventTypes
    /\ reports \in [Keys -> Outcomes \cup {"none"}]
    /\ call \in [Calls -> CallStates]

Reported == {k \in Keys : reports[k] # "none"}

(* A report that is sent twice counts once, also when both copies pass the *)
(* check; and nothing is executed that nobody ever approved, whatever      *)
(* approvals and rejections cross.                                         *)
ReportsCountOnce ==
    /\ item.attemptCount = Cardinality(Reported)
    /\ Reported # {} => "approved" \in events
    /\ item.execution \in Outcomes => \E k \in Reported : reports[k] = item.execution

=============================================================================
