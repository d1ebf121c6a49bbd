------------------------ MODULE NotificationDispatch ------------------------
(***************************************************************************)
(* The e-mail outbox: one NotificationDelivery row, the dispatcher slots   *)
(* that send it (NotificationDispatcherService, on any number of           *)
(* instances, whose ticks may overlap), and the requests that put a dead   *)
(* letter back in the queue (NotificationsService.retry).                  *)
(*                                                                         *)
(* Every statement sent to Postgres is one step.  Time is relative: the    *)
(* row holds the ages of its instants and a slot the age of the `now` its  *)
(* tick was given, so that two instants are equal when their ages are.     *)
(***************************************************************************)
EXTENDS Integers, FiniteSets

CONSTANTS
    Workers,            \* dispatcher slots in progress at the same time
    Requests,           \* manual retries, each used once
    MaxAttempts,        \* MAX_NOTIFICATION_ATTEMPTS
    Backoff,            \* RETRY_BACKOFF_MS, one delay per failed attempt
    Lease,              \* CLAIM_LEASE_MS
    MaxLag,             \* bound: how far a slot's `now` falls behind
    MaxFaults           \* bound: lost slots and updates that throw

ASSUME NotificationDispatchAssumption ==
    /\ MaxAttempts \in Nat \ {0}
    /\ Backoff \in [1..(MaxAttempts - 1) -> Nat]
    /\ Lease \in Nat
    /\ MaxLag \in Nat
    /\ MaxFaults \in Nat

VARIABLES
    delivery,           \* the row
    slot,               \* what each dispatcher slot is doing
    request,            \* what each manual retry is doing
    claimer,            \* history: the slot whose claim was the last
    takeovers,          \* history: claims of a row still processing
    mailed,             \* history: the attempts that called sendEmail
    accepted,           \* history: those whose mail the server accepted
    faults              \* faults so far

vars ==
    <<delivery, slot, request, claimer, takeovers, mailed, accepted, faults>>

history == <<claimer, takeovers, mailed, accepted>>

(***************************************************************************)
(* The row and the slots                                                   *)
(***************************************************************************)
None == -1              \* claimedAt null
MaxAge == MaxLag + Lease + 1

Statuses == {"none", "pending", "processing", "retry_scheduled", "sent",
             "dead_letter"}

(* dueAge is the age of nextAttemptAt, negative while it is to come.       *)
Deliveries == [status : Statuses, attemptCount : 0..MaxAttempts,
               dueAge : Int, claimAge : 0..MaxAge \cup {None}]

Row(status, attempts, dueAge, claimAge) ==
    [status |-> status, attemptCount |-> attempts, dueAge |-> dueAge,
     claimAge |-> claimAge]

Points == {"idle", "scan", "exhaust", "claim", "verify", "send", "record",
           "retry", "bury"}

(* lag is the age of the tick's `now`, attempt the re-fetched attemptCount.*)
Slots == [pc : Points, lag : 0..MaxLag, attempt : 0..MaxAttempts]

SlotAt(point, lag, attempt) ==
    [pc |-> point, lag |-> lag, attempt |-> attempt]

Idle == SlotAt("idle", 0, 0)

At(w, point) == slot[w].pc = point

Goto(w, point) ==
    slot' = [slot EXCEPT ![w] = SlotAt(point, slot[w].lag, slot[w].attempt)]

Leave(w) == slot' = [slot EXCEPT ![w] = Idle]

(* dueSetWhere, for a slot's `now`.                                        *)
LeaseFree(w) ==
    \/ delivery.claimAge = None
    \/ delivery.claimAge > slot[w].lag + Lease

DueSet(w) ==
    /\ \/ /\ delivery.status \in {"pending", "retry_scheduled"}
          /\ delivery.dueAge >= slot[w].lag
       \/ delivery.status = "processing"
    /\ LeaseFree(w)

(* where id and claimedAt = now.  Mutant: by id alone.                     *)
AnyOwner(w) == TRUE

Owned(w) == delivery.claimAge = slot[w].lag

Init ==
    /\ delivery = Row("none", 0, 0, None)
    /\ slot = [w \in Workers |-> Idle]
    /\ request = [r \in Requests |-> "ready"]
    /\ claimer = {}
    /\ takeovers = 0
    /\ mailed = {}
    /\ accepted = {}
    /\ faults = 0

(* createEmailDelivery.  A repeated call of the same step finds the row by *)
(* its idempotency key and changes nothing.                                *)
CreateEmailDelivery ==
    /\ delivery.status = "none"
    /\ delivery' = Row("pending", 0, 0, None)
    /\ UNCHANGED <<slot, request, history, faults>>

(***************************************************************************)
(* runDueDeliveries                                                        *)
(***************************************************************************)
HandleTick(w) ==
    /\ At(w, "idle")
    /\ Goto(w, "scan")
    /\ UNCHANGED <<delivery, request, history, faults>>

Scan(w) ==
    /\ At(w, "scan")
    /\ \/ DueSet(w) /\ Goto(w, "exhaust")
       \/ ~DueSet(w) /\ Leave(w)
    /\ UNCHANGED <<delivery, request, history, faults>>

(***************************************************************************)
(* processDueDelivery                                                      *)
(***************************************************************************)
(* Mutant: the budget is compared as if one attempt were left.             *)
BeyondBudget == delivery.attemptCount > MaxAttempts

Exhausted == delivery.attemptCount >= MaxAttempts

Closed(status) ==
    Row(status, delivery.attemptCount, delivery.dueAge, None)

(* Terminalize a due delivery whose budget is spent.                       *)
Exhaust(w) ==
    /\ At(w, "exhaust")
    /\ delivery' = IF DueSet(w) /\ Exhausted THEN Closed("dead_letter")
                                            ELSE delivery
    /\ Goto(w, "claim")
    /\ UNCHANGED <<request, history, faults>>

(* Mutants: the claim leaves the budget to the statement before it; it     *)
(* does not look at the lease.                                             *)
ClaimableBeyondBudget(w) == DueSet(w)

ClaimableUnderLease(w) ==
    /\ delivery.status \in {"pending", "retry_scheduled", "processing"}
    /\ delivery.attemptCount < MaxAttempts

Claimable(w) == DueSet(w) /\ delivery.attemptCount < MaxAttempts

(* Phase 1: the claim charges the attempt.  Mutant: the attempt is left to *)
(* its outcome to charge.                                                  *)
ClaimUncharged(w) ==
    /\ At(w, "claim")
    /\ \/ /\ Claimable(w)
          /\ delivery' = Row("processing", delivery.attemptCount,
                             delivery.dueAge, slot[w].lag)
          /\ claimer' = {w}
          /\ Goto(w, "verify")
       \/ ~Claimable(w) /\ Leave(w) /\ UNCHANGED <<delivery, claimer>>
    /\ UNCHANGED <<request, takeovers, mailed, accepted, faults>>

Claim(w) ==
    /\ At(w, "claim")
    /\ \/ /\ Claimable(w)
          /\ delivery' = Row("processing", delivery.attemptCount + 1,
                             delivery.dueAge, slot[w].lag)
          /\ claimer' = {w}
          /\ takeovers' = IF delivery.status = "processing" /\ LeaseFree(w)
                          THEN takeovers + 1 ELSE takeovers
          /\ Goto(w, "verify")
       \/ /\ ~Claimable(w)
          /\ Leave(w)
          /\ UNCHANGED <<delivery, claimer, takeovers>>
    /\ UNCHANGED <<request, mailed, accepted, faults>>

(* Phase 2: re-fetch, and verify the claim.                                *)
Holds(w) == delivery.status = "processing" /\ Owned(w)

Verify(w) ==
    /\ At(w, "verify")
    /\ \/ /\ Holds(w)
          /\ slot' = [slot EXCEPT ![w] =
                        SlotAt("send", slot[w].lag, delivery.attemptCount)]
       \/ ~Holds(w) /\ Leave(w)
    /\ UNCHANGED <<delivery, request, history, faults>>

(* The recipient no longer exists, or the template no longer renders.      *)
Undeliverable(w) ==
    /\ At(w, "send")
    /\ Goto(w, "bury")
    /\ UNCHANGED <<delivery, request, history, faults>>

(* sendEmail: the server accepts the mail, or the error is a temporary (or *)
(* an unknown) or a permanent one.                                         *)
SendEmail(w) ==
    /\ At(w, "send")
    /\ mailed' = mailed \cup {slot[w].attempt}
    /\ \/ Goto(w, "record") /\ accepted' = accepted \cup {slot[w].attempt}
       \/ Goto(w, "retry") /\ UNCHANGED accepted
       \/ Goto(w, "bury") /\ UNCHANGED accepted
    /\ UNCHANGED <<delivery, request, claimer, takeovers, faults>>

(* The outcome of a call, where its claim still stands.                    *)
Finalize(w, row) ==
    /\ delivery' = IF Owned(w) THEN row ELSE delivery
    /\ Leave(w)
    /\ UNCHANGED <<request, history, faults>>

RecordSent(w) ==
    /\ At(w, "record")
    /\ Finalize(w, Closed("sent"))

(* The update that records the success is inside the try of sendEmail: an  *)
(* exception of its own is taken for a temporary failure of the mail.      *)
RecordThrows(w) ==
    /\ At(w, "record")
    /\ faults < MaxFaults
    /\ faults' = faults + 1
    /\ Goto(w, "retry")
    /\ UNCHANGED <<delivery, request, history>>

ScheduleRetryOrDeadLetter(w) ==
    /\ At(w, "retry")
    /\ Finalize(w,
         IF slot[w].attempt < MaxAttempts
         THEN Row("retry_scheduled", delivery.attemptCount,
                  slot[w].lag - Backoff[slot[w].attempt], None)
         ELSE Closed("dead_letter"))

MarkDeadLetter(w) ==
    /\ At(w, "bury")
    /\ Finalize(w, Closed("dead_letter"))

(* The process is lost, or a statement throws and the tick goes on with    *)
(* its next delivery.                                                      *)
Lose(w) ==
    /\ ~At(w, "idle")
    /\ faults < MaxFaults
    /\ faults' = faults + 1
    /\ Leave(w)
    /\ UNCHANGED <<delivery, request, history>>

(***************************************************************************)
(* retry: a read for the friendly error, then the conditional update       *)
(***************************************************************************)
Retryable ==
    /\ delivery.status = "dead_letter"
    /\ delivery.attemptCount < MaxAttempts

ReadRetry(r) ==
    /\ request[r] = "ready"
    /\ Retryable
    /\ request' = [request EXCEPT ![r] = "read"]
    /\ UNCHANGED <<delivery, slot, history, faults>>

(* Where it still is retryable.  Mutant: the read is trusted.              *)
RequeuedWhenRead == Row("pending", delivery.attemptCount, 0, None)

Requeued ==
    IF Retryable THEN Row("pending", delivery.attemptCount, 0, None)
                 ELSE delivery

Retry(r) ==
    /\ request[r] = "read"
    /\ delivery' = Requeued
    /\ request' = [request EXCEPT ![r] = "done"]
    /\ UNCHANGED <<slot, history, faults>>

(***************************************************************************)
(* Specification                                                           *)
(***************************************************************************)
Older(age, limit) == IF age < limit THEN age + 1 ELSE age

Tick ==
    /\ \A w \in Workers : slot[w].lag < MaxLag
    /\ slot' = [w \in Workers |->
                  IF At(w, "idle") THEN slot[w]
                  ELSE SlotAt(slot[w].pc, slot[w].lag + 1, slot[w].attempt)]
    /\ delivery' = Row(delivery.status, delivery.attemptCount,
                       Older(delivery.dueAge, MaxLag),
                       IF delivery.claimAge = None THEN None
                       ELSE Older(delivery.claimAge, MaxAge))
    /\ UNCHANGED <<request, history, faults>>

Dispatch(w) ==
    \/ HandleTick(w)
    \/ Scan(w)
    \/ Exhaust(w)
    \/ Claim(w)
    \/ Verify(w)
    \/ Undeliverable(w)
    \/ SendEmail(w)
    \/ RecordSent(w)
    \/ ScheduleRetryOrDeadLetter(w)
    \/ MarkDeadLetter(w)

Next ==
    \/ Tick
    \/ CreateEmailDelivery
    \/ \E w \in Workers : Dispatch(w) \/ RecordThrows(w) \/ Lose(w)
    \/ \E r \in Requests : ReadRetry(r) \/ Retry(r)

Spec == Init /\ [][Next]_vars

(* Time passes, the cron decorator ticks, statements and sendEmail return. *)
Fairness ==
    /\ WF_vars(Tick)
    /\ \A w \in Workers : WF_vars(Dispatch(w))

FairSpec == Spec /\ Fairness

(***************************************************************************)
(* Properties                                                              *)
(***************************************************************************)
(* Every variable has its type. *)
TypeOK ==
    /\ delivery \in Deliveries
    /\ slot \in [Workers -> Slots]
    /\ request \in [Requests -> {"ready", "read", "done"}]
    /\ claimer \subseteq Workers
    /\ takeovers \in Nat
    /\ mailed \subseteq 1..MaxAttempts
    /\ accepted \subseteq mailed
    /\ faults \in 0..MaxFaults

(* Every mail spends an attempt of its own, charged before it leaves,      *)
(* whatever is taken over, lost or retried by hand: no two calls mail      *)
(* under the same attempt, and a delivery is mailed at most                *)
(* MAX_NOTIFICATION_ATTEMPTS times in its life                             *)
(* (RC26_NOTIFICATION_DELIVERY.md, "Maximum cinq tentatives au total,      *)
(* crashs compris").                                                       *)
EveryMailIsCharged ==
    /\ mailed \subseteq 1..delivery.attemptCount
    /\ \A w \in Workers : At(w, "send") =>
         slot[w].attempt \in (1..delivery.attemptCount) \ mailed

(* A second mail of the same delivery is accepted only after a fault or    *)
(* the takeover of an attempt that outlived its lease: ticks, retries by   *)
(* the dispatcher and retries by hand never repeat a mail on their own.    *)
NoNeedlessDuplicate ==
    Cardinality(accepted) <= 1 + takeovers + faults

(* An outcome is recorded by the slot that claimed the delivery last; one  *)
(* that was taken over never overwrites the other's outcome (the comment   *)
(* of NotificationDispatcherService, phase 3).                             *)
OutcomeByHolder ==
    [][ \A w \in Workers :
          /\ slot[w].pc \in {"record", "retry", "bury"}
          /\ slot'[w].pc = "idle"
          /\ delivery'.status # delivery.status
          => claimer = {w} ]_vars

(* The row keeps Delivery's promise.                                       *)
Outbox == INSTANCE Delivery WITH status <- delivery.status,
                                 attempts <- delivery.attemptCount

ImplementsDelivery == Outbox!Spec

(* A delivery is eventually sent or a dead letter, although slots are lost *)
(* in the middle of any attempt, the last one included.                    *)
Settled == delivery.status \in {"sent", "dead_letter"}

EventuallySettled == (delivery.status # "none") ~> Settled
=============================================================================
