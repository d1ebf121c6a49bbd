--------------------------- MODULE SchedulerBatch ---------------------------
(***************************************************************************)
(* The batch of one scheduler tick over the automations of every           *)
(* organization (AutomationSchedulerService.runDueAutomations): the query  *)
(* takes the oldest due occurrences whose claim is free, and the tick      *)
(* claims and triggers each.  Scheduler models what happens to one of them;*)
(* here each is processed whole.                                           *)
(***************************************************************************)
EXTENDS Integers, FiniteSets

CONSTANTS
    Automations,        \* enabled and scheduled
    Batch,              \* SCHEDULER_MAX_BATCH_SIZE
    Lease,              \* SCHEDULED_CLAIM_LEASE_MS, in ticks
    Period,             \* the longest of the cron expressions, in ticks
    MaxBlocked,         \* assumption: automations with an active run at a time
    MaxFaults           \* bound: ticks in which something fails

VARIABLES
    later,              \* for each automation, those whose nextRunAt is later
    wait,               \* ticks until nextRunAt, 0 once it is due
    claimed,            \* age of scheduledClaimedAt
    active,             \* automations whose run is still active
    waited,             \* history: ticks a due automation got no occurrence
    faults              \* history: what MaxFaults bounds

vars == <<later, wait, claimed, active, waited, faults>>

Unclaimed == Lease + 1  \* null, or older than the lease

Init ==
    /\ later = [a \in Automations |-> {}]
    /\ wait = [a \in Automations |-> 0]
    /\ claimed = [a \in Automations |-> Unclaimed]
    /\ active \in {s \in SUBSET Automations : Cardinality(s) <= MaxBlocked}
    /\ waited = [a \in Automations |-> 0]
    /\ faults = 0

(* Mutant: a claimed automation is read again by the next tick.            *)
DueOrClaimed(a) == wait[a] = 0

Due(a) == wait[a] = 0 /\ claimed[a] > Lease

DueSet == {a \in Automations : Due(a)}

(* nextRunAt of a is not after b's; equal ones go by id, in any order here.*)
Before(a, b) == a \notin later[b]

IsBatch(batch) ==
    /\ batch \subseteq DueSet
    /\ Cardinality(batch) = IF Cardinality(DueSet) < Batch
                            THEN Cardinality(DueSet) ELSE Batch
    /\ \A a \in batch, b \in DueSet \ batch : Before(a, b)

(* The next occurrence after `now` of those whose run is created; all wait *)
(* one tick less at the next one.                                          *)
Advance(run, next) ==
    /\ wait' = [a \in Automations |->
                  IF a \in run THEN next[a]
                  ELSE IF wait[a] > 0 THEN wait[a] - 1 ELSE 0]
    /\ later' =
         [a \in Automations |->
            {b \in Automations :
               \/ wait'[b] > wait'[a]
               \/ /\ wait'[b] = 0 /\ a \notin run
                  /\ b \in later[a] \/ (b \in run /\ wait[a] = 0)}]

(* A run that an active one excludes throws, and leaves nextRunAt and the  *)
(* claim.  So does, in any tick, an error or the end of the process, which *)
(* may also leave some of the batch unread.                                *)
Process(batch, run, refused) ==
    LET whole == run = batch \ active /\ refused = batch \cap active IN
    /\ whole \/ faults < MaxFaults
    /\ \E left \in SUBSET run :
         /\ Cardinality(active \cup left) <= MaxBlocked
         /\ active' = active \cup left
    /\ \E next \in [run -> 0..(Period - 1)] : Advance(run, next)
    /\ claimed' = [a \in Automations |->
                     IF a \in run THEN Unclaimed
                     ELSE IF a \in refused THEN 1
                     ELSE IF claimed[a] < Unclaimed THEN claimed[a] + 1
                     ELSE Unclaimed]
    /\ waited' = [a \in Automations |->
                    IF a \in active \cup run \/ wait[a] > 0 THEN 0
                    ELSE waited[a] + 1]
    /\ faults' = IF whole THEN faults ELSE faults + 1

RunDueAutomations ==
    \E batch \in SUBSET Automations :
      /\ IsBatch(batch)
      /\ \E run \in SUBSET (batch \ active) :
         \E refused \in SUBSET (batch \ run) :
           Process(batch, run, refused)

(* A run ends, or the approval it waits for is given or refused.           *)
EndRun(a) ==
    /\ a \in active
    /\ active' = active \ {a}
    /\ UNCHANGED <<later, wait, claimed, waited, faults>>

Next == RunDueAutomations \/ \E a \in Automations : EndRun(a)

Spec == Init /\ [][Next]_vars

(***************************************************************************)
(* Properties                                                              *)
(***************************************************************************)
TypeOK ==
    /\ later \in [Automations -> SUBSET Automations]
    /\ wait \in [Automations -> 0..(Period - 1)]
    /\ claimed \in [Automations -> 1..Unclaimed]
    /\ active \in SUBSET Automations /\ Cardinality(active) <= MaxBlocked
    /\ waited \in [Automations -> Nat]
    /\ faults \in 0..MaxFaults

(* The places of the batches of a lease that blocked automations leave to  *)
(* the others: the lease keeps each of them away from all but one.         *)
Spare == (Lease + 1) * Batch - MaxBlocked

FewBlocked == Spare > 0

(* The places that may be taken before a given one, and one turn: these    *)
(* and a lease to wait for.                                                *)
Ahead == (Lease + 1) * (Cardinality(Automations) - 1 + MaxBlocked)
Turn == Ahead + (Lease + 1) * Spare

(* What does not fit in a batch is only late: as long as the blocked       *)
(* automations do not fill the batches of a whole lease, a due one gets    *)
(* its occurrence within one turn of the others, and a faulty tick delays  *)
(* it by one more.                                                         *)
OnlyDelayed ==
    \A a \in Automations : (waited[a] + 1) * Spare <= Turn * (faults + 1)

=============================================================================
