----------------------------- MODULE Scheduler ------------------------------
(***************************************************************************)
(* The schedule of one automation: AutomationSchedulerService's tick, with *)
(* its reconciliation and the four phases of processDueAutomation, beside  *)
(* AutomationsService.update and setEnabled, over the automation's row.    *)
(*                                                                         *)
(* A worker is a dispatcher slot, on any instance; an editor is a request  *)
(* that edits the automation.  Every statement sent to Postgres is one     *)
(* step.  Creating the run is AutomationRuns' business: here it succeeds,  *)
(* or throws.                                                              *)
(***************************************************************************)
EXTENDS Integers

CONSTANTS
    Workers,            \* dispatcher slots in progress at the same time
    Editors,            \* edits in progress at the same time
    Crons,              \* cron expressions, as periods
    Lease,              \* SCHEDULED_CLAIM_LEASE_MS
    MaxTime,            \* bound: where the clock stops
    MaxLag,             \* bound: how far a slot's `now` falls behind
    SharedInstants,     \* whether two slots may have the same `now`
    Prompt,             \* whether time waits for a free slot to see what is due
    MaxEdits,           \* bound: how many edits begin
    MaxFaults           \* bound: lost slots and runs that cannot be created

None == -1              \* a null instant

Times == 1..MaxTime
Instants == Times \cup {None}

(* computeNextOccurrence: the first occurrence after an instant.  Mutant:  *)
(* the last one before it.                                                 *)
PreviousOccurrence(cron, from) == (from \div cron) * cron

NextOccurrence(cron, from) == (from \div cron + 1) * cron

Occurrences == 1..(MaxTime + MaxTime)

ASSUME SchedulerAssumption ==
    /\ Crons \subseteq Times
    /\ Crons # {}
    /\ Lease \in Nat
    /\ MaxTime \in Nat
    /\ MaxLag \in Nat
    /\ SharedInstants \in BOOLEAN
    /\ Prompt \in BOOLEAN
    /\ MaxEdits \in Nat
    /\ MaxFaults \in Nat

VARIABLES
    clock,              \* the present
    row,                \* the Automation row and its trigger
    ran,                \* the occurrences whose run exists (its dedup key)
    worker,             \* what each dispatcher slot is doing
    editor,             \* what each editor is doing
    holder,             \* whose claim scheduledClaimedAt is
    edits, faults       \* so far

vars == <<clock, row, ran, worker, editor, holder, edits, faults>>

(***************************************************************************)
(* Rows, slots and edits                                                   *)
(***************************************************************************)
Triggers == [type : {"scheduled", "event"}, cron : Crons]

AutomationRows ==
    [enabled : BOOLEAN, trigger : Triggers,
     nextRunAt : Occurrences \cup {None}, scheduledClaimedAt : Instants]

Points == {"idle", "orphans", "initialize", "due", "claim", "verify",
           "release", "trigger", "advance"}

Slots == [pc : Points, now : Instants, scheduledFor : Occurrences \cup {None},
          cron : Crons]

AnyCron == CHOOSE c \in Crons : TRUE

IdleSlot == [pc |-> "idle", now |-> None, scheduledFor |-> None,
             cron |-> AnyCron]

(* An edit: the fields the request sets (each a set, empty when absent)    *)
(* and the nextRunAt computed from what it read.                           *)
Options(S) == {{}} \cup {{x} : x \in S}
NoEdit == [active |-> FALSE, enabled |-> {}, trigger |-> {},
           nextRunAt |-> None]
EditRows == [active : BOOLEAN, enabled : Options(BOOLEAN),
             trigger : Options(Triggers),
             nextRunAt : Occurrences \cup {None}]

Given(option, stored) ==
    IF option = {} THEN stored ELSE CHOOSE x \in option : TRUE

(* resolveNextRunAt: null unless enabled and scheduled.                    *)
ResolveNextRunAt(enabled, trigger) ==
    IF enabled /\ trigger.type = "scheduled"
    THEN NextOccurrence(trigger.cron, clock)
    ELSE None

At(w, point) == worker[w].pc = point
Goto(w, point) == worker' = [worker EXCEPT ![w] = [@ EXCEPT !.pc = point]]
Leave(w) == worker' = [worker EXCEPT ![w] = IdleSlot]

Scheduled == row.enabled /\ row.trigger.type = "scheduled"

(* Created through create(), or enabled before nextRunAt was ever computed.*)
Init ==
    /\ clock = 1
    /\ \E e \in BOOLEAN, t \in Triggers :
         \E n \in {ResolveNextRunAt(e, t), None} :
           row = [enabled |-> e, trigger |-> t, nextRunAt |-> n,
                  scheduledClaimedAt |-> None]
    /\ ran = {}
    /\ worker = [w \in Workers |-> IdleSlot]
    /\ editor = [e \in Editors |-> NoEdit]
    /\ holder = {}
    /\ edits = 0
    /\ faults = 0

(***************************************************************************)
(* runDueAutomations                                                       *)
(***************************************************************************)
HandleTick(w) ==
    /\ At(w, "idle")
    /\ worker' = [worker EXCEPT ![w] = [@ EXCEPT !.pc = "orphans",
                                                 !.now = clock]]
    /\ UNCHANGED <<clock, row, ran, editor, holder, edits, faults>>

(* reconcileMissingNextRunAt: find, then initialize where still null.      *)
FindOrphan(w) ==
    /\ At(w, "orphans")
    /\ \/ /\ Scheduled
          /\ row.nextRunAt = None
          /\ worker' = [worker EXCEPT ![w] =
                          [@ EXCEPT !.pc = "initialize",
                                    !.cron = row.trigger.cron]]
       \/ ~(Scheduled /\ row.nextRunAt = None) /\ Goto(w, "due")
    /\ UNCHANGED <<clock, row, ran, editor, holder, edits, faults>>

StillNull == row.nextRunAt = None

InitializeNextRunAt(w) ==
    /\ At(w, "initialize")
    /\ row' = IF StillNull
              THEN [row EXCEPT !.nextRunAt =
                      NextOccurrence(worker[w].cron, worker[w].now)]
              ELSE row
    /\ Goto(w, "due")
    /\ UNCHANGED <<clock, ran, editor, holder, edits, faults>>

(* Unclaimed, or under a claim older than the lease by the slot's `now`.   *)
(* Mutant: only unclaimed.                                                 *)
Unclaimed(now) == row.scheduledClaimedAt = None

ClaimFreeAt(now) ==
    \/ row.scheduledClaimedAt = None
    \/ row.scheduledClaimedAt < now - Lease

IsDueAt(now) ==
    /\ Scheduled
    /\ row.nextRunAt # None
    /\ row.nextRunAt <= now
    /\ ClaimFreeAt(now)

IsDue(w) == IsDueAt(worker[w].now)

FindDue(w) ==
    /\ At(w, "due")
    /\ \/ /\ IsDue(w)
          /\ worker' = [worker EXCEPT ![w] =
                          [@ EXCEPT !.pc = "claim",
                                    !.scheduledFor = row.nextRunAt]]
       \/ ~IsDue(w) /\ Leave(w)
    /\ UNCHANGED <<clock, row, ran, editor, holder, edits, faults>>

(***************************************************************************)
(* processDueAutomation                                                    *)
(***************************************************************************)
Claimable(w) ==
    /\ row.nextRunAt = worker[w].scheduledFor
    /\ row.enabled
    /\ ClaimFreeAt(worker[w].now)

(* Phase 1: claim the lease.  Mutant: the occurrence is advanced with it.  *)
ClaimAdvancing(w) ==
    /\ At(w, "claim")
    /\ \/ /\ Claimable(w)
          /\ row' = [row EXCEPT !.scheduledClaimedAt = worker[w].now,
                                !.nextRunAt = NextOccurrence(worker[w].cron,
                                                             worker[w].now)]
          /\ holder' = {w}
          /\ Goto(w, "verify")
       \/ ~Claimable(w) /\ Leave(w) /\ UNCHANGED <<row, holder>>
    /\ UNCHANGED <<clock, ran, editor, edits, faults>>

Claim(w) ==
    /\ At(w, "claim")
    /\ \/ /\ Claimable(w)
          /\ row' = [row EXCEPT !.scheduledClaimedAt = worker[w].now]
          /\ holder' = {w}
          /\ Goto(w, "verify")
       \/ ~Claimable(w) /\ Leave(w) /\ UNCHANGED <<row, holder>>
    /\ UNCHANGED <<clock, ran, editor, edits, faults>>

(* scheduledClaimedAt equals the slot's `now`.  The clock is too coarse to  *)
(* show the milliseconds by which the instants of two slots differ, unless *)
(* they tick at the very same one.  Mutant: any claim.                     *)
AnyClaim(w) == row.scheduledClaimedAt # None

ClaimedNow(w) ==
    /\ row.scheduledClaimedAt = worker[w].now
    /\ SharedInstants \/ holder = {w}

(* Phase 2: re-fetch.                                                      *)
Fresh(w) ==
    /\ Scheduled
    /\ row.nextRunAt = worker[w].scheduledFor
    /\ ClaimedNow(w)

Verify(w) ==
    /\ At(w, "verify")
    /\ \/ /\ Fresh(w)
          /\ worker' = [worker EXCEPT ![w] =
                          [@ EXCEPT !.pc = "trigger",
                                    !.cron = row.trigger.cron]]
       \/ ~Fresh(w) /\ Goto(w, "release")
    /\ UNCHANGED <<clock, row, ran, editor, holder, edits, faults>>

Release(w) ==
    /\ At(w, "release")
    /\ \/ /\ ClaimedNow(w)
          /\ row' = [row EXCEPT !.scheduledClaimedAt = None]
          /\ holder' = {}
       \/ /\ ~ClaimedNow(w)
          /\ UNCHANGED <<row, holder>>
    /\ Leave(w)
    /\ UNCHANGED <<clock, ran, editor, edits, faults>>

(* Phase 3: triggerScheduled returns, the run of the occurrence exists.    *)
TriggerScheduled(w) ==
    /\ At(w, "trigger")
    /\ ran' = ran \cup {worker[w].scheduledFor}
    /\ Goto(w, "advance")
    /\ UNCHANGED <<clock, row, editor, holder, edits, faults>>

(* Phase 4: advance, anchored at the tick's instant.  Mutant: by id alone. *)
OnRow(w) == TRUE

HoldsOccurrence(w) ==
    /\ row.nextRunAt = worker[w].scheduledFor
    /\ ClaimedNow(w)

Advance(w) ==
    /\ At(w, "advance")
    /\ \/ /\ HoldsOccurrence(w)
          /\ row' = [row EXCEPT !.nextRunAt =
                                   NextOccurrence(worker[w].cron, worker[w].now),
                                !.scheduledClaimedAt = None]
          /\ holder' = {}
       \/ ~HoldsOccurrence(w) /\ UNCHANGED <<row, holder>>
    /\ Leave(w)
    /\ UNCHANGED <<clock, ran, editor, edits, faults>>

(* The run cannot be created (an active run, an error), or the slot is     *)
(* lost: the claim stays, the occurrence too.                              *)
Fault(w) ==
    /\ ~At(w, "idle")
    /\ faults < MaxFaults
    /\ faults' = faults + 1
    /\ Leave(w)
    /\ UNCHANGED <<clock, row, ran, editor, holder, edits>>

(***************************************************************************)
(* update and setEnabled: read, compute, write the given fields            *)
(***************************************************************************)
BeginEdit(e) ==
    /\ ~editor[e].active
    /\ edits < MaxEdits
    /\ edits' = edits + 1
    /\ \E enabled \in Options(BOOLEAN), trigger \in Options(Triggers) :
         editor' = [editor EXCEPT ![e] =
           [active |-> TRUE, enabled |-> enabled, trigger |-> trigger,
            nextRunAt |-> ResolveNextRunAt(Given(enabled, row.enabled),
                                           Given(trigger, row.trigger))]]
    /\ UNCHANGED <<clock, row, ran, worker, holder, faults>>

FinishEdit(e) ==
    /\ editor[e].active
    /\ row' = [enabled |-> Given(editor[e].enabled, row.enabled),
               trigger |-> Given(editor[e].trigger, row.trigger),
               nextRunAt |-> editor[e].nextRunAt,
               scheduledClaimedAt |-> None]
    /\ holder' = {}
    /\ editor' = [editor EXCEPT ![e] = NoEdit]
    /\ UNCHANGED <<clock, ran, worker, edits, faults>>

(***************************************************************************)
(* Specification                                                           *)
(***************************************************************************)
Tick ==
    /\ clock < MaxTime
    /\ \A w \in Workers : ~At(w, "idle") => clock - worker[w].now < MaxLag
    /\ Prompt /\ IsDueAt(clock) => \A w \in Workers : ~At(w, "idle")
    /\ clock' = clock + 1
    /\ UNCHANGED <<row, ran, worker, editor, holder, edits, faults>>

Dispatch(w) ==
    \/ HandleTick(w)
    \/ FindOrphan(w)
    \/ InitializeNextRunAt(w)
    \/ FindDue(w)
    \/ Claim(w)
    \/ Verify(w)
    \/ Release(w)
    \/ TriggerScheduled(w)
    \/ Advance(w)

Next ==
    \/ Tick
    \/ \E w \in Workers : Dispatch(w) \/ Fault(w)
    \/ \E e \in Editors : BeginEdit(e) \/ FinishEdit(e)

Spec == Init /\ [][Next]_vars

(* Time passes, the cron decorator ticks, statements return.               *)
Fairness ==
    /\ WF_vars(Tick)
    /\ \A w \in Workers : WF_vars(Dispatch(w))

FairSpec == Spec /\ Fairness

(***************************************************************************)
(* Properties                                                              *)
(***************************************************************************)
(* Every variable has its type. *)
TypeOK ==
    /\ clock \in Times
    /\ row \in AutomationRows
    /\ ran \subseteq Occurrences
    /\ worker \in [Workers -> Slots]
    /\ editor \in [Editors -> EditRows]
    /\ holder \in Options(Workers)
    /\ edits \in 0..MaxEdits
    /\ faults \in 0..MaxFaults

(* An automation that is enabled and scheduled is due at an occurrence of  *)
(* its own cron, or is waiting for the reconciliation: no edit, advance or *)
(* initialization leaves the instant of a replaced schedule behind.        *)
NextRunFollowsTrigger ==
    Scheduled /\ row.nextRunAt # None => row.nextRunAt % row.trigger.cron = 0

(* The dispatcher never moves nextRunAt past an occurrence whose run does  *)
(* not exist: an occurrence is delayed, never lost.                        *)
Dispatches == \E w \in Workers : worker'[w] # worker[w]

NoOccurrenceSkipped ==
    [][ Dispatches /\ row.nextRunAt # None /\ row'.nextRunAt # row.nextRunAt
          => row.nextRunAt \in ran ]_vars

(* A claim is ended by the slot that took it, by an edit, or by a takeover *)
(* once it is older than the lease for the slot that takes it over         *)
(* ("never touches a claim held by anyone else").                          *)
ClaimStands ==
    [][ \A w \in Workers :
          worker'[w] # worker[w] /\ holder' # holder /\ holder # {}
          => \/ holder = {w}
             \/ worker[w].now - row.scheduledClaimedAt > Lease ]_vars

(* An occurrence that comes due on an unedited automation gets its run,    *)
(* although a slot is lost or a run cannot be created at first.  Horizon:  *)
(* the last occurrence that leaves time for a stale lease per fault.       *)
Horizon == MaxTime - (MaxFaults + 1) * (Lease + MaxLag + 1)

EveryOccurrenceRuns ==
    \A t \in Times : t <= Horizon => (row.nextRunAt = t ~> t \in ran)
=============================================================================
