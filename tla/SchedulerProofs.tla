--------------------------- MODULE SchedulerProofs ---------------------------
(***************************************************************************)
(* Proofs about Scheduler, for any number of slots, any cron periods, any  *)
(* lease, lag, edits and faults.  What depends on slots having instants of *)
(* their own, or on edits not overlapping, says so.                        *)
(***************************************************************************)
EXTENDS Scheduler, TLAPS

(* The points of a slot that has found the automation due.                 *)
Processing == {"claim", "verify", "release", "trigger", "advance"}

(* A slot at work has its instant, one that processes has its occurrence,  *)
(* and one that advances has seen the run of its occurrence.               *)
SlotInv ==
    \A w \in Workers :
        /\ ~At(w, "idle") => worker[w].now \in Times
        /\ worker[w].pc \in Processing => worker[w].scheduledFor \in Occurrences
        /\ At(w, "advance") => worker[w].scheduledFor \in ran

ClaimInv == holder = {} <=> row.scheduledClaimedAt = None

CoreInv == TypeOK /\ SlotInv /\ ClaimInv

(* A slot whose claim stands works with the automation's cron.             *)
CronInv ==
    \A w \in Workers :
        worker[w].pc \in {"trigger", "advance"} /\ holder = {w}
          => worker[w].cron = row.trigger.cron

(* Only an automation that was never edited waits for the reconciliation.  *)
OrphanInv ==
    \A w \in Workers :
        At(w, "initialize") /\ Scheduled /\ row.nextRunAt = None
          => worker[w].cron = row.trigger.cron

(* What an edit in progress will write fits together.                      *)
EditInv ==
    \A e \in Editors : editor[e].active =>
        LET enabled == Given(editor[e].enabled, row.enabled)
            trigger == Given(editor[e].trigger, row.trigger)
        IN  enabled /\ trigger.type = "scheduled" =>
              /\ editor[e].nextRunAt # None
              /\ editor[e].nextRunAt % trigger.cron = 0

ScheduleInv == NextRunFollowsTrigger /\ CronInv /\ OrphanInv /\ EditInv

(***************************************************************************)
(* Cron expressions and optional fields                                    *)
(***************************************************************************)
LEMMA Quotient ==
    ASSUME NEW a \in Nat, NEW c \in Nat \ {0}
    PROVE  /\ a \div c \in Nat
           /\ (a \div c) * c <= a
           /\ a < (a \div c) * c + c
  OBVIOUS

LEMMA Multiple ==
    ASSUME NEW q \in Nat, NEW c \in Nat \ {0} PROVE (q * c) % c = 0
  OBVIOUS

(* The next occurrence is an occurrence of the cron, after the instant and *)
(* at most one period away.                                                *)
LEMMA NextOccurrenceIsNext ==
    ASSUME NEW cron \in Crons, NEW from \in Times
    PROVE  /\ NextOccurrence(cron, from) \in Occurrences
           /\ NextOccurrence(cron, from) # None
           /\ NextOccurrence(cron, from) % cron = 0
           /\ from < NextOccurrence(cron, from)
           /\ NextOccurrence(cron, from) <= from + cron
<1>1. /\ MaxTime \in Nat
      /\ cron \in Nat \ {0} /\ cron <= MaxTime
      /\ from \in Nat \ {0} /\ from <= MaxTime
  BY SchedulerAssumption DEF Times
<1> DEFINE q == from \div cron
           next == (q + 1) * cron
<1>2. q \in Nat /\ q * cron <= from /\ from < q * cron + cron
  BY <1>1, Quotient
<1>3. next = q * cron + cron /\ q * cron \in Nat
  BY <1>1, <1>2
<1>4. next \in Nat /\ from < next /\ next <= from + cron
  BY <1>1, <1>2, <1>3
<1>5. next \in 1..(MaxTime + MaxTime) /\ next # -1
  BY <1>1, <1>4
<1>6. next % cron = 0
  BY <1>1, <1>2, Multiple
<1> QED
  BY <1>4, <1>5, <1>6 DEF NextOccurrence, Occurrences, None

LEMMA GivenTyped ==
    ASSUME NEW S, NEW option \in Options(S), NEW stored \in S
    PROVE  Given(option, stored) \in S
<1>1. CASE option = {}
  BY <1>1 DEF Given
<1>2. CASE option # {}
  <2>1. PICK x \in S : option = {x}
    BY <1>2 DEF Options
  <2>2. (CHOOSE y \in option : TRUE) \in option
    BY <2>1
  <2> QED
    BY <1>2, <2>1, <2>2 DEF Given
<1> QED
  BY <1>1, <1>2

LEMMA ConstantsTyped ==
    /\ MaxTime \in Nat /\ Lease \in Nat /\ MaxEdits \in Nat /\ MaxFaults \in Nat
    /\ Crons \subseteq Times
    /\ AnyCron \in Crons
    /\ None \notin Occurrences /\ None \notin Times
    /\ None \in Int /\ Times \subseteq Int
<1>1. AnyCron \in Crons
  BY SchedulerAssumption DEF AnyCron
<1> QED
  BY <1>1, SchedulerAssumption DEF None, Occurrences, Times

(***************************************************************************)
(* What a step can do                                                      *)
(***************************************************************************)
(* Only the slot w moves; it keeps its instant unless it begins.           *)
OnlySlot(w) ==
    /\ worker' \in [Workers -> Slots]
    /\ \A v \in Workers \ {w} : worker'[v] = worker[v]

SameSlot(w) ==
    /\ worker'[w].now = worker[w].now
    /\ worker'[w].scheduledFor = worker[w].scheduledFor
    /\ worker'[w].cron = worker[w].cron

Row(enabled, trigger, nextRunAt, claimedAt) ==
    [enabled |-> enabled, trigger |-> trigger, nextRunAt |-> nextRunAt,
     scheduledClaimedAt |-> claimedAt]

Leaves(w) ==
    /\ OnlySlot(w)
    /\ ~At(w, "idle")
    /\ worker'[w].pc = "idle"
    /\ UNCHANGED <<row, ran, editor, holder>>

(* It reads, and goes on with what it read.                                *)
Reads(w) ==
    /\ OnlySlot(w)
    /\ UNCHANGED <<row, ran, editor, holder>>
    /\ \/ /\ At(w, "idle")
          /\ worker'[w].pc = "orphans"
          /\ worker'[w].now = clock
       \/ /\ At(w, "orphans")
          /\ worker'[w].pc = "initialize"
          /\ worker'[w].now = worker[w].now
          /\ worker'[w].cron = row.trigger.cron
       \/ /\ At(w, "orphans") /\ worker'[w].pc = "due"
          /\ SameSlot(w)
       \/ /\ At(w, "due") /\ IsDue(w)
          /\ worker'[w].pc = "claim"
          /\ worker'[w].now = worker[w].now
          /\ worker'[w].scheduledFor = row.nextRunAt
       \/ /\ At(w, "verify") /\ ClaimedNow(w)
          /\ worker'[w].pc = "trigger"
          /\ worker'[w].now = worker[w].now
          /\ worker'[w].scheduledFor = worker[w].scheduledFor
          /\ worker'[w].cron = row.trigger.cron
       \/ /\ At(w, "verify") /\ worker'[w].pc = "release"
          /\ SameSlot(w)

Initializes(w) ==
    /\ OnlySlot(w)
    /\ At(w, "initialize")
    /\ worker'[w].pc = "due"
    /\ SameSlot(w)
    /\ row' = IF StillNull
              THEN Row(row.enabled, row.trigger,
                       NextOccurrence(worker[w].cron, worker[w].now),
                       row.scheduledClaimedAt)
              ELSE row
    /\ UNCHANGED <<ran, editor, holder>>

Claims(w) ==
    /\ OnlySlot(w)
    /\ At(w, "claim")
    /\ ClaimFreeAt(worker[w].now)
    /\ worker'[w].pc = "verify"
    /\ SameSlot(w)
    /\ row' = Row(row.enabled, row.trigger, row.nextRunAt, worker[w].now)
    /\ holder' = {w}
    /\ UNCHANGED <<ran, editor>>

Releases(w) ==
    /\ OnlySlot(w)
    /\ ClaimedNow(w)
    /\ worker'[w].pc = "idle"
    /\ row' = Row(row.enabled, row.trigger, row.nextRunAt, None)
    /\ holder' = {}
    /\ UNCHANGED <<ran, editor>>

Runs(w) ==
    /\ OnlySlot(w)
    /\ At(w, "trigger")
    /\ worker'[w].pc = "advance"
    /\ SameSlot(w)
    /\ ran' = ran \cup {worker[w].scheduledFor}
    /\ UNCHANGED <<row, editor, holder>>

Advances(w) ==
    /\ OnlySlot(w)
    /\ At(w, "advance")
    /\ HoldsOccurrence(w)
    /\ worker'[w].pc = "idle"
    /\ row' = Row(row.enabled, row.trigger,
                  NextOccurrence(worker[w].cron, worker[w].now), None)
    /\ holder' = {}
    /\ UNCHANGED <<ran, editor>>

(* An edit is read and computed, then written.                             *)
Begins(e) ==
    /\ editor' \in [Editors -> EditRows]
    /\ \A f \in Editors \ {e} : editor'[f] = editor[f]
    /\ editor'[e].active
    /\ editor'[e].nextRunAt =
         ResolveNextRunAt(Given(editor'[e].enabled, row.enabled),
                          Given(editor'[e].trigger, row.trigger))
    /\ UNCHANGED <<row, ran, worker, holder>>

Writes(e) ==
    /\ editor' \in [Editors -> EditRows]
    /\ \A f \in Editors \ {e} : editor'[f] = editor[f]
    /\ editor[e].active
    /\ ~editor'[e].active
    /\ row' = Row(Given(editor[e].enabled, row.enabled),
                  Given(editor[e].trigger, row.trigger),
                  editor[e].nextRunAt, None)
    /\ holder' = {}
    /\ UNCHANGED <<ran, worker>>

Rests == UNCHANGED <<row, ran, worker, editor, holder>>

SlotEffect(w) ==
    \/ Leaves(w) \/ Reads(w) \/ Initializes(w) \/ Claims(w) \/ Releases(w)
    \/ Runs(w) \/ Advances(w)

Effect ==
    \/ \E w \in Workers : SlotEffect(w)
    \/ \E e \in Editors : Begins(e) \/ Writes(e)
    \/ Rests

LEMMA SlotTyped ==
    ASSUME TypeOK, NEW w \in Workers
    PROVE  /\ worker[w] \in Slots
           /\ worker[w].pc \in Points
           /\ worker[w].now \in Instants
           /\ worker[w].scheduledFor \in Occurrences \cup {None}
           /\ worker[w].cron \in Crons
  BY DEF TypeOK, Slots

LEMMA RowTyped ==
    ASSUME TypeOK
    PROVE  /\ row.enabled \in BOOLEAN
           /\ row.trigger \in Triggers
           /\ row.trigger.type \in {"scheduled", "event"}
           /\ row.trigger.cron \in Crons
           /\ row.nextRunAt \in Occurrences \cup {None}
           /\ row.scheduledClaimedAt \in Instants
           /\ row = Row(row.enabled, row.trigger, row.nextRunAt,
                        row.scheduledClaimedAt)
  BY DEF TypeOK, AutomationRows, Triggers, Row

LEMMA ToGo ==
    ASSUME TypeOK, NEW w \in Workers, NEW point \in Points, Goto(w, point)
    PROVE  OnlySlot(w) /\ SameSlot(w) /\ worker'[w].pc = point
<1>1. worker' \in [Workers -> Slots]
  BY DEF TypeOK, Goto, Slots
<1> QED
  BY <1>1 DEF TypeOK, Goto, Slots, OnlySlot, SameSlot

LEMMA ToLeave ==
    ASSUME TypeOK, NEW w \in Workers, Leave(w)
    PROVE  OnlySlot(w) /\ worker'[w].pc = "idle"
<1>1. IdleSlot \in Slots
  BY ConstantsTyped DEF IdleSlot, Slots, Points, Instants
<1> QED
  BY <1>1 DEF TypeOK, Leave, OnlySlot, IdleSlot

LEMMA EveryStepHasItsEffect ==
    ASSUME TypeOK, SlotInv, [Next]_vars PROVE Effect
<1>1. ASSUME NEW w \in Workers, HandleTick(w) PROVE Reads(w)
  <2>1. worker'[w] = [worker[w] EXCEPT !.pc = "orphans", !.now = clock]
    BY <1>1 DEF HandleTick, TypeOK
  <2>2. worker'[w] \in Slots /\ worker'[w].pc = "orphans"
        /\ worker'[w].now = clock
    BY <2>1, SlotTyped DEF TypeOK, Slots, Points, Instants
  <2>3. OnlySlot(w)
    BY <1>1, <2>2 DEF HandleTick, TypeOK, OnlySlot
  <2> QED
    BY <1>1, <2>2, <2>3 DEF HandleTick, Reads
<1>2. ASSUME NEW w \in Workers, FindOrphan(w) PROVE Reads(w)
  <2>1. CASE worker' = [worker EXCEPT ![w] =
                          [@ EXCEPT !.pc = "initialize",
                                    !.cron = row.trigger.cron]]
    <3>1. worker'[w] = [worker[w] EXCEPT !.pc = "initialize",
                                         !.cron = row.trigger.cron]
      BY <2>1 DEF TypeOK
    <3>2. /\ worker'[w] \in Slots
          /\ worker'[w].pc = "initialize"
          /\ worker'[w].now = worker[w].now
          /\ worker'[w].cron = row.trigger.cron
      BY <3>1, SlotTyped, RowTyped DEF Slots, Points
    <3>3. OnlySlot(w)
      BY <2>1, <3>2 DEF TypeOK, OnlySlot
    <3> QED
      BY <1>2, <3>2, <3>3 DEF FindOrphan, Reads
  <2>2. CASE Goto(w, "due")
    BY <1>2, <2>2, ToGo DEF FindOrphan, Reads, Points
  <2> QED
    BY <1>2, <2>1, <2>2 DEF FindOrphan
<1>3. ASSUME NEW w \in Workers, InitializeNextRunAt(w) PROVE Initializes(w)
  <2>1. OnlySlot(w) /\ SameSlot(w) /\ worker'[w].pc = "due"
    BY <1>3, ToGo DEF InitializeNextRunAt, Points
  <2>2. [row EXCEPT !.nextRunAt = NextOccurrence(worker[w].cron, worker[w].now)]
          = Row(row.enabled, row.trigger,
                NextOccurrence(worker[w].cron, worker[w].now),
                row.scheduledClaimedAt)
    BY DEF TypeOK, AutomationRows, Row
  <2> QED
    BY <1>3, <2>1, <2>2 DEF InitializeNextRunAt, Initializes
<1>4. ASSUME NEW w \in Workers, FindDue(w) PROVE SlotEffect(w)
  <2>1. CASE /\ IsDue(w)
             /\ worker' = [worker EXCEPT ![w] =
                             [@ EXCEPT !.pc = "claim",
                                       !.scheduledFor = row.nextRunAt]]
    <3>1. worker'[w] = [worker[w] EXCEPT !.pc = "claim",
                                         !.scheduledFor = row.nextRunAt]
      BY <2>1 DEF TypeOK
    <3>2. /\ worker'[w] \in Slots
          /\ worker'[w].pc = "claim"
          /\ worker'[w].now = worker[w].now
          /\ worker'[w].scheduledFor = row.nextRunAt
      BY <3>1, SlotTyped, RowTyped DEF Slots, Points
    <3>3. OnlySlot(w)
      BY <2>1, <3>2 DEF TypeOK, OnlySlot
    <3> QED
      BY <1>4, <2>1, <3>2, <3>3 DEF FindDue, Reads, SlotEffect
  <2>2. CASE Leave(w)
    BY <1>4, <2>2, ToLeave DEF FindDue, At, Leaves, SlotEffect
  <2> QED
    BY <1>4, <2>1, <2>2 DEF FindDue
<1>5. ASSUME NEW w \in Workers, Claim(w) PROVE SlotEffect(w)
  <2>1. [row EXCEPT !.scheduledClaimedAt = worker[w].now]
          = Row(row.enabled, row.trigger, row.nextRunAt, worker[w].now)
    BY DEF TypeOK, AutomationRows, Row
  <2>2. CASE Claimable(w) /\ Goto(w, "verify")
    BY <1>5, <2>1, <2>2, ToGo
    DEF Claim, At, Claimable, Claims, SlotEffect, Points
  <2>3. CASE Leave(w) /\ UNCHANGED <<row, holder>>
    BY <1>5, <2>3, ToLeave DEF Claim, At, Leaves, SlotEffect
  <2> QED
    BY <1>5, <2>2, <2>3 DEF Claim
<1>6. ASSUME NEW w \in Workers, Verify(w) PROVE Reads(w)
  <2>1. CASE /\ Fresh(w)
             /\ worker' = [worker EXCEPT ![w] =
                             [@ EXCEPT !.pc = "trigger",
                                       !.cron = row.trigger.cron]]
    <3>1. worker'[w] = [worker[w] EXCEPT !.pc = "trigger",
                                         !.cron = row.trigger.cron]
      BY <2>1 DEF TypeOK
    <3>2. /\ worker'[w] \in Slots
          /\ worker'[w].pc = "trigger"
          /\ worker'[w].now = worker[w].now
          /\ worker'[w].scheduledFor = worker[w].scheduledFor
          /\ worker'[w].cron = row.trigger.cron
      BY <3>1, SlotTyped, RowTyped DEF Slots, Points
    <3>3. OnlySlot(w)
      BY <2>1, <3>2 DEF TypeOK, OnlySlot
    <3> QED
      BY <1>6, <2>1, <3>2, <3>3 DEF Verify, Fresh, Reads
  <2>2. CASE Goto(w, "release")
    BY <1>6, <2>2, ToGo DEF Verify, Reads, Points
  <2> QED
    BY <1>6, <2>1, <2>2 DEF Verify
<1>7. ASSUME NEW w \in Workers, Release(w) PROVE SlotEffect(w)
  <2>1. [row EXCEPT !.scheduledClaimedAt = None]
          = Row(row.enabled, row.trigger, row.nextRunAt, None)
    BY DEF TypeOK, AutomationRows, Row
  <2>2. OnlySlot(w) /\ worker'[w].pc = "idle" /\ ~At(w, "idle")
    BY <1>7, ToLeave DEF Release, At
  <2> QED
    BY <1>7, <2>1, <2>2 DEF Release, Releases, Leaves, SlotEffect
<1>8. ASSUME NEW w \in Workers, TriggerScheduled(w) PROVE Runs(w)
  BY <1>8, ToGo DEF TriggerScheduled, Runs, Points
<1>9. ASSUME NEW w \in Workers, Advance(w) PROVE SlotEffect(w)
  <2>1. [row EXCEPT !.nextRunAt = NextOccurrence(worker[w].cron, worker[w].now),
                    !.scheduledClaimedAt = None]
          = Row(row.enabled, row.trigger,
                NextOccurrence(worker[w].cron, worker[w].now), None)
    <3>1. ASSUME NEW next
          PROVE  [row EXCEPT !.nextRunAt = next, !.scheduledClaimedAt = None]
                   = Row(row.enabled, row.trigger, next, None)
      <4>1. [row EXCEPT !.nextRunAt = next, !.scheduledClaimedAt = None]
              = [[row EXCEPT !.nextRunAt = next] EXCEPT !.scheduledClaimedAt
                                                          = None]
        BY DEF TypeOK, AutomationRows
      <4>2. [row EXCEPT !.nextRunAt = next]
              = Row(row.enabled, row.trigger, next, row.scheduledClaimedAt)
        BY DEF TypeOK, AutomationRows, Row
      <4>3. ASSUME NEW a, NEW t, NEW n, NEW c
            PROVE  [Row(a, t, n, c) EXCEPT !.scheduledClaimedAt = None]
                     = Row(a, t, n, None)
        BY DEF Row
      <4>4. [[row EXCEPT !.nextRunAt = next] EXCEPT !.scheduledClaimedAt = None]
              = [Row(row.enabled, row.trigger, next, row.scheduledClaimedAt)
                   EXCEPT !.scheduledClaimedAt = None]
        BY <4>2, Zenon
      <4>5. [Row(row.enabled, row.trigger, next, row.scheduledClaimedAt)
               EXCEPT !.scheduledClaimedAt = None]
              = Row(row.enabled, row.trigger, next, None)
        BY <4>3, Zenon
      <4> QED
        BY <4>1, <4>4, <4>5, Zenon
    <3> QED
      BY <3>1
  <2>2. OnlySlot(w) /\ worker'[w].pc = "idle" /\ ~At(w, "idle")
    BY <1>9, ToLeave DEF Advance, At
  <2> QED
    BY <1>9, <2>1, <2>2 DEF Advance, Advances, Leaves, SlotEffect
<1>10. ASSUME NEW w \in Workers, Fault(w) PROVE Leaves(w)
  BY <1>10, ToLeave DEF Fault, Leaves
<1>11. ASSUME NEW e \in Editors, BeginEdit(e) PROVE Begins(e)
  <2>1. PICK enabled \in Options(BOOLEAN), trigger \in Options(Triggers) :
          editor' = [editor EXCEPT ![e] =
            [active |-> TRUE, enabled |-> enabled, trigger |-> trigger,
             nextRunAt |-> ResolveNextRunAt(Given(enabled, row.enabled),
                                            Given(trigger, row.trigger))]]
    BY <1>11 DEF BeginEdit
  <2>2. /\ Given(enabled, row.enabled) \in BOOLEAN
        /\ Given(trigger, row.trigger) \in Triggers
    BY RowTyped, GivenTyped
  <2>3. Given(trigger, row.trigger).cron \in Crons
    BY <2>2 DEF Triggers
  <2>4. ResolveNextRunAt(Given(enabled, row.enabled), Given(trigger, row.trigger))
          \in Occurrences \cup {None}
    BY <2>3, NextOccurrenceIsNext DEF ResolveNextRunAt, TypeOK
  <2>5. [active |-> TRUE, enabled |-> enabled, trigger |-> trigger,
         nextRunAt |-> ResolveNextRunAt(Given(enabled, row.enabled),
                                        Given(trigger, row.trigger))]
          \in EditRows
    BY <2>4 DEF EditRows
  <2> QED
    BY <1>11, <2>1, <2>5 DEF BeginEdit, Begins, TypeOK
<1>12. ASSUME NEW e \in Editors, FinishEdit(e) PROVE Writes(e)
  <2>1. NoEdit \in EditRows /\ ~NoEdit.active
    BY DEF NoEdit, EditRows, Options
  <2> QED
    BY <1>12, <2>1 DEF FinishEdit, Writes, Row, TypeOK
<1>13. CASE Tick
  BY <1>13 DEF Tick, Rests, Effect
<1>14. CASE UNCHANGED vars
  BY <1>14 DEF vars, Rests, Effect
<1> QED
  BY <1>1, <1>2, <1>3, <1>4, <1>5, <1>6, <1>7, <1>8, <1>9, <1>10, <1>11,
     <1>12, <1>13, <1>14
  DEF Next, Dispatch, Effect, SlotEffect

(***************************************************************************)
(* Types, slots and claims                                                 *)
(***************************************************************************)
LEMMA RowStaysTyped ==
    ASSUME NEW enabled \in BOOLEAN, NEW trigger \in Triggers,
           NEW next \in Occurrences \cup {None}, NEW claimedAt \in Instants
    PROVE  /\ Row(enabled, trigger, next, claimedAt) \in AutomationRows
           /\ Row(enabled, trigger, next, claimedAt).enabled = enabled
           /\ Row(enabled, trigger, next, claimedAt).trigger = trigger
           /\ Row(enabled, trigger, next, claimedAt).nextRunAt = next
           /\ Row(enabled, trigger, next, claimedAt).scheduledClaimedAt
                = claimedAt
  BY DEF Row, AutomationRows

LEMMA TypeStep ==
    ASSUME TypeOK, SlotInv, Effect,
           clock' \in Times, edits' \in 0..MaxEdits, faults' \in 0..MaxFaults
    PROVE  TypeOK'
<1>a. /\ \A w \in Workers : worker[w].cron \in Crons
      /\ row.enabled \in BOOLEAN /\ row.trigger \in Triggers
      /\ row.nextRunAt \in Occurrences \cup {None}
      /\ row.scheduledClaimedAt \in Instants
      /\ None \in Instants
  BY SlotTyped, RowTyped DEF Instants
<1>1. ASSUME NEW w \in Workers, Leaves(w) \/ Reads(w) PROVE TypeOK'
  BY <1>1 DEF TypeOK, Leaves, Reads, OnlySlot
<1>2. ASSUME NEW w \in Workers, Initializes(w) PROVE TypeOK'
  <2>1. NextOccurrence(worker[w].cron, worker[w].now) \in Occurrences
    BY <1>2, <1>a, NextOccurrenceIsNext DEF Initializes, SlotInv, At
  <2>2. row' \in AutomationRows
    BY <1>2, <1>a, <2>1, RowStaysTyped DEF Initializes, TypeOK
  <2> QED
    BY <1>2, <2>2 DEF TypeOK, Initializes, OnlySlot
<1>3. ASSUME NEW w \in Workers, Claims(w) PROVE TypeOK'
  <2>1. worker[w].now \in Instants
    BY SlotTyped
  <2>2. row' \in AutomationRows
    BY <1>3, <1>a, <2>1, RowStaysTyped DEF Claims
  <2> QED
    BY <1>3, <2>2 DEF TypeOK, Claims, OnlySlot, Options
<1>4. ASSUME NEW w \in Workers, Releases(w) PROVE TypeOK'
  <2>1. row' \in AutomationRows
    BY <1>4, <1>a, RowStaysTyped DEF Releases
  <2> QED
    BY <1>4, <2>1 DEF TypeOK, Releases, OnlySlot, Options
<1>5. ASSUME NEW w \in Workers, Runs(w) PROVE TypeOK'
  <2>1. worker[w].scheduledFor \in Occurrences
    BY <1>5 DEF Runs, SlotInv, Processing, At
  <2> QED
    BY <1>5, <2>1 DEF TypeOK, Runs, OnlySlot
<1>6. ASSUME NEW w \in Workers, Advances(w) PROVE TypeOK'
  <2>1. NextOccurrence(worker[w].cron, worker[w].now) \in Occurrences
    BY <1>6, <1>a, NextOccurrenceIsNext DEF Advances, SlotInv, At
  <2>2. row' \in AutomationRows
    BY <1>6, <1>a, <2>1, RowStaysTyped DEF Advances
  <2> QED
    BY <1>6, <2>2 DEF TypeOK, Advances, OnlySlot, Options
<1>7. ASSUME NEW e \in Editors, Begins(e) PROVE TypeOK'
  BY <1>7 DEF TypeOK, Begins
<1>8. ASSUME NEW e \in Editors, Writes(e) PROVE TypeOK'
  <2>1. /\ Given(editor[e].enabled, row.enabled) \in BOOLEAN
        /\ Given(editor[e].trigger, row.trigger) \in Triggers
        /\ editor[e].nextRunAt \in Occurrences \cup {None}
    BY <1>a, GivenTyped DEF TypeOK, EditRows
  <2>2. row' \in AutomationRows
    BY <1>8, <1>a, <2>1, RowStaysTyped DEF Writes
  <2> QED
    BY <1>8, <2>2 DEF TypeOK, Writes, Options
<1>9. CASE Rests
  BY <1>9 DEF TypeOK, Rests
<1> QED
  BY <1>1, <1>2, <1>3, <1>4, <1>5, <1>6, <1>7, <1>8, <1>9
  DEF Effect, SlotEffect

LEMMA CountersTyped ==
    ASSUME TypeOK, [Next]_vars
    PROVE  /\ clock' \in Times
           /\ edits' \in 0..MaxEdits
           /\ faults' \in 0..MaxFaults
<1>a. /\ clock \in 1..MaxTime /\ edits \in 0..MaxEdits
      /\ faults \in 0..MaxFaults
      /\ MaxTime \in Nat /\ MaxEdits \in Nat /\ MaxFaults \in Nat
  BY ConstantsTyped DEF TypeOK, Times
<1> USE DEF Times
<1>1. CASE Tick
  BY <1>1, <1>a DEF Tick
<1>2. ASSUME NEW w \in Workers, Dispatch(w)
      PROVE  UNCHANGED <<clock, edits, faults>>
  BY <1>2 DEF Dispatch, HandleTick, FindOrphan, InitializeNextRunAt, FindDue,
              Claim, Verify, Release, TriggerScheduled, Advance
<1>3. ASSUME NEW w \in Workers, Fault(w)
      PROVE  faults' \in 0..MaxFaults /\ UNCHANGED <<clock, edits>>
  BY <1>3, <1>a DEF Fault
<1>4. ASSUME NEW e \in Editors, BeginEdit(e)
      PROVE  edits' \in 0..MaxEdits /\ UNCHANGED <<clock, faults>>
  BY <1>4, <1>a DEF BeginEdit
<1>5. ASSUME NEW e \in Editors, FinishEdit(e)
      PROVE  UNCHANGED <<clock, edits, faults>>
  BY <1>5 DEF FinishEdit
<1>6. CASE UNCHANGED vars
  BY <1>6, <1>a DEF vars
<1> QED
  BY <1>a, <1>1, <1>2, <1>3, <1>4, <1>5, <1>6 DEF Next

LEMMA SlotStep ==
    ASSUME TypeOK, SlotInv, Effect, TypeOK' PROVE SlotInv'
<1> SUFFICES ASSUME NEW v \in Workers
             PROVE  /\ worker'[v].pc # "idle" => worker'[v].now \in Times
                    /\ worker'[v].pc \in Processing
                         => worker'[v].scheduledFor \in Occurrences
                    /\ worker'[v].pc = "advance"
                         => worker'[v].scheduledFor \in ran'
  BY DEF SlotInv, At
<1>a. /\ worker[v].pc # "idle" => worker[v].now \in Times
      /\ worker[v].pc \in Processing => worker[v].scheduledFor \in Occurrences
      /\ worker[v].pc = "advance" => worker[v].scheduledFor \in ran
      /\ clock \in Times
      /\ row.nextRunAt # None => row.nextRunAt \in Occurrences
  BY RowTyped DEF SlotInv, At, TypeOK
<1>b. ran \subseteq ran'
  BY DEF Effect, SlotEffect, Leaves, Reads, Initializes, Claims, Releases,
         Runs, Advances, Begins, Writes, Rests
<1>1. CASE worker'[v] = worker[v]
  BY <1>1, <1>a, <1>b
<1>2. CASE SlotEffect(v)
  BY <1>2, <1>a
  DEF SlotEffect, Leaves, Reads, Initializes, Claims, Releases, Runs, Advances,
      SameSlot, Processing, At, IsDue, IsDueAt
<1> QED
  BY <1>1, <1>2 DEF Effect, SlotEffect, Leaves, Reads, Initializes, Claims,
                    Releases, Runs, Advances, OnlySlot, Begins, Writes, Rests

LEMMA ClaimStep ==
    ASSUME TypeOK, SlotInv, ClaimInv, Effect, TypeOK' PROVE ClaimInv'
<1>1. ASSUME NEW w \in Workers, Leaves(w) \/ Reads(w) \/ Runs(w)
      PROVE  ClaimInv'
  BY <1>1 DEF Leaves, Reads, Runs, ClaimInv
<1>2. ASSUME NEW w \in Workers, Initializes(w) PROVE ClaimInv'
  BY <1>2 DEF Initializes, Row, ClaimInv
<1>3. ASSUME NEW w \in Workers, Claims(w) PROVE ClaimInv'
  BY <1>3, ConstantsTyped DEF Claims, Row, ClaimInv, SlotInv, At
<1>4. ASSUME NEW w \in Workers, Releases(w) \/ Advances(w) PROVE ClaimInv'
  BY <1>4 DEF Releases, Advances, Row, ClaimInv
<1>5. ASSUME NEW e \in Editors, Begins(e) \/ Writes(e) PROVE ClaimInv'
  BY <1>5 DEF Begins, Writes, Row, ClaimInv
<1>6. CASE Rests
  BY <1>6 DEF Rests, ClaimInv
<1> QED
  BY <1>1, <1>2, <1>3, <1>4, <1>5, <1>6 DEF Effect, SlotEffect

LEMMA InitCore ==
    ASSUME Init PROVE CoreInv
<1>a. 1 \in Times /\ None \in Instants /\ 0 \in 0..MaxEdits
      /\ 0 \in 0..MaxFaults
  <2>1. PICK c \in Crons : c \in 1..MaxTime
    BY SchedulerAssumption DEF Times
  <2> QED
    BY <2>1, SchedulerAssumption DEF Times, Instants
<1>1. row \in AutomationRows /\ row.scheduledClaimedAt = None
  <2>1. PICK e \in BOOLEAN, t \in Triggers, n \in Occurrences \cup {None} :
          row = Row(e, t, n, None)
    <3>1. PICK e \in BOOLEAN, t \in Triggers :
            \E n \in {ResolveNextRunAt(e, t), None} : row = Row(e, t, n, None)
      BY DEF Init, Row
    <3>2. ResolveNextRunAt(e, t) \in Occurrences \cup {None}
      BY <1>a, NextOccurrenceIsNext DEF Init, ResolveNextRunAt, Triggers
    <3> QED
      BY <3>1, <3>2
  <2> QED
    BY <1>a, <2>1, RowStaysTyped
<1>2. IdleSlot \in Slots /\ IdleSlot.pc = "idle"
  BY ConstantsTyped DEF IdleSlot, Slots, Points, Instants
<1>3. NoEdit \in EditRows
  BY DEF NoEdit, EditRows, Options
<1>4. TypeOK
  BY <1>a, <1>1, <1>2, <1>3 DEF Init, TypeOK, Options
<1>5. SlotInv /\ ClaimInv
  BY <1>1, <1>2 DEF Init, SlotInv, ClaimInv, Processing, At
<1> QED
  BY <1>4, <1>5 DEF CoreInv

LEMMA CoreStep ==
    ASSUME CoreInv, [Next]_vars PROVE CoreInv' /\ Effect
<1>1. Effect
  BY EveryStepHasItsEffect DEF CoreInv
<1>2. TypeOK'
  BY <1>1, TypeStep, CountersTyped DEF CoreInv
<1> QED
  BY <1>1, <1>2, SlotStep, ClaimStep DEF CoreInv

LEMMA Invariance == Spec => []CoreInv
<1>1. Init => CoreInv
  BY InitCore
<1>2. CoreInv /\ [Next]_vars => CoreInv'
  BY CoreStep
<1> QED
  BY <1>1, <1>2, PTL DEF Spec

(* Every variable has its type: what is stored as nextRunAt is an          *)
(* occurrence or null, through every computation from a slot's or an       *)
(* edit's instant.                                                         *)
THEOREM TypeCorrect == Spec => []TypeOK
<1>1. CoreInv => TypeOK
  BY DEF CoreInv
<1> QED
  BY <1>1, Invariance, PTL

(* Whatever slots, edits and faults do, the dispatcher never moves         *)
(* nextRunAt past an occurrence whose run does not exist.                  *)
THEOREM OccurrencesAreNotSkipped == Spec => NoOccurrenceSkipped
<1>1. ASSUME CoreInv, [Next]_vars, Dispatches, row.nextRunAt # None,
             row'.nextRunAt # row.nextRunAt
      PROVE  row.nextRunAt \in ran
  <2>1. Effect
    BY <1>1, CoreStep
  <2>2. PICK w \in Workers : SlotEffect(w)
    BY <1>1, <2>1 DEF Effect, Begins, Writes, Rests, Dispatches
  <2>3. Advances(w)
    BY <1>1, <2>2 DEF SlotEffect, Leaves, Reads, Initializes, StillNull, Claims,
                      Releases, Runs, Row
  <2> QED
    BY <1>1, <2>3 DEF Advances, HoldsOccurrence, CoreInv, SlotInv
<1>2. CoreInv /\ [Next]_vars
        => [ Dispatches /\ row.nextRunAt # None
               /\ row'.nextRunAt # row.nextRunAt
             => row.nextRunAt \in ran ]_vars
  BY <1>1
<1> QED
  BY <1>2, Invariance, PTL DEF Spec, NoOccurrenceSkipped

(* Where no two slots have the same instant, a claim is ended by its slot, *)
(* by an edit, or by a takeover once it is older than the lease.           *)
THEOREM ClaimsStand ==
    ASSUME ~SharedInstants PROVE Spec => ClaimStands
<1>1. ASSUME CoreInv, [Next]_vars, NEW w \in Workers,
             worker'[w] # worker[w], holder' # holder, holder # {}
      PROVE  holder = {w} \/ worker[w].now - row.scheduledClaimedAt > Lease
  <2>1. SlotEffect(w)
    BY <1>1, CoreStep DEF Effect, SlotEffect, Leaves, Reads, Initializes,
       Claims, Releases, Runs, Advances, OnlySlot, Begins, Writes, Rests
  <2>2. CASE Claims(w)
    <3>1. row.scheduledClaimedAt < worker[w].now - Lease
      BY <1>1, <2>2 DEF Claims, ClaimFreeAt, CoreInv, ClaimInv
    <3>2. /\ row.scheduledClaimedAt \in Int
          /\ worker[w].now \in Int
          /\ Lease \in Nat
      BY <1>1, ConstantsTyped, RowTyped, SlotTyped DEF CoreInv, Instants
    <3> QED
      BY <3>1, <3>2
  <2>3. CASE Releases(w) \/ Advances(w)
    BY <2>3 DEF Releases, Advances, HoldsOccurrence, ClaimedNow
  <2> QED
    BY <1>1, <2>1, <2>2, <2>3
    DEF SlotEffect, Leaves, Reads, Initializes, Runs
<1>2. CoreInv /\ [Next]_vars
        => [ \A w \in Workers :
               worker'[w] # worker[w] /\ holder' # holder /\ holder # {}
               => \/ holder = {w}
                  \/ worker[w].now - row.scheduledClaimedAt > Lease ]_vars
  BY <1>1
<1> QED
  BY <1>2, Invariance, PTL DEF Spec, ClaimStands

(***************************************************************************)
(* nextRunAt follows the trigger, where edits do not overlap               *)
(***************************************************************************)
OneEditor == \A e, f \in Editors : e = f

(* What slots leave alone.                                                 *)
LEMMA SlotsKeepTrigger ==
    ASSUME TypeOK, NEW w \in Workers, SlotEffect(w)
    PROVE  /\ row'.enabled = row.enabled
           /\ row'.trigger = row.trigger
           /\ editor' = editor
           /\ OnlySlot(w)
  BY DEF SlotEffect, Leaves, Reads, Initializes, Claims, Releases, Runs,
         Advances, Row

LEMMA FollowsStep ==
    ASSUME CoreInv, ScheduleInv, Effect, ~SharedInstants
    PROVE  NextRunFollowsTrigger'
<1>a. /\ TypeOK /\ SlotInv
      /\ row.enabled /\ row.trigger.type = "scheduled" /\ row.nextRunAt # None
           => row.nextRunAt % row.trigger.cron = 0
  BY DEF CoreInv, ScheduleInv, NextRunFollowsTrigger, Scheduled
<1> SUFFICES ASSUME row'.enabled, row'.trigger.type = "scheduled",
                    row'.nextRunAt # None
             PROVE  row'.nextRunAt % row'.trigger.cron = 0
  BY DEF NextRunFollowsTrigger, Scheduled
<1>1. ASSUME NEW w \in Workers, SlotEffect(w), row'.nextRunAt = row.nextRunAt
      PROVE  row'.nextRunAt % row'.trigger.cron = 0
  BY <1>1, <1>a, SlotsKeepTrigger
<1>2. ASSUME NEW w \in Workers, SlotEffect(w), row'.nextRunAt # row.nextRunAt
      PROVE  row'.nextRunAt % row'.trigger.cron = 0
  <2>1. /\ row'.nextRunAt = NextOccurrence(worker[w].cron, worker[w].now)
        /\ ~At(w, "idle")
        /\ worker[w].cron = row.trigger.cron
    <3>1. CASE Initializes(w)
      <4>1. row.nextRunAt = None
        BY <1>2, <3>1 DEF Initializes, StillNull
      <4>2. Scheduled
        BY <1>2, <1>a, SlotsKeepTrigger DEF Scheduled
      <4> QED
        BY <3>1, <4>1, <4>2
        DEF Initializes, StillNull, Row, ScheduleInv, OrphanInv, At
    <3>2. CASE Advances(w)
      BY <3>2 DEF Advances, HoldsOccurrence, ClaimedNow, Row, ScheduleInv,
                  CronInv, At
    <3> QED
      BY <1>2, <3>1, <3>2
      DEF SlotEffect, Leaves, Reads, Claims, Releases, Runs, Row
  <2>2. worker[w].cron \in Crons /\ worker[w].now \in Times
    BY <1>a, <2>1, SlotTyped DEF SlotInv
  <2>3. row'.trigger = row.trigger
    BY <1>2, <1>a, SlotsKeepTrigger
  <2> QED
    BY <2>1, <2>2, <2>3, NextOccurrenceIsNext
<1>3. ASSUME NEW e \in Editors, Writes(e)
      PROVE  row'.nextRunAt % row'.trigger.cron = 0
  BY <1>3 DEF Writes, Row, ScheduleInv, EditInv
<1>4. CASE Rests \/ \E e \in Editors : Begins(e)
  BY <1>4, <1>a DEF Rests, Begins
<1> QED
  BY <1>1, <1>2, <1>3, <1>4 DEF Effect

LEMMA CronStep ==
    ASSUME CoreInv, CronInv, Effect, ~SharedInstants PROVE CronInv'
<1>a. TypeOK
  BY DEF CoreInv
<1> SUFFICES ASSUME NEW v \in Workers,
                    worker'[v].pc \in {"trigger", "advance"}, holder' = {v}
             PROVE  worker'[v].cron = row'.trigger.cron
  BY DEF CronInv
<1>1. ASSUME NEW w \in Workers, SlotEffect(w), v # w
      PROVE  worker'[v].cron = row'.trigger.cron
  <2>1. worker'[v] = worker[v] /\ row'.trigger = row.trigger
    BY <1>1, <1>a, SlotsKeepTrigger DEF OnlySlot
  <2>2. holder = {v}
    BY <1>1 DEF SlotEffect, Leaves, Reads, Initializes, Claims, Releases,
                Runs, Advances
  <2> QED
    BY <2>1, <2>2 DEF CronInv
<1>2. CASE SlotEffect(v)
  <2>1. row'.trigger = row.trigger
    BY <1>2, <1>a, SlotsKeepTrigger
  <2>2. CASE Reads(v)
    BY <2>1, <2>2 DEF Reads
  <2>3. CASE Runs(v)
    BY <2>1, <2>3 DEF Runs, SameSlot, At, CronInv
  <2> QED
    BY <1>2, <2>2, <2>3
    DEF SlotEffect, Leaves, Initializes, Claims, Releases, Advances
<1>3. ASSUME NEW e \in Editors, Begins(e) \/ Writes(e)
      PROVE  worker'[v].cron = row'.trigger.cron
  BY <1>3 DEF Begins, Writes, CronInv
<1>4. CASE Rests
  BY <1>4 DEF Rests, CronInv
<1> QED
  BY <1>1, <1>2, <1>3, <1>4 DEF Effect

LEMMA OrphanStep ==
    ASSUME CoreInv, OrphanInv, EditInv, Effect PROVE OrphanInv'
<1>a. TypeOK /\ SlotInv
  BY DEF CoreInv
<1> SUFFICES ASSUME NEW v \in Workers, worker'[v].pc = "initialize",
                    row'.enabled, row'.trigger.type = "scheduled",
                    row'.nextRunAt = None
             PROVE  worker'[v].cron = row'.trigger.cron
  BY DEF OrphanInv, At, Scheduled
<1>1. ASSUME NEW w \in Workers, SlotEffect(w)
      PROVE  worker'[v].cron = row'.trigger.cron
  <2>1. row'.enabled = row.enabled /\ row'.trigger = row.trigger
    BY <1>1, <1>a, SlotsKeepTrigger
  <2>2. row.nextRunAt = None
    <3>1. ~At(w, "idle") =>
            NextOccurrence(worker[w].cron, worker[w].now) # None
      BY <1>a, SlotTyped, NextOccurrenceIsNext DEF SlotInv
    <3> QED
      BY <1>1, <3>1
      DEF SlotEffect, Leaves, Reads, Initializes, StillNull, Claims, Releases,
          Runs, Advances, Row, At
  <2>3. CASE worker'[v] = worker[v]
    BY <2>1, <2>2, <2>3 DEF OrphanInv, At, Scheduled
  <2>4. CASE v = w
    BY <1>1, <2>1, <2>4
    DEF SlotEffect, Leaves, Reads, Initializes, Claims, Releases, Runs,
        Advances
  <2> QED
    BY <1>1, <1>a, <2>3, <2>4, SlotsKeepTrigger DEF OnlySlot
<1>2. ASSUME NEW e \in Editors, Writes(e) PROVE FALSE
  BY <1>2 DEF Writes, Row, EditInv
<1>3. CASE Rests \/ \E e \in Editors : Begins(e)
  BY <1>3 DEF Rests, Begins, OrphanInv, At, Scheduled
<1> QED
  BY <1>1, <1>2, <1>3 DEF Effect

LEMMA EditStep ==
    ASSUME CoreInv, EditInv, Effect, OneEditor PROVE EditInv'
<1>a. TypeOK
  BY DEF CoreInv
<1> SUFFICES ASSUME NEW e \in Editors, editor'[e].active,
                    Given(editor'[e].enabled, row'.enabled),
                    Given(editor'[e].trigger, row'.trigger).type = "scheduled"
             PROVE  /\ editor'[e].nextRunAt # None
                    /\ editor'[e].nextRunAt
                         % Given(editor'[e].trigger, row'.trigger).cron = 0
  BY DEF EditInv, Given
<1>1. CASE /\ editor'[e] = editor[e]
           /\ row'.enabled = row.enabled /\ row'.trigger = row.trigger
  BY <1>1 DEF EditInv
<1>2. CASE Begins(e)
  <2>1. /\ editor'[e].enabled \in Options(BOOLEAN)
        /\ editor'[e].trigger \in Options(Triggers)
        /\ row' = row
    BY <1>2 DEF Begins, EditRows
  <2>2. Given(editor'[e].trigger, row.trigger).cron \in Crons
    <3>1. Given(editor'[e].trigger, row.trigger) \in Triggers
      BY <1>a, <2>1, RowTyped, GivenTyped
    <3> QED
      BY <3>1 DEF Triggers
  <2>3. editor'[e].nextRunAt
          = NextOccurrence(Given(editor'[e].trigger, row.trigger).cron, clock)
    BY <1>2, <2>1 DEF Begins, ResolveNextRunAt
  <2>4. clock \in Times
    BY <1>a DEF TypeOK
  <2> QED
    BY <2>1, <2>2, <2>3, <2>4, NextOccurrenceIsNext
<1>3. ASSUME NEW w \in Workers, SlotEffect(w)
      PROVE  /\ editor'[e] = editor[e]
             /\ row'.enabled = row.enabled /\ row'.trigger = row.trigger
  BY <1>3, <1>a, SlotsKeepTrigger
<1>4. ASSUME NEW f \in Editors, Begins(f) \/ Writes(f) PROVE Begins(e)
  BY <1>4 DEF OneEditor, Writes
<1> QED
  BY <1>1, <1>2, <1>3, <1>4 DEF Effect, Rests

(* Where edits do not overlap and no two slots have the same instant, an   *)
(* automation that is enabled and scheduled is due at an occurrence of its *)
(* own cron: no initialization or advance by a slot that read an older     *)
(* trigger outlives the edit.  (The run scheduler_editors shows that       *)
(* overlapping edits break it.)                                            *)
THEOREM NextRunIsOfTheTrigger ==
    ASSUME ~SharedInstants, OneEditor PROVE Spec => []NextRunFollowsTrigger
<1>1. Init => ScheduleInv
  <2> SUFFICES ASSUME Init PROVE ScheduleInv
    OBVIOUS
  <2>1. \A w \in Workers : worker[w].pc = "idle"
    BY DEF Init, IdleSlot
  <2>2. \A e \in Editors : ~editor[e].active
    BY DEF Init, NoEdit
  <2>3. NextRunFollowsTrigger
    <3>1. PICK e \in BOOLEAN, t \in Triggers :
            \E n \in {ResolveNextRunAt(e, t), None} : row = Row(e, t, n, None)
      BY DEF Init, Row
    <3>2. t.cron \in Crons /\ clock \in Times
      BY InitCore DEF Triggers, CoreInv, TypeOK
    <3> QED
      BY <3>1, <3>2, NextOccurrenceIsNext
      DEF NextRunFollowsTrigger, Scheduled, ResolveNextRunAt, Row
  <2> QED
    BY <2>1, <2>2, <2>3 DEF ScheduleInv, CronInv, OrphanInv, EditInv, At
<1>2. CoreInv /\ ScheduleInv /\ [Next]_vars => ScheduleInv'
  BY CoreStep, FollowsStep, CronStep, OrphanStep, EditStep DEF ScheduleInv
<1>3. ScheduleInv => NextRunFollowsTrigger
  BY DEF ScheduleInv
<1> QED
  BY <1>1, <1>2, <1>3, Invariance, PTL DEF Spec
=============================================================================
