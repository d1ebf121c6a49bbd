------------------------ MODULE AutomationRunsProofs ------------------------
(***************************************************************************)
(* Proofs about AutomationRuns, for any automations, events, occurrences,  *)
(* calls, payloads and lost calls.  Three of them need nothing else; what  *)
(* a run does with a decision or with its plan depends on the edits that   *)
(* happen beside it (UniformApproval, NoSharedSources, NoEdits below).     *)
(***************************************************************************)
EXTENDS AutomationRuns, TLAPS

(* The points of a call that has chosen an automation, and of one that has *)
(* chosen the row it will create.                                          *)
Working == {"active", "decide", "persist", "raced", "execute",
            "approve", "reject"}
Wanting == {"persist", "raced"}
Creating == {"active", "decide", "persist", "raced"}

Exists(k) == run[k] # NoRun

(* The rows a call may want: none of them is the absent one.               *)
WantedRows ==
    {NewRun("skipped", "none", p) : p \in Plans \cup {NoPlan}}
      \cup {NewRun("failed", "none", NoPlan)}
      \cup {NewRun("waiting_approval", "pending", p) : p \in Plans}
      \cup {NewRun("running", "none", p) : p \in Plans}

(* A call at work has an automation; one that has not entered yet, or that *)
(* decides on an existing run, does not emit; one that persists wants a    *)
(* row that a run can start as.                                            *)
CallInv ==
    \A c \in Calls :
        /\ call[c].pc \in Working => call[c].current \in Automations
        /\ call[c].pc \in {"ready", "match", "approve", "reject"}
             => ~call[c].emits
        /\ call[c].pc \in Wanting => call[c].want \in WantedRows

(* An absent run has nothing recorded of it, and nothing started.          *)
RowInv ==
    \A k \in Keys :
        /\ run[k].status = "none" => run[k] = NoRun
        /\ started[k] # NoPlan => Exists(k)

(* What executes or decides a run is sure that it exists.                  *)
ExistsInv ==
    \A c \in Calls :
        call[c].pc \in {"execute", "approve", "reject"} => Exists(Key(c))

(* An emission in the middle of its matches: those it is done with have    *)
(* their run, the current one is the only exception.                       *)
MatchInv ==
    \A c \in Calls : call[c].emits =>
        \A a \in Matched(c) \ call[c].left :
            \/ call[c].pc \in Creating /\ a = call[c].current
            \/ call[c].pc \in {"aborted", "lost"}
            \/ Exists(<<a, call[c].source>>)

CoreInv == TypeOK /\ CallInv /\ RowInv /\ ExistsInv /\ MatchInv /\ OneActiveRun

(***************************************************************************)
(* Approvals                                                               *)
(***************************************************************************)
(* What some theorems assume of the edits: whether an automation requires  *)
(* an approval is not edited; no two calls ever have a run in common; or   *)
(* nothing is edited at all.                                               *)
UniformApproval == "requiresApproval" \notin Edits
NoSharedSources == Events \cup Occurrences = {}
NoEdits == Edits = {}

Undecided(k) == run[k].approval \in {"pending", "rejected"}

(* A run that is executed is neither undecided nor rejected.               *)
ApprovalInv ==
    /\ NothingRunsUnapproved
    /\ \A c \in Calls : call[c].pc = "execute" => ~Undecided(Key(c))

(* With UniformApproval: every snapshot agrees with the automation, and a  *)
(* run or a wanted run has an approval only where the automation says so.  *)
UniformInv ==
    /\ \A c \in Calls, a \in Automations :
         call[c].snapshot[a].requiresApproval = automation[a].requiresApproval
    /\ \A k \in Keys :
         Undecided(k) => automation[k[1]].requiresApproval
    /\ \A c \in Calls : call[c].pc \in Wanting =>
         /\ call[c].want.status = "running"
              => ~automation[call[c].current].requiresApproval
         /\ call[c].want.approval # "none"
              => automation[call[c].current].requiresApproval

(* With NoSharedSources: a trigger has one automation, and no one else     *)
(* creates the run of its key.                                             *)
OwnInv ==
    \A c \in Calls :
        /\ call[c].pc # "match"
        /\ call[c].pc \notin {"next", "aborted", "lost"} => call[c].left = {}
        /\ call[c].pc = "ready" => \A a \in Automations : ~Exists(<<a, c>>)
        /\ call[c].pc = "next" /\ call[c].left # {} =>
             /\ call[c].source = c
             /\ \E a \in Automations : call[c].left = {a}
             /\ \A a \in Automations : ~Exists(<<a, c>>)
        /\ call[c].pc \in Creating =>
             /\ call[c].source = c
             /\ \A a \in Automations : ~Exists(<<a, c>>)

(***************************************************************************)
(* The lifecycle                                                           *)
(***************************************************************************)
(* The row that every call with this source wants for this automation when *)
(* nothing is edited.                                                      *)
Wanted(k) ==
    LET plan == automation[k[1]].steps
        resolves == \/ plan = "literal"
                    \/ k[2] \in Events /\ event[k[2]] = "full"
    IN  IF ~automation[k[1]].enabled THEN NewRun("skipped", "none", NoPlan)
        ELSE IF ~resolves THEN NewRun("failed", "none", NoPlan)
        ELSE IF ~passes[k[1]] THEN NewRun("skipped", "none", plan)
        ELSE IF automation[k[1]].requiresApproval
        THEN NewRun("waiting_approval", "pending", plan)
        ELSE NewRun("running", "none", plan)

Stored(s) == s \in Events => event[s] # "none"

(* A run whose plan is started, or will be as soon as it is executed.      *)
Underway(k) ==
    /\ run[k].plan # NoPlan
    /\ run[k].status = "running" \/ started[k] # NoPlan

(* With NoEdits: calls with the same key want the same row.                *)
SameInv ==
    /\ \A c \in Calls :
         /\ call[c].snapshot = automation
         /\ call[c].pc = "ready" => call[c].left = {}
         /\ call[c].left # {} => Stored(call[c].source)
         /\ call[c].pc \in Creating \cup {"match"} => Stored(call[c].source)
         /\ call[c].pc \in {"active", "decide"}
              => automation[call[c].current].enabled
         /\ call[c].pc = "decide" => Resolves(c)
         /\ call[c].pc \in Wanting => call[c].want = Wanted(Key(c))
    /\ \A k \in Keys : Exists(k) =>
         /\ Stored(k[2])
         /\ Wanted(k).status = "running" => Underway(k)

(* What Lifecycle needs to know of a run, and of one that is executed.     *)
LifecycleInv ==
    /\ \A k \in Keys :
         /\ started[k] # NoPlan =>
              /\ started[k] = run[k].plan
              /\ run[k].status \in {"running", "succeeded", "failed"}
         /\ run[k].approval = "pending" <=> run[k].status = "waiting_approval"
         /\ run[k].approval = "rejected" <=> run[k].status = "cancelled"
         /\ run[k].status = "waiting_approval" => run[k].plan # NoPlan
    /\ \A c \in Calls : call[c].pc = "execute" => Underway(Key(c))

(***************************************************************************)
(* What a step does to the calls                                           *)
(***************************************************************************)
(* Only the call c moves.                                                  *)
Others(c) ==
    /\ call' \in [Calls -> CallRows]
    /\ \A d \in Calls \ {c} : call'[d] = call[d]

(* The call keeps the automations it matched, as it read them.             *)
Keeps(c) ==
    /\ call'[c].emits = call[c].emits
    /\ call'[c].snapshot = call[c].snapshot

Stays(c) ==
    /\ Keeps(c)
    /\ call'[c].source = call[c].source
    /\ call'[c].current = call[c].current
    /\ call'[c].left = call[c].left

LEMMA CallTyped ==
    ASSUME TypeOK, NEW c \in Calls
    PROVE  /\ call[c] \in CallRows
           /\ call[c].pc \in Points
           /\ call[c].source \in Sources
           /\ call[c].current \in Automations \cup {NoAutomation}
           /\ call[c].left \in SUBSET Automations
           /\ call[c].emits \in BOOLEAN
           /\ call[c].snapshot \in [Automations -> AutomationRows]
           /\ call[c].want \in RunRows
  BY DEF TypeOK, CallRows

LEMMA ToGo ==
    ASSUME TypeOK, NEW c \in Calls, NEW point \in Points, Goto(c, point)
    PROVE  /\ Others(c) /\ Stays(c)
           /\ call'[c].pc = point
           /\ call'[c].want = call[c].want
<1>1. call \in [Calls -> CallRows]
  BY DEF TypeOK
<1>2. [call[c] EXCEPT !.pc = point] \in CallRows
  BY <1>1 DEF CallRows
<1>3. /\ call' = [call EXCEPT ![c] = [call[c] EXCEPT !.pc = point]]
      /\ call' \in [Calls -> CallRows]
  BY <1>1, <1>2 DEF Goto
<1>4. call'[c] = [call[c] EXCEPT !.pc = point]
  BY <1>1, <1>3
<1> QED
  BY <1>1, <1>3, <1>4 DEF CallRows, Others, Stays, Keeps

LEMMA ToWant ==
    ASSUME TypeOK, NEW c \in Calls, NEW row \in RunRows, Want(c, row)
    PROVE  /\ Others(c) /\ Stays(c)
           /\ call'[c].pc = "persist"
           /\ call'[c].want = row
<1>1. /\ call' = [call EXCEPT ![c] = call'[c]]
      /\ call'[c] = [call[c] EXCEPT !.pc = "persist", !.want = row]
  BY DEF TypeOK, Want
<1>2. call[c] \in CallRows /\ "persist" \in Points
  BY DEF TypeOK, Points
<1>3. call'[c] \in CallRows
  BY <1>1, <1>2 DEF CallRows
<1>4. /\ Stays(c)
      /\ call'[c].pc = "persist"
      /\ call'[c].want = row
  BY <1>1, <1>2 DEF CallRows, Stays, Keeps
<1> QED
  BY <1>1, <1>3, <1>4 DEF TypeOK, Others

LEMMA ToEnter ==
    ASSUME TypeOK, NEW c \in Calls, NEW source \in Sources,
           NEW matched \in SUBSET Automations, NEW emits \in BOOLEAN,
           Enter(c, source, matched, emits)
    PROVE  /\ Others(c)
           /\ call'[c].pc = "next"
           /\ call'[c].source = source
           /\ call'[c].left = matched
           /\ call'[c].emits = emits
           /\ call'[c].snapshot = automation
           /\ UNCHANGED <<automation, passes, event, run, started, crashes>>
<1>1. /\ call' = [call EXCEPT ![c] = call'[c]]
      /\ call'[c] = [call[c] EXCEPT !.pc = "next", !.source = source,
                                    !.left = matched, !.emits = emits,
                                    !.snapshot = automation]
  BY DEF TypeOK, Enter
<1>2. call[c] \in CallRows /\ automation \in [Automations -> AutomationRows]
  BY DEF TypeOK
<1>3. "next" \in Points
  BY DEF Points
<1>4. call'[c] \in CallRows
  BY <1>1, <1>2, <1>3 DEF CallRows
<1>5. /\ call'[c].pc = "next"
      /\ call'[c].source = source
      /\ call'[c].left = matched
      /\ call'[c].emits = emits
      /\ call'[c].snapshot = automation
  BY <1>1, <1>2 DEF CallRows
<1>6. call' \in [Calls -> CallRows] /\ Others(c)
  BY <1>1, <1>4 DEF TypeOK, Others
<1> QED
  BY <1>5, <1>6 DEF Enter, Rows

LEMMA ToMatch ==
    ASSUME TypeOK, NEW c \in Calls, EmitEvent(c)
    PROVE  /\ Others(c) /\ Keeps(c)
           /\ call[c].pc = "ready"
           /\ call'[c].pc = "match"
           /\ call'[c].left = call[c].left
           /\ call'[c].source \in Events
           /\ event' \in [Events -> {"none", "full", "bare"}]
           /\ event'[call'[c].source] # "none"
           /\ \A e \in Events : event[e] # "none" => event'[e] = event[e]
           /\ UNCHANGED <<automation, passes, run, started, crashes>>
<1>1. PICK e \in Events, payload \in Payloads :
        /\ event' = [event EXCEPT ![e] = IF @ = "none" THEN payload ELSE @]
        /\ call' = [call EXCEPT ![c] = [@ EXCEPT !.pc = "match",
                                                 !.source = e]]
  BY DEF EmitEvent
<1>2. payload \in {"full", "bare"}
  BY AutomationRunsAssumption
<1>3. /\ event' \in [Events -> {"none", "full", "bare"}]
      /\ event'[e] # "none"
      /\ \A f \in Events : event[f] # "none" => event'[f] = event[f]
  BY <1>1, <1>2 DEF TypeOK
<1>4. e \in Sources /\ "match" \in Points
  BY DEF Sources, Points
<1>5. call' \in [Calls -> CallRows]
  <2>1. call \in [Calls -> CallRows]
    BY DEF TypeOK
  <2>2. [call[c] EXCEPT !.pc = "match", !.source = e] \in CallRows
    BY <1>4, <2>1 DEF CallRows
  <2> QED
    BY <1>1, <2>1, <2>2
<1>6. /\ Others(c) /\ Keeps(c)
      /\ call'[c].pc = "match"
      /\ call'[c].left = call[c].left
      /\ call'[c].source = e
  BY <1>1, <1>5 DEF TypeOK, CallRows, Others, Keeps
<1> QED
  BY <1>3, <1>5, <1>6 DEF EmitEvent, At

(* The next automation: returned as it is, refused, or examined.           *)
LEMMA ToLookUp ==
    ASSUME TypeOK, NEW c \in Calls, LookUp(c)
    PROVE  /\ Others(c) /\ Keeps(c)
           /\ call[c].pc = "next"
           /\ call'[c].source = call[c].source
           /\ call'[c].current \in call[c].left
           /\ call'[c].left = call[c].left \ {call'[c].current}
           /\ \/ /\ Exists(DedupKey(call'[c].current, call[c].source))
                 /\ call'[c].pc = "next"
              \/ /\ ~Exists(DedupKey(call'[c].current, call[c].source))
                 /\ call[c].snapshot[call'[c].current].enabled
                 /\ call'[c].pc = "active"
              \/ /\ ~Exists(DedupKey(call'[c].current, call[c].source))
                 /\ ~call[c].snapshot[call'[c].current].enabled
                 /\ call'[c].pc = "persist"
                 /\ call'[c].want = NewRun("skipped", "none", NoPlan)
           /\ UNCHANGED <<automation, passes, event, run, started, crashes>>
<1>1. PICK a \in call[c].left :
        LET known == run[DedupKey(a, call[c].source)] # NoRun
            enabled == call[c].snapshot[a].enabled
            here == [call[c] EXCEPT !.current = a, !.left = @ \ {a}]
        IN  call' = [call EXCEPT ![c] =
              IF known THEN here
              ELSE IF enabled THEN [here EXCEPT !.pc = "active"]
              ELSE [here EXCEPT !.pc = "persist",
                                !.want = NewRun("skipped", "none", NoPlan)]]
  BY DEF LookUp
<1> DEFINE here == [call[c] EXCEPT !.current = a, !.left = @ \ {a}]
           refused == [here EXCEPT !.pc = "persist",
                                   !.want = NewRun("skipped", "none", NoPlan)]
<1>2. /\ call[c] \in CallRows
      /\ call[c].pc = "next"
      /\ call[c].left \in SUBSET Automations
      /\ a \in Automations
  BY CallTyped DEF LookUp, At
<1>3. /\ here \in CallRows
      /\ here.pc = "next" /\ here.current = a
      /\ here.left = call[c].left \ {a}
      /\ here.source = call[c].source
      /\ here.emits = call[c].emits
      /\ here.snapshot = call[c].snapshot
  BY <1>2 DEF CallRows
<1> HIDE DEF here
<1>4. /\ [here EXCEPT !.pc = "active"] \in CallRows
      /\ [here EXCEPT !.pc = "active"].pc = "active"
      /\ [here EXCEPT !.pc = "active"].current = a
      /\ [here EXCEPT !.pc = "active"].left = call[c].left \ {a}
      /\ [here EXCEPT !.pc = "active"].source = call[c].source
      /\ [here EXCEPT !.pc = "active"].emits = call[c].emits
      /\ [here EXCEPT !.pc = "active"].snapshot = call[c].snapshot
  BY <1>3 DEF CallRows, Points
<1>5. NewRun("skipped", "none", NoPlan) \in RunRows
  BY DEF NewRun, RunRows, Statuses
<1>6. /\ refused \in CallRows
      /\ refused.pc = "persist"
      /\ refused.want = NewRun("skipped", "none", NoPlan)
      /\ refused.current = a
      /\ refused.left = call[c].left \ {a}
      /\ refused.source = call[c].source
      /\ refused.emits = call[c].emits
      /\ refused.snapshot = call[c].snapshot
  BY <1>3, <1>5 DEF CallRows, Points
<1> HIDE DEF refused
<1>7. call' = [call EXCEPT ![c] =
        IF Exists(DedupKey(a, call[c].source)) THEN here
        ELSE IF call[c].snapshot[a].enabled THEN [here EXCEPT !.pc = "active"]
        ELSE refused]
  BY <1>1 DEF here, refused, Exists
<1>8. Others(c) /\ call' \in [Calls -> CallRows]
  BY <1>3, <1>4, <1>6, <1>7 DEF TypeOK, Others
<1>9. call'[c] = IF Exists(DedupKey(a, call[c].source)) THEN here
                 ELSE IF call[c].snapshot[a].enabled
                 THEN [here EXCEPT !.pc = "active"]
                 ELSE refused
  BY <1>7 DEF TypeOK
<1>10. UNCHANGED <<automation, passes, event, run, started, crashes>>
  BY DEF LookUp, Rows
<1>11. CASE Exists(DedupKey(a, call[c].source))
  BY <1>2, <1>3, <1>8, <1>9, <1>10, <1>11 DEF Keeps
<1>12. CASE /\ ~Exists(DedupKey(a, call[c].source))
            /\ call[c].snapshot[a].enabled
  BY <1>2, <1>4, <1>8, <1>9, <1>10, <1>12 DEF Keeps
<1>13. CASE /\ ~Exists(DedupKey(a, call[c].source))
            /\ ~call[c].snapshot[a].enabled
  BY <1>2, <1>6, <1>8, <1>9, <1>10, <1>13 DEF Keeps
<1> QED
  BY <1>11, <1>12, <1>13
LEMMA ToReadPending ==
    ASSUME TypeOK, NEW c \in Calls, NEW point \in {"approve", "reject"},
           ReadPending(c, point)
    PROVE  /\ Others(c) /\ Keeps(c)
           /\ call[c].pc = "ready"
           /\ call'[c].pc = point
           /\ call'[c].left = call[c].left
           /\ call'[c].current \in Automations
           /\ run[Key(c)'].status = "waiting_approval"
           /\ UNCHANGED <<automation, passes, event, run, started, crashes>>
<1>1. PICK k \in Keys :
        /\ run[k].status = "waiting_approval"
        /\ call' = [call EXCEPT ![c] =
                      [@ EXCEPT !.pc = point, !.source = k[2],
                                !.current = k[1]]]
  BY DEF ReadPending
<1>2. k[1] \in Automations /\ k[2] \in Sources /\ k = <<k[1], k[2]>>
  BY DEF Keys
<1>3. call'[c] = [call[c] EXCEPT !.pc = point, !.source = k[2],
                                 !.current = k[1]]
  BY <1>1 DEF TypeOK
<1>4. call[c] \in CallRows /\ point \in Points
  BY DEF TypeOK, Points
<1>5. call'[c] \in CallRows
  BY <1>2, <1>3, <1>4 DEF CallRows
<1>6. /\ Keeps(c)
      /\ call'[c].pc = point
      /\ call'[c].source = k[2]
      /\ call'[c].current = k[1]
      /\ call'[c].left = call[c].left
  BY <1>3, <1>4 DEF CallRows, Keeps
<1>7. call' \in [Calls -> CallRows] /\ Others(c)
  BY <1>1, <1>3, <1>5 DEF TypeOK, Others
<1>8. Key(c)' = k
  BY <1>2, <1>6 DEF Key, DedupKey
<1> QED
  BY <1>1, <1>2, <1>6, <1>7, <1>8 DEF ReadPending, At, Rows

(***************************************************************************)
(* What a step does to the runs                                            *)
(***************************************************************************)
LEMMA KeyTyped ==
    ASSUME TypeOK, NEW c \in Calls, call[c].current \in Automations
    PROVE  /\ Key(c) = <<call[c].current, call[c].source>>
           /\ Key(c) \in Keys
           /\ Key(c)[1] = call[c].current
           /\ Key(c)[2] = call[c].source
  BY CallTyped DEF Key, DedupKey, Keys

LEMMA RunTyped ==
    ASSUME TypeOK, NEW k \in Keys
    PROVE  /\ run[k] \in RunRows
           /\ run[k].status \in Statuses
           /\ run[k].approval \in {"none", "pending", "approved", "rejected"}
           /\ run[k].plan \in Plans \cup {NoPlan}
           /\ started[k] \in Plans \cup {NoPlan}
  BY DEF TypeOK, RunRows

(* Only the run k changes.                                                 *)
OtherRuns(k) ==
    /\ run' \in [Keys -> RunRows]
    /\ \A j \in Keys \ {k} : run'[j] = run[j]

(* A run keeps its approval and its plan.                                  *)
Settles(k, status) ==
    /\ OtherRuns(k)
    /\ run'[k].status = status
    /\ run'[k].approval = run[k].approval
    /\ run'[k].plan = run[k].plan

LEMMA ToSettle ==
    ASSUME TypeOK, NEW k \in Keys, NEW status \in Statuses,
           run' = [run EXCEPT ![k] = [@ EXCEPT !.status = status]]
    PROVE  Settles(k, status)
<1>1. run'[k] = [run[k] EXCEPT !.status = status]
  BY DEF TypeOK
<1>2. run[k] \in RunRows
  BY DEF TypeOK
<1>3. run'[k] \in RunRows
  BY <1>1, <1>2 DEF RunRows
<1>4. /\ run'[k].status = status
      /\ run'[k].approval = run[k].approval
      /\ run'[k].plan = run[k].plan
  BY <1>1, <1>2 DEF RunRows
<1> QED
  BY <1>3, <1>4 DEF TypeOK, Settles, OtherRuns

Decides(k, decision, status) ==
    /\ OtherRuns(k)
    /\ run'[k].status = status
    /\ run'[k].approval = decision
    /\ run'[k].plan = run[k].plan

LEMMA ToDecide ==
    ASSUME TypeOK, NEW k \in Keys, NEW status \in Statuses,
           NEW decision \in {"approved", "rejected"},
           run' = [run EXCEPT ![k] = [@ EXCEPT !.approval = decision,
                                               !.status = status]]
    PROVE  Decides(k, decision, status)
<1>1. run'[k] = [run[k] EXCEPT !.approval = decision, !.status = status]
  BY DEF TypeOK
<1>2. run[k] \in RunRows
  BY DEF TypeOK
<1> DEFINE decided == [run[k] EXCEPT !.approval = decision]
<1>a. decided \in RunRows
  BY <1>2 DEF RunRows
<1>b. run'[k] = [decided EXCEPT !.status = status]
  BY <1>1
<1>3. run'[k] \in RunRows
  <2> HIDE DEF decided
  <2> QED
    BY <1>a, <1>b DEF RunRows
<1>4. /\ run'[k].status = status
      /\ run'[k].approval = decision
      /\ run'[k].plan = run[k].plan
  BY <1>1, <1>2 DEF RunRows
<1> QED
  BY <1>3, <1>4 DEF TypeOK, Decides, OtherRuns

LEMMA WantedRowsAreRows == WantedRows \subseteq RunRows
  BY DEF WantedRows, NewRun, RunRows, Statuses

(***************************************************************************)
(* What a step can do                                                      *)
(***************************************************************************)
RowsStay == UNCHANGED <<automation, passes, event, run, started>>

Enters(c) ==
    /\ Others(c) /\ RowsStay
    /\ call'[c].pc = "next"
    /\ call'[c].snapshot = automation
    /\ \/ /\ call[c].pc = "ready"
          /\ ~call'[c].emits
          /\ call'[c].source \in {c} \cup Occurrences
          /\ \E a \in Automations : call'[c].left = {a}
       \/ /\ call[c].pc = "match"
          /\ call'[c].emits
          /\ call'[c].source = call[c].source
          /\ call'[c].left = {a \in Automations : automation[a].enabled}

Emits(c) ==
    /\ Others(c) /\ Keeps(c)
    /\ call[c].pc = "ready"
    /\ call'[c].pc = "match"
    /\ call'[c].left = call[c].left
    /\ call'[c].source \in Events
    /\ event' \in [Events -> {"none", "full", "bare"}]
    /\ event'[call'[c].source] # "none"
    /\ \A e \in Events : event[e] # "none" => event'[e] = event[e]
    /\ UNCHANGED <<automation, passes, run, started>>

LooksUp(c) ==
    /\ Others(c) /\ Keeps(c) /\ RowsStay
    /\ call[c].pc = "next"
    /\ call'[c].source = call[c].source
    /\ call'[c].current \in call[c].left
    /\ call'[c].left = call[c].left \ {call'[c].current}
    /\ \/ Exists(Key(c)') /\ call'[c].pc = "next"
       \/ /\ ~Exists(Key(c)')
          /\ call[c].snapshot[call'[c].current].enabled
          /\ call'[c].pc = "active"
       \/ /\ ~Exists(Key(c)')
          /\ ~call[c].snapshot[call'[c].current].enabled
          /\ call'[c].pc = "persist"
          /\ call'[c].want = NewRun("skipped", "none", NoPlan)

Reads(c) ==
    /\ Others(c) /\ Keeps(c) /\ RowsStay
    /\ call[c].pc = "ready"
    /\ call'[c].pc \in {"approve", "reject"}
    /\ call'[c].left = call[c].left
    /\ call'[c].current \in Automations
    /\ run[Key(c)'].status = "waiting_approval"

(* The call is ended, or goes on without touching a row.                   *)
Ends(c) ==
    /\ Others(c) /\ Stays(c) /\ RowsStay
    /\ call'[c].pc \in {"aborted", "lost"}

Freezes(c) ==
    /\ Others(c) /\ Stays(c) /\ RowsStay
    /\ call[c].pc = "active"
    /\ call'[c].pc = "decide"
    /\ Resolves(c)

Wants(c) ==
    /\ Others(c) /\ Stays(c) /\ RowsStay
    /\ call'[c].pc = "persist"
    /\ \/ /\ call[c].pc = "active"
          /\ ~Resolves(c)
          /\ call'[c].want = NewRun("failed", "none", NoPlan)
       \/ /\ call[c].pc = "decide"
          /\ call'[c].want =
               IF ~passes[call[c].current]
               THEN NewRun("skipped", "none", Snapshot(c).steps)
               ELSE IF Snapshot(c).requiresApproval
               THEN NewRun("waiting_approval", "pending", Snapshot(c).steps)
               ELSE NewRun("running", "none", Snapshot(c).steps)

(* The row is there, by this call or by another one.                       *)
Proceeds(c) ==
    call'[c].pc = IF call[c].want.status = "running" THEN "execute"
                  ELSE "next"

Creates(c) ==
    /\ Others(c) /\ Stays(c)
    /\ call[c].pc = "persist"
    /\ ~Exists(Key(c))
    /\ ActiveIndexAllows(c)
    /\ Proceeds(c)
    /\ OtherRuns(Key(c))
    /\ run'[Key(c)] = call[c].want
    /\ UNCHANGED <<automation, passes, event, started>>

Collides(c) ==
    /\ Others(c) /\ Stays(c) /\ RowsStay
    /\ call[c].pc = "persist"
    /\ call'[c].pc = "raced"
    /\ call'[c].want = call[c].want

Finds(c) ==
    /\ Others(c) /\ Stays(c) /\ RowsStay
    /\ call[c].pc = "raced"
    /\ Exists(Key(c))
    /\ Proceeds(c)

Starts(c) ==
    /\ Others(c) /\ Stays(c)
    /\ call[c].pc = "execute"
    /\ call'[c].pc = "next"
    /\ run[Key(c)].plan # NoPlan
    /\ started[Key(c)] = NoPlan
    /\ started' \in [Keys -> Plans \cup {NoPlan}]
    /\ \A j \in Keys \ {Key(c)} : started'[j] = started[j]
    /\ started'[Key(c)] = run[Key(c)].plan
    /\ UNCHANGED <<automation, passes, event, run>>

Succeeds(c) ==
    /\ Others(c) /\ Stays(c)
    /\ call[c].pc = "execute"
    /\ call'[c].pc = "next"
    /\ run[Key(c)].plan = NoPlan
    /\ Settles(Key(c), "succeeded")
    /\ UNCHANGED <<automation, passes, event, started>>

Finishes(k) ==
    /\ started[k] # NoPlan
    /\ run[k].status \notin {"succeeded", "failed"}
    /\ \E status \in {"succeeded", "failed"} : Settles(k, status)
    /\ UNCHANGED <<automation, passes, event, started, call>>

Approves(c) ==
    /\ Others(c) /\ Stays(c)
    /\ call[c].pc = "approve"
    /\ call'[c].pc = "execute"
    /\ Pending(Key(c))
    /\ Decides(Key(c), "approved", "running")
    /\ UNCHANGED <<automation, passes, event, started>>

Rejects(c) ==
    /\ Others(c) /\ Stays(c)
    /\ call[c].pc = "reject"
    /\ call'[c].pc = "next"
    /\ Pending(Key(c))
    /\ Decides(Key(c), "rejected", "cancelled")
    /\ UNCHANGED <<automation, passes, event, started>>

IsEdited ==
    /\ automation' \in [Automations -> AutomationRows]
    /\ passes' \in [Automations -> BOOLEAN]
    /\ "requiresApproval" \notin Edits =>
         \A a \in Automations :
           automation'[a].requiresApproval = automation[a].requiresApproval
    /\ Edits = {} => UNCHANGED <<automation, passes>>
    /\ UNCHANGED <<event, run, started, call>>

Rests == RowsStay /\ UNCHANGED call

CallEffect(c) ==
    \/ Enters(c) \/ Emits(c) \/ LooksUp(c) \/ Reads(c) \/ Ends(c)
    \/ Freezes(c) \/ Wants(c) \/ Creates(c) \/ Collides(c) \/ Finds(c)
    \/ Starts(c) \/ Succeeds(c) \/ Approves(c) \/ Rejects(c)

Effect ==
    /\ \/ \E c \in Calls : CallEffect(c)
       \/ \E k \in Keys : Finishes(k)
       \/ IsEdited
       \/ Rests
    /\ crashes' \in 0..MaxCrashes

LEMMA CrashesTyped ==
    ASSUME TypeOK, [Next]_vars PROVE crashes' \in 0..MaxCrashes
<1>1. MaxCrashes \in Nat /\ crashes \in 0..MaxCrashes
  BY AutomationRunsAssumption DEF TypeOK
<1>2. ASSUME NEW c \in Calls, Crash(c) PROVE crashes' \in 0..MaxCrashes
  BY <1>1, <1>2 DEF Crash
<1>3. ASSUME NEW c \in Calls,
             \/ TriggerManual(c) \/ TriggerScheduled(c) \/ EmitEvent(c)
             \/ MatchAutomations(c)
      PROVE  UNCHANGED crashes
  BY <1>3 DEF TriggerManual, TriggerScheduled, EmitEvent, MatchAutomations,
              Enter
<1>4. ASSUME NEW c \in Calls,
             \/ LookUp(c) \/ CheckActive(c) \/ Decide(c) \/ PersistRun(c)
             \/ Raced(c) \/ ExecuteSteps(c)
      PROVE  UNCHANGED crashes
  BY <1>4 DEF LookUp, CheckActive, Decide, PersistRun, Raced, ExecuteSteps
<1>5. ASSUME NEW c \in Calls,
             \/ ReadToApprove(c) \/ ReadToReject(c) \/ ApproveRun(c)
             \/ RejectRun(c)
      PROVE  UNCHANGED crashes
  BY <1>5 DEF ReadToApprove, ReadToReject, ReadPending, ApproveRun, RejectRun
<1>6. ASSUME NEW k \in Keys, FinishRun(k) PROVE UNCHANGED crashes
  BY <1>6 DEF FinishRun
<1>7. ASSUME NEW a \in Automations, UpdateAutomation(a) \/ ContextChanges(a)
      PROVE  UNCHANGED crashes
  BY <1>7 DEF UpdateAutomation, ContextChanges
<1>8. CASE UNCHANGED vars
  BY <1>1, <1>8 DEF vars
<1> QED
  BY <1>1, <1>2, <1>3, <1>4, <1>5, <1>6, <1>7, <1>8 DEF Next

LEMMA EveryStepHasItsEffect ==
    ASSUME TypeOK, CallInv, [Next]_vars PROVE Effect
<1>a. SUFFICES \/ \E c \in Calls : CallEffect(c)
               \/ \E k \in Keys : Finishes(k)
               \/ IsEdited
               \/ Rests
  BY CrashesTyped DEF Effect
<1>1. ASSUME NEW c \in Calls, TriggerManual(c) PROVE Enters(c)
  <2>1. PICK a \in Automations : Enter(c, c, {a}, FALSE)
    BY <1>1 DEF TriggerManual
  <2>2. c \in Sources /\ {a} \in SUBSET Automations
    BY DEF Sources
  <2> QED
    BY <1>1, <2>1, <2>2, ToEnter DEF TriggerManual, At, Enters, RowsStay
<1>2. ASSUME NEW c \in Calls, TriggerScheduled(c) PROVE Enters(c)
  <2>1. PICK a \in Automations, o \in Occurrences : Enter(c, o, {a}, FALSE)
    BY <1>2 DEF TriggerScheduled
  <2>2. o \in Sources /\ {a} \in SUBSET Automations
    BY DEF Sources
  <2>3. call[c].pc = "ready"
    BY <1>2 DEF TriggerScheduled, At
  <2>4. /\ Others(c) /\ RowsStay
        /\ call'[c].pc = "next" /\ call'[c].snapshot = automation
        /\ call'[c].source = o /\ call'[c].left = {a}
        /\ call'[c].emits = FALSE
    BY <2>1, <2>2, ToEnter DEF RowsStay
  <2> QED
    BY <2>3, <2>4 DEF Enters
<1>3. ASSUME NEW c \in Calls, EmitEvent(c) PROVE Emits(c)
  BY <1>3, ToMatch DEF Emits
<1>4. ASSUME NEW c \in Calls, MatchAutomations(c) PROVE Enters(c)
  BY <1>4, ToEnter, CallTyped DEF MatchAutomations, At, Enters, RowsStay
<1>5. ASSUME NEW c \in Calls, LookUp(c) PROVE LooksUp(c)
  <2>1. Key(c)' = DedupKey(call'[c].current, call[c].source)
    BY <1>5, ToLookUp DEF Key, DedupKey
  <2> QED
    BY <1>5, <2>1, ToLookUp DEF LooksUp, RowsStay
<1>6. ASSUME NEW c \in Calls, CheckActive(c) PROVE CallEffect(c)
  <2>1. NewRun("failed", "none", NoPlan) \in RunRows
    BY DEF NewRun, RunRows, Statuses
  <2>2. CASE Abort(c)
    BY <1>6, <2>2, ToGo
    DEF CheckActive, Abort, Ends, RowsStay, Rows, Points, CallEffect
  <2>3. CASE Resolves(c) /\ Goto(c, "decide")
    BY <1>6, <2>3, ToGo
    DEF CheckActive, At, Freezes, RowsStay, Rows, Points, CallEffect
  <2>4. CASE ~Resolves(c) /\ Want(c, NewRun("failed", "none", NoPlan))
    BY <1>6, <2>1, <2>4, ToWant
    DEF CheckActive, At, Wants, RowsStay, Rows, CallEffect
  <2> QED
    BY <1>6, <2>2, <2>3, <2>4 DEF CheckActive
<1>7. ASSUME NEW c \in Calls, Decide(c) PROVE Wants(c)
  <2> DEFINE plan == Snapshot(c).steps
             row == IF ~passes[call[c].current]
                    THEN NewRun("skipped", "none", plan)
                    ELSE IF Snapshot(c).requiresApproval
                    THEN NewRun("waiting_approval", "pending", plan)
                    ELSE NewRun("running", "none", plan)
  <2>1. call[c].pc = "decide" /\ Want(c, row) /\ RowsStay
    BY <1>7 DEF Decide, At, RowsStay, Rows
  <2>2. call[c].current \in Automations
    BY <2>1 DEF CallInv, Working
  <2>3. plan \in Plans
    BY <2>2, CallTyped DEF Snapshot, AutomationRows, Plans
  <2>4. row \in RunRows
    BY <2>3 DEF NewRun, RunRows, Statuses
  <2>5. Others(c) /\ Stays(c) /\ call'[c].pc = "persist" /\ call'[c].want = row
    BY <2>1, <2>4, ToWant
  <2> QED
    BY <2>1, <2>5 DEF Wants
<1>8. ASSUME NEW c \in Calls, PersistRun(c) PROVE Creates(c) \/ Collides(c)
  <2>1. /\ call[c].pc = "persist" /\ Key(c) \in Keys
        /\ call[c].want \in RunRows
    BY <1>8, KeyTyped, CallTyped DEF PersistRun, At, CallInv, Working
  <2>2. CASE ~Exists(Key(c)) /\ ActiveIndexAllows(c)
    <3>1. /\ run' = [run EXCEPT ![Key(c)] = call[c].want]
          /\ AfterPersist(c)
      BY <1>8, <2>2 DEF PersistRun, Persisted, Exists
    <3>2. OtherRuns(Key(c)) /\ run'[Key(c)] = call[c].want
      BY <2>1, <3>1 DEF TypeOK, OtherRuns
    <3>3. Others(c) /\ Stays(c) /\ Proceeds(c)
      BY <3>1, ToGo DEF AfterPersist, Proceeds, Points
    <3> QED
      BY <1>8, <2>1, <2>2, <3>2, <3>3 DEF PersistRun, Creates
  <2>3. CASE ~(~Exists(Key(c)) /\ ActiveIndexAllows(c))
    BY <1>8, <2>1, <2>3, ToGo
    DEF PersistRun, Exists, Collides, RowsStay, Points
  <2> QED
    BY <2>2, <2>3
<1>9. ASSUME NEW c \in Calls, Raced(c) PROVE Finds(c) \/ Ends(c)
  <2>1. CASE Exists(Key(c)) /\ AfterPersist(c)
    BY <1>9, <2>1, ToGo
    DEF Raced, At, AfterPersist, Proceeds, Finds, RowsStay, Rows, Points
  <2>2. CASE Abort(c)
    BY <1>9, <2>2, ToGo DEF Raced, Abort, Ends, RowsStay, Rows, Points
  <2> QED
    BY <1>9, <2>1, <2>2 DEF Raced, Exists
<1>10. ASSUME NEW c \in Calls, ExecuteSteps(c) PROVE CallEffect(c)
  <2>1. call[c].pc = "execute" /\ Key(c) \in Keys
    BY <1>10, KeyTyped DEF ExecuteSteps, At, CallInv, Working
  <2>2. CASE /\ run[Key(c)].plan # NoPlan
             /\ started[Key(c)] = NoPlan
             /\ started' = [started EXCEPT ![Key(c)] = run[Key(c)].plan]
             /\ Goto(c, "next")
             /\ UNCHANGED run
    <3>1. run[Key(c)].plan \in Plans \cup {NoPlan}
      BY <2>1, RunTyped
    <3>2. /\ started' \in [Keys -> Plans \cup {NoPlan}]
          /\ \A j \in Keys \ {Key(c)} : started'[j] = started[j]
          /\ started'[Key(c)] = run[Key(c)].plan
      BY <2>1, <2>2, <3>1 DEF TypeOK
    <3> QED
      BY <1>10, <2>1, <2>2, <3>2, ToGo
      DEF ExecuteSteps, Starts, Points, CallEffect
  <2>3. CASE Abort(c) /\ UNCHANGED <<run, started>>
    BY <1>10, <2>3, ToGo
    DEF ExecuteSteps, Abort, Ends, RowsStay, Points, CallEffect
  <2>4. CASE /\ run[Key(c)].plan = NoPlan
             /\ run' = [run EXCEPT ![Key(c)] = [@ EXCEPT !.status = "succeeded"]]
             /\ Goto(c, "next")
             /\ UNCHANGED started
    <3>1. Settles(Key(c), "succeeded")
      BY <2>1, <2>4, ToSettle DEF Statuses
    <3> QED
      BY <1>10, <2>1, <2>4, <3>1, ToGo
      DEF ExecuteSteps, Succeeds, Points, CallEffect
  <2> QED
    BY <1>10, <2>2, <2>3, <2>4 DEF ExecuteSteps, ExecutedPlan
<1>11. ASSUME NEW c \in Calls, ReadToApprove(c) \/ ReadToReject(c)
       PROVE  Reads(c)
  BY <1>11, ToReadPending DEF ReadToApprove, ReadToReject, Reads, RowsStay
<1>12. ASSUME NEW c \in Calls, ApproveRun(c) PROVE Approves(c) \/ Ends(c)
  <2>1. call[c].pc = "approve" /\ Key(c) \in Keys
    BY <1>12, KeyTyped DEF ApproveRun, At, CallInv, Working
  <2>2. CASE /\ Pending(Key(c))
             /\ run' = [run EXCEPT ![Key(c)] = [@ EXCEPT !.approval = "approved",
                                                         !.status = "running"]]
             /\ Goto(c, "execute")
    BY <1>12, <2>1, <2>2, ToGo, ToDecide
    DEF ApproveRun, Approves, Points, Statuses
  <2>3. CASE Abort(c) /\ UNCHANGED run
    BY <1>12, <2>3, ToGo DEF ApproveRun, Abort, Ends, RowsStay, Points
  <2> QED
    BY <1>12, <2>2, <2>3 DEF ApproveRun
<1>13. ASSUME NEW c \in Calls, RejectRun(c) PROVE Rejects(c) \/ Ends(c)
  <2>1. call[c].pc = "reject" /\ Key(c) \in Keys
    BY <1>13, KeyTyped DEF RejectRun, At, CallInv, Working
  <2>2. CASE /\ Pending(Key(c))
             /\ run' = [run EXCEPT ![Key(c)] = [@ EXCEPT !.approval = "rejected",
                                                         !.status = "cancelled"]]
             /\ Goto(c, "next")
    BY <1>13, <2>1, <2>2, ToGo, ToDecide
    DEF RejectRun, Rejects, Points, Statuses
  <2>3. CASE Abort(c) /\ UNCHANGED run
    BY <1>13, <2>3, ToGo DEF RejectRun, Abort, Ends, RowsStay, Points
  <2> QED
    BY <1>13, <2>2, <2>3 DEF RejectRun
<1>14. ASSUME NEW c \in Calls, Crash(c) PROVE Ends(c)
  BY <1>14, ToGo DEF Crash, Ends, RowsStay, Rows, Points
<1>15. ASSUME NEW k \in Keys, FinishRun(k) PROVE Finishes(k)
  BY <1>15, ToSettle DEF FinishRun, Finishes, Statuses
<1>16. ASSUME NEW a \in Automations, UpdateAutomation(a) PROVE IsEdited
  <2>1. PICK row \in AutomationRows :
          /\ row # automation[a]
          /\ \A f \in DOMAIN row : row[f] # automation[a][f] => f \in Edits
          /\ automation' = [automation EXCEPT ![a] = row]
    BY <1>16 DEF UpdateAutomation
  <2>2. automation[a] \in AutomationRows
    BY DEF TypeOK
  <2>3. /\ automation' \in [Automations -> AutomationRows]
        /\ automation'[a] = row
        /\ \A b \in Automations \ {a} : automation'[b] = automation[b]
    BY <2>1 DEF TypeOK
  <2>4. /\ row.requiresApproval # automation[a].requiresApproval
             => "requiresApproval" \in Edits
        /\ row.enabled # automation[a].enabled => Edits # {}
        /\ row.steps # automation[a].steps => Edits # {}
    BY <2>1 DEF AutomationRows
  <2>5. Edits # {}
    <3>1. \/ row.enabled # automation[a].enabled
          \/ row.requiresApproval # automation[a].requiresApproval
          \/ row.steps # automation[a].steps
      BY <2>1, <2>2 DEF AutomationRows
    <3> QED
      BY <2>4, <3>1
  <2>6. "requiresApproval" \notin Edits =>
          \A b \in Automations :
            automation'[b].requiresApproval = automation[b].requiresApproval
    BY <2>3, <2>4
  <2> QED
    BY <1>16, <2>3, <2>5, <2>6 DEF UpdateAutomation, IsEdited, TypeOK
<1>17. ASSUME NEW a \in Automations, ContextChanges(a) PROVE IsEdited
  BY <1>17 DEF ContextChanges, IsEdited, TypeOK
<1>18. CASE UNCHANGED vars
  BY <1>18 DEF vars, Rests, RowsStay
<1> QED
  BY <1>1, <1>2, <1>3, <1>4, <1>5, <1>6, <1>7, <1>8, <1>9, <1>10, <1>11,
     <1>12, <1>13, <1>14, <1>15, <1>16, <1>17, <1>18
  DEF Next, CallEffect

(***************************************************************************)
(* The invariant                                                           *)
(***************************************************************************)
LEMMA TypeStep ==
    ASSUME TypeOK, Effect PROVE TypeOK'
<1> USE DEF TypeOK, Effect
<1>1. ASSUME NEW c \in Calls,
             \/ Enters(c) \/ Emits(c) \/ LooksUp(c) \/ Reads(c) \/ Ends(c)
             \/ Freezes(c) \/ Wants(c)
      PROVE  TypeOK'
  BY <1>1 DEF Enters, Emits, LooksUp, Reads, Ends, Freezes, Wants, Others,
              RowsStay
<1>2. ASSUME NEW c \in Calls,
             \/ Creates(c) \/ Collides(c) \/ Finds(c) \/ Starts(c)
             \/ Succeeds(c) \/ Approves(c) \/ Rejects(c)
      PROVE  TypeOK'
  BY <1>2 DEF Creates, Collides, Finds, Starts, Succeeds, Approves, Rejects,
              Others, RowsStay, OtherRuns, Settles, Decides
<1>3. ASSUME NEW k \in Keys, Finishes(k) PROVE TypeOK'
  BY <1>3 DEF Finishes, Settles, OtherRuns
<1>4. CASE IsEdited
  BY <1>4 DEF IsEdited
<1>5. CASE Rests
  BY <1>5 DEF Rests, RowsStay
<1> QED
  BY <1>1, <1>2, <1>3, <1>4, <1>5 DEF CallEffect

LEMMA CallTypedNext ==
    ASSUME TypeOK', NEW c \in Calls
    PROVE  /\ call'[c].pc \in Points
           /\ call'[c].source \in Sources
           /\ call'[c].current \in Automations \cup {NoAutomation}
           /\ call'[c].left \in SUBSET Automations
           /\ call'[c].emits \in BOOLEAN
           /\ call'[c].snapshot \in [Automations -> AutomationRows]
           /\ call'[c].want \in RunRows
  BY DEF TypeOK, CallRows

LEMMA KeyTypedNext ==
    ASSUME TypeOK', NEW c \in Calls, call'[c].current \in Automations
    PROVE  /\ Key(c)' = <<call'[c].current, call'[c].source>>
           /\ Key(c)' \in Keys
           /\ Key(c)'[1] = call'[c].current
           /\ Key(c)'[2] = call'[c].source
  BY CallTypedNext DEF Key, DedupKey, Keys

LEMMA RunTypedNext ==
    ASSUME TypeOK', NEW k \in Keys
    PROVE  /\ run'[k] \in RunRows
           /\ run'[k].status \in Statuses
           /\ run'[k].approval \in {"none", "pending", "approved", "rejected"}
           /\ run'[k].plan \in Plans \cup {NoPlan}
           /\ started'[k] \in Plans \cup {NoPlan}
  BY DEF TypeOK, RunRows

LEMMA StaysKey ==
    ASSUME NEW c, Stays(c) PROVE Key(c)' = Key(c)
  BY DEF Stays, Key

(* A call is left alone unless the step is its own.                        *)
LEMMA OwnStep ==
    ASSUME Effect, NEW c \in Calls
    PROVE  CallEffect(c) \/ call'[c] = call[c]
<1>1. ASSUME NEW d \in Calls, CallEffect(d), d # c PROVE call'[c] = call[c]
  BY <1>1 DEF CallEffect, Enters, Emits, LooksUp, Reads, Ends, Freezes, Wants,
              Creates, Collides, Finds, Starts, Succeeds, Approves, Rejects,
              Others
<1> QED
  BY <1>1 DEF Effect, Finishes, IsEdited, Rests

(* What can happen to a run.                                               *)
LEMMA RunStep ==
    ASSUME TypeOK, CallInv, Effect, NEW k \in Keys
    PROVE  \/ run'[k] = run[k]
           \/ \E c \in Calls : Creates(c) /\ k = Key(c)
           \/ \E c \in Calls : Succeeds(c) /\ k = Key(c)
           \/ \E c \in Calls : Approves(c) /\ k = Key(c)
           \/ \E c \in Calls : Rejects(c) /\ k = Key(c)
           \/ Finishes(k)
<1>1. ASSUME NEW c \in Calls,
             \/ Enters(c) \/ Emits(c) \/ LooksUp(c) \/ Reads(c) \/ Ends(c)
             \/ Freezes(c) \/ Wants(c) \/ Collides(c) \/ Finds(c) \/ Starts(c)
      PROVE  run'[k] = run[k]
  BY <1>1 DEF Enters, Emits, LooksUp, Reads, Ends, Freezes, Wants, Collides,
              Finds, Starts, RowsStay
<1>2. ASSUME NEW c \in Calls, k # Key(c),
             Creates(c) \/ Succeeds(c) \/ Approves(c) \/ Rejects(c)
      PROVE  run'[k] = run[k]
  BY <1>2 DEF Creates, Succeeds, Approves, Rejects, Settles, Decides, OtherRuns
<1>3. ASSUME NEW j \in Keys, Finishes(j), j # k PROVE run'[k] = run[k]
  BY <1>3 DEF Finishes, Settles, OtherRuns
<1>4. CASE IsEdited \/ Rests
  BY <1>4 DEF IsEdited, Rests, RowsStay
<1> QED
  BY <1>1, <1>2, <1>3, <1>4 DEF Effect, CallEffect

LEMMA StartStep ==
    ASSUME Effect, NEW k \in Keys, started'[k] # started[k]
    PROVE  \E c \in Calls : Starts(c) /\ k = Key(c)
<1>1. PICK c \in Calls : CallEffect(c)
  BY DEF Effect, Finishes, IsEdited, Rests, RowsStay
<1>2. Starts(c) /\ k = Key(c)
  BY <1>1 DEF CallEffect, Enters, Emits, LooksUp, Reads, Ends, Freezes, Wants,
              Creates, Collides, Finds, Starts, Succeeds, Approves, Rejects,
              RowsStay
<1> QED
  BY <1>2

LEMMA WantedShape ==
    ASSUME NEW row \in WantedRows
    PROVE  /\ row \in RunRows
           /\ row # NoRun
           /\ row.status \in {"skipped", "failed", "waiting_approval", "running"}
           /\ row.status = "waiting_approval" <=> row.approval = "pending"
           /\ row.approval \in {"none", "pending"}
           /\ row.status \in {"waiting_approval", "running"} => row.plan \in Plans
  BY DEF WantedRows, NewRun, NoRun, RunRows, Statuses

LEMMA NoRunShape ==
    /\ NoRun.status = "none" /\ NoRun.approval = "none" /\ NoRun.plan = NoPlan
  BY DEF NoRun, NewRun

(* Runs are never deleted.                                                 *)
LEMMA ExistsStays ==
    ASSUME TypeOK, CallInv, Effect, NEW k \in Keys, Exists(k)
    PROVE  Exists(k)'
<1>1. ASSUME NEW c \in Calls, Creates(c), k = Key(c) PROVE FALSE
  BY <1>1 DEF Creates
<1>2. ASSUME NEW c \in Calls,
             Succeeds(c) \/ Approves(c) \/ Rejects(c), k = Key(c)
      PROVE  run'[k].status # "none"
  BY <1>2 DEF Succeeds, Approves, Rejects, Settles, Decides
<1>3. ASSUME Finishes(k) PROVE run'[k].status # "none"
  BY <1>3 DEF Finishes, Settles
<1> QED
  BY <1>1, <1>2, <1>3, RunStep, NoRunShape DEF Exists

LEMMA CallStep ==
    ASSUME TypeOK, CallInv, Effect, TypeOK' PROVE CallInv'
<1> SUFFICES ASSUME NEW c \in Calls
             PROVE  /\ call'[c].pc \in Working => call'[c].current \in Automations
                    /\ call'[c].pc \in {"ready", "match", "approve", "reject"}
                         => ~call'[c].emits
                    /\ call'[c].pc \in Wanting => call'[c].want \in WantedRows
  BY DEF CallInv
<1>a. /\ call[c].pc \in Working => call[c].current \in Automations
      /\ call[c].pc \in {"ready", "match", "approve", "reject"}
           => ~call[c].emits
      /\ call[c].pc \in Wanting => call[c].want \in WantedRows
  BY DEF CallInv
<1> USE DEF Working, Wanting
<1>1. CASE call'[c] = call[c]
  BY <1>1, <1>a
<1>2. CASE Enters(c) \/ Emits(c) \/ Reads(c) \/ Ends(c)
  BY <1>2, <1>a DEF Enters, Emits, Reads, Ends, Stays, Keeps
<1>3. CASE LooksUp(c)
  <2>1. call'[c].current \in Automations
    BY <1>3, CallTyped DEF LooksUp
  <2>2. NewRun("skipped", "none", NoPlan) \in WantedRows
    BY DEF WantedRows
  <2> QED
    BY <1>3, <2>1, <2>2 DEF LooksUp
<1>4. CASE Freezes(c) \/ Finds(c) \/ Starts(c) \/ Succeeds(c)
  BY <1>4, <1>a DEF Freezes, Finds, Proceeds, Starts, Succeeds, Stays, Keeps
<1>5. CASE Wants(c)
  <2>1. call[c].current \in Automations /\ call'[c].current = call[c].current
    BY <1>5, <1>a DEF Wants, Stays
  <2>2. Snapshot(c).steps \in Plans
    BY <2>1, CallTyped DEF Snapshot, AutomationRows, Plans
  <2>3. call'[c].want \in WantedRows
    BY <1>5, <2>2 DEF Wants, WantedRows
  <2> QED
    BY <1>5, <2>1, <2>3 DEF Wants
<1>6. CASE Creates(c) \/ Collides(c) \/ Approves(c) \/ Rejects(c)
  BY <1>6, <1>a DEF Creates, Collides, Proceeds, Approves, Rejects, Stays, Keeps
<1> QED
  BY <1>1, <1>2, <1>3, <1>4, <1>5, <1>6, OwnStep DEF CallEffect

LEMMA RowStep ==
    ASSUME TypeOK, CallInv, RowInv, ExistsInv, Effect, TypeOK' PROVE RowInv'
<1> SUFFICES ASSUME NEW k \in Keys
             PROVE  /\ run'[k].status = "none" => run'[k] = NoRun
                    /\ started'[k] # NoPlan => Exists(k)'
  BY DEF RowInv
<1>1. run'[k].status = "none" => run'[k] = NoRun
  <2>1. ASSUME NEW c \in Calls, Creates(c), k = Key(c)
        PROVE  run'[k].status # "none"
    BY <2>1, WantedShape DEF Creates, CallInv, Wanting
  <2>2. ASSUME NEW c \in Calls,
               Succeeds(c) \/ Approves(c) \/ Rejects(c), k = Key(c)
        PROVE  run'[k].status # "none"
    BY <2>2 DEF Succeeds, Approves, Rejects, Settles, Decides
  <2>3. ASSUME Finishes(k) PROVE run'[k].status # "none"
    BY <2>3 DEF Finishes, Settles
  <2> QED
    BY <2>1, <2>2, <2>3, RunStep DEF RowInv
<1>2. started'[k] # NoPlan => Exists(k)
  BY StartStep DEF RowInv, Starts, ExistsInv
<1> QED
  BY <1>1, <1>2, ExistsStays

LEMMA ExistsStep ==
    ASSUME TypeOK, CallInv, ExistsInv, Effect, TypeOK' PROVE ExistsInv'
<1> SUFFICES ASSUME NEW c \in Calls,
                    call'[c].pc \in {"execute", "approve", "reject"}
             PROVE  Exists(Key(c))'
  BY DEF ExistsInv
<1> USE DEF Working, Wanting
<1>1. CASE call'[c] = call[c]
  BY <1>1, ExistsStays, KeyTyped DEF ExistsInv, CallInv, Key
<1>2. CASE Reads(c)
  BY <1>2, NoRunShape DEF Reads, RowsStay, Exists
<1>3. CASE Creates(c)
  BY <1>3, StaysKey, WantedShape DEF Creates, CallInv, Exists
<1>4. CASE Finds(c)
  BY <1>4, StaysKey DEF Finds, RowsStay, Exists
<1>5. CASE Approves(c)
  <2>1. call[c].pc = "approve" /\ Key(c)' = Key(c)
    BY <1>5, StaysKey DEF Approves
  <2> QED
    BY <2>1, ExistsStays, KeyTyped DEF ExistsInv, CallInv
<1> QED
  BY <1>1, <1>2, <1>3, <1>4, <1>5, OwnStep
  DEF CallEffect, Enters, Emits, LooksUp, Ends, Freezes, Wants, Collides,
      Starts, Succeeds, Rejects

(* The snapshot a call decides on is the one it entered with.              *)
LEMMA MatchStep ==
    ASSUME TypeOK, CallInv, ExistsInv, MatchInv, Effect, TypeOK'
    PROVE  MatchInv'
<1> SUFFICES ASSUME NEW c \in Calls, call'[c].emits,
                    NEW a \in Automations, call'[c].snapshot[a].enabled,
                    a \notin call'[c].left,
                    call'[c].pc \notin {"aborted", "lost"},
                    ~(call'[c].pc \in Creating /\ a = call'[c].current)
             PROVE  run'[<<a, call'[c].source>>] # NoRun
  BY DEF MatchInv, Matched, Exists
<1>k. <<a, call[c].source>> \in Keys
  BY CallTyped DEF Keys
<1>a. ASSUME Keeps(c), a \notin call[c].left,
             call[c].pc \notin {"aborted", "lost"},
             ~(call[c].pc \in Creating /\ a = call[c].current)
      PROVE  run'[<<a, call[c].source>>] # NoRun
  <2>1. Exists(<<a, call[c].source>>)
    BY <1>a DEF MatchInv, Matched, Keeps
  <2> QED
    BY <2>1, <1>k, ExistsStays DEF Exists
<1> USE DEF Creating
<1>1. CASE call'[c] = call[c]
  BY <1>1, <1>a DEF Keeps
<1>2. CASE Enters(c)
  BY <1>2 DEF Enters
<1>3. CASE Emits(c) \/ Reads(c)
  BY <1>3 DEF Emits, Reads, Keeps, CallInv
<1>4. CASE LooksUp(c)
  <2>1. CASE a = call'[c].current
    <3>1. call'[c].pc = "next" /\ Exists(Key(c)')
      BY <1>4, <2>1 DEF LooksUp
    <3>2. Key(c)' = <<a, call'[c].source>>
      BY <2>1 DEF Key, DedupKey
    <3> QED
      BY <1>4, <3>1, <3>2 DEF LooksUp, RowsStay, Exists
  <2>2. CASE a # call'[c].current
    BY <1>4, <1>a, <2>2 DEF LooksUp
  <2> QED
    BY <2>1, <2>2
<1>5. CASE Freezes(c) \/ Wants(c) \/ Collides(c)
  BY <1>5, <1>a DEF Freezes, Wants, Collides, Stays
<1>6. CASE Creates(c)
  <2>1. CASE a = call[c].current
    <3>1. Key(c) = <<a, call'[c].source>>
      BY <1>6, <2>1 DEF Key, DedupKey, Creates, Stays
    <3> QED
      BY <1>6, <3>1, WantedShape DEF Creates, CallInv, Wanting, Exists
  <2>2. CASE a # call[c].current
    BY <1>6, <1>a, <2>2 DEF Creates, Stays
  <2> QED
    BY <2>1, <2>2
<1>7. CASE Finds(c)
  <2>1. CASE a = call[c].current
    BY <1>7, <2>1 DEF Key, DedupKey, Finds, Stays, RowsStay, Exists
  <2>2. CASE a # call[c].current
    BY <1>7, <1>a, <2>2 DEF Finds, Stays
  <2> QED
    BY <2>1, <2>2
<1>8. CASE Starts(c) \/ Succeeds(c)
  BY <1>8, <1>a DEF Starts, Succeeds, Stays
<1>9. CASE Approves(c) \/ Rejects(c)
  BY <1>9 DEF Approves, Rejects, Stays, Keeps, CallInv
<1> QED
  BY <1>1, <1>2, <1>3, <1>4, <1>5, <1>6, <1>7, <1>8, <1>9, OwnStep
  DEF CallEffect, Ends

(* A run becomes active when its automation has no active run, or already  *)
(* is active.                                                              *)
LEMMA ActiveStep ==
    ASSUME TypeOK, CallInv, RowInv, OneActiveRun, Effect, TypeOK'
    PROVE  OneActiveRun'
<1>1. ASSUME NEW k \in Keys, run'[k].status \in ActiveStatuses
      PROVE  \/ run[k].status \in ActiveStatuses
             \/ /\ ~HasActiveRun(k[1])
                /\ \A j \in Keys \ {k} : run'[j] = run[j]
  <2>1. CASE run'[k] = run[k]
    BY <1>1, <2>1
  <2>2. ASSUME NEW c \in Calls, Creates(c), k = Key(c)
        PROVE  /\ ~HasActiveRun(k[1])
               /\ \A j \in Keys \ {k} : run'[j] = run[j]
    BY <1>1, <2>2, KeyTyped
    DEF Creates, ActiveIndexAllows, CallInv, Working, OtherRuns
  <2>3. ASSUME NEW c \in Calls, Approves(c), k = Key(c)
        PROVE  run[k].status \in ActiveStatuses
    BY <2>3 DEF Approves, Pending, ActiveStatuses
  <2>4. ASSUME NEW c \in Calls, Succeeds(c) \/ Rejects(c), k = Key(c)
        PROVE  run'[k].status \notin ActiveStatuses
    BY <2>4 DEF Succeeds, Rejects, Settles, Decides, ActiveStatuses
  <2>5. ASSUME Finishes(k) PROVE run'[k].status \notin ActiveStatuses
    BY <2>5 DEF Finishes, Settles, ActiveStatuses
  <2> QED
    BY <1>1, <2>1, <2>2, <2>3, <2>4, <2>5, RunStep
<1> SUFFICES ASSUME NEW a \in Automations, NEW s \in Sources, NEW t \in Sources,
                    run'[<<a, s>>].status \in ActiveStatuses,
                    run'[<<a, t>>].status \in ActiveStatuses,
                    s # t
             PROVE  FALSE
  BY DEF OneActiveRun
<1>2. <<a, s>> \in Keys /\ <<a, t>> \in Keys /\ <<a, s>> # <<a, t>>
  BY DEF Keys
<1>3. ~HasActiveRun(a) => /\ run[<<a, s>>].status \notin ActiveStatuses
                          /\ run[<<a, t>>].status \notin ActiveStatuses
  BY DEF HasActiveRun
<1>4. <<a, s>>[1] = a /\ <<a, t>>[1] = a
  OBVIOUS
<1>5. run[<<a, s>>].status \in ActiveStatuses
  BY <1>1, <1>2, <1>3, <1>4
<1>6. run[<<a, t>>].status \in ActiveStatuses
  BY <1>1, <1>2, <1>3, <1>4
<1> QED
  BY <1>5, <1>6 DEF OneActiveRun

LEMMA InitCore ==
    ASSUME Init PROVE CoreInv
<1>1. TypeOK
  <2>1. NoRun \in RunRows
    BY DEF NoRun, NewRun, RunRows, Statuses
  <2>2. \A c \in Calls : NewCall(c) \in CallRows
    BY <2>1 DEF Init, NewCall, CallRows, Points, Sources
  <2> QED
    BY <2>1, <2>2, AutomationRunsAssumption DEF Init, TypeOK
<1>2. \A c \in Calls : call[c].pc = "ready" /\ ~call[c].emits
  BY DEF Init, NewCall
<1>3. \A k \in Keys : run[k] = NoRun /\ started[k] = NoPlan
  BY DEF Init
<1>4. CallInv /\ RowInv /\ ExistsInv /\ MatchInv
  BY <1>2, <1>3 DEF CallInv, RowInv, ExistsInv, MatchInv, Working, Wanting
<1>5. OneActiveRun
  BY <1>3, NoRunShape DEF OneActiveRun, Keys, ActiveStatuses
<1> QED
  BY <1>1, <1>4, <1>5 DEF CoreInv

LEMMA CoreStep ==
    ASSUME CoreInv, [Next]_vars PROVE CoreInv' /\ Effect
<1>1. Effect
  BY EveryStepHasItsEffect DEF CoreInv
<1>2. TypeOK'
  BY <1>1, TypeStep DEF CoreInv
<1> QED
  BY <1>1, <1>2, CallStep, RowStep, ExistsStep, MatchStep, ActiveStep
  DEF CoreInv

LEMMA Invariance == Spec => []CoreInv
<1>1. Init => CoreInv
  BY InitCore
<1>2. CoreInv /\ [Next]_vars => CoreInv'
  BY CoreStep
<1> QED
  BY <1>1, <1>2, PTL DEF Spec

(* Every variable has its type.                                            *)
THEOREM TypeCorrect == Spec => []TypeOK
<1>1. CoreInv => TypeOK
  BY DEF CoreInv
<1> QED
  BY <1>1, Invariance, PTL

(* However triggers and approvals interleave, and whatever the unique      *)
(* index and the checks before it see of each other, an automation has at  *)
(* most one run that waits or runs.                                        *)
THEOREM AtMostOneActiveRun == Spec => []OneActiveRun
<1>1. CoreInv => OneActiveRun
  BY DEF CoreInv
<1> QED
  BY <1>1, Invariance, PTL

(* An emission that is not ended by a conflict has given a run to every    *)
(* automation it is done with, by itself or by a duplicate of the event.   *)
THEOREM EveryMatchHasItsRun == Spec => []EachMatchHasItsRun
<1>1. CoreInv => EachMatchHasItsRun
  BY DEF CoreInv, MatchInv, EachMatchHasItsRun, At, Creating, Exists
<1> QED
  BY <1>1, Invariance, PTL

(***************************************************************************)
(* Nothing runs unapproved, where approvals are uniform                    *)
(***************************************************************************)
LEMMA ApprovalStep ==
    ASSUME CoreInv, ApprovalInv, Effect, TypeOK',
           \A c \in Calls :
             Finds(c) /\ call[c].want.status = "running" => ~Undecided(Key(c))
    PROVE  ApprovalInv'
<1>a. /\ TypeOK /\ CallInv /\ RowInv /\ ExistsInv
      /\ \A k \in Keys : Undecided(k) => started[k] = NoPlan
      /\ \A c \in Calls : call[c].pc = "execute" => ~Undecided(Key(c))
  BY DEF CoreInv, ApprovalInv, NothingRunsUnapproved, Undecided
<1>1. ASSUME NEW k \in Keys, Exists(k), ~Undecided(k) PROVE ~Undecided(k)'
  <2>1. ASSUME NEW c \in Calls, Creates(c), k = Key(c) PROVE FALSE
    BY <1>1, <2>1 DEF Creates
  <2>2. ASSUME NEW c \in Calls, Succeeds(c), k = Key(c)
        PROVE  run'[k].approval = run[k].approval
    BY <2>2 DEF Succeeds, Settles
  <2>3. ASSUME NEW c \in Calls, Approves(c) \/ Rejects(c), k = Key(c)
        PROVE  FALSE
    BY <1>1, <2>3 DEF Approves, Rejects, Pending, Undecided
  <2>4. ASSUME Finishes(k) PROVE run'[k].approval = run[k].approval
    BY <2>4 DEF Finishes, Settles
  <2> QED
    BY <1>1, <1>a, <2>1, <2>2, <2>3, <2>4, RunStep DEF Undecided
<1>2. ASSUME NEW c \in Calls, call'[c].pc = "execute" PROVE ~Undecided(Key(c))'
  <2>1. CASE call'[c] = call[c]
    <3>1. Key(c)' = Key(c) /\ Key(c) \in Keys
      BY <1>2, <1>a, <2>1, KeyTyped DEF Key, CallInv, Working
    <3> QED
      BY <1>1, <1>2, <1>a, <2>1, <3>1 DEF ExistsInv, Undecided
  <2>2. CASE Creates(c)
    <3>1. Key(c)' = Key(c) /\ run'[Key(c)] = call[c].want
          /\ call[c].want \in WantedRows /\ call[c].want.status = "running"
      BY <1>2, <1>a, <2>2, StaysKey DEF Creates, Proceeds, CallInv, Wanting
    <3> QED
      BY <3>1, WantedShape DEF Undecided
  <2>3. CASE Finds(c)
    BY <1>2, <2>3, StaysKey DEF Finds, Proceeds, RowsStay, Undecided
  <2>4. CASE Approves(c)
    BY <2>4, StaysKey DEF Approves, Decides, Undecided
  <2> QED
    BY <1>2, <2>1, <2>2, <2>3, <2>4, OwnStep
    DEF CallEffect, Enters, Emits, LooksUp, Reads, Ends, Freezes, Wants,
        Collides, Starts, Succeeds, Rejects
<1>3. ASSUME NEW k \in Keys, started'[k] # NoPlan PROVE ~Undecided(k)'
  <2>1. CASE started[k] # NoPlan
    BY <1>1, <1>a, <2>1 DEF RowInv
  <2>2. CASE started[k] = NoPlan
    <3>1. PICK c \in Calls : Starts(c) /\ k = Key(c)
      BY <1>3, <1>a, <2>2, StartStep
    <3> QED
      BY <1>a, <3>1 DEF Starts, Undecided
  <2> QED
    BY <2>1, <2>2
<1> QED
  BY <1>2, <1>3 DEF ApprovalInv, NothingRunsUnapproved, Undecided

LEMMA UniformStep ==
    ASSUME UniformApproval, CoreInv, UniformInv, Effect, TypeOK'
    PROVE  UniformInv'
<1>a. TypeOK /\ CallInv /\ RowInv
  BY DEF CoreInv
<1>1. ASSUME NEW a \in Automations
      PROVE  automation'[a].requiresApproval = automation[a].requiresApproval
  <2>1. ASSUME NEW c \in Calls, CallEffect(c) PROVE automation' = automation
    BY <2>1 DEF CallEffect, Enters, Emits, LooksUp, Reads, Ends, Freezes,
                Wants, Creates, Collides, Finds, Starts, Succeeds, Approves,
                Rejects, RowsStay
  <2> QED
    BY <2>1 DEF Effect, Finishes, IsEdited, Rests, RowsStay, UniformApproval
<1>2. ASSUME NEW c \in Calls, NEW a \in Automations
      PROVE  call'[c].snapshot[a].requiresApproval
               = automation'[a].requiresApproval
  <2>1. call'[c].snapshot = call[c].snapshot \/ call'[c].snapshot = automation
    BY OwnStep DEF CallEffect, Enters, Emits, LooksUp, Reads, Ends, Freezes,
                   Wants, Creates, Collides, Finds, Starts, Succeeds, Approves,
                   Rejects, Stays, Keeps
  <2> QED
    BY <1>1, <2>1 DEF UniformInv
<1>3. ASSUME NEW c \in Calls, call'[c].pc \in Wanting
      PROVE  /\ call'[c].want.status = "running"
                  => ~automation'[call'[c].current].requiresApproval
             /\ call'[c].want.approval # "none"
                  => automation'[call'[c].current].requiresApproval
  <2>a. call'[c].current \in Automations
    BY <1>3, <1>a, CallStep DEF CallInv, Wanting, Working
  <2> SUFFICES /\ call'[c].want.status = "running"
                    => ~automation[call'[c].current].requiresApproval
               /\ call'[c].want.approval # "none"
                    => automation[call'[c].current].requiresApproval
    BY <1>1, <2>a
  <2>1. CASE call'[c] = call[c]
    BY <1>3, <2>1 DEF UniformInv
  <2>2. CASE LooksUp(c)
    BY <1>3, <2>2 DEF LooksUp, NewRun, Wanting
  <2>3. CASE Wants(c)
    <3>1. /\ call'[c].current = call[c].current
          /\ call[c].snapshot[call[c].current].requiresApproval
               = automation[call[c].current].requiresApproval
      BY <2>3, <2>a DEF Wants, Stays, UniformInv
    <3> QED
      BY <2>3, <3>1 DEF Wants, Snapshot, NewRun
  <2>4. CASE Collides(c)
    BY <2>4 DEF Collides, Stays, UniformInv, Wanting
  <2> QED
    BY <1>3, <2>1, <2>2, <2>3, <2>4, OwnStep
    DEF Wanting, CallEffect, Enters, Emits, Reads, Ends, Freezes, Creates,
        Proceeds, Finds, Starts, Succeeds, Approves, Rejects
<1>4. ASSUME NEW k \in Keys, Undecided(k)'
      PROVE  automation'[k[1]].requiresApproval
  <2>a. k[1] \in Automations
    BY DEF Keys
  <2> SUFFICES automation[k[1]].requiresApproval
    BY <1>1, <2>a
  <2>1. CASE Undecided(k)
    BY <2>1 DEF UniformInv
  <2>2. CASE ~Undecided(k)
    <3>1. PICK c \in Calls : Creates(c) /\ k = Key(c)
      BY <1>4, <1>a, <2>2, RunStep
      DEF Succeeds, Approves, Rejects, Finishes, Settles, Decides, Pending,
          Undecided
    <3>2. /\ call[c].pc = "persist"
          /\ call[c].want.approval # "none"
          /\ k[1] = call[c].current
      BY <1>4, <1>a, <3>1, KeyTyped
      DEF Creates, Undecided, CallInv, Working
    <3> QED
      BY <3>2 DEF UniformInv, Wanting
  <2> QED
    BY <2>1, <2>2
<1> QED
  BY <1>2, <1>3, <1>4 DEF UniformInv

LEMMA UniformInvariance ==
    ASSUME UniformApproval PROVE Spec => []NothingRunsUnapproved
<1>1. Init => CoreInv /\ UniformInv /\ ApprovalInv
  <2> SUFFICES ASSUME Init PROVE UniformInv /\ ApprovalInv
    BY InitCore
  <2>1. \A c \in Calls : call[c].pc = "ready" /\ call[c].snapshot = automation
    BY DEF Init, NewCall
  <2>2. \A k \in Keys : run[k] = NoRun /\ started[k] = NoPlan
    BY DEF Init
  <2> QED
    BY <2>1, <2>2, NoRunShape
    DEF UniformInv, ApprovalInv, NothingRunsUnapproved, Undecided, Wanting
<1>2. CoreInv /\ UniformInv /\ ApprovalInv /\ [Next]_vars
        => CoreInv' /\ UniformInv' /\ ApprovalInv'
  <2> SUFFICES ASSUME CoreInv, UniformInv, ApprovalInv, [Next]_vars
               PROVE  CoreInv' /\ UniformInv' /\ ApprovalInv'
    OBVIOUS
  <2>1. CoreInv' /\ Effect /\ TypeOK'
    BY CoreStep DEF CoreInv
  <2>2. ASSUME NEW c \in Calls, Finds(c), call[c].want.status = "running"
        PROVE  ~Undecided(Key(c))
    <3>1. call[c].pc = "raced" /\ Key(c) \in Keys /\ Key(c)[1] = call[c].current
      BY <2>2, KeyTyped DEF Finds, CoreInv, CallInv, Working
    <3> QED
      BY <2>2, <3>1 DEF UniformInv, Wanting
  <2> QED
    BY <2>1, <2>2, UniformStep, ApprovalStep
<1>3. ApprovalInv => NothingRunsUnapproved
  BY DEF ApprovalInv
<1> QED
  BY <1>1, <1>2, <1>3, PTL DEF Spec

(***************************************************************************)
(* Runs keep RunLifecycle's promise                                        *)
(***************************************************************************)
(* A started run stays started; one that is running may only be finished.  *)
LEMMA UnderwayStays ==
    ASSUME CoreInv, LifecycleInv, Effect, NEW k \in Keys, Exists(k), Underway(k)
    PROVE  Underway(k)'
<1>a. TypeOK /\ CallInv
  BY DEF CoreInv
<1>1. started[k] # NoPlan => started'[k] # NoPlan
  BY StartStep DEF Starts
<1>2. CASE run'[k] = run[k]
  BY <1>1, <1>2 DEF Underway
<1>3. ASSUME NEW c \in Calls, Creates(c), k = Key(c) PROVE FALSE
  BY <1>3 DEF Creates
<1>4. ASSUME NEW c \in Calls, Succeeds(c), k = Key(c) PROVE FALSE
  BY <1>4 DEF Succeeds, LifecycleInv, Underway
<1>5. ASSUME NEW c \in Calls, Approves(c) \/ Rejects(c), k = Key(c)
      PROVE  FALSE
  BY <1>5 DEF Approves, Rejects, Pending, LifecycleInv, Underway
<1>6. ASSUME Finishes(k) PROVE Underway(k)'
  BY <1>1, <1>6 DEF Finishes, Settles, Underway
<1> QED
  BY <1>a, <1>2, <1>3, <1>4, <1>5, <1>6, RunStep

LEMMA LifecycleStep ==
    ASSUME CoreInv, LifecycleInv, Effect, TypeOK',
           \A c \in Calls :
             Finds(c) /\ call[c].want.status = "running" => Underway(Key(c))
    PROVE  LifecycleInv'
<1>a. TypeOK /\ CallInv /\ RowInv /\ ExistsInv
  BY DEF CoreInv
<1>1. ASSUME NEW c \in Calls, call'[c].pc = "execute" PROVE Underway(Key(c))'
  <2>1. CASE call'[c] = call[c]
    <3>1. Key(c)' = Key(c) /\ Key(c) \in Keys /\ call[c].pc = "execute"
      BY <1>1, <1>a, <2>1, KeyTyped DEF Key, CallInv, Working
    <3>2. Exists(Key(c)) /\ Underway(Key(c))
      BY <1>a, <3>1 DEF ExistsInv, LifecycleInv
    <3>3. \A k \in Keys : k = Key(c) => Underway(k)'
      BY <3>2, UnderwayStays
    <3> QED
      BY <3>1, <3>3 DEF Underway
  <2>2. CASE Creates(c)
    <3>1. /\ Key(c)' = Key(c) /\ run'[Key(c)] = call[c].want
          /\ call[c].want \in WantedRows /\ call[c].want.status = "running"
      BY <1>1, <1>a, <2>2, StaysKey DEF Creates, Proceeds, CallInv, Wanting
    <3>2. call[c].want.plan # NoPlan
      BY <3>1, WantedShape, AutomationRunsAssumption
    <3> QED
      BY <3>1, <3>2 DEF Underway
  <2>3. CASE Finds(c)
    BY <1>1, <2>3, StaysKey DEF Finds, Proceeds, RowsStay, Underway
  <2>4. CASE Approves(c)
    <3>1. /\ Key(c)' = Key(c) /\ Key(c) \in Keys
          /\ Pending(Key(c)) /\ Decides(Key(c), "approved", "running")
      BY <1>a, <2>4, StaysKey, KeyTyped DEF Approves, CallInv, Working
    <3> QED
      BY <3>1 DEF Decides, Pending, LifecycleInv, Underway
  <2> QED
    BY <1>1, <2>1, <2>2, <2>3, <2>4, OwnStep
    DEF CallEffect, Enters, Emits, LooksUp, Reads, Ends, Freezes, Wants,
        Collides, Starts, Succeeds, Rejects
<1>2. ASSUME NEW k \in Keys
      PROVE  /\ started'[k] # NoPlan =>
                  /\ started'[k] = run'[k].plan
                  /\ run'[k].status \in {"running", "succeeded", "failed"}
             /\ run'[k].approval = "pending" <=> run'[k].status = "waiting_approval"
             /\ run'[k].approval = "rejected" <=> run'[k].status = "cancelled"
             /\ run'[k].status = "waiting_approval" => run'[k].plan # NoPlan
  <2>a. /\ started[k] # NoPlan =>
             /\ started[k] = run[k].plan
             /\ run[k].status \in {"running", "succeeded", "failed"}
        /\ run[k].approval = "pending" <=> run[k].status = "waiting_approval"
        /\ run[k].approval = "rejected" <=> run[k].status = "cancelled"
        /\ run[k].status = "waiting_approval" => run[k].plan # NoPlan
        /\ started[k] # NoPlan => Exists(k)
    BY <1>a DEF LifecycleInv, RowInv
  <2>1. CASE started'[k] # started[k]
    <3>1. PICK c \in Calls : Starts(c) /\ k = Key(c)
      BY <2>1, StartStep
    <3>2. Underway(k) /\ run' = run /\ started'[k] = run[k].plan
      BY <3>1 DEF Starts, LifecycleInv
    <3>3. run[k].status = "running"
      BY <3>1, <3>2 DEF Starts, Underway
    <3> QED
      BY <2>a, <3>2, <3>3
  <2>2. CASE started'[k] = started[k]
    <3>1. CASE run'[k] = run[k]
      BY <2>2, <2>a, <3>1
    <3>2. ASSUME NEW c \in Calls, Creates(c), k = Key(c)
          PROVE  /\ started[k] = NoPlan
                 /\ run'[k].approval = "pending"
                      <=> run'[k].status = "waiting_approval"
                 /\ run'[k].approval = "rejected"
                      <=> run'[k].status = "cancelled"
                 /\ run'[k].status = "waiting_approval"
                      => run'[k].plan # NoPlan
      BY <1>a, <2>a, <3>2, WantedShape, AutomationRunsAssumption
      DEF Creates, CallInv, Wanting
    <3>3. ASSUME NEW c \in Calls, Succeeds(c), k = Key(c) PROVE FALSE
      BY <3>3 DEF Succeeds, LifecycleInv, Underway
    <3>4. ASSUME NEW c \in Calls, Approves(c), k = Key(c)
          PROVE  /\ started[k] = NoPlan
                 /\ run'[k].approval = "approved"
                 /\ run'[k].status = "running"
      BY <2>a, <3>4 DEF Approves, Pending, Decides
    <3>5. ASSUME NEW c \in Calls, Rejects(c), k = Key(c)
          PROVE  /\ started[k] = NoPlan
                 /\ run'[k].approval = "rejected"
                 /\ run'[k].status = "cancelled"
      BY <2>a, <3>5 DEF Rejects, Pending, Decides
    <3>6. ASSUME Finishes(k)
          PROVE  /\ run'[k].status \in {"succeeded", "failed"}
                 /\ run'[k].approval \notin {"pending", "rejected"}
                 /\ run'[k].plan = run[k].plan
      BY <2>a, <3>6 DEF Finishes, Settles
    <3>7. CASE Finishes(k)
      BY <2>2, <2>a, <3>6, <3>7
    <3>8. CASE \E c \in Calls : Creates(c) /\ k = Key(c)
      BY <2>2, <3>2, <3>8
    <3> QED
      BY <1>a, <2>2, <3>1, <3>3, <3>4, <3>5, <3>7, <3>8, RunStep
  <2> QED
    BY <2>1, <2>2
<1> QED
  BY <1>1, <1>2 DEF LifecycleInv

LEMMA LifecycleInvApproves == LifecycleInv => NothingRunsUnapproved
  BY DEF LifecycleInv, NothingRunsUnapproved

LEMMA InitLifecycle ==
    ASSUME Init PROVE LifecycleInv
<1>1. \A k \in Keys : run[k] = NoRun /\ started[k] = NoPlan
  BY DEF Init
<1>2. \A c \in Calls : call[c].pc = "ready"
  BY DEF Init, NewCall
<1> QED
  BY <1>1, <1>2, NoRunShape DEF LifecycleInv

(* Each step is a step of the abstract run of each key, or leaves it alone.*)
KeepsLifecycle ==
    \A k \in Keys :
        \/ Lifecycle(k)!Next
        \/ UNCHANGED <<run[k].status, run[k].approval, run[k].plan, started[k]>>

LEMMA LifecycleSimulation ==
    ASSUME CoreInv, LifecycleInv, Effect PROVE KeepsLifecycle
<1> SUFFICES ASSUME NEW k \in Keys
             PROVE  \/ Lifecycle(k)!Next
                    \/ UNCHANGED <<run[k].status, run[k].approval, run[k].plan,
                                  started[k]>>
  BY DEF KeepsLifecycle
<1>a. TypeOK /\ CallInv /\ RowInv /\ ExistsInv
  BY DEF CoreInv
<1>1. CASE run'[k] = run[k] /\ started'[k] = started[k]
  BY <1>1
<1>2. CASE started'[k] # started[k]
  <2>1. PICK c \in Calls : Starts(c) /\ k = Key(c)
    BY <1>2, StartStep
  <2>2. /\ run[k].status = "running"
        /\ started[k] = NoPlan
        /\ started'[k] = run[k].plan
        /\ run' = run
    BY <2>1 DEF Starts, LifecycleInv, Underway
  <2> QED
    BY <2>2 DEF Lifecycle!Next, Lifecycle!Start
<1>3. ASSUME NEW c \in Calls, Creates(c), k = Key(c), started'[k] = started[k]
      PROVE  Lifecycle(k)!Next
  <2>1. /\ run[k].status = "none"
        /\ run'[k] \in WantedRows
    BY <1>3, <1>a, NoRunShape DEF Creates, Exists, CallInv, Wanting
  <2>2. PICK p \in Plans \cup {NoPlan} :
          \/ run'[k] = NewRun("skipped", "none", p)
          \/ run'[k] = NewRun("failed", "none", NoPlan)
          \/ p \in Plans /\ run'[k] = NewRun("waiting_approval", "pending", p)
          \/ p \in Plans /\ run'[k] = NewRun("running", "none", p)
    BY <2>1 DEF WantedRows
  <2> QED
    BY <1>3, <2>1, <2>2
    DEF NewRun, Lifecycle!Next, Lifecycle!Skip, Lifecycle!RefusePlan,
        Lifecycle!Submit, Lifecycle!Begin, Lifecycle!Create
<1>4. ASSUME NEW c \in Calls, Succeeds(c), k = Key(c) PROVE FALSE
  BY <1>4 DEF Succeeds, LifecycleInv, Underway
<1>5. ASSUME NEW c \in Calls, Approves(c) \/ Rejects(c), k = Key(c),
             started'[k] = started[k]
      PROVE  Lifecycle(k)!Next
  BY <1>5 DEF Approves, Rejects, Pending, Decides, Lifecycle!Next,
              Lifecycle!Approve, Lifecycle!Cancel, Lifecycle!Decide
<1>6. ASSUME Finishes(k), started'[k] = started[k] PROVE Lifecycle(k)!Next
  <2>1. run[k].status = "running"
    BY <1>6 DEF Finishes, LifecycleInv
  <2> QED
    BY <1>6, <2>1 DEF Finishes, Settles, Lifecycle!Next, Lifecycle!Settle
<1> QED
  BY <1>a, <1>1, <1>2, <1>3, <1>4, <1>5, <1>6, RunStep

(* Without shared sources, a call that wants to create a run is the only   *)
(* one that can: it never finds a row it did not create.                   *)
LEMMA AbsentStays ==
    ASSUME CoreInv, Effect, NEW k \in Keys, ~Exists(k)
    PROVE  ~Exists(k)' \/ \E c \in Calls : Creates(c) /\ k = Key(c)
<1>a. TypeOK /\ CallInv /\ RowInv /\ ExistsInv
  BY DEF CoreInv
<1>1. ASSUME NEW c \in Calls, Succeeds(c) \/ Approves(c) \/ Rejects(c),
             k = Key(c)
      PROVE  FALSE
  BY <1>1, <1>a DEF Succeeds, Approves, Rejects, ExistsInv
<1>2. ~Finishes(k)
  BY <1>a DEF Finishes, RowInv
<1> QED
  BY <1>a, <1>1, <1>2, RunStep DEF Exists

LEMMA OwnSourcesStep ==
    ASSUME NoSharedSources, CoreInv, OwnInv, Effect, TypeOK' PROVE OwnInv'
<1>a. TypeOK /\ CallInv
  BY DEF CoreInv
<1> SUFFICES ASSUME NEW c \in Calls
             PROVE  /\ call'[c].pc # "match"
                    /\ call'[c].pc \notin {"next", "aborted", "lost"}
                         => call'[c].left = {}
                    /\ call'[c].pc = "ready" =>
                         \A a \in Automations : run'[<<a, c>>] = NoRun
                    /\ call'[c].pc = "next" /\ call'[c].left # {} =>
                         /\ call'[c].source = c
                         /\ \E a \in Automations : call'[c].left = {a}
                         /\ \A a \in Automations : run'[<<a, c>>] = NoRun
                    /\ call'[c].pc \in Creating =>
                         /\ call'[c].source = c
                         /\ \A a \in Automations : run'[<<a, c>>] = NoRun
  BY DEF OwnInv, Exists
<1>b. /\ call[c].pc # "match"
      /\ call[c].pc \notin {"next", "aborted", "lost"} => call[c].left = {}
      /\ call[c].pc = "ready" => \A a \in Automations : ~Exists(<<a, c>>)
      /\ call[c].pc = "next" /\ call[c].left # {} =>
           /\ call[c].source = c
           /\ \E a \in Automations : call[c].left = {a}
           /\ \A a \in Automations : ~Exists(<<a, c>>)
      /\ call[c].pc \in Creating =>
           /\ call[c].source = c
           /\ \A a \in Automations : ~Exists(<<a, c>>)
  BY DEF OwnInv
<1>c. ASSUME ~Creates(c), NEW a \in Automations, ~Exists(<<a, c>>)
      PROVE  run'[<<a, c>>] = NoRun
  <2>1. <<a, c>> \in Keys /\ <<a, c>>[2] = c
    BY DEF Keys, Sources
  <2>2. ASSUME NEW d \in Calls, Creates(d), <<a, c>> = Key(d) PROVE FALSE
    <3>1. call[d].pc = "persist" /\ call[d].source = d
      BY <2>2 DEF Creates, OwnInv, Creating
    <3>2. call[d].source = c
      BY <2>1, <2>2, <3>1, <1>a, KeyTyped DEF CallInv, Working
    <3> QED
      BY <1>c, <2>2, <3>1, <3>2
  <2> QED
    BY <1>c, <2>1, <2>2, AbsentStays DEF Exists
<1> USE DEF Creating
<1>1. CASE call'[c] = call[c]
  <2>1. ~Creates(c)
    BY <1>1 DEF Creates, Proceeds
  <2> QED
    BY <1>1, <1>b, <1>c, <2>1
<1>2. CASE Enters(c)
  <2>1. call[c].pc = "ready" /\ ~Creates(c)
    BY <1>2, <1>b DEF Enters, Creates
  <2> QED
    BY <1>2, <1>b, <1>c, <2>1 DEF Enters, NoSharedSources
<1>3. CASE Emits(c)
  BY <1>3 DEF Emits, NoSharedSources
<1>4. CASE LooksUp(c)
  <2>1. ~Creates(c) /\ call'[c].left = {} /\ call[c].left # {}
    BY <1>4, <1>b DEF LooksUp, Creates
  <2> QED
    BY <1>4, <1>b, <1>c, <2>1 DEF LooksUp
<1>5. CASE Reads(c) \/ Ends(c) \/ Starts(c) \/ Succeeds(c) \/ Approves(c)
           \/ Rejects(c)
  BY <1>5, <1>b DEF Reads, Ends, Starts, Succeeds, Approves, Rejects, Stays
<1>6. CASE Freezes(c) \/ Wants(c) \/ Collides(c)
  <2>1. ~Creates(c)
    BY <1>6 DEF Freezes, Wants, Collides, Creates, Proceeds
  <2> QED
    BY <1>6, <1>b, <1>c, <2>1 DEF Freezes, Wants, Collides, Stays
<1>7. CASE Creates(c) \/ Finds(c)
  BY <1>7, <1>b DEF Creates, Finds, Proceeds, Stays
<1> QED
  BY <1>1, <1>2, <1>3, <1>4, <1>5, <1>6, <1>7, OwnStep DEF CallEffect

LEMMA NothingFound ==
    ASSUME CoreInv, OwnInv, NEW c \in Calls PROVE ~Finds(c)
<1>1. ASSUME call[c].pc = "raced" PROVE ~Exists(Key(c))
  <2>1. call[c].source = c /\ \A a \in Automations : ~Exists(<<a, c>>)
    BY <1>1 DEF OwnInv, Creating
  <2>2. call[c].current \in Automations /\ Key(c) = <<call[c].current, c>>
    BY <1>1, <2>1, KeyTyped DEF CoreInv, CallInv, Working
  <2> QED
    BY <2>1, <2>2
<1> QED
  BY <1>1 DEF Finds

(* Without edits, two calls with the same key want the same row.           *)
LEMMA NothingEdited ==
    ASSUME NoEdits, TypeOK, Effect
    PROVE  /\ UNCHANGED <<automation, passes>>
           /\ \A s \in Sources : Stored(s) =>
                /\ Stored(s)'
                /\ s \in Events => event'[s] = event[s]
<1>1. ASSUME NEW c \in Calls, CallEffect(c)
      PROVE  /\ UNCHANGED <<automation, passes>>
             /\ UNCHANGED event
                \/ \A e \in Events : event[e] # "none" => event'[e] = event[e]
  BY <1>1 DEF CallEffect, Enters, Emits, LooksUp, Reads, Ends, Freezes,
              Wants, Creates, Collides, Finds, Starts, Succeeds, Approves,
              Rejects, RowsStay
<1>2. /\ UNCHANGED <<automation, passes>>
      /\ UNCHANGED event
         \/ \A e \in Events : event[e] # "none" => event'[e] = event[e]
  BY <1>1 DEF Effect, Finishes, IsEdited, Rests, RowsStay, NoEdits
<1> QED
  BY <1>2 DEF Stored

LEMMA WantedStays ==
    ASSUME NoEdits, TypeOK, Effect, NEW k \in Keys, Stored(k[2])
    PROVE  Wanted(k)' = Wanted(k) /\ Stored(k[2])'
<1>1. k[2] \in Sources
  BY DEF Keys
<1>2. /\ UNCHANGED <<automation, passes>>
      /\ Stored(k[2])'
      /\ k[2] \in Events => event'[k[2]] = event[k[2]]
  BY <1>1, NothingEdited
<1> QED
  BY <1>2 DEF Wanted

LEMMA SameStep ==
    ASSUME NoEdits, CoreInv, SameInv, LifecycleInv, Effect, TypeOK'
    PROVE  SameInv'
<1>a. TypeOK /\ CallInv /\ RowInv
  BY DEF CoreInv
<1>b. /\ UNCHANGED <<automation, passes>>
      /\ \A s \in Sources : Stored(s) =>
           /\ Stored(s)'
           /\ s \in Events => event'[s] = event[s]
  BY <1>a, NothingEdited
<1>1. ASSUME NEW k \in Keys, run'[k] # NoRun
      PROVE  /\ Stored(k[2])'
             /\ Wanted(k)'.status = "running" => Underway(k)'
  <2>1. CASE Exists(k)
    <3>1. Stored(k[2]) /\ (Wanted(k).status = "running" => Underway(k))
      BY <2>1 DEF SameInv
    <3> QED
      BY <1>a, <2>1, <3>1, WantedStays, UnderwayStays
  <2>2. CASE ~Exists(k)
    <3>1. PICK c \in Calls : Creates(c) /\ k = Key(c)
      BY <1>1, <2>2, AbsentStays DEF Exists
    <3>2. /\ call[c].pc = "persist"
          /\ k[2] = call[c].source
          /\ call[c].want = Wanted(k)
          /\ call[c].want \in WantedRows
          /\ Stored(k[2])
          /\ run'[k] = Wanted(k)
      BY <3>1, <1>a, KeyTyped
      DEF Creates, SameInv, Wanting, Creating, CallInv, Working
    <3>3. Wanted(k)' = Wanted(k) /\ Stored(k[2])'
      BY <1>a, <3>2, WantedStays
    <3>4. Wanted(k).status = "running" => Wanted(k).plan # NoPlan
      BY <3>2, WantedShape, AutomationRunsAssumption
    <3>5. run'[k].status = "running" /\ run'[k].plan # NoPlan => Underway(k)'
      BY DEF Underway
    <3> QED
      BY <3>2, <3>3, <3>4, <3>5
  <2> QED
    BY <2>1, <2>2
<1>2. ASSUME NEW c \in Calls
      PROVE  /\ call'[c].snapshot = automation'
             /\ call'[c].pc = "ready" => call'[c].left = {}
             /\ call'[c].left # {} => Stored(call[c].source)'
             /\ call'[c].pc \in Creating \cup {"match"}
                  => Stored(call[c].source)'
             /\ call'[c].pc \in {"active", "decide"}
                  => automation'[call'[c].current].enabled
             /\ call'[c].pc = "decide" => Resolves(c)'
             /\ call'[c].pc \in Wanting => call'[c].want = Wanted(Key(c))'
  <2>a. /\ call[c].snapshot = automation
        /\ call[c].pc = "ready" => call[c].left = {}
        /\ call[c].left # {} => Stored(call[c].source)
        /\ call[c].pc \in Creating \cup {"match"} => Stored(call[c].source)
        /\ call[c].pc \in {"active", "decide"}
             => automation[call[c].current].enabled
        /\ call[c].pc = "decide" => Resolves(c)
        /\ call[c].pc \in Wanting => call[c].want = Wanted(Key(c))
        /\ call[c].source \in Sources
        /\ call[c].pc \in Working => /\ Key(c) \in Keys
                                     /\ Key(c)[1] = call[c].current
                                     /\ Key(c)[2] = call[c].source
    BY <1>a, CallTyped, KeyTyped DEF SameInv, CallInv
  <2>b. Stored(call[c].source)
          => \A s \in {call[c].source} :
               /\ Stored(s)'
               /\ s \in Events => event'[s] = event[s]
    BY <1>b, <2>a
  <2>c. call'[c].source = call[c].source /\ Stored(call[c].source)
          => /\ Stored(call[c].source)'
             /\ call[c].source \in Events
                  => event'[call'[c].source] = event[call[c].source]
    BY <2>b DEF Stored
  <2>d. ASSUME Stays(c), Stored(call[c].source), call[c].pc \in Working
        PROVE  Wanted(Key(c))' = Wanted(Key(c))
    <3>1. Key(c)' = Key(c)
      BY <2>d, StaysKey
    <3> QED
      BY <1>b, <2>a, <2>c, <2>d, <3>1 DEF Wanted, Stays
  <2> USE DEF Creating, Wanting, Working
  <2>1. CASE call'[c] = call[c]
    <3>1. call[c].pc = "decide" => Resolves(c)'
      BY <1>b, <2>1, <2>a, <2>c DEF Resolves, Snapshot
    <3>2. call[c].pc \in Wanting => call[c].want = Wanted(Key(c))'
      BY <2>1, <2>a, <2>d DEF Stays, Keeps
    <3> QED
      BY <1>b, <2>1, <2>a, <2>c, <3>1, <3>2
  <2>2. CASE Enters(c)
    <3>1. Stored(call[c].source)'
      <4>1. CASE call[c].pc = "ready"
        BY <2>2, <4>1, AutomationRunsAssumption DEF Enters, Stored
      <4>2. CASE call[c].pc = "match"
        BY <2>2, <2>a, <2>c, <4>2 DEF Enters
      <4> QED
        BY <2>2, <4>1, <4>2 DEF Enters
    <3> QED
      BY <1>b, <2>2, <3>1 DEF Enters
  <2>3. CASE Emits(c)
    BY <1>b, <2>3, <2>a DEF Emits, Keeps, Stored
  <2>4. CASE LooksUp(c)
    <3>1. Stored(call[c].source)'
      BY <2>4, <2>a, <2>c DEF LooksUp
    <3>2. /\ call'[c].current \in Automations
          /\ Key(c)'[1] = call'[c].current
      BY <1>a, <2>4, CallTyped, KeyTypedNext DEF LooksUp
    <3>3. ~automation[call'[c].current].enabled
            => Wanted(Key(c))' = NewRun("skipped", "none", NoPlan)
      BY <1>b, <3>2 DEF Wanted
    <3> QED
      BY <1>b, <2>4, <2>a, <3>1, <3>3 DEF LooksUp, Keeps
  <2>5. CASE Reads(c)
    BY <1>b, <2>5, <2>a DEF Reads, Keeps
  <2>6. CASE Freezes(c)
    <3>1. Resolves(c)'
      BY <1>b, <2>6, <2>a, <2>c
      DEF Freezes, Stays, Keeps, Resolves, Snapshot
    <3> QED
      BY <1>b, <2>6, <2>a, <2>c, <3>1 DEF Freezes, Stays, Keeps
  <2>7. CASE Wants(c)
    <3>1. /\ automation[call[c].current].enabled
          /\ Snapshot(c) = automation[call[c].current]
          /\ call[c].pc = "decide" => Resolves(c)
      BY <2>7, <2>a DEF Wants, Snapshot
    <3>2. call'[c].want = Wanted(Key(c))
      BY <2>7, <2>a, <3>1 DEF Wants, Wanted, Resolves
    <3>3. Wanted(Key(c))' = Wanted(Key(c))
      BY <2>7, <2>a, <2>d DEF Wants
    <3> QED
      BY <1>b, <2>7, <2>a, <2>c, <3>2, <3>3 DEF Wants, Stays, Keeps
  <2>8. CASE Collides(c)
    <3>1. Wanted(Key(c))' = Wanted(Key(c))
      BY <2>8, <2>a, <2>d DEF Collides
    <3> QED
      BY <1>b, <2>8, <2>a, <2>c, <3>1 DEF Collides, Stays, Keeps
  <2>9. CASE Ends(c) \/ Creates(c) \/ Finds(c) \/ Starts(c) \/ Succeeds(c)
             \/ Approves(c) \/ Rejects(c)
    <3>1. /\ Stays(c)
          /\ call'[c].pc \in {"aborted", "lost", "next", "execute"}
      BY <2>9 DEF Ends, Creates, Finds, Proceeds, Starts, Succeeds, Approves,
                  Rejects
    <3> QED
      BY <1>b, <2>a, <2>c, <3>1 DEF Stays, Keeps
  <2> QED
    BY <2>1, <2>2, <2>3, <2>4, <2>5, <2>6, <2>7, <2>8, <2>9, OwnStep
    DEF CallEffect
<1> QED
  BY <1>1, <1>2 DEF SameInv, Exists

LEMMA FoundUnderway ==
    ASSUME CoreInv, SameInv, NEW c \in Calls, Finds(c),
           call[c].want.status = "running"
    PROVE  Underway(Key(c))
<1>1. call[c].pc = "raced" /\ Key(c) \in Keys /\ Exists(Key(c))
  BY KeyTyped DEF Finds, CoreInv, CallInv, Working
<1> QED
  BY <1>1 DEF SameInv, Wanting

LEMMA OwnSourcesInvariance ==
    ASSUME NoSharedSources
    PROVE  Spec => [](CoreInv /\ OwnInv /\ LifecycleInv)
<1>1. Init => CoreInv /\ OwnInv /\ LifecycleInv
  <2> SUFFICES ASSUME Init PROVE OwnInv
    BY InitCore, InitLifecycle
  <2>1. \A c \in Calls : call[c].pc = "ready" /\ call[c].left = {}
    BY DEF Init, NewCall
  <2>2. \A c \in Calls, a \in Automations : ~Exists(<<a, c>>)
    BY DEF Init, Keys, Sources, Exists
  <2> QED
    BY <2>1, <2>2 DEF OwnInv, Creating
<1>2. CoreInv /\ OwnInv /\ LifecycleInv /\ [Next]_vars
        => CoreInv' /\ OwnInv' /\ LifecycleInv'
  <2> SUFFICES ASSUME CoreInv, OwnInv, LifecycleInv, [Next]_vars
               PROVE  CoreInv' /\ OwnInv' /\ LifecycleInv'
    OBVIOUS
  <2>1. CoreInv' /\ Effect /\ TypeOK'
    BY CoreStep DEF CoreInv
  <2> QED
    BY <2>1, OwnSourcesStep, NothingFound, LifecycleStep
<1> QED
  BY <1>1, <1>2, PTL DEF Spec

LEMMA NoEditsInvariance ==
    ASSUME NoEdits
    PROVE  Spec => [](CoreInv /\ SameInv /\ LifecycleInv)
<1>1. Init => CoreInv /\ SameInv /\ LifecycleInv
  <2> SUFFICES ASSUME Init PROVE SameInv
    BY InitCore, InitLifecycle
  <2>1. \A c \in Calls : /\ call[c].pc = "ready" /\ call[c].left = {}
                         /\ call[c].snapshot = automation
    BY DEF Init, NewCall
  <2>2. \A k \in Keys : ~Exists(k)
    BY DEF Init, Exists
  <2> QED
    BY <2>1, <2>2 DEF SameInv, Creating, Wanting
<1>2. CoreInv /\ SameInv /\ LifecycleInv /\ [Next]_vars
        => CoreInv' /\ SameInv' /\ LifecycleInv'
  <2> SUFFICES ASSUME CoreInv, SameInv, LifecycleInv, [Next]_vars
               PROVE  CoreInv' /\ SameInv' /\ LifecycleInv'
    OBVIOUS
  <2>1. CoreInv' /\ Effect /\ TypeOK'
    BY CoreStep DEF CoreInv
  <2> QED
    BY <2>1, SameStep, FoundUnderway, LifecycleStep
<1> QED
  BY <1>1, <1>2, PTL DEF Spec

LEMMA LifecycleInvariance ==
    ASSUME NoSharedSources \/ NoEdits
    PROVE  Spec => [](CoreInv /\ LifecycleInv)
<1>1. CASE NoSharedSources
  BY <1>1, OwnSourcesInvariance, PTL
<1>2. CASE NoEdits
  BY <1>2, NoEditsInvariance, PTL
<1> QED
  BY <1>1, <1>2

(* A run that waits for its approval, or was refused it, has no step:      *)
(* where no edit concerns the need of an approval, whatever else is edited *)
(* and however often an event is emitted; and under every edit, where no   *)
(* two calls have a run in common.  (The run automation_unapproved shows   *)
(* that one of the two is needed.)                                         *)
THEOREM NothingUnapprovedRuns ==
    ASSUME UniformApproval \/ NoSharedSources
    PROVE  Spec => []NothingRunsUnapproved
<1>1. CASE UniformApproval
  BY <1>1, UniformInvariance
<1>2. CASE NoSharedSources
  <2>1. LifecycleInv => NothingRunsUnapproved
    BY LifecycleInvApproves
  <2> QED
    BY <1>2, <2>1, LifecycleInvariance, PTL
<1> QED
  BY <1>1, <1>2

(* Every run keeps RunLifecycle's promise: with any duplicates of events   *)
(* and occurrences as long as nothing is edited, with any edits as long as *)
(* no two calls have a run in common.                                      *)
THEOREM RunsKeepLifecycle ==
    ASSUME NoSharedSources \/ NoEdits PROVE Spec => ImplementsLifecycle
<1>1. Init => \A k \in Keys : Lifecycle(k)!Init
  BY NoRunShape DEF Init, Lifecycle!Init
<1>2. CoreInv /\ LifecycleInv /\ [Next]_vars => KeepsLifecycle
  BY CoreStep, LifecycleSimulation
<1>3. CoreInv /\ LifecycleInv /\ [Next]_vars
        => [ \A k \in Keys :
              \/ Lifecycle(k)!Next
              \/ UNCHANGED <<run[k].status, run[k].approval, run[k].plan,
                            started[k]>> ]_vars
  BY <1>2 DEF KeepsLifecycle
<1> QED
  BY <1>1, <1>3, LifecycleInvariance, PTL DEF Spec, ImplementsLifecycle
=============================================================================
