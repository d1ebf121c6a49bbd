---------------------------- MODULE PlatformProofs ----------------------------
(***************************************************************************)
(* Proofs about the components around the audits: the reports of an action *)
(* (ActionExecution), an audit's opportunities (AuditOpportunities), the   *)
(* crawl of the site (Crawler), the subscription (Billing), the password   *)
(* resets (PasswordReset) and the actions of the automations (OpsActions), *)
(* each over variables of its own, for any number of requests, keys,       *)
(* rules, pages, subscriptions and tokens; and about the Meta findings of  *)
(* any number of posts (MetaFindings).                                     *)
(***************************************************************************)
EXTENDS Services, Sequences, FiniteSetTheorems, TLAPS

(* Each instance names the operator of its own FiniteSets.                 *)
LEMMA SameCardinality ==
    \A S : /\ Execution!Cardinality(S) = Cardinality(S)
           /\ Audits!Cardinality(S) = Cardinality(S)
           /\ Crawl!Cardinality(S) = Cardinality(S)
           /\ Password!Cardinality(S) = Cardinality(S)
BY DEF Execution!Cardinality, Audits!Cardinality, Crawl!Cardinality,
       Password!Cardinality, Cardinality

(***************************************************************************)
(* The execution reports of an action                                      *)
(***************************************************************************)
KeysAssumption == IsFiniteSet(Keys)

(* A report under way has its key and its outcome.                         *)
Reports ==
    {r \in Execution!CallStates :
       r.pc \in {"report", "record"} =>
         r.key \in Keys /\ r.outcome \in Execution!Outcomes}

ExecutionType ==
    /\ Execution!TypeOK
    /\ reporting \in [Calls -> Reports]
    /\ "none" \notin Execution!Outcomes

(* What is reported, or about to be, was approved once.                    *)
ExecutionInv ==
    /\ Execution!ReportsCountOnce
    /\ item.approval = "approved" => "approved" \in events
    /\ \A c \in Calls :
         reporting[c].pc \in {"report", "record"} => "approved" \in events

LEMMA ReportedIsCounted ==
    ASSUME KeysAssumption
    PROVE  /\ IsFiniteSet(Execution!Reported)
           /\ Cardinality(Execution!Reported) \in 0..Cardinality(Keys)
<1>1. Execution!Reported \in SUBSET Keys
  BY DEF Execution!Reported
<1>2. /\ IsFiniteSet(Execution!Reported)
      /\ Cardinality(Execution!Reported) <= Cardinality(Keys)
  BY <1>1, FS_Subset DEF KeysAssumption
<1>3. Cardinality(Execution!Reported) \in Nat /\ Cardinality(Keys) \in Nat
  BY <1>2, FS_CardinalityType DEF KeysAssumption
<1> QED
  BY <1>2, <1>3

LEMMA ExecutionInit ==
    ASSUME KeysAssumption, Execution!Init PROVE ExecutionType /\ ExecutionInv
<1>1. Cardinality(Keys) \in Nat
  BY FS_CardinalityType DEF KeysAssumption
<1>2. Execution!Idle \in Reports
  BY DEF Execution!Idle, Execution!CallStates, Execution!Points, Reports
<1>3. reporting \in [Calls -> Reports] /\ item \in Execution!Items
  BY <1>1, <1>2, SameCardinality DEF Execution!Init, Execution!Items
<1>4. reporting \in [Calls -> Execution!CallStates]
  BY <1>3 DEF Reports
<1>5. ExecutionType
  BY <1>3, <1>4
  DEF Execution!Init, Execution!TypeOK, Execution!Outcomes, ExecutionType
<1>6. Execution!Reported = {}
  BY DEF Execution!Init, Execution!Reported
<1>7. item.attemptCount = Execution!Cardinality(Execution!Reported)
  BY <1>6, FS_EmptySet, SameCardinality DEF Execution!Init
<1> QED
  BY <1>5, <1>6, <1>7
  DEF Execution!Init, Execution!Idle, Execution!ReportsCountOnce,
      Execution!Outcomes, ExecutionInv

LEMMA ExecutionStep ==
    ASSUME KeysAssumption, ExecutionType, ExecutionInv,
           [Execution!Next]_(Execution!vars)
    PROVE  ExecutionType' /\ ExecutionInv'
<1>a. /\ item \in Execution!Items
      /\ events \subseteq Execution!EventTypes
      /\ reports \in [Keys -> Execution!Outcomes \cup {"none"}]
      /\ reporting \in [Calls -> Reports]
      /\ Cardinality(Keys) \in Nat
  BY FS_CardinalityType DEF ExecutionType, Execution!TypeOK, KeysAssumption
<1>b. /\ item.attemptCount = Cardinality(Execution!Reported)
      /\ Execution!Reported # {} => "approved" \in events
      /\ item.execution \in Execution!Outcomes =>
           \E k \in Execution!Reported : reports[k] = item.execution
      /\ item.approval = "approved" => "approved" \in events
      /\ \A c \in Calls :
           reporting[c].pc \in {"report", "record"} => "approved" \in events
  BY SameCardinality DEF ExecutionInv, Execution!ReportsCountOnce
<1>c. /\ item.attemptCount \in 0..Cardinality(Keys)
      /\ \A c \in Calls : reporting[c] \in Reports
  BY <1>a, SameCardinality DEF Execution!Items
(* What is left to show when no report is recorded.                        *)
<1>d. ASSUME item' \in Execution!Items, events' \subseteq Execution!EventTypes,
             reporting' \in [Calls -> Reports], UNCHANGED reports,
             events \subseteq events',
             item'.attemptCount = item.attemptCount,
             item'.execution \in {item.execution, "ready", "not_started"},
             item'.approval = "approved" => "approved" \in events',
             \A c \in Calls :
               reporting'[c].pc \in {"report", "record"}
                 => "approved" \in events'
      PROVE  ExecutionType' /\ ExecutionInv'
  <2>1. Execution!Reported' = Execution!Reported
    BY <1>d DEF Execution!Reported
  <2>2. reporting' \in [Calls -> Execution!CallStates]
    BY <1>d DEF Reports
  <2>3. item'.execution \in Execution!Outcomes =>
          item'.execution = item.execution
    BY <1>d DEF Execution!Outcomes
  <2>4. Execution!ReportsCountOnce'
    BY <1>b, <1>d, <2>1, <2>3, SameCardinality
    DEF Execution!ReportsCountOnce
  <2> QED
    BY <1>a, <1>d, <2>2, <2>4
    DEF ExecutionType, Execution!TypeOK, ExecutionInv
<1>e. ASSUME NEW c \in Calls, Execution!Leave(c)
      PROVE  /\ reporting' \in [Calls -> Reports]
             /\ \A v \in Calls : reporting'[v].pc \in {"report", "record"} =>
                  reporting[v].pc \in {"report", "record"}
  <2>1. Execution!Idle \in Reports
    BY DEF Execution!Idle, Execution!CallStates, Execution!Points, Reports
  <2>2. /\ reporting'[c].pc = "idle"
        /\ \A v \in Calls : v # c => reporting'[v] = reporting[v]
    BY <1>a, <1>e DEF Execution!Leave, Execution!Idle
  <2> QED
    BY <1>a, <1>e, <2>1, <2>2 DEF Execution!Leave
<1>1. CASE UNCHANGED Execution!vars
  BY <1>1, <1>a, <1>b, <1>d DEF Execution!vars
<1>2. ASSUME NEW c \in Calls, NEW op \in {"submit", "approve", "reject"},
             Execution!Begin(c, op)
      PROVE  ExecutionType' /\ ExecutionInv'
  <2>1. [reporting[c] EXCEPT !.pc = op] \in Reports
    BY <1>c DEF Reports, Execution!CallStates, Execution!Points
  <2>2. /\ reporting' \in [Calls -> Reports]
        /\ reporting'[c] = [reporting[c] EXCEPT !.pc = op]
        /\ \A v \in Calls : v # c => reporting'[v] = reporting[v]
    BY <1>2, <1>a, <2>1 DEF Execution!Begin
  <2>3. reporting'[c].pc = op
    BY <1>c, <2>2 DEF Reports, Execution!CallStates
  <2> QED
    BY <1>2, <1>a, <1>b, <1>d, <2>2, <2>3 DEF Execution!Begin
<1>3. ASSUME NEW c \in Calls,
             Execution!Submit(c) \/ Execution!Approve(c) \/ Execution!Reject(c)
      PROVE  ExecutionType' /\ ExecutionInv'
  <2>1. PICK approval \in {"pending", "approved", "rejected"},
             execution \in {"not_started", "ready"} :
          /\ item' = [item EXCEPT !.approval = approval,
                                  !.execution = execution]
          /\ approval = "approved" => "approved" \in events'
    BY <1>3 DEF Execution!Submit, Execution!Approve, Execution!Reject
  <2>2. /\ item' \in Execution!Items
        /\ item'.attemptCount = item.attemptCount
        /\ item'.execution = execution /\ item'.approval = approval
    BY <1>a, <2>1 DEF Execution!Items
  <2>3. /\ events \subseteq events' /\ events' \subseteq Execution!EventTypes
        /\ UNCHANGED reports /\ Execution!Leave(c)
    BY <1>3, <1>a
    DEF Execution!Submit, Execution!Approve, Execution!Reject,
        Execution!EventTypes
  <2> QED
    BY <1>b, <1>d, <1>e, <2>1, <2>2, <2>3
<1>4. ASSUME NEW c \in Calls, NEW key \in Keys,
             NEW outcome \in Execution!Outcomes,
             Execution!BeginReport(c, key, outcome)
      PROVE  ExecutionType' /\ ExecutionInv'
  <2>1. [pc |-> "report", key |-> key, outcome |-> outcome,
         done |-> item.execution = "succeeded"] \in Reports
    BY DEF Reports, Execution!CallStates, Execution!Points
  <2>2. /\ reporting' \in [Calls -> Reports]
        /\ \A v \in Calls : v # c => reporting'[v] = reporting[v]
        /\ "approved" \in events
    BY <1>4, <1>a, <1>b, <2>1
    DEF Execution!BeginReport, Execution!Reportable
  <2> QED
    BY <1>4, <1>a, <1>b, <1>d, <2>2 DEF Execution!BeginReport
<1>5. ASSUME NEW c \in Calls, Execution!CheckKey(c)
      PROVE  ExecutionType' /\ ExecutionInv'
  <2>1. reporting[c].pc = "report"
    BY <1>5 DEF Execution!CheckKey, Execution!At
  <2>2. [reporting[c] EXCEPT !.pc = "record"] \in Reports
    BY <1>c, <2>1 DEF Reports, Execution!CallStates, Execution!Points
  <2>3. reporting' \in [Calls -> Reports]
    BY <1>5, <1>a, <1>e, <2>2 DEF Execution!CheckKey
  <2> QED
    BY <1>5, <1>a, <1>b, <1>d, <2>1, <2>3 DEF Execution!CheckKey
<1>6. ASSUME NEW c \in Calls, Execution!RecordExecution(c)
      PROVE  ExecutionType' /\ ExecutionInv'
  <2> DEFINE key == reporting[c].key
             outcome == reporting[c].outcome
  <2>1. /\ key \in Keys /\ outcome \in Execution!Outcomes
        /\ "approved" \in events
    BY <1>6, <1>b, <1>c DEF Execution!RecordExecution, Execution!At, Reports
  <2>2. CASE ~Execution!UniqueKey(key)
    BY <1>6, <1>a, <1>b, <1>d, <1>e, <2>2 DEF Execution!RecordExecution
  <2>3. CASE Execution!UniqueKey(key)
    <3>1. /\ reports' = [reports EXCEPT ![key] = outcome]
          /\ item' = [item EXCEPT
               !.status = IF outcome = "succeeded" THEN "done" ELSE "blocked",
               !.execution = outcome,
               !.attemptCount = @ + 1]
          /\ UNCHANGED events /\ Execution!Leave(c)
          /\ reports[key] = "none"
      BY <1>6, <2>3 DEF Execution!RecordExecution, Execution!UniqueKey
    <3>2. outcome # "none"
      BY <2>1 DEF ExecutionType
    <3>3. /\ reports' \in [Keys -> Execution!Outcomes \cup {"none"}]
          /\ reports'[key] = outcome
          /\ \A k \in Keys : k # key => reports'[k] = reports[k]
      BY <1>a, <2>1, <3>1
    <3>4. /\ Execution!Reported' = Execution!Reported \cup {key}
          /\ key \notin Execution!Reported
      BY <2>1, <3>1, <3>2, <3>3 DEF Execution!Reported
    <3>5. Cardinality(Execution!Reported') = Cardinality(Execution!Reported) + 1
      BY <3>4, FS_AddElement, ReportedIsCounted
    <3>6. Cardinality(Execution!Reported') <= Cardinality(Keys)
      <4>1. Execution!Reported \cup {key} \in SUBSET Keys
        BY <2>1 DEF Execution!Reported
      <4> QED
        BY <3>4, <4>1, FS_Subset DEF KeysAssumption
    <3>7. /\ item'.execution = outcome /\ item'.approval = item.approval
          /\ item'.attemptCount = item.attemptCount + 1
          /\ item' \in Execution!Items
      <4>1. item.attemptCount + 1 \in 0..Cardinality(Keys)
        BY <1>a, <1>b, <1>c, <3>5, <3>6
      <4> QED
        BY <1>a, <2>1, <3>1, <4>1, SameCardinality DEF Execution!Items
    <3>8. ExecutionType'
      <4>1. reporting' \in [Calls -> Reports]
        BY <1>e, <3>1
      <4>2. reporting' \in [Calls -> Execution!CallStates]
        BY <4>1 DEF Reports
      <4> QED
        BY <1>a, <3>1, <3>3, <3>7, <4>1, <4>2
        DEF ExecutionType, Execution!TypeOK
    <3>9. Execution!ReportsCountOnce'
      <4>1. item'.attemptCount = Cardinality(Execution!Reported')
        BY <1>b, <3>5, <3>7
      <4>2. \E k \in Execution!Reported' : reports'[k] = item'.execution
        BY <3>3, <3>4, <3>7
      <4> QED
        BY <2>1, <3>1, <4>1, <4>2, SameCardinality
        DEF Execution!ReportsCountOnce
    <3> QED
      BY <2>1, <3>1, <3>8, <3>9 DEF ExecutionInv
  <2> QED
    BY <2>2, <2>3
<1>7. ASSUME NEW to \in {"todo", "in_progress", "done"},
             Execution!UpdateStatus(to)
      PROVE  ExecutionType' /\ ExecutionInv'
  <2>1. /\ item' \in Execution!Items
        /\ item'.attemptCount = item.attemptCount
        /\ item'.execution = item.execution /\ item'.approval = item.approval
    BY <1>7, <1>a DEF Execution!UpdateStatus, Execution!Items
  <2> QED
    BY <1>7, <1>a, <1>b, <1>d, <2>1 DEF Execution!UpdateStatus
<1> QED
  BY <1>1, <1>2, <1>3, <1>4, <1>5, <1>6, <1>7 DEF Execution!Next

(* A report that is sent twice counts once, also when both copies pass the *)
(* check, and nothing is executed that was never approved.                 *)
THEOREM ReportsAreCountedOnce ==
    ASSUME KeysAssumption
    PROVE  Execution!Spec
             => [](Execution!TypeOK /\ Execution!ReportsCountOnce)
<1>1. Execution!Init => ExecutionType /\ ExecutionInv
  BY ExecutionInit
<1>2. ExecutionType /\ ExecutionInv /\ [Execution!Next]_(Execution!vars)
        => ExecutionType' /\ ExecutionInv'
  BY ExecutionStep
<1>3. ExecutionType /\ ExecutionInv
        => Execution!TypeOK /\ Execution!ReportsCountOnce
  BY DEF ExecutionType, ExecutionInv
<1> QED
  BY <1>1, <1>2, <1>3, PTL DEF Execution!Spec

(***************************************************************************)
(* An audit and the opportunities generated from it                        *)
(***************************************************************************)
AuditsAssumption == IsFiniteSet(AuditRules) /\ MaxRows \in Nat

(* The announcement is the last thing a run does, of an audit that is      *)
(* completed.                                                              *)
RunInv ==
    /\ runner = "emit" => audit = "completed"
    /\ runner # "idle" => event = FALSE
    /\ event => audit = "completed"
    /\ audit = "none" => event = FALSE

(* Without a crossing, a generation is alone and what it read still holds. *)
GenerationInv ==
    /\ \A c \in Calls :
         generating[c].pc \notin {"create", "sync"} =>
           generating[c].missing = {}
    /\ ~overlapped =>
         /\ Audits!GeneratedOnce
         /\ \A c, v \in Calls :
              /\ Audits!Generating(c) /\ Audits!Generating(v) => c = v
              /\ generating[c].pc = "actions" /\ generating[v].pc = "actions"
                   => c = v
         /\ \A c \in Calls :
              /\ generating[c].pc \in {"generate", "create"} =>
                   seo = 0 /\ \A r \in AuditRules : found[r] = 0
              /\ \A r \in generating[c].missing : found[r] = 0
              /\ generating[c].pc = "actions" => actions = 0

AuditsInv == Audits!TypeOK /\ RunInv /\ GenerationInv

LEMMA AuditsInit == ASSUME AuditsAssumption, Audits!Init PROVE AuditsInv
<1>1. Audits!Idle \in Audits!CallStates
  BY DEF Audits!Idle, Audits!CallStates
<1>2. Audits!TypeOK
  <2>1. generating \in [Calls -> Audits!CallStates]
    BY <1>1 DEF Audits!Init
  <2>2. found \in [AuditRules -> 0..MaxRows] /\ 0 \in 0..MaxRows
    BY DEF Audits!Init, AuditsAssumption
  <2> QED
    BY <2>1, <2>2 DEF Audits!Init, Audits!TypeOK
<1>3. RunInv
  BY DEF Audits!Init, RunInv
<1>4. GenerationInv
  <2>1. \A c \in Calls :
          generating[c].pc = "idle" /\ generating[c].missing = {}
    BY DEF Audits!Init, Audits!Idle
  <2> QED
    BY <2>1
    DEF Audits!Init, Audits!GeneratedOnce, Audits!Generating, GenerationInv
<1> QED
  BY <1>2, <1>3, <1>4 DEF AuditsInv

(* What a run does, and nothing of the opportunities.                      *)
LEMMA AuditsRun ==
    ASSUME AuditsAssumption, AuditsInv,
           \/ Audits!CreateAudit \/ Audits!Crawl \/ Audits!Complete
           \/ Audits!Emit \/ Audits!Catch \/ Audits!LoseRunner
    PROVE  AuditsInv'
<1>1. UNCHANGED <<seo, found, actions, overlapped, generating>>
  BY DEF Audits!CreateAudit, Audits!Crawl, Audits!Complete, Audits!Emit,
         Audits!Catch, Audits!LoseRunner, Audits!Opportunities
<1>2. GenerationInv'
  BY <1>1
  DEF AuditsInv, GenerationInv, Audits!GeneratedOnce, Audits!Generating
<1>3. /\ audit' \in {"none", "running", "completed", "failed"}
      /\ event' \in BOOLEAN
      /\ runner' \in {"idle", "crawl", "complete", "emit", "catch"}
      /\ RunInv'
  <2>1. /\ audit \in {"none", "running", "completed", "failed"}
        /\ event \in BOOLEAN
        /\ runner \in {"idle", "crawl", "complete", "emit", "catch"}
        /\ RunInv
    BY DEF AuditsInv, Audits!TypeOK
  <2>2. CASE Audits!CreateAudit
    BY <2>1, <2>2 DEF Audits!CreateAudit, RunInv
  <2>3. CASE Audits!Crawl
    BY <2>1, <2>3 DEF Audits!Crawl, RunInv
  <2>4. CASE Audits!Complete
    BY <2>1, <2>4 DEF Audits!Complete, RunInv
  <2>5. CASE Audits!Emit
    BY <2>1, <2>5 DEF Audits!Emit, RunInv
  <2>6. CASE Audits!Catch \/ Audits!LoseRunner
    BY <2>1, <2>6 DEF Audits!Catch, Audits!LoseRunner, RunInv
  <2> QED
    BY <2>2, <2>3, <2>4, <2>5, <2>6
<1> QED
  BY <1>1, <1>2, <1>3 DEF AuditsInv, Audits!TypeOK

LEMMA AuditsStep ==
    ASSUME AuditsAssumption, AuditsInv, [Audits!Next]_(Audits!vars)
    PROVE  AuditsInv'
<1>a. /\ seo \in 0..MaxRows /\ actions \in 0..MaxRows /\ MaxRows \in Nat
      /\ found \in [AuditRules -> 0..MaxRows]
      /\ overlapped \in BOOLEAN
      /\ generating \in [Calls -> Audits!CallStates]
      /\ GenerationInv
  BY DEF AuditsInv, Audits!TypeOK, AuditsAssumption
<1>b. \A c \in Calls : /\ generating[c] \in Audits!CallStates
                       /\ generating[c].missing \subseteq AuditRules
  BY <1>a DEF Audits!CallStates
(* What is left to show of a generation.                                   *)
<1>c. ASSUME UNCHANGED <<audit, event, runner>>,
             seo' \in 0..MaxRows, actions' \in 0..MaxRows,
             found' \in [AuditRules -> 0..MaxRows], overlapped' \in BOOLEAN,
             generating' \in [Calls -> Audits!CallStates], GenerationInv'
      PROVE  AuditsInv'
  BY <1>c DEF AuditsInv, Audits!TypeOK, RunInv
<1>d. ASSUME NEW c \in Calls, Audits!Leave(c)
      PROVE  /\ generating' \in [Calls -> Audits!CallStates]
             /\ generating'[c].pc = "idle" /\ generating'[c].missing = {}
             /\ \A v \in Calls : v # c => generating'[v] = generating[v]
  <2>1. Audits!Idle \in Audits!CallStates
    BY DEF Audits!Idle, Audits!CallStates
  <2> QED
    BY <1>a, <1>d, <2>1 DEF Audits!Leave, Audits!Idle
<1>e. ASSUME NEW c \in Calls,
             NEW point \in {"generate", "sync", "actions"},
             generating' = [generating EXCEPT ![c].pc = point]
      PROVE  /\ generating' \in [Calls -> Audits!CallStates]
             /\ generating'[c].pc = point
             /\ generating'[c].missing = generating[c].missing
             /\ \A v \in Calls : v # c => generating'[v] = generating[v]
  <2>1. generating'[c] = [generating[c] EXCEPT !.pc = point]
    BY <1>a, <1>e
  <2>2. /\ [generating[c] EXCEPT !.pc = point] \in Audits!CallStates
        /\ [generating[c] EXCEPT !.pc = point].pc = point
        /\ [generating[c] EXCEPT !.pc = point].missing
             = generating[c].missing
    BY <1>b DEF Audits!CallStates
  <2> QED
    BY <1>a, <1>e, <2>1, <2>2
<1>1. CASE UNCHANGED Audits!vars
  BY <1>1, <1>a, <1>c
  DEF Audits!vars, GenerationInv, Audits!GeneratedOnce, Audits!Generating
<1>2. ASSUME NEW c \in Calls, Audits!CountOpportunities(c) PROVE AuditsInv'
  <2>1. PICK point \in {"generate", "sync"} :
          /\ generating' = [generating EXCEPT ![c].pc = point]
          /\ point = "generate" => ~(Audits!Count > 0)
    BY <1>2 DEF Audits!CountOpportunities
  <2>2. /\ generating' \in [Calls -> Audits!CallStates]
        /\ generating'[c].pc = point
        /\ generating'[c].missing = generating[c].missing
        /\ \A v \in Calls : v # c => generating'[v] = generating[v]
    BY <1>e, <2>1
  <2>3. /\ UNCHANGED <<audit, event, runner, seo, found, actions>>
        /\ overlapped' = (overlapped \/ \E d \in Calls : Audits!Generating(d))
        /\ generating[c].pc = "idle" /\ generating[c].missing = {}
    BY <1>2, <1>a
    DEF Audits!CountOpportunities, Audits!At, GenerationInv
  <2>4. point = "generate" => seo = 0 /\ \A r \in AuditRules : found[r] = 0
    <3>1. {r \in AuditRules : found[r] > 0} \in SUBSET AuditRules
      OBVIOUS
    <3>2. /\ IsFiniteSet({r \in AuditRules : found[r] > 0})
          /\ Cardinality({r \in AuditRules : found[r] > 0}) \in Nat
      BY <3>1, FS_Subset, FS_CardinalityType DEF AuditsAssumption
    <3>3. ~(Audits!Count > 0) =>
            seo = 0 /\ Cardinality({r \in AuditRules : found[r] > 0}) = 0
      BY <1>a, <3>2, SameCardinality DEF Audits!Count
    <3>4. ~(Audits!Count > 0) => {r \in AuditRules : found[r] > 0} = {}
      BY <3>2, <3>3, FS_EmptySet
    <3>5. \A r \in AuditRules : found[r] \in Nat
      BY <1>a
    <3> QED
      BY <2>1, <3>3, <3>4, <3>5
  <2>5. GenerationInv'
    BY <1>a, <2>2, <2>3, <2>4
    DEF GenerationInv, Audits!GeneratedOnce, Audits!Generating
  <2> QED
    BY <1>a, <1>c, <2>2, <2>3, <2>5
<1>3. ASSUME NEW c \in Calls, NEW findings \in SUBSET AuditRules,
             Audits!Generate(c, findings)
      PROVE  AuditsInv'
  <2>1. [pc |-> "create", missing |-> findings] \in Audits!CallStates
    BY DEF Audits!CallStates
  <2>2. /\ generating' \in [Calls -> Audits!CallStates]
        /\ generating'[c].pc = "create"
        /\ generating'[c].missing = findings
        /\ \A v \in Calls : v # c => generating'[v] = generating[v]
        /\ UNCHANGED <<audit, event, runner, seo, found, actions, overlapped>>
        /\ generating[c].pc = "generate"
    BY <1>3, <1>a, <2>1 DEF Audits!Generate, Audits!At
  <2>3. GenerationInv'
    BY <1>a, <2>2 DEF GenerationInv, Audits!GeneratedOnce, Audits!Generating
  <2> QED
    BY <1>a, <1>c, <2>2, <2>3
<1>4. ASSUME NEW c \in Calls, NEW findings \in SUBSET AuditRules,
             Audits!SyncMissing(c, findings)
      PROVE  AuditsInv'
  <2> DEFINE some == Audits!MissingFindings(findings)
  <2>1. /\ generating[c].pc = "sync"
        /\ UNCHANGED <<audit, event, runner, seo, found, actions, overlapped>>
    BY <1>4 DEF Audits!SyncMissing, Audits!At
  <2>2. CASE some = {}
    <3>1. Audits!Leave(c)
      BY <1>4, <2>2 DEF Audits!SyncMissing
    <3>2. GenerationInv'
      BY <1>a, <1>d, <2>1, <3>1
      DEF GenerationInv, Audits!GeneratedOnce, Audits!Generating
    <3> QED
      BY <1>a, <1>c, <1>d, <2>1, <3>1, <3>2
  <2>3. CASE some # {}
    <3>1. generating' = [generating EXCEPT ![c].missing = some]
      BY <1>4, <2>3 DEF Audits!SyncMissing
    <3>2. some \subseteq AuditRules /\ \A r \in some : found[r] = 0
      BY DEF Audits!MissingFindings
    <3> HIDE DEF some
    <3>3. /\ [generating[c] EXCEPT !.missing = some] \in Audits!CallStates
          /\ [generating[c] EXCEPT !.missing = some].pc = generating[c].pc
          /\ [generating[c] EXCEPT !.missing = some].missing = some
      BY <1>b, <3>2 DEF Audits!CallStates
    <3>4. /\ generating' \in [Calls -> Audits!CallStates]
          /\ generating'[c].pc = "sync" /\ generating'[c].missing = some
          /\ \A v \in Calls : v # c => generating'[v] = generating[v]
      BY <1>a, <2>1, <3>1, <3>3
    <3>5. GenerationInv'
      BY <1>a, <2>1, <3>2, <3>4
      DEF GenerationInv, Audits!GeneratedOnce, Audits!Generating
    <3> QED
      BY <1>a, <1>c, <2>1, <3>4, <3>5
  <2> QED
    BY <2>2, <2>3
<1>5. ASSUME NEW c \in Calls,
             Audits!CreateOpportunities(c) \/ Audits!CreateMissing(c)
      PROVE  AuditsInv'
  <2> DEFINE some == generating[c].missing
  <2>1. /\ generating[c].pc \in {"create", "sync"} /\ Audits!Leave(c)
        /\ found' = Audits!Added(some)
        /\ \/ seo' = seo + 1 /\ seo < MaxRows /\ generating[c].pc = "create"
           \/ seo' = seo
        /\ \A r \in AuditRules : found[r] < MaxRows
        /\ UNCHANGED <<audit, event, runner, actions, overlapped>>
    BY <1>5
    DEF Audits!CreateOpportunities, Audits!CreateMissing, Audits!At,
        Audits!Bounded
  <2>2. \A r \in AuditRules :
          found'[r] = IF r \in some THEN found[r] + 1 ELSE found[r]
    BY <2>1 DEF Audits!Added
  <2>3. seo' \in 0..MaxRows
    BY <1>a, <2>1
  <2>4. found' \in [AuditRules -> 0..MaxRows]
    <3>1. \A r \in AuditRules : found[r] \in 0..MaxRows
      BY <1>a
    <3> QED
      BY <1>a, <2>1, <3>1 DEF Audits!Added
  <2>5. GenerationInv'
    <3>1. ASSUME ~overlapped
          PROVE  /\ seo' <= 1 /\ actions <= 1
                 /\ \A r \in AuditRules : found'[r] <= 1
      BY <1>a, <2>1, <2>2, <3>1 DEF GenerationInv, Audits!GeneratedOnce
    <3>2. ASSUME ~overlapped, NEW v \in Calls, v # c
          PROVE  /\ generating[v].pc \notin {"generate", "create", "sync"}
                 /\ generating[v].missing = {}
      BY <1>a, <2>1, <3>2 DEF GenerationInv, Audits!Generating
    <3>3. \A v \in Calls : generating'[v].pc \notin {"create", "sync"} =>
            generating'[v].missing = {}
      BY <1>a, <1>d, <2>1 DEF GenerationInv
    <3>4. ASSUME ~overlapped
          PROVE  \A v, w \in Calls :
                   /\ Audits!Generating(v)' /\ Audits!Generating(w)' => v = w
                   /\ generating'[v].pc = "actions"
                      /\ generating'[w].pc = "actions" => v = w
      BY <1>a, <1>d, <2>1, <3>4 DEF GenerationInv, Audits!Generating
    <3>5. ASSUME ~overlapped
          PROVE  \A v \in Calls :
                   /\ generating'[v].pc \notin {"generate", "create"}
                   /\ generating'[v].missing = {}
                   /\ generating'[v].pc = "actions" => actions = 0
      BY <1>a, <1>d, <2>1, <3>2, <3>5 DEF GenerationInv
    <3> QED
      BY <2>1, <3>1, <3>3, <3>4, <3>5 DEF GenerationInv, Audits!GeneratedOnce
  <2> QED
    BY <1>a, <1>c, <1>d, <2>1, <2>3, <2>4, <2>5
<1>6. ASSUME NEW c \in Calls, Audits!Fail(c) PROVE AuditsInv'
  <2>1. /\ Audits!Leave(c)
        /\ UNCHANGED <<audit, event, runner, seo, found, actions, overlapped>>
    BY <1>6 DEF Audits!Fail
  <2>2. GenerationInv'
    BY <1>a, <1>d, <2>1
    DEF GenerationInv, Audits!GeneratedOnce, Audits!Generating
  <2> QED
    BY <1>a, <1>c, <1>d, <2>1, <2>2
<1>7. ASSUME NEW c \in Calls, Audits!CountActions(c) PROVE AuditsInv'
  <2>1. /\ generating' = [generating EXCEPT ![c].pc = "actions"]
        /\ overlapped' = (overlapped \/ \E d \in Calls : Audits!At(d, "actions"))
        /\ UNCHANGED <<audit, event, runner, seo, found, actions>>
        /\ actions = 0
        /\ generating[c].pc = "idle" /\ generating[c].missing = {}
    BY <1>7, <1>a DEF Audits!CountActions, Audits!At, GenerationInv
  <2>2. /\ \A v \in Calls :
             generating'[v].pc # generating[v].pc
               => v = c /\ generating'[v].pc = "actions"
        /\ \A v \in Calls : generating'[v].missing = generating[v].missing
        /\ generating' \in [Calls -> Audits!CallStates]
    BY <1>a, <1>e, <2>1
  <2>3. ASSUME ~overlapped'
        PROVE  ~overlapped /\ \A d \in Calls : generating[d].pc # "actions"
    BY <1>a, <2>1, <2>3 DEF Audits!At
  <2>4. GenerationInv'
    BY <1>a, <2>1, <2>2, <2>3
    DEF GenerationInv, Audits!GeneratedOnce, Audits!Generating
  <2> QED
    BY <1>a, <1>c, <2>1, <2>2, <2>4
<1>8. ASSUME NEW c \in Calls, Audits!CreateActions(c) PROVE AuditsInv'
  <2>1. /\ Audits!Leave(c) /\ actions' = actions + 1
        /\ actions' \in 0..MaxRows
        /\ UNCHANGED <<audit, event, runner, seo, found, overlapped>>
        /\ generating[c].pc = "actions"
    BY <1>8, <1>a DEF Audits!CreateActions, Audits!At
  <2>2. GenerationInv'
    BY <1>a, <1>d, <2>1
    DEF GenerationInv, Audits!GeneratedOnce, Audits!Generating
  <2> QED
    BY <1>a, <1>c, <1>d, <2>1, <2>2
<1> QED
  BY <1>1, <1>2, <1>3, <1>4, <1>5, <1>6, <1>7, <1>8, AuditsRun
  DEF Audits!Next

(* An announced audit stays completed although what follows its completion *)
(* may fail it; and generating again adds what is missing, once, as long   *)
(* as two generations do not cross.                                        *)
THEOREM OpportunitiesAreGeneratedOnce ==
    ASSUME AuditsAssumption
    PROVE  Audits!Spec => [](/\ Audits!TypeOK
                             /\ Audits!AnnouncedIsCompleted
                             /\ Audits!GeneratedOnce)
<1>1. Audits!Init => AuditsInv
  BY AuditsInit
<1>2. AuditsInv /\ [Audits!Next]_(Audits!vars) => AuditsInv'
  BY AuditsStep
<1>3. AuditsInv => /\ Audits!TypeOK
                   /\ Audits!AnnouncedIsCompleted
                   /\ Audits!GeneratedOnce
  BY DEF AuditsInv, RunInv, GenerationInv, Audits!AnnouncedIsCompleted,
         Audits!GeneratedOnce
<1> QED
  BY <1>1, <1>2, <1>3, PTL DEF Audits!Spec

(***************************************************************************)
(* The crawl of a site                                                     *)
(***************************************************************************)
CrawlAssumption == StartUrl \in Urls /\ MaxPages \in Nat /\ MaxDepth \in Nat

CrawlType ==
    /\ Crawl!TypeOK /\ IsFiniteSet(pages) /\ IsFiniteSet(failed)
    /\ IsFiniteSet(Crawl!Fetched)

(* The queue is in the order of the depths, and spans two of them: that of *)
(* its head, and that of the links which go after its end.                 *)
OrderedQueue ==
    /\ \A i, j \in DOMAIN queue :
         /\ i < j => queue[i].depth <= queue[j].depth
         /\ queue[j].depth <= queue[i].depth + 1
    /\ \A link \in links, i \in DOMAIN queue :
         queue[i].depth <= link.depth /\ link.depth <= queue[i].depth + 1
    /\ \A k, l \in links : k.depth = l.depth
    /\ \A p \in pages :
         /\ \A i \in DOMAIN queue : p.depth <= queue[i].depth
         /\ \A link \in links : p.depth <= link.depth

(* What waits has been seen, is not fetched, and waits once.               *)
FreshQueue ==
    /\ \A i, j \in DOMAIN queue : queue[i].url = queue[j].url => i = j
    /\ \A i \in DOMAIN queue : queue[i].url \in visited \ Crawl!Fetched
    /\ Crawl!Fetched \subseteq visited
    /\ \A i \in DOMAIN queue : queue[i].url \in Excluded => queue[i].url = StartUrl

CrawlInv ==
    CrawlType /\ OrderedQueue /\ FreshQueue /\ Crawl!NearestFirst

LEMMA EntriesOfQueue ==
    ASSUME CrawlAssumption, Crawl!TypeOK
    PROVE  /\ DOMAIN queue = 1..Len(queue) /\ Len(queue) \in Nat
           /\ \A i \in DOMAIN queue :
                /\ queue[i] \in Crawl!Entries /\ queue[i].url \in Urls
                /\ queue[i].depth \in Nat
           /\ \A p \in pages : p.url \in Urls /\ p.depth \in Nat
           /\ \A link \in links : link.url \in Urls /\ link.depth \in Nat
<1>1. queue \in Seq(Crawl!Entries)
  BY DEF Crawl!TypeOK
<1>2. DOMAIN queue = 1..Len(queue) /\ Len(queue) \in Nat
      /\ \A i \in DOMAIN queue : queue[i] \in Crawl!Entries
  BY <1>1
<1>3. \A e \in Crawl!Entries : e.url \in Urls /\ e.depth \in Nat
  BY DEF Crawl!Entries, CrawlAssumption
<1> QED
  BY <1>2, <1>3 DEF Crawl!TypeOK

(* The head is taken: what is left is the rest, one place nearer.          *)
LEMMA TakenHead ==
    ASSUME CrawlAssumption, Crawl!TypeOK, queue # <<>>, queue' = Tail(queue)
    PROVE  /\ queue' \in Seq(Crawl!Entries)
           /\ Head(queue) = queue[1] /\ 1 \in DOMAIN queue
           /\ \A i \in DOMAIN queue' :
                i + 1 \in DOMAIN queue /\ i \in Nat /\ queue'[i] = queue[i + 1]
<1>1. queue \in Seq(Crawl!Entries) /\ Len(queue) > 0
  BY EntriesOfQueue DEF Crawl!TypeOK
<1>2. /\ queue' \in Seq(Crawl!Entries) /\ Len(queue') = Len(queue) - 1
      /\ \A i \in 1..Len(queue') : queue'[i] = queue[i + 1]
  BY <1>1
<1>3. DOMAIN queue = 1..Len(queue) /\ DOMAIN queue' = 1..Len(queue')
      /\ Len(queue) \in Nat /\ Len(queue') \in Nat
  BY <1>1, <1>2
<1> QED
  BY <1>1, <1>2, <1>3

(* One more URL is fetched: it is counted once.                            *)
LEMMA FetchedOnce ==
    ASSUME CrawlAssumption, CrawlInv, Crawl!HasBudget,
           NEW page \in Crawl!Entries, page.url \notin Crawl!Fetched,
           \/ pages' = pages \cup {page} /\ UNCHANGED failed
           \/ failed' = failed \cup {page.url} /\ UNCHANGED pages
    PROVE  /\ Crawl!Fetched' = Crawl!Fetched \cup {page.url}
           /\ IsFiniteSet(pages') /\ IsFiniteSet(failed')
           /\ IsFiniteSet(Crawl!Fetched')
           /\ Cardinality(pages') + Cardinality(failed')
                = Cardinality(Crawl!Fetched')
           /\ Cardinality(Crawl!Fetched') <= MaxPages
<1>1. Crawl!Fetched' = Crawl!Fetched \cup {page.url}
  BY DEF Crawl!Fetched
<1>2. /\ page \notin pages /\ page.url \notin failed
  BY DEF Crawl!Fetched
<1>3. /\ IsFiniteSet(pages) /\ IsFiniteSet(failed) /\ IsFiniteSet(Crawl!Fetched)
      /\ Cardinality(pages) + Cardinality(failed) = Cardinality(Crawl!Fetched)
      /\ Cardinality(Crawl!Fetched) < MaxPages
  BY SameCardinality DEF CrawlInv, CrawlType, Crawl!NearestFirst, Crawl!HasBudget
<1>4. /\ Cardinality(pages) \in Nat /\ Cardinality(failed) \in Nat
      /\ Cardinality(Crawl!Fetched) \in Nat
  BY <1>3, FS_CardinalityType
<1>5. /\ IsFiniteSet(Crawl!Fetched')
      /\ Cardinality(Crawl!Fetched') = Cardinality(Crawl!Fetched) + 1
  BY <1>1, <1>3, FS_AddElement
<1>6. CASE pages' = pages \cup {page} /\ UNCHANGED failed
  <2>1. IsFiniteSet(pages') /\ Cardinality(pages') = Cardinality(pages) + 1
    BY <1>2, <1>3, <1>6, FS_AddElement
  <2>2. IsFiniteSet(failed') /\ Cardinality(failed') = Cardinality(failed)
    BY <1>3, <1>6
  <2> QED
    BY <1>1, <1>3, <1>4, <1>5, <2>1, <2>2 DEF CrawlAssumption
<1>7. CASE failed' = failed \cup {page.url} /\ UNCHANGED pages
  <2>1. IsFiniteSet(failed') /\ Cardinality(failed') = Cardinality(failed) + 1
    BY <1>2, <1>3, <1>7, FS_AddElement
  <2>2. IsFiniteSet(pages') /\ Cardinality(pages') = Cardinality(pages)
    BY <1>3, <1>7
  <2> QED
    BY <1>1, <1>3, <1>4, <1>5, <2>1, <2>2 DEF CrawlAssumption
<1> QED
  BY <1>6, <1>7

(* The page or the failure of the URL at the head of the queue.            *)
LEMMA CrawlFetches ==
    ASSUME CrawlAssumption, CrawlInv,
           Crawl!FetchFails \/ \E linked \in SUBSET Urls : Crawl!Fetch(linked)
    PROVE  CrawlInv'
<1> DEFINE page == Head(queue)
<1>1. /\ Crawl!HasBudget /\ queue' = Tail(queue) /\ UNCHANGED visited
      /\ links = {} /\ queue # <<>>
  BY DEF Crawl!FetchFails, Crawl!Fetch, Crawl!HasBudget
<1>2. /\ queue' \in Seq(Crawl!Entries)
      /\ page = queue[1] /\ 1 \in DOMAIN queue
      /\ \A i \in DOMAIN queue' :
           i + 1 \in DOMAIN queue /\ i \in Nat /\ queue'[i] = queue[i + 1]
  BY <1>1, TakenHead DEF CrawlInv, CrawlType
<1>3. /\ page \in Crawl!Entries /\ page.url \in Urls /\ page.depth \in 0..MaxDepth
      /\ \A i \in DOMAIN queue : queue[i].depth \in Nat
      /\ DOMAIN queue \subseteq Nat
  BY <1>2, EntriesOfQueue DEF Crawl!Entries, CrawlInv, CrawlType
<1>4. page.url \in visited \ Crawl!Fetched
  BY <1>2 DEF CrawlInv, FreshQueue
<1>5. \/ pages' = pages \cup {page} /\ UNCHANGED failed
      \/ failed' = failed \cup {page.url} /\ UNCHANGED pages
  BY DEF Crawl!FetchFails, Crawl!Fetch
<1>6. /\ Crawl!Fetched' = Crawl!Fetched \cup {page.url}
      /\ IsFiniteSet(pages') /\ IsFiniteSet(failed')
      /\ IsFiniteSet(Crawl!Fetched')
      /\ Cardinality(pages') + Cardinality(failed')
           = Cardinality(Crawl!Fetched')
      /\ Cardinality(Crawl!Fetched') <= MaxPages
  BY <1>1, <1>3, <1>4, <1>5, FetchedOnce
<1>7. /\ links' \subseteq Crawl!Entries
      /\ \A link \in links' : link.depth = page.depth + 1
  <2>1. CASE Crawl!FetchFails
    BY <1>1, <2>1 DEF Crawl!FetchFails
  <2>2. ASSUME NEW linked \in SUBSET Urls, Crawl!Fetch(linked)
        PROVE  /\ links' \subseteq Crawl!Entries
               /\ \A link \in links' : link.depth = page.depth + 1
    <3>1. CASE page.depth < MaxDepth
      <4>1. links' = {Crawl!Entry(url, page.depth + 1) : url \in linked}
        BY <2>2, <3>1 DEF Crawl!Fetch
      <4>2. page.depth + 1 \in 0..MaxDepth
        BY <1>3, <3>1 DEF CrawlAssumption
      <4> QED
        BY <4>1, <4>2 DEF Crawl!Entry, Crawl!Entries
    <3>2. CASE ~(page.depth < MaxDepth)
      BY <2>2, <3>2 DEF Crawl!Fetch
    <3> QED
      BY <3>1, <3>2
  <2> QED
    BY <2>1, <2>2
<1>8. CrawlType'
  BY <1>1, <1>2, <1>3, <1>5, <1>6, <1>7
  DEF CrawlInv, CrawlType, Crawl!TypeOK
<1>9. \A p \in pages' : p.depth \in Nat /\ p.depth <= page.depth
  <2>1. \A p \in pages : p.depth \in Nat /\ p.depth <= page.depth
    BY <1>2, EntriesOfQueue DEF CrawlInv, CrawlType, OrderedQueue
  <2> QED
    BY <1>3, <1>5, <2>1
<1>10. \A i \in DOMAIN queue' :
         page.depth <= queue'[i].depth /\ queue'[i].depth <= page.depth + 1
  <2> SUFFICES ASSUME NEW i \in DOMAIN queue'
               PROVE  /\ page.depth <= queue[i + 1].depth
                      /\ queue[i + 1].depth <= page.depth + 1
    BY <1>2
  <2>1. i + 1 \in DOMAIN queue /\ 1 <= i + 1
    BY <1>2
  <2> QED
    BY <1>2, <1>3, <2>1 DEF CrawlInv, OrderedQueue
<1>11. OrderedQueue'
  <2>1. ASSUME NEW i \in DOMAIN queue', NEW j \in DOMAIN queue'
        PROVE  /\ i < j => queue'[i].depth <= queue'[j].depth
               /\ queue'[j].depth <= queue'[i].depth + 1
    <3>1. /\ i + 1 \in DOMAIN queue /\ j + 1 \in DOMAIN queue
          /\ queue'[i] = queue[i + 1] /\ queue'[j] = queue[j + 1]
          /\ i < j => i + 1 < j + 1
      BY <1>2
    <3> QED
      BY <3>1 DEF CrawlInv, OrderedQueue
  <2>2. ASSUME NEW i \in DOMAIN queue'
        PROVE  queue'[i].depth \in Nat
    BY <1>2, <1>3
  <2>3. \A link \in links', i \in DOMAIN queue' :
          queue'[i].depth <= link.depth /\ link.depth <= queue'[i].depth + 1
    BY <1>3, <1>7, <1>10, <2>2
  <2>4. \A k, l \in links' : k.depth = l.depth
    BY <1>7
  <2>5. \A p \in pages' :
          /\ \A i \in DOMAIN queue' : p.depth <= queue'[i].depth
          /\ \A link \in links' : p.depth <= link.depth
    BY <1>3, <1>7, <1>9, <1>10, <2>2
  <2> QED
    BY <2>1, <2>3, <2>4, <2>5 DEF OrderedQueue
<1>12. FreshQueue'
  <2>1. ASSUME NEW i \in DOMAIN queue'
        PROVE  /\ queue'[i].url \in visited \ (Crawl!Fetched \cup {page.url})
               /\ queue'[i].url \in Excluded => queue'[i].url = StartUrl
    <3>1. i + 1 \in DOMAIN queue /\ queue'[i] = queue[i + 1] /\ i + 1 # 1
      BY <1>2, EntriesOfQueue, <1>8 DEF CrawlInv, CrawlType, Crawl!TypeOK
    <3> QED
      BY <1>2, <3>1 DEF CrawlInv, FreshQueue
  <2>2. ASSUME NEW i \in DOMAIN queue', NEW j \in DOMAIN queue',
               queue'[i].url = queue'[j].url
        PROVE  i = j
    <3>1. i + 1 = j + 1
      BY <1>2, <2>2 DEF CrawlInv, FreshQueue
    <3> QED
      BY <1>2, <3>1
  <2>3. Crawl!Fetched' \subseteq visited
    BY <1>4, <1>6 DEF CrawlInv, FreshQueue
  <2> QED
    BY <1>1, <1>6, <2>1, <2>2, <2>3 DEF FreshQueue
<1>13. Crawl!NearestFirst'
  <2>1. \A u \in Crawl!Fetched' \cap Excluded : u = StartUrl
    BY <1>2, <1>6 DEF CrawlInv, FreshQueue, Crawl!NearestFirst
  <2> QED
    BY <1>6, <1>11, <2>1, SameCardinality DEF OrderedQueue, Crawl!NearestFirst
<1> QED
  BY <1>8, <1>11, <1>12, <1>13 DEF CrawlInv

(* A link goes to the end of the queue, is only marked, or is left.        *)
LEMMA CrawlFollows ==
    ASSUME CrawlAssumption, CrawlInv, NEW link \in links, Crawl!Follow(link)
    PROVE  CrawlInv'
<1>1. /\ links' = links \ {link} /\ UNCHANGED <<pages, failed>>
      /\ visited \subseteq visited' /\ visited' \subseteq visited \cup {link.url}
  BY DEF Crawl!Follow
<1>2. /\ link \in Crawl!Entries /\ link.url \in Urls /\ link.depth \in Nat
      /\ DOMAIN queue = 1..Len(queue) /\ Len(queue) \in Nat
      /\ \A i \in DOMAIN queue : queue[i].depth \in Nat
      /\ queue \in Seq(Crawl!Entries)
  BY EntriesOfQueue DEF CrawlInv, CrawlType, Crawl!TypeOK
<1>3. UNCHANGED Crawl!Fetched
  BY <1>1 DEF Crawl!Fetched
<1>4. CASE UNCHANGED queue
  <2>1. CrawlType'
    BY <1>1, <1>2, <1>3, <1>4 DEF CrawlInv, CrawlType, Crawl!TypeOK
  <2>2. OrderedQueue'
    BY <1>1, <1>4 DEF CrawlInv, OrderedQueue
  <2>3. FreshQueue'
    BY <1>1, <1>3, <1>4 DEF CrawlInv, FreshQueue
  <2>4. Crawl!NearestFirst'
    BY <1>1, <1>3, <1>4 DEF CrawlInv, Crawl!NearestFirst
  <2> QED
    BY <2>1, <2>2, <2>3, <2>4 DEF CrawlInv
<1>5. CASE /\ link.url \notin visited \cup Excluded /\ Crawl!HasRoom
           /\ queue' = Append(queue, link)
  <2>1. /\ queue' \in Seq(Crawl!Entries) /\ Len(queue') = Len(queue) + 1
        /\ DOMAIN queue' = 1..(Len(queue) + 1)
        /\ queue'[Len(queue) + 1] = link
        /\ \A i \in DOMAIN queue : i \in DOMAIN queue' /\ queue'[i] = queue[i]
    BY <1>2, <1>5
  <2>2. ASSUME NEW i \in DOMAIN queue', i \notin DOMAIN queue
        PROVE  i = Len(queue) + 1 /\ queue'[i] = link
    BY <1>2, <2>1, <2>2
  <2>3. CrawlType'
    BY <1>1, <1>2, <1>3, <2>1 DEF CrawlInv, CrawlType, Crawl!TypeOK
  <2>4. OrderedQueue'
    <3>1. ASSUME NEW i \in DOMAIN queue', NEW j \in DOMAIN queue'
          PROVE  /\ i < j => queue'[i].depth <= queue'[j].depth
                 /\ queue'[j].depth <= queue'[i].depth + 1
      <4>1. CASE i \in DOMAIN queue /\ j \in DOMAIN queue
        BY <2>1, <4>1 DEF CrawlInv, OrderedQueue
      <4>2. CASE i \in DOMAIN queue /\ j \notin DOMAIN queue
        BY <2>1, <2>2, <4>2 DEF CrawlInv, OrderedQueue
      <4>3. CASE i \notin DOMAIN queue /\ j \in DOMAIN queue
        <5>1. /\ queue'[i] = link /\ queue'[j] = queue[j] /\ ~(i < j)
          BY <1>2, <2>1, <2>2, <4>3
        <5>2. queue[j].depth <= link.depth
          BY <4>3 DEF CrawlInv, OrderedQueue
        <5> QED
          BY <1>2, <4>3, <5>1, <5>2
      <4>4. CASE i \notin DOMAIN queue /\ j \notin DOMAIN queue
        BY <1>2, <2>2, <4>4
      <4> QED
        BY <4>1, <4>2, <4>3, <4>4
    <3>2. ASSUME NEW other \in links', NEW i \in DOMAIN queue'
          PROVE  /\ queue'[i].depth <= other.depth
                 /\ other.depth <= queue'[i].depth + 1
      <4>1. other \in links /\ other.depth = link.depth
        BY <1>1 DEF CrawlInv, OrderedQueue
      <4>2. CASE i \in DOMAIN queue
        BY <2>1, <4>1, <4>2 DEF CrawlInv, OrderedQueue
      <4>3. CASE i \notin DOMAIN queue
        BY <1>2, <2>2, <4>1, <4>3
      <4> QED
        BY <4>2, <4>3
    <3>3. \A k, l \in links' : k.depth = l.depth
      BY <1>1 DEF CrawlInv, OrderedQueue
    <3>4. ASSUME NEW p \in pages'
          PROVE  /\ \A i \in DOMAIN queue' : p.depth <= queue'[i].depth
                 /\ \A other \in links' : p.depth <= other.depth
      BY <1>1, <2>1, <2>2 DEF CrawlInv, OrderedQueue
    <3> QED
      BY <3>1, <3>2, <3>3, <3>4 DEF OrderedQueue
  <2>5. FreshQueue'
    <3>1. link.url \in visited' /\ link.url \notin visited \cup Crawl!Fetched
      BY <1>5 DEF CrawlInv, FreshQueue, Crawl!Follow
    <3>2. \A i \in DOMAIN queue : queue[i].url # link.url
      BY <3>1 DEF CrawlInv, FreshQueue
    <3>3. ASSUME NEW i \in DOMAIN queue', NEW j \in DOMAIN queue',
                 queue'[i].url = queue'[j].url
          PROVE  i = j
      <4>1. i \in DOMAIN queue <=> j \in DOMAIN queue
        BY <2>1, <2>2, <3>2, <3>3
      <4>2. CASE i \in DOMAIN queue
        BY <2>1, <3>3, <4>1, <4>2 DEF CrawlInv, FreshQueue
      <4>3. CASE i \notin DOMAIN queue
        BY <2>2, <4>1, <4>3
      <4> QED
        BY <4>2, <4>3
    <3>4. ASSUME NEW i \in DOMAIN queue'
          PROVE  /\ queue'[i].url \in visited' \ Crawl!Fetched
                 /\ queue'[i].url \in Excluded => queue'[i].url = StartUrl
      <4>1. CASE i \in DOMAIN queue
        BY <1>1, <2>1, <4>1 DEF CrawlInv, FreshQueue
      <4>2. CASE i \notin DOMAIN queue
        BY <1>5, <2>2, <3>1, <4>2
      <4> QED
        BY <4>1, <4>2
    <3>5. Crawl!Fetched \subseteq visited'
      BY <1>1 DEF CrawlInv, FreshQueue
    <3> QED
      BY <1>3, <3>3, <3>4, <3>5 DEF FreshQueue
  <2>6. Crawl!NearestFirst'
    BY <1>1, <1>3, <2>4 DEF CrawlInv, OrderedQueue, Crawl!NearestFirst
  <2> QED
    BY <2>3, <2>4, <2>5, <2>6 DEF CrawlInv
<1> QED
  BY <1>4, <1>5 DEF Crawl!Follow

LEMMA CrawlInit == ASSUME CrawlAssumption, Crawl!Init PROVE CrawlInv
<1>1. /\ pages = {} /\ failed = {} /\ links = {} /\ Crawl!Fetched = {}
      /\ visited = {queue[i].url : i \in DOMAIN queue}
  BY DEF Crawl!Init, Crawl!Fetched
<1>2. PICK n \in Nat, d \in 0..MaxDepth :
        /\ queue \in [1..n -> Crawl!Entries]
        /\ \A i \in 1..n : queue[i].depth = d
        /\ \A i, j \in 1..n : queue[i].url = queue[j].url => i = j
        /\ \A i \in 1..n : queue[i].url \in Excluded => queue[i].url = StartUrl
  <2>1. CASE queue = <<Crawl!Entry(StartUrl, 0)>>
    <3>1. /\ 0 \in 0..MaxDepth /\ Crawl!Entry(StartUrl, 0) \in Crawl!Entries
          /\ Crawl!Entry(StartUrl, 0).url = StartUrl
          /\ Crawl!Entry(StartUrl, 0).depth = 0
      BY DEF CrawlAssumption, Crawl!Entry, Crawl!Entries
    <3>2. /\ queue \in [1..1 -> Crawl!Entries]
          /\ \A i \in 1..1 : queue[i] = Crawl!Entry(StartUrl, 0) /\ i = 1
      BY <2>1, <3>1
    <3> QED
      BY <3>1, <3>2
  <2>2. CASE Crawl!FromSitemap
    <3>1. PICK n \in 0..MaxPages :
            \E candidates \in [1..n -> Urls \ Excluded] :
              /\ \A i, j \in 1..n : candidates[i] = candidates[j] => i = j
              /\ queue = [i \in 1..n |-> Crawl!Entry(candidates[i], MaxDepth)]
      BY <2>2 DEF Crawl!FromSitemap
    <3>2. PICK candidates \in [1..n -> Urls \ Excluded] :
            /\ \A i, j \in 1..n : candidates[i] = candidates[j] => i = j
            /\ queue = [i \in 1..n |-> Crawl!Entry(candidates[i], MaxDepth)]
      BY <3>1
    <3>3. MaxDepth \in 0..MaxDepth /\ n \in Nat
      BY DEF CrawlAssumption
    <3>4. ASSUME NEW i \in 1..n
          PROVE  /\ queue[i] \in Crawl!Entries
                 /\ queue[i].url = candidates[i] /\ queue[i].depth = MaxDepth
      BY <3>2, <3>3 DEF Crawl!Entry, Crawl!Entries
    <3>5. queue \in [1..n -> Crawl!Entries]
      BY <3>2, <3>4
    <3> QED
      BY <3>2, <3>3, <3>4, <3>5
  <2> QED
    BY <2>1, <2>2 DEF Crawl!Init
<1>3. DOMAIN queue = 1..n /\ d \in Nat /\ queue \in Seq(Crawl!Entries)
  BY <1>2
<1>4. visited \subseteq Urls
  BY <1>1, <1>2, <1>3 DEF Crawl!Entries
<1>5. CrawlType
  BY <1>1, <1>3, <1>4, FS_EmptySet DEF CrawlType, Crawl!TypeOK
<1>6. OrderedQueue /\ FreshQueue
  BY <1>1, <1>2, <1>3 DEF OrderedQueue, FreshQueue
<1>7. Crawl!NearestFirst
  <2>1. Cardinality({}) = 0
    BY FS_EmptySet
  <2> QED
    BY <1>1, <2>1, SameCardinality
    DEF Crawl!NearestFirst, CrawlAssumption
<1> QED
  BY <1>5, <1>6, <1>7 DEF CrawlInv

(* The pages a crawl spends its budget on are those nearest to its start,  *)
(* each once, in whatever order the links of a page are found.             *)
THEOREM NearestAreFirst ==
    ASSUME CrawlAssumption
    PROVE  Crawl!Spec => [](Crawl!TypeOK /\ Crawl!NearestFirst)
<1>1. Crawl!Init => CrawlInv
  BY CrawlInit
<1>2. CrawlInv /\ [Crawl!Next]_(Crawl!vars) => CrawlInv'
  <2>1. ASSUME CrawlInv, UNCHANGED Crawl!vars PROVE CrawlInv'
    BY <2>1 DEF CrawlInv, CrawlType, OrderedQueue, FreshQueue, Crawl!vars,
                Crawl!TypeOK, Crawl!NearestFirst, Crawl!Fetched
  <2>2. ASSUME CrawlInv, Crawl!Next PROVE CrawlInv'
    BY <2>2, CrawlFetches, CrawlFollows DEF Crawl!Next
  <2> QED
    BY <2>1, <2>2
<1>3. CrawlInv => Crawl!TypeOK /\ Crawl!NearestFirst
  BY DEF CrawlInv, CrawlType
<1> QED
  BY <1>1, <1>2, <1>3, PTL DEF Crawl!Spec

(***************************************************************************)
(* The subscription of an organization                                     *)
(***************************************************************************)
LEMMA BillingType ==
    Subscription!TypeOK /\ [Subscription!Next]_(Subscription!vars)
      => Subscription!TypeOK'
<1> SUFFICES ASSUME Subscription!TypeOK,
                    [Subscription!Next]_(Subscription!vars)
             PROVE  Subscription!TypeOK'
  OBVIOUS
<1> USE DEF Subscription!TypeOK
<1>1. CASE UNCHANGED Subscription!vars
  BY <1>1 DEF Subscription!vars
<1>2. ASSUME NEW c \in Calls,
             \/ Subscription!CheckSubscription(c) \/ Subscription!Refused(c)
             \/ \E s \in Subscriptions : Subscription!OpenSession(c, s)
      PROVE  Subscription!TypeOK'
  BY <1>2
  DEF Subscription!CheckSubscription, Subscription!Refused,
      Subscription!OpenSession
<1>3. ASSUME NEW s \in Subscriptions, NEW to \in Subscription!StripeStatuses,
             Subscription!Pay(s, to) \/ Subscription!Change(s, to)
      PROVE  Subscription!TypeOK'
  <2>1. /\ [type |-> "checkout", of |-> s] \in Subscription!Checkouts
        /\ [type |-> "subscription", of |-> s, status |-> to]
             \in Subscription!Updates
    BY DEF Subscription!Checkouts, Subscription!Updates
  <2> QED
    BY <1>3, <2>1
    DEF Subscription!Pay, Subscription!Change, Subscription!Becomes
<1>4. ASSUME NEW hook \in webhooks, Subscription!Deliver(hook)
      PROVE  Subscription!TypeOK'
  <2>1. CASE hook.type = "checkout"
    <3>1. hook \in Subscription!Checkouts
      BY <2>1 DEF Subscription!Checkouts, Subscription!Updates
    <3>2. hook.of \in Subscriptions
      BY <3>1 DEF Subscription!Checkouts
    <3>3. row # None => row.status \in Subscription!StripeStatuses
                                        \cup {"pending"}
      BY DEF Subscription!Rows
    <3>4. Subscription!CheckoutRow(hook.of) \in Subscription!Rows
      BY <3>2, <3>3 DEF Subscription!CheckoutRow, Subscription!Rows
    <3> QED
      BY <1>4, <2>1, <3>4 DEF Subscription!Deliver
  <2>2. CASE hook.type # "checkout"
    <3>1. hook \in Subscription!Updates
      BY <2>2 DEF Subscription!Checkouts, Subscription!Updates
    <3>2. [subscription |-> hook.of, status |-> hook.status]
            \in Subscription!Rows
      BY <3>1 DEF Subscription!Updates, Subscription!Rows
    <3> QED
      BY <1>4, <2>2, <3>2 DEF Subscription!Deliver
  <2> QED
    BY <2>1, <2>2
<1>5. {"active", "incomplete"} \subseteq Subscription!StripeStatuses
  BY DEF Subscription!StripeStatuses, Subscription!Paid
<1> QED
  BY <1>1, <1>2, <1>3, <1>4, <1>5 DEF Subscription!Next

LEMMA BillingStep ==
    ASSUME Subscription!TypeOK, Subscription!PaidAccessWasReported,
           [Subscription!Next]_(Subscription!vars)
    PROVE  Subscription!PaidAccessWasReported'
<1>1. webhooks \subseteq webhooks'
  BY DEF Subscription!Next, Subscription!vars,
         Subscription!CheckSubscription, Subscription!Refused,
         Subscription!OpenSession, Subscription!Pay, Subscription!Change,
         Subscription!Becomes, Subscription!Deliver
<1>2. CASE UNCHANGED row
  BY <1>1, <1>2
  DEF Subscription!PaidAccessWasReported, Subscription!HasPaidAccess
<1>3. ASSUME NEW hook \in webhooks, Subscription!Deliver(hook)
      PROVE  Subscription!PaidAccessWasReported'
  <2>1. CASE hook.type = "checkout"
    <3>1. row' = Subscription!CheckoutRow(hook.of)
      BY <1>3, <2>1 DEF Subscription!Deliver
    <3>2. row'.status = "pending"
          \/ (row # None /\ row'.status = row.status)
      BY <3>1 DEF Subscription!CheckoutRow
    <3> QED
      BY <1>1, <3>2
      DEF Subscription!PaidAccessWasReported, Subscription!HasPaidAccess,
          Subscription!Paid
  <2>2. CASE hook.type # "checkout"
    <3>1. hook \in Subscription!Updates
      BY <2>2
      DEF Subscription!TypeOK, Subscription!Checkouts, Subscription!Updates
    <3>2. /\ hook = [type |-> "subscription", of |-> hook.of,
                       status |-> hook.status]
          /\ hook.of \in Subscriptions
      BY <3>1 DEF Subscription!Updates
    <3>3. row'.status = hook.status
      BY <1>3, <2>2 DEF Subscription!Deliver
    <3> QED
      BY <1>1, <3>2, <3>3
      DEF Subscription!PaidAccessWasReported, Subscription!HasPaidAccess
  <2> QED
    BY <2>1, <2>2
<1>4. UNCHANGED row \/ \E hook \in webhooks : Subscription!Deliver(hook)
  BY DEF Subscription!Next, Subscription!vars,
         Subscription!CheckSubscription, Subscription!Refused,
         Subscription!OpenSession, Subscription!Pay, Subscription!Change
<1> QED
  BY <1>2, <1>3, <1>4

(* Paid access is given for what Stripe once reported as paid, in whatever *)
(* order the webhooks of several checkouts arrive, and however often.      *)
THEOREM PaidAccessIsReported ==
    Subscription!Spec
      => [](Subscription!TypeOK /\ Subscription!PaidAccessWasReported)
<1>1. Subscription!Init
        => Subscription!TypeOK /\ Subscription!PaidAccessWasReported
  BY DEF Subscription!Init, Subscription!TypeOK, Subscription!HasPaidAccess,
         Subscription!PaidAccessWasReported
<1>2. /\ Subscription!TypeOK /\ Subscription!PaidAccessWasReported
      /\ [Subscription!Next]_(Subscription!vars)
      => Subscription!TypeOK' /\ Subscription!PaidAccessWasReported'
  BY BillingType, BillingStep
<1> QED
  BY <1>1, <1>2, PTL DEF Subscription!Spec

(***************************************************************************)
(* The password resets of a user                                           *)
(***************************************************************************)
TokensAssumption == IsFiniteSet(Tokens)

(* A token that set a password is spent; a session carries the version of  *)
(* the password it was opened with.                                        *)
PasswordInv ==
    /\ version = Cardinality(resets)
    /\ \A t \in resets : tokens[t] \in {"used", "deleted"}
    /\ \A session \in sessions : session.ver = session.password

LEMMA ResetsAreCounted ==
    ASSUME TokensAssumption, resets \subseteq Tokens
    PROVE  /\ IsFiniteSet(resets) /\ Cardinality(Tokens) \in Nat
           /\ Cardinality(resets) \in Nat
           /\ Password!Versions = 0..Cardinality(Tokens)
<1>1. IsFiniteSet(resets)
  <2>1. resets \in SUBSET Tokens
    OBVIOUS
  <2> QED
    BY <2>1, FS_Subset DEF TokensAssumption
<1> QED
  BY <1>1, FS_CardinalityType, SameCardinality
  DEF TokensAssumption, Password!Versions

LEMMA PasswordInit ==
    ASSUME TokensAssumption, Password!Init
    PROVE  Password!TypeOK /\ PasswordInv
<1>1. resets = {} /\ sessions = {} /\ version = 0
  BY DEF Password!Init
<1>2. 0 \in Password!Versions
  BY <1>1, ResetsAreCounted
<1>3. asking \in [Calls -> Password!CallStates]
  <2>1. Password!Idle \in Password!CallStates
    BY <1>2 DEF Password!Idle, Password!CallStates, Password!NoToken
  <2> QED
    BY <2>1 DEF Password!Init
<1>4. tokens \in [Tokens -> Password!TokenStates]
  BY DEF Password!Init, Password!TokenStates
<1>5. PasswordInv
  BY <1>1, FS_EmptySet DEF PasswordInv
<1> QED
  BY <1>1, <1>2, <1>3, <1>4, <1>5 DEF Password!TypeOK

LEMMA PasswordStep ==
    ASSUME TokensAssumption, Password!TypeOK, PasswordInv,
           [Password!Next]_(Password!vars)
    PROVE  Password!TypeOK' /\ PasswordInv'
<1>a. /\ tokens \in [Tokens -> Password!TokenStates]
      /\ version \in Password!Versions
      /\ resets \subseteq Tokens
      /\ sessions \subseteq Password!Sessions
      /\ asking \in [Calls -> Password!CallStates]
      /\ 0 \in Password!Versions
  BY ResetsAreCounted DEF Password!TypeOK
<1>b. /\ version = Cardinality(resets)
      /\ \A t \in resets : tokens[t] \in {"used", "deleted"}
      /\ \A session \in sessions : session.ver = session.password
  BY DEF PasswordInv
<1>c. \A c \in Calls : asking[c] \in Password!CallStates
  BY <1>a
<1>d. ASSUME NEW c \in Calls, Password!Leave(c)
      PROVE  asking' \in [Calls -> Password!CallStates]
  <2>1. Password!Idle \in Password!CallStates
    BY <1>a DEF Password!Idle, Password!CallStates, Password!NoToken
  <2> QED
    BY <1>a, <1>d, <2>1 DEF Password!Leave
<1>e. ASSUME NEW c \in Calls,
             NEW point \in {"forgot", "create", "undo"},
             asking' = [asking EXCEPT ![c].pc = point]
      PROVE  asking' \in [Calls -> Password!CallStates]
  <2>1. [asking[c] EXCEPT !.pc = point] \in Password!CallStates
    BY <1>c DEF Password!CallStates
  <2> QED
    BY <1>a, <1>e, <2>1
(* A token is created, expires or is deleted; none that was spent is valid *)
(* again.                                                                  *)
<1>f. ASSUME tokens' \in [Tokens -> Password!TokenStates],
             asking' \in [Calls -> Password!CallStates],
             \A t \in Tokens : tokens[t] \in {"used", "deleted"} =>
               tokens'[t] \in {"used", "deleted"},
             UNCHANGED <<version, resets>>,
             sessions' \subseteq Password!Sessions,
             \A session \in sessions' : session.ver = session.password
      PROVE  Password!TypeOK' /\ PasswordInv'
  BY <1>a, <1>b, <1>f DEF Password!TypeOK, PasswordInv
<1>g. ASSUME NEW some, tokens' = Password!Deleting(some)
      PROVE  /\ tokens' \in [Tokens -> Password!TokenStates]
             /\ \A t \in Tokens : tokens[t] \in {"used", "deleted"} =>
                  tokens'[t] \in {"used", "deleted"}
  BY <1>a, <1>g DEF Password!Deleting, Password!TokenStates
<1>1. CASE UNCHANGED Password!vars
  BY <1>1, <1>a, <1>b, <1>f DEF Password!vars
<1>2. ASSUME NEW c \in Calls, Password!CheckRecent(c)
      PROVE  Password!TypeOK' /\ PasswordInv'
  BY <1>2, <1>a, <1>b, <1>e, <1>f DEF Password!CheckRecent
<1>3. ASSUME NEW c \in Calls, Password!DeleteUnused(c)
      PROVE  Password!TypeOK' /\ PasswordInv'
  BY <1>3, <1>a, <1>b, <1>e, <1>f, <1>g DEF Password!DeleteUnused
<1>4. ASSUME NEW c \in Calls, NEW t \in Tokens,
             Password!CreateToken(c, t) \/ Password!ReadToken(c, t)
      PROVE  Password!TypeOK' /\ PasswordInv'
  <2>1. PICK point \in {"mail", "reset"} :
          asking' = [asking EXCEPT ![c] =
                       [pc |-> point, token |-> t, ver |-> 0]]
    BY <1>4 DEF Password!CreateToken, Password!ReadToken
  <2>2. [pc |-> point, token |-> t, ver |-> 0] \in Password!CallStates
    BY <1>a DEF Password!CallStates
  <2>3. asking' \in [Calls -> Password!CallStates]
    BY <1>a, <2>1, <2>2
  <2>4. /\ tokens' \in [Tokens -> Password!TokenStates]
        /\ \A s \in Tokens : tokens[s] \in {"used", "deleted"} =>
             tokens'[s] \in {"used", "deleted"}
    BY <1>4, <1>a
    DEF Password!CreateToken, Password!ReadToken, Password!TokenStates
  <2> QED
    BY <1>4, <1>a, <1>b, <1>f, <2>3, <2>4
    DEF Password!CreateToken, Password!ReadToken
<1>5. ASSUME NEW c \in Calls, Password!Mail(c)
      PROVE  Password!TypeOK' /\ PasswordInv'
  BY <1>5, <1>a, <1>b, <1>d, <1>e, <1>f DEF Password!Mail
<1>6. ASSUME NEW c \in Calls, Password!DeleteUnsent(c)
      PROVE  Password!TypeOK' /\ PasswordInv'
  BY <1>6, <1>a, <1>b, <1>d, <1>f, <1>g DEF Password!DeleteUnsent
<1>7. ASSUME NEW c \in Calls, Password!ResetPassword(c)
      PROVE  Password!TypeOK' /\ PasswordInv'
  <2> DEFINE t == asking[c].token
  <2>1. Password!Leave(c) /\ UNCHANGED sessions
    BY <1>7 DEF Password!ResetPassword
  <2>2. CASE ~Password!Consumable(t)
    BY <1>7, <1>a, <1>b, <1>d, <1>f, <2>1, <2>2 DEF Password!ResetPassword
  <2>3. CASE Password!Consumable(t)
    <3>1. /\ tokens' = [s \in Tokens |->
               IF s = t THEN "used"
               ELSE IF tokens[s] = "never" THEN "never" ELSE "deleted"]
          /\ version' = version + 1
          /\ resets' = resets \cup {t}
          /\ t \in Tokens /\ tokens[t] \in {"valid", "expired"}
      BY <1>7, <2>3
      DEF Password!ResetPassword, Password!Consumable, Password!Unused
    <3>2. t \notin resets
      BY <1>b, <3>1
    <3>3. /\ IsFiniteSet(resets) /\ Cardinality(Tokens) \in Nat
          /\ Cardinality(resets) \in Nat
          /\ Password!Versions = 0..Cardinality(Tokens)
      BY <1>a, ResetsAreCounted
    <3>4. Cardinality(resets') = version + 1
      BY <1>b, <3>1, <3>2, <3>3, FS_AddElement
    <3>5. resets' \in SUBSET Tokens
      BY <1>a, <3>1
    <3>6. Cardinality(resets') <= Cardinality(Tokens)
      BY <3>5, FS_Subset DEF TokensAssumption
    <3>7. version' \in Password!Versions
      BY <1>b, <3>1, <3>3, <3>4, <3>6
    <3>8. tokens' \in [Tokens -> Password!TokenStates]
      BY <3>1 DEF Password!TokenStates
    <3>9. \A s \in resets' : tokens'[s] \in {"used", "deleted"}
      BY <1>a, <1>b, <3>1
    <3> QED
      BY <1>a, <1>b, <1>d, <2>1, <3>1, <3>4, <3>5, <3>7, <3>8, <3>9
      DEF Password!TypeOK, PasswordInv
  <2> QED
    BY <2>2, <2>3
<1>8. ASSUME NEW c \in Calls, Password!ReadUser(c)
      PROVE  Password!TypeOK' /\ PasswordInv'
  <2>1. [pc |-> "login", token |-> Password!NoToken, ver |-> version]
          \in Password!CallStates
    BY <1>a DEF Password!CallStates
  <2>2. asking' \in [Calls -> Password!CallStates]
    BY <1>8, <1>a, <2>1 DEF Password!ReadUser
  <2> QED
    BY <1>8, <1>a, <1>b, <1>f, <2>2 DEF Password!ReadUser
<1>9. ASSUME NEW c \in Calls, Password!Login(c)
      PROVE  Password!TypeOK' /\ PasswordInv'
  <2>1. asking[c].ver \in Password!Versions
    BY <1>c DEF Password!CallStates
  <2>2. /\ [ver |-> asking[c].ver, password |-> asking[c].ver]
             \in Password!Sessions
        /\ sessions' = sessions
             \cup {[ver |-> asking[c].ver, password |-> asking[c].ver]}
    BY <1>9, <2>1
    DEF Password!Login, Password!VersionRead, Password!Sessions
  <2> QED
    BY <1>9, <1>a, <1>b, <1>d, <1>f, <2>2 DEF Password!Login
<1>10. ASSUME NEW t \in Tokens, Password!Expire(t)
       PROVE  Password!TypeOK' /\ PasswordInv'
  BY <1>10, <1>a, <1>b, <1>f DEF Password!Expire, Password!TokenStates
<1> QED
  BY <1>1, <1>2, <1>3, <1>4, <1>5, <1>6, <1>7, <1>8, <1>9, <1>10
  DEF Password!Next

(* A link sets a password once, also when two requests use it, and no      *)
(* session opened with a password since replaced is accepted.              *)
THEOREM ResetsEndSessions ==
    ASSUME TokensAssumption
    PROVE  Password!Spec => [](Password!TypeOK /\ Password!ResetEndsSessions)
<1>1. Password!Init => Password!TypeOK /\ PasswordInv
  BY PasswordInit
<1>2. Password!TypeOK /\ PasswordInv /\ [Password!Next]_(Password!vars)
        => Password!TypeOK' /\ PasswordInv'
  BY PasswordStep
<1>3. Password!TypeOK /\ PasswordInv
        => Password!TypeOK /\ Password!ResetEndsSessions
  BY SameCardinality
  DEF PasswordInv, Password!ResetEndsSessions, Password!Accepted
<1> QED
  BY <1>1, <1>2, <1>3, PTL DEF Password!Spec

(***************************************************************************)
(* The actions of the automations                                          *)
(***************************************************************************)
OpsAssumption == IsFiniteSet(Calls) /\ MaxAttempts \in Nat

Steps == [status : {"pending", "running", "succeeded", "failed", "unknown"},
          attempts : 0..MaxAttempts]

(* The attempts of an action that may still leave a row.                   *)
Unwritten(a) ==
    {c \in Calls : /\ attempting[c].pc \in {"read", "write"}
                   /\ attempting[c].action = a}

OpsType ==
    /\ rows \in [Ops!Actions -> Nat]
    /\ step \in [Ops!Actions -> Steps]
    /\ doubled \subseteq Ops!Actions
    /\ attempting \in [Calls -> Ops!CallStates]
    /\ \A a \in Ops!Actions :
         rows[a] + Cardinality(Unwritten(a)) <= step[a].attempts

(* Two attempts of an action at once are in crossed, which an action that  *)
(* is not retry-safe never enters; elsewhere what an attempt read of the   *)
(* rows still holds when it writes.                                        *)
OpsInv ==
    \A a \in Ops!Actions :
      /\ step[a].status = "pending" => step[a].attempts = 0
      /\ Ops!Busy(a) => step[a].attempts # 0
      /\ Ops!Registry[a].effect = "create" =>
           /\ a \notin doubled
           /\ \A c \in Unwritten(a) : rows[a] = 0
      /\ a \notin doubled =>
           /\ \A c, v \in Calls :
                attempting[c].action = a /\ attempting[v].action = a => c = v
           /\ \A c \in Unwritten(a) :
                attempting[c].pc = "write" => attempting[c].seen = rows[a]
      /\ a \notin doubled \/ Ops!Registry[a].effect # "complete" => rows[a] <= 1

(* What the registry says of its actions, and the proofs need.             *)
LEMMA RegistryFacts ==
    /\ "none" \notin Ops!Actions
    /\ \A a \in Ops!Actions :
         /\ Ops!Registry[a].effect
              \in {"create", "complete", "keyed", "overwrite", "read"}
         /\ Ops!Registry[a].effect = "create" => ~Ops!IsRetrySafe(a)
<1>1. Ops!Actions = {"run_diagnostic", "regenerate", "organization_summary",
                     "internal_task", "send_email", "application_summary",
                     "missing_documents", "review_task"}
  BY DEF Ops!Actions, Ops!Registry
<1> QED
  BY <1>1
  DEF Ops!Registry, Ops!IsRetrySafe, Ops!Descriptor, Ops!RunDiagnostic,
      Ops!RegenerateOpportunities, Ops!PrepareOrganizationSummary,
      Ops!CreateInternalTask, Ops!SendEmail,
      Ops!OdcPrepareApplicationSummary, Ops!OdcFlagMissingDocuments,
      Ops!OdcCreateReviewTask

LEMMA UnwrittenIsFinite ==
    ASSUME OpsAssumption, NEW a
    PROVE  /\ IsFiniteSet(Unwritten(a))
           /\ Cardinality(Unwritten(a)) \in Nat
<1>1. Unwritten(a) \in SUBSET Calls
  BY DEF Unwritten
<1> QED
  BY <1>1, FS_Subset, FS_CardinalityType DEF OpsAssumption

LEMMA OpsInit == ASSUME OpsAssumption, Ops!Init PROVE OpsType /\ OpsInv
<1>1. \A c \in Calls : attempting[c] = Ops!Idle
  BY DEF Ops!Init
<1>2. \A a : Unwritten(a) = {}
  BY <1>1 DEF Ops!Idle, Unwritten
<1>3. \A a : Cardinality(Unwritten(a)) = 0
  BY <1>2, FS_EmptySet
<1>4. \A a \in Ops!Actions :
        /\ step[a] = [status |-> "pending", attempts |-> 0]
        /\ rows[a] = 0 /\ ~Ops!Busy(a)
  BY <1>1, RegistryFacts DEF Ops!Init, Ops!Busy, Ops!Idle
<1>5. [status |-> "pending", attempts |-> 0] \in Steps
  BY DEF Steps, OpsAssumption
<1>6. Ops!Idle \in Ops!CallStates
  BY DEF Ops!CallStates
<1>7. /\ rows \in [Ops!Actions -> Nat] /\ step \in [Ops!Actions -> Steps]
      /\ attempting \in [Calls -> Ops!CallStates] /\ doubled = {}
  BY <1>5, <1>6 DEF Ops!Init
<1>8. OpsType
  BY <1>3, <1>4, <1>7 DEF OpsType
<1>9. OpsInv
  BY <1>1, <1>2, <1>4, <1>7, RegistryFacts DEF OpsInv, Ops!Idle
<1> QED
  BY <1>8, <1>9

(* An attempt under way is of an action.                                   *)
LEMMA OpsFacts ==
    ASSUME OpsAssumption, OpsType
    PROVE  /\ \A a \in Ops!Actions :
                /\ step[a] \in Steps /\ step[a].attempts \in Nat
                /\ step[a].attempts <= MaxAttempts
                /\ rows[a] \in Nat /\ rows[a] <= MaxAttempts
           /\ \A c \in Calls :
                /\ attempting[c] \in Ops!CallStates
                /\ attempting[c].pc = "idle" => attempting[c] = Ops!Idle
                /\ attempting[c] # Ops!Idle =>
                     /\ attempting[c] \in [pc : {"read", "write", "record"},
                                           action : Ops!Actions,
                                           seen : 0..MaxAttempts]
                     /\ attempting[c].action \in Ops!Actions
<1>1. \A s \in Steps : s.attempts \in Nat /\ s.attempts <= MaxAttempts
  BY DEF Steps, OpsAssumption
<1>2. \A a \in Ops!Actions :
        /\ step[a] \in Steps /\ rows[a] \in Nat
        /\ rows[a] + Cardinality(Unwritten(a)) <= step[a].attempts
  BY DEF OpsType
<1>3. \A a \in Ops!Actions : rows[a] <= MaxAttempts
  BY <1>1, <1>2, UnwrittenIsFinite DEF OpsAssumption
<1>4. \A c \in Calls : attempting[c] \in Ops!CallStates
  BY DEF OpsType
<1> QED
  BY <1>1, <1>2, <1>3, <1>4 DEF Ops!CallStates

(* The attempt of an action ends, or its outcome is given up; its step is  *)
(* no longer pending.                                                      *)
LEMMA OpsEnds ==
    ASSUME OpsAssumption, OpsType, OpsInv, NEW c \in Calls,
           Ops!Record(c) \/ Ops!Die(c) \/ Ops!Outlive(c)
    PROVE  OpsType' /\ OpsInv'
<1> DEFINE a == attempting[c].action
<1>1. a \in Ops!Actions /\ attempting[c] # Ops!Idle
  BY OpsFacts DEF Ops!Record, Ops!Die, Ops!Outlive, Ops!At, Ops!Idle
<1>2. PICK to \in {"running", "succeeded", "failed", "unknown",
                       step[a].status} :
        step' = [step EXCEPT ![a].status = to]
  <2>1. step = [step EXCEPT ![a].status = step[a].status]
    <3>1. step[a] = [step[a] EXCEPT !.status = step[a].status]
      BY <1>1, OpsFacts DEF Steps
    <3> QED
      BY <1>1, <3>1 DEF OpsType
  <2> QED
    BY <1>1, <2>1 DEF Ops!Record, Ops!Die, Ops!Outlive
<1>3. /\ step' \in [Ops!Actions -> Steps]
      /\ \A b \in Ops!Actions :
           /\ step'[b].attempts = step[b].attempts
           /\ step'[b].status = "pending" => step[b].status = "pending"
  <2>1. /\ [step[a] EXCEPT !.status = to] \in Steps
        /\ [step[a] EXCEPT !.status = to].attempts = step[a].attempts
        /\ [step[a] EXCEPT !.status = to].status = to
    BY <1>1, OpsFacts DEF Steps
  <2>2. /\ step'[a] = [step[a] EXCEPT !.status = to]
        /\ \A b \in Ops!Actions : b # a => step'[b] = step[b]
    BY <1>1, <1>2 DEF OpsType
  <2> QED
    BY <1>1, <1>2, <2>1, <2>2 DEF OpsType
<1>4. /\ UNCHANGED <<rows, doubled>>
      /\ attempting' \in [Calls -> Ops!CallStates]
      /\ attempting'[c] = attempting[c]
         \/ (attempting'[c].action = "none" /\ attempting'[c].pc = "idle")
      /\ \A v \in Calls : v # c => attempting'[v] = attempting[v]
  BY DEF Ops!Record, Ops!Die, Ops!Outlive, OpsType, Ops!CallStates, Ops!Idle
<1>5. \A b \in Ops!Actions : /\ Unwritten(b)' \subseteq Unwritten(b)
                             /\ Ops!Busy(b)' => Ops!Busy(b)
  BY <1>4, RegistryFacts DEF Unwritten, Ops!Busy
<1>6. \A b \in Ops!Actions :
        Cardinality(Unwritten(b)') <= Cardinality(Unwritten(b))
        /\ Cardinality(Unwritten(b)') \in Nat
  <2> TAKE b \in Ops!Actions
  <2>1. Unwritten(b)' \in SUBSET Unwritten(b)
    BY <1>5
  <2> QED
    BY <2>1, UnwrittenIsFinite, FS_Subset, FS_CardinalityType
<1>7. OpsType'
  <2>1. \A b \in Ops!Actions :
          rows[b] + Cardinality(Unwritten(b)') <= step'[b].attempts
    BY <1>3, <1>6, OpsFacts, UnwrittenIsFinite DEF OpsType
  <2> QED
    BY <1>3, <1>4, <2>1 DEF OpsType
<1>8. OpsInv'
  <2>1. ASSUME NEW b \in Ops!Actions, b \notin doubled
        PROVE  /\ \A u, v \in Calls :
                    attempting'[u].action = b /\ attempting'[v].action = b
                      => u = v
               /\ \A v \in Unwritten(b)' :
                    attempting'[v].pc = "write" =>
                      attempting'[v].seen = rows[b]
    BY <1>4, <1>5, <2>1, RegistryFacts DEF OpsInv, Unwritten
  <2> QED
    BY <1>3, <1>4, <1>5, <2>1 DEF OpsInv
<1> QED
  BY <1>7, <1>8

LEMMA OpsReads ==
    ASSUME OpsAssumption, OpsType, OpsInv, NEW c \in Calls, Ops!Read(c)
    PROVE  OpsType' /\ OpsInv'
<1> DEFINE a == attempting[c].action
<1>1. a \in Ops!Actions /\ attempting[c] # Ops!Idle /\ attempting[c].pc = "read"
  BY OpsFacts DEF Ops!Read, Ops!At, Ops!Idle
<1>2. UNCHANGED <<rows, step, doubled>>
  BY DEF Ops!Read
<1>3. /\ attempting' \in [Calls -> Ops!CallStates]
      /\ attempting'[c].pc = "write" /\ attempting'[c].action = a
      /\ attempting'[c].seen = rows[a]
      /\ \A v \in Calls : v # c => attempting'[v] = attempting[v]
  <2> DEFINE one == [attempting[c] EXCEPT !.pc = "write"]
             two == [one EXCEPT !.seen = rows[a]]
  <2>1. /\ attempting'[c] = two
        /\ \A v \in Calls : v # c => attempting'[v] = attempting[v]
        /\ attempting' = [v \in Calls |-> attempting'[v]]
    BY DEF Ops!Read, OpsType
  <2>2. /\ two.pc = "write" /\ two.action = a /\ two.seen = rows[a]
        /\ two \in [pc : {"read", "write", "record"}, action : Ops!Actions,
                    seen : 0..MaxAttempts]
    <3>1. /\ one \in [pc : {"read", "write", "record"}, action : Ops!Actions,
                      seen : 0..MaxAttempts]
          /\ one.pc = "write" /\ one.action = a
      BY <1>1, OpsFacts
    <3>2. rows[a] \in 0..MaxAttempts
      BY <1>1, OpsFacts DEF OpsAssumption
    <3> HIDE DEF one
    <3> QED
      BY <3>1, <3>2
  <2> HIDE DEF two
  <2>3. \A v \in Calls : attempting'[v] \in Ops!CallStates
    BY <2>1, <2>2, OpsFacts DEF Ops!CallStates
  <2> QED
    BY <2>1, <2>2, <2>3
<1>4. \A b \in Ops!Actions : /\ Unwritten(b)' = Unwritten(b)
                             /\ Ops!Busy(b)' <=> Ops!Busy(b)
  BY <1>1, <1>3 DEF Unwritten, Ops!Busy
<1>5. OpsType'
  BY <1>2, <1>3, <1>4 DEF OpsType
<1>6. OpsInv'
  <2>1. ASSUME NEW b \in Ops!Actions, b \notin doubled
        PROVE  /\ \A u, v \in Calls :
                    attempting'[u].action = b /\ attempting'[v].action = b
                      => u = v
               /\ \A v \in Unwritten(b)' :
                    attempting'[v].pc = "write" =>
                      attempting'[v].seen = rows[b]
    BY <1>1, <1>3, <1>4, <2>1 DEF OpsInv, Unwritten
  <2> QED
    BY <1>2, <1>3, <1>4, <2>1 DEF OpsInv
<1> QED
  BY <1>5, <1>6

LEMMA OpsWrites ==
    ASSUME OpsAssumption, OpsType, OpsInv, NEW c \in Calls, Ops!Write(c)
    PROVE  OpsType' /\ OpsInv'
<1>1. PICK a \in Ops!Actions :
        /\ a = attempting[c].action /\ attempting[c] # Ops!Idle
        /\ attempting[c].pc = "write" /\ c \in Unwritten(a)
  BY OpsFacts DEF Ops!Write, Ops!At, Ops!Idle, Unwritten
<1> DEFINE after == Ops!RowsAfter(a, attempting[c].seen)
<1>2. /\ UNCHANGED <<step, doubled>>
      /\ rows'[a] = after
      /\ \A b \in Ops!Actions : b # a => rows'[b] = rows[b]
      /\ rows' = [b \in Ops!Actions |-> rows'[b]]
  BY <1>1 DEF Ops!Write, OpsType
<1>3. after \in Nat /\ after <= rows[a] + 1
  BY <1>1, RegistryFacts, OpsFacts DEF Ops!RowsAfter
<1>4. a \notin doubled \/ Ops!Registry[a].effect # "complete" => after <= 1
  <2>1. CASE Ops!Registry[a].effect = "create"
    <3>1. rows[a] = 0
      BY <1>1, <2>1 DEF OpsInv
    <3> QED
      BY <2>1, <3>1 DEF Ops!RowsAfter
  <2>2. CASE Ops!Registry[a].effect = "complete" /\ a \notin doubled
    <3>1. attempting[c].seen = rows[a] /\ rows[a] <= 1
      BY <1>1, <2>2 DEF OpsInv
    <3> QED
      BY <1>1, <2>2, <3>1, OpsFacts DEF Ops!RowsAfter
  <2>3. CASE Ops!Registry[a].effect \in {"keyed", "overwrite", "read"}
    BY <2>3 DEF Ops!RowsAfter
  <2> QED
    BY <1>1, <2>1, <2>2, <2>3, RegistryFacts
<1> HIDE DEF after
<1>5. /\ attempting' \in [Calls -> Ops!CallStates]
      /\ attempting'[c].pc = "record" /\ attempting'[c].action = a
      /\ \A v \in Calls : v # c => attempting'[v] = attempting[v]
  <2>1. /\ [attempting[c] EXCEPT !.pc = "record"] \in Ops!CallStates
        /\ [attempting[c] EXCEPT !.pc = "record"].pc = "record"
        /\ [attempting[c] EXCEPT !.pc = "record"].action = a
    BY <1>1, OpsFacts DEF Ops!CallStates
  <2> QED
    BY <2>1 DEF Ops!Write, OpsType
<1>6. \A b \in Ops!Actions :
        /\ Unwritten(b)' = IF b = a THEN Unwritten(b) \ {c} ELSE Unwritten(b)
        /\ Ops!Busy(b)' <=> Ops!Busy(b)
  BY <1>1, <1>5 DEF Unwritten, Ops!Busy
<1>7. Cardinality(Unwritten(a) \ {c}) = Cardinality(Unwritten(a)) - 1
  BY <1>1, UnwrittenIsFinite, FS_RemoveElement
<1>8. OpsType'
  <2>1. ASSUME NEW b \in Ops!Actions
        PROVE  rows'[b] + Cardinality(Unwritten(b)') <= step[b].attempts
    <3>1. CASE b = a
      <4>1. Unwritten(a)' = Unwritten(a) \ {c}
        BY <1>1, <1>6
      <4>2. Cardinality(Unwritten(a)') = Cardinality(Unwritten(a)) - 1
        BY <1>7, <4>1
      <4>3. rows[a] + Cardinality(Unwritten(a)) <= step[a].attempts
        BY <1>1 DEF OpsType
      <4>4. /\ rows[a] \in Nat /\ step[a].attempts \in Nat
            /\ Cardinality(Unwritten(a)) \in Nat
        BY <1>1, OpsFacts, UnwrittenIsFinite
      <4> QED
        BY <1>2, <1>3, <3>1, <4>2, <4>3, <4>4
    <3>2. CASE b # a
      BY <1>2, <1>6, <3>2 DEF OpsType
    <3> QED
      BY <3>1, <3>2
  <2>2. rows' \in [Ops!Actions -> Nat]
    BY <1>2, <1>3, OpsFacts
  <2> QED
    BY <1>2, <1>5, <2>1, <2>2 DEF OpsType
<1>9. OpsInv'
  <2>1. ASSUME NEW b \in Ops!Actions, b \notin doubled
        PROVE  /\ \A u, v \in Calls :
                    attempting'[u].action = b /\ attempting'[v].action = b
                      => u = v
               /\ \A v \in Unwritten(b)' :
                    attempting'[v].pc = "write" =>
                      attempting'[v].seen = rows'[b]
               /\ b = a => Unwritten(b)' = {}
    BY <1>1, <1>2, <1>5, <1>6, <2>1 DEF OpsInv, Unwritten
  <2>2. \A b \in Ops!Actions :
          Ops!Registry[b].effect = "create" => b \notin doubled
    BY DEF OpsInv
  <2> QED
    BY <1>1, <1>2, <1>4, <1>5, <1>6, <2>1, <2>2 DEF OpsInv
<1> QED
  BY <1>8, <1>9

LEMMA OpsAttempts ==
    ASSUME OpsAssumption, OpsType, OpsInv, NEW c \in Calls,
           NEW a \in Ops!Actions, Ops!Attempt(c, a)
    PROVE  OpsType' /\ OpsInv'
<1>1. /\ attempting[c] = Ops!Idle /\ step[a].attempts < MaxAttempts
      /\ UNCHANGED <<rows, input>>
      /\ doubled' = IF Ops!Busy(a) THEN doubled \cup {a} ELSE doubled
  BY OpsFacts DEF Ops!Attempt, Ops!At
<1>2. PICK to \in {"running", "failed"} :
        step' = [step EXCEPT ![a].attempts = @ + 1, ![a].status = to]
  BY DEF Ops!Attempt
<1>3. /\ step' \in [Ops!Actions -> Steps]
      /\ step'[a].attempts = step[a].attempts + 1 /\ step'[a].status = to
      /\ \A b \in Ops!Actions : b # a => step'[b] = step[b]
  <2> DEFINE one == [step[a] EXCEPT !.attempts = step[a].attempts + 1]
             two == [one EXCEPT !.status = to]
  <2>1. /\ step'[a] = two
        /\ \A b \in Ops!Actions : b # a => step'[b] = step[b]
        /\ step' = [b \in Ops!Actions |-> step'[b]]
    BY <1>2 DEF OpsType
  <2>2. /\ two.attempts = step[a].attempts + 1 /\ two.status = to
        /\ two \in Steps
    <3>1. step[a].attempts + 1 \in 0..MaxAttempts /\ step[a] \in Steps
      BY <1>1, OpsFacts DEF OpsAssumption
    <3>2. one \in Steps /\ one.attempts = step[a].attempts + 1
      BY <3>1 DEF Steps
    <3> HIDE DEF one
    <3> QED
      BY <3>2 DEF Steps
  <2> HIDE DEF two
  <2> QED
    BY <2>1, <2>2, OpsFacts
<1>4. Ops!Registry[a].effect = "create" => step[a].attempts = 0 /\ ~Ops!Busy(a)
  BY RegistryFacts DEF Ops!Attempt, OpsInv
<1>5. CASE UNCHANGED attempting
  <2>1. \A b \in Ops!Actions : /\ Unwritten(b)' = Unwritten(b)
                               /\ Ops!Busy(b)' <=> Ops!Busy(b)
    BY <1>5 DEF Unwritten, Ops!Busy
  <2>2. OpsType'
    BY <1>1, <1>3, <1>5, <2>1, OpsFacts, UnwrittenIsFinite DEF OpsType
  <2>3. OpsInv'
    BY <1>1, <1>3, <1>4, <1>5, <2>1, OpsFacts DEF OpsInv
  <2> QED
    BY <2>2, <2>3
<1>6. CASE attempting' = [attempting EXCEPT
                            ![c] = [pc |-> "read", action |-> a, seen |-> 0]]
  <2>1. /\ attempting' \in [Calls -> Ops!CallStates]
        /\ attempting'[c].pc = "read" /\ attempting'[c].action = a
        /\ \A v \in Calls : v # c => attempting'[v] = attempting[v]
    <3>1. [pc |-> "read", action |-> a, seen |-> 0] \in Ops!CallStates
      BY DEF Ops!CallStates, OpsAssumption
    <3> QED
      BY <1>6, <3>1 DEF OpsType
  <2>2. attempting[c].pc = "idle" /\ attempting[c].action = "none"
    BY <1>1 DEF Ops!Idle
  <2>3. \A b \in Ops!Actions :
          /\ Unwritten(b)' = IF b = a THEN Unwritten(b) \cup {c}
                             ELSE Unwritten(b)
          /\ b # a => (Ops!Busy(b)' <=> Ops!Busy(b))
          /\ c \notin Unwritten(b)
    BY <2>1, <2>2, RegistryFacts DEF Unwritten, Ops!Busy
  <2>4. Cardinality(Unwritten(a) \cup {c}) = Cardinality(Unwritten(a)) + 1
    BY <2>3, UnwrittenIsFinite, FS_AddElement
  <2>5. OpsType'
    <3>1. ASSUME NEW b \in Ops!Actions
          PROVE  rows[b] + Cardinality(Unwritten(b)') <= step'[b].attempts
      <4>1. CASE b = a
        <5>1. Unwritten(a)' = Unwritten(a) \cup {c}
          BY <2>3
        <5>2. Cardinality(Unwritten(a)') = Cardinality(Unwritten(a)) + 1
          BY <2>4, <5>1
        <5>3. rows[a] + Cardinality(Unwritten(a)) <= step[a].attempts
          BY DEF OpsType
        <5>4. /\ rows[a] \in Nat /\ step[a].attempts \in Nat
              /\ Cardinality(Unwritten(a)) \in Nat
          BY OpsFacts, UnwrittenIsFinite
        <5> QED
          BY <1>3, <4>1, <5>2, <5>3, <5>4
      <4>2. CASE b # a
        BY <1>3, <2>3, <4>2 DEF OpsType
      <4> QED
        BY <4>1, <4>2
    <3> QED
      BY <1>1, <1>3, <2>1, <3>1 DEF OpsType
  <2>6. ASSUME NEW b \in Ops!Actions, b \notin doubled'
        PROVE  /\ b \notin doubled
               /\ \A u, v \in Calls :
                    attempting'[u].action = b /\ attempting'[v].action = b
                      => u = v
               /\ \A v \in Unwritten(b)' :
                    attempting'[v].pc = "write" =>
                      attempting'[v].seen = rows[b]
    <3>1. b \notin doubled /\ (b = a => ~Ops!Busy(a))
      BY <1>1, <2>6
    <3>2. \A u, v \in Calls :
            attempting'[u].action = b /\ attempting'[v].action = b => u = v
      <4>1. CASE b = a
        BY <2>1, <3>1, <4>1 DEF Ops!Busy
      <4>2. CASE b # a
        BY <2>1, <3>1, <4>2 DEF OpsInv
      <4> QED
        BY <4>1, <4>2
    <3>3. \A v \in Unwritten(b)' :
            attempting'[v].pc = "write" => attempting'[v].seen = rows[b]
      BY <2>1, <2>3, <3>1 DEF OpsInv, Unwritten
    <3> QED
      BY <3>1, <3>2, <3>3
  <2>7. Ops!Registry[a].effect = "create" => rows[a] = 0
    BY <1>4, OpsFacts, UnwrittenIsFinite DEF OpsType
  <2>8. step'[a].attempts # 0 /\ step'[a].status # "pending"
    BY <1>3, OpsFacts
  <2>9. OpsInv'
    BY <1>1, <1>3, <1>4, <2>3, <2>6, <2>7, <2>8 DEF OpsInv
  <2> QED
    BY <2>5, <2>9
<1> QED
  BY <1>5, <1>6 DEF Ops!Attempt

(* Executing an action again never leaves more behind than executing it    *)
(* once, unless two attempts are made at once, and for an e-mail or a      *)
(* summary even then.                                                      *)
THEOREM ReplaysAreHarmless ==
    ASSUME OpsAssumption
    PROVE  Ops!Spec => [](Ops!TypeOK /\ Ops!ReplayIsHarmless)
<1> DEFINE Inv == OpsType /\ OpsInv
<1>1. Ops!Init => Inv
  BY OpsInit
<1>2. Inv /\ [Ops!Next]_(Ops!vars) => Inv'
  <2> SUFFICES ASSUME OpsType, OpsInv, [Ops!Next]_(Ops!vars)
               PROVE  OpsType' /\ OpsInv'
    OBVIOUS
  <2>1. CASE UNCHANGED Ops!vars
    BY <2>1 DEF Ops!vars, OpsType, OpsInv, Unwritten, Ops!Busy
  <2>2. ASSUME NEW c \in Calls, NEW a \in Ops!Actions, Ops!Attempt(c, a)
        PROVE  OpsType' /\ OpsInv'
    BY <2>2, OpsAttempts
  <2>3. ASSUME NEW c \in Calls,
               \/ Ops!Read(c) \/ Ops!Write(c) \/ Ops!Record(c) \/ Ops!Die(c)
               \/ Ops!Outlive(c)
        PROVE  OpsType' /\ OpsInv'
    BY <2>3, OpsReads, OpsWrites, OpsEnds
  <2> QED
    BY <2>1, <2>2, <2>3 DEF Ops!Next
<1>3. Inv => Ops!TypeOK /\ Ops!ReplayIsHarmless
  <2> SUFFICES ASSUME OpsType, OpsInv
               PROVE  Ops!TypeOK /\ Ops!ReplayIsHarmless
    OBVIOUS
  <2>1. \A a \in Ops!Actions : rows[a] \in 0..MaxAttempts
                               /\ step[a].attempts \in 0..MaxAttempts
    BY OpsFacts DEF OpsAssumption
  <2>2. rows \in [Ops!Actions -> 0..MaxAttempts]
    BY <2>1 DEF OpsType
  <2> QED
    BY <2>1, <2>2 DEF OpsType, OpsInv, Ops!TypeOK, Ops!ReplayIsHarmless
<1> HIDE DEF Inv
<1> QED
  BY <1>1, <1>2, <1>3, PTL DEF Ops!Spec

(***************************************************************************)
(* The findings made of the Meta signals                                   *)
(***************************************************************************)
CONSTANT MinPosts
Findings == INSTANCE MetaFindings

LEMMA PostsAreCounted ==
    ASSUME NEW n \in Nat, NEW media \in [1..n -> Findings!Timestamps],
           NEW stamps
    PROVE  LET posts == {i \in 1..n : media[i] \in stamps}
           IN  /\ IsFiniteSet(posts) /\ Cardinality(posts) \in Nat
               /\ Findings!Count(media, stamps) = Cardinality(posts)
<1> DEFINE posts == {i \in 1..n : media[i] \in stamps}
<1>1. IsFiniteSet(posts)
  BY FS_Interval, FS_Subset
<1>2. Findings!Count(media, stamps) = Cardinality(posts)
  BY DEF Findings!Count, Findings!Cardinality, Cardinality
<1> QED
  BY <1>1, <1>2, FS_CardinalityType

LEMMA CountedInTwo ==
    ASSUME NEW S, IsFiniteSet(S), NEW T, IsFiniteSet(T), S \cap T = {},
           NEW R, R \subseteq S \cup T
    PROVE  /\ Cardinality(R) <= Cardinality(S) + Cardinality(T)
           /\ Cardinality(R) \in Nat /\ Cardinality(S) \in Nat
           /\ Cardinality(T) \in Nat
<1>1. Cardinality(S \cap T) = 0
  BY FS_EmptySet
<1>2. /\ IsFiniteSet(S \cup T)
      /\ Cardinality(S \cup T)
           = Cardinality(S) + Cardinality(T) - Cardinality(S \cap T)
  BY FS_Union
<1>3. IsFiniteSet(R) /\ Cardinality(R) <= Cardinality(S \cup T)
  BY <1>2, FS_Subset
<1>4. /\ Cardinality(S) \in Nat /\ Cardinality(T) \in Nat
      /\ Cardinality(R) \in Nat
  BY <1>3, FS_CardinalityType
<1> QED
  BY <1>1, <1>2, <1>3, <1>4

(* However many posts there are and whichever of them have no usable       *)
(* timestamp, a finding about them holds for every date these may have.    *)
THEOREM FindingsAreObserved ==
    ASSUME MinPosts \in Nat \ {0}, NEW signals,
           NEW n \in Nat, signals.media \in [1..n -> Findings!Timestamps]
    PROVE  Findings!NothingInvented([signals |-> signals])
<1> DEFINE media == signals.media
           findings == Findings!EvaluateMetaFindings(signals)
           aboutPosts == {"META_NO_RECENT_MEDIA", "META_LOW_RECENT_ACTIVITY"}
<1>1. ASSUME findings \cap aboutPosts # {}
      PROVE  /\ signals.connected /\ signals.pageSelected
             /\ signals.instagramLinked /\ signals.mediaRead
             /\ DOMAIN media = {} \/ Findings!LowActivity(media)
  BY <1>1 DEF Findings!EvaluateMetaFindings, Findings!MediaFindings
<1>2. ASSUME DOMAIN media = {} \/ Findings!LowActivity(media),
             NEW m \in Findings!Possible(media)
      PROVE  Findings!Count(m, {"recent"}) < MinPosts
  <2> DEFINE Dated(f, stamp) == {i \in 1..n : f[i] \in {stamp}}
  <2>1. /\ m \in [1..n -> Findings!Timestamps]
        /\ \A i \in 1..n : /\ m[i] \in {"recent", "old"}
                           /\ media[i] # "unknown" => m[i] = media[i]
    BY <1>2 DEF Findings!Possible, Findings!Timestamps
  <2>2. ASSUME NEW f \in [1..n -> Findings!Timestamps], NEW stamp
        PROVE  /\ IsFiniteSet(Dated(f, stamp))
               /\ Cardinality(Dated(f, stamp)) \in Nat
               /\ Findings!Count(f, {stamp}) = Cardinality(Dated(f, stamp))
    BY PostsAreCounted
  <2>3. Dated(m, "recent")
          \subseteq Dated(media, "recent") \cup Dated(media, "unknown")
    BY <2>1
  <2>4. Dated(media, "recent") \cap Dated(media, "unknown") = {}
    OBVIOUS
  <2>5. media = signals.media /\ media \in [1..n -> Findings!Timestamps]
    OBVIOUS
  <2>6. CASE DOMAIN media = {}
    <3>1. Dated(m, "recent") = {}
      BY <2>6
    <3>2. Findings!Count(m, {"recent"}) = Cardinality(Dated(m, "recent"))
      BY <2>1, <2>2
    <3>3. Cardinality(Dated(m, "recent")) = 0
      BY <3>1, FS_EmptySet
    <3> QED
      BY <3>2, <3>3
  <2>7. CASE Findings!LowActivity(media)
    <3>1. /\ IsFiniteSet(Dated(media, "recent"))
          /\ IsFiniteSet(Dated(media, "unknown"))
          /\ Findings!Count(m, {"recent"}) = Cardinality(Dated(m, "recent"))
          /\ Findings!Count(media, {"recent"})
               = Cardinality(Dated(media, "recent"))
          /\ Findings!Count(media, {"unknown"})
               = Cardinality(Dated(media, "unknown"))
      BY <2>1, <2>2, <2>5
    <3>2. Findings!Count(media, {"recent"}) + Findings!Count(media, {"unknown"})
            < MinPosts
      BY <2>7 DEF Findings!LowActivity
    <3> HIDE DEF Dated, media
    <3>3. /\ Cardinality(Dated(m, "recent"))
               <= Cardinality(Dated(media, "recent"))
                    + Cardinality(Dated(media, "unknown"))
          /\ Cardinality(Dated(m, "recent")) \in Nat
          /\ Cardinality(Dated(media, "recent")) \in Nat
          /\ Cardinality(Dated(media, "unknown")) \in Nat
      BY <2>3, <2>4, <3>1, CountedInTwo
    <3> QED
      BY <3>1, <3>2, <3>3
  <2> QED
    BY <1>2, <2>6, <2>7
<1> QED
  BY <1>1, <1>2 DEF Findings!NothingInvented

=============================================================================
