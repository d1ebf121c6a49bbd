-------------------------- MODULE AuditOpportunities --------------------------
(***************************************************************************)
(* One audit, the opportunities generated from it and the actions generated*)
(* from one of them (AuditsService, OpportunitiesService,                  *)
(* ActionItemsService).  Each generation counts the rows there are and     *)
(* creates what it computed meanwhile, in a transaction that checks        *)
(* nothing.                                                                *)
(***************************************************************************)
EXTENDS Naturals, FiniteSets

CONSTANTS
    Calls,              \* generations in progress at a time
    Rules,              \* provider findings, by provider and rule code
    MaxRows             \* bound: generations of the same rows

VARIABLES
    audit,              \* Audit.status
    event,              \* audit.completed has been emitted
    runner,             \* what the request that runs the audit is doing
    seo,                \* times the SEO opportunities were created
    found,              \* opportunities of each provider rule
    actions,            \* times the action items were created
    overlapped,         \* ghost: two generations of the same rows crossed
    call

vars == <<audit, event, runner, seo, found, actions, overlapped, call>>

Idle == [pc |-> "idle", missing |-> {}]
CallStates == [pc : {"idle", "generate", "create", "sync", "actions"},
               missing : SUBSET Rules]

At(c, point) == call[c].pc = point
Leave(c) == call' = [call EXCEPT ![c] = Idle]
Generating(c) == call[c].pc \in {"generate", "create", "sync"}

Init ==
    /\ audit = "none"
    /\ event = FALSE
    /\ runner = "idle"
    /\ seo = 0
    /\ found = [r \in Rules |-> 0]
    /\ actions = 0
    /\ overlapped = FALSE
    /\ call = [c \in Calls |-> Idle]

Opportunities == UNCHANGED <<seo, found, actions, overlapped, call>>

(***************************************************************************)
(* AuditsService.run and runSite: the row, the crawl with its pages, the   *)
(* result, the event; anything thrown on the way fails the audit.          *)
(***************************************************************************)
CreateAudit ==
    /\ audit = "none"
    /\ audit' = "running"
    /\ runner' = "crawl"
    /\ UNCHANGED event
    /\ Opportunities

Crawl ==
    /\ runner = "crawl"
    /\ runner' \in {"complete", "catch"}
    /\ UNCHANGED <<audit, event>>
    /\ Opportunities

(* The update, whose answer may be lost.  Mutant: the event goes first.    *)
EmitAndComplete ==
    /\ runner = "complete"
    /\ event' = TRUE
    /\ audit' = "completed"
    /\ runner' \in {"emit", "catch"}
    /\ Opportunities

Complete ==
    /\ runner = "complete"
    /\ audit' \in {audit, "completed"}
    /\ runner' \in IF audit' = audit THEN {"catch"} ELSE {"emit", "catch"}
    /\ UNCHANGED event
    /\ Opportunities

(* A listener's error does not reach the emitter.                          *)
Emit ==
    /\ runner = "emit"
    /\ event' = TRUE
    /\ runner' = "idle"
    /\ UNCHANGED audit
    /\ Opportunities

Catch ==
    /\ runner = "catch"
    /\ audit' = "failed"
    /\ runner' = "idle"
    /\ UNCHANGED event
    /\ Opportunities

(* The process ends: nothing takes a running audit up again.               *)
LoseRunner ==
    /\ runner # "idle"
    /\ runner' = "idle"
    /\ UNCHANGED <<audit, event>>
    /\ Opportunities

(***************************************************************************)
(* generateFromAudit, generateFromSiteAudit                                *)
(***************************************************************************)
Count == seo + Cardinality({r \in Rules : found[r] > 0})

CountOpportunities(c) ==
    /\ At(c, "idle")
    /\ audit = "completed"
    /\ call' = [call EXCEPT ![c].pc = IF Count > 0 THEN "sync" ELSE "generate"]
    /\ overlapped' = (overlapped \/ \E d \in Calls : Generating(d))
    /\ UNCHANGED <<audit, event, runner, seo, found, actions>>

(* The generator answers, then the providers: some of their findings.      *)
Generate(c, findings) ==
    /\ At(c, "generate")
    /\ call' = [call EXCEPT ![c] = [pc |-> "create", missing |-> findings]]
    /\ UNCHANGED <<audit, event, runner, seo, found, actions, overlapped>>

Added(rules) == [r \in Rules |-> IF r \in rules THEN found[r] + 1 ELSE found[r]]

Bounded == seo < MaxRows /\ \A r \in Rules : found[r] < MaxRows

CreateOpportunities(c) ==
    /\ At(c, "create")
    /\ Bounded
    /\ seo' = seo + 1
    /\ found' = Added(call[c].missing)
    /\ Leave(c)
    /\ UNCHANGED <<audit, event, runner, actions, overlapped>>

(* existingProviderRuleKeys.  Mutant: every finding of the provider is new.*)
AllFindings(findings) == findings

MissingFindings(findings) == {r \in findings : found[r] = 0}

(* syncMissingProviderOpportunities: only what is not there yet.           *)
SyncMissing(c, findings) ==
    /\ At(c, "sync")
    /\ call[c].missing = {}
    /\ IF MissingFindings(findings) = {}
       THEN Leave(c)
       ELSE call' = [call EXCEPT ![c].missing = MissingFindings(findings)]
    /\ UNCHANGED <<audit, event, runner, seo, found, actions, overlapped>>

CreateMissing(c) ==
    /\ At(c, "sync")
    /\ call[c].missing # {}
    /\ Bounded
    /\ found' = Added(call[c].missing)
    /\ Leave(c)
    /\ UNCHANGED <<audit, event, runner, seo, actions, overlapped>>

(* The generator or the database refuses, or the call is lost.             *)
Fail(c) ==
    /\ ~At(c, "idle")
    /\ Leave(c)
    /\ UNCHANGED <<audit, event, runner, seo, found, actions, overlapped>>

(***************************************************************************)
(* ActionItemsService.generateFromOpportunity                              *)
(***************************************************************************)
CountActions(c) ==
    /\ At(c, "idle")
    /\ seo > 0
    /\ actions = 0
    /\ call' = [call EXCEPT ![c].pc = "actions"]
    /\ overlapped' = (overlapped \/ \E d \in Calls : At(d, "actions"))
    /\ UNCHANGED <<audit, event, runner, seo, found, actions>>

CreateActions(c) ==
    /\ At(c, "actions")
    /\ actions < MaxRows
    /\ actions' = actions + 1
    /\ Leave(c)
    /\ UNCHANGED <<audit, event, runner, seo, found, overlapped>>

Next ==
    \/ CreateAudit \/ Crawl \/ Complete \/ Emit \/ Catch \/ LoseRunner
    \/ \E c \in Calls :
         \/ CountOpportunities(c)
         \/ \E findings \in SUBSET Rules :
              Generate(c, findings) \/ SyncMissing(c, findings)
         \/ CreateOpportunities(c) \/ CreateMissing(c)
         \/ CountActions(c) \/ CreateActions(c)
         \/ Fail(c)

Spec == Init /\ [][Next]_vars

(***************************************************************************)
(* Properties                                                              *)
(***************************************************************************)
TypeOK ==
    /\ audit \in {"none", "running", "completed", "failed"}
    /\ event \in BOOLEAN
    /\ runner \in {"idle", "crawl", "complete", "emit", "catch"}
    /\ seo \in 0..MaxRows
    /\ found \in [Rules -> 0..MaxRows]
    /\ actions \in 0..MaxRows
    /\ overlapped \in BOOLEAN
    /\ call \in [Calls -> CallStates]

(* An audit whose completion was announced stays completed, although what  *)
(* follows its completion may fail it.                                     *)
AnnouncedIsCompleted == event => audit = "completed"

(* A regeneration adds the provider findings that are missing "without ever*)
(* duplicating one that already exists", and generates SEO opportunities   *)
(* and actions once, as long as two generations do not cross.              *)
GeneratedOnce ==
    ~overlapped =>
      seo <= 1 /\ actions <= 1 /\ \A r \in Rules : found[r] <= 1

=============================================================================
