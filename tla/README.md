# ROBIA back-end: verification project

TLA+ models of the ROBIA back-end (NestJS and Prisma over Postgres, with a
Python scoring service), their model-checking runs, and machine-checked proofs.
Paths below are relative to the repository; `automations.service.ts` is
`src/ops-automation/automations.service.ts`.

## 1. Inventory

Every request handler, cron tick and event listener runs concurrently with all
others, in one process or in several instances. They share Postgres only:
each Prisma call is one statement, and almost nothing is inside a transaction.
What the code relies on instead is conditional updates (`updateMany ... where`
followed by a test of `count`), unique indexes whose violation (P2002) is
caught, and leases written in the rows. This is where tests reach least and
model checking most.

| Component | State | Operations | Interacts with | Hard behaviour | What makes it correct |
|---|---|---|---|---|---|
| Automation step engine (`automations.service.ts` 744-1222, `step-retry-policy.ts`, `automation-step-retry-dispatcher.service.ts`) | `AutomationStepRun` rows: status, attemptCount, nextAttemptAt, claimedAt, claimToken; the run's status | runStepsFrom, attemptStep, commitStepAttempt, retryStep, reconcileLegacy..., failExhausted..., finishRun | runs, actions, notifications | leases taken over, stale workers waking up, crash at any statement, retries, rows of an older release | one driver per run, ordered steps, unsafe actions once, bounded attempts, result agrees with steps, eventually finished |
| Automation runs (`automations.service.ts` 283-742) | `AutomationRun` rows: dedupKey, status, approvalStatus, plannedSteps; `AutomationEvent` | triggerManual, triggerScheduled, emitEvent, startRun, persistRun, approveRun, rejectRun | scheduler, listeners, step engine | duplicate events, approve racing reject, edits while a run waits | one active run, a run per match, nothing unapproved runs, the approved plan is the one that runs |
| Scheduler (`automation-scheduler.service.ts`, `cron-schedule.ts`, update and setEnabled) | `Automation`: enabled, trigger, nextRunAt, scheduledClaimedAt | handleTick, reconcileMissingNextRunAt, processDueAutomation, update, setEnabled | runs | several instances, lease, disable or edit between any two statements | no occurrence lost, at most one run each, claims respected |
| Condition engine, templating, action registry | none (pure), plus the actions' own calls | evaluateConditions, resolveStepInput, canonicalizeInput | runs | absent values; an action repeated because nobody knows how its attempt ended | absence is no evidence; a replay leaves nothing more behind |
| Listeners (`audit-completed-event.listener.ts`, `odc-event.listener.ts`) | none | forward in-process events to emitEvent | audits, ODC | best effort: errors are swallowed | |
| Notifications (`notifications/`) | `NotificationDelivery`: status, attemptCount, nextAttemptAt, claimedAt | createEmailDelivery, dispatcher tick, retry | step engine (idempotency key), SMTP | crash after sending, lease, dead letter, manual retry | sent stays sent, bounded attempts, eventually terminal |
| Action items and executions (`action-items/`) | `ActionItem`, `ActionExecutionEvent` | generate, updateStatus, submit, approve, reject, recordExecution | opportunities | check then write without a condition, idempotency key | a report counts once, nothing unapproved is executed |
| Audits, opportunities (`audits/`, `opportunities/`) | `Audit`, `Opportunity` | create, run, complete, fail, generate | Python service, listeners, n8n | failure in the middle of a pipeline, two generations | an announced audit is completed, nothing is generated twice in sequence |
| ODC programmes (`odc/`) | programmes, applications, documents, outreach | submit, screen, recompute, decide, withdraw, upload, clean up | storage, listeners | check then unconditional update, files beside rows | a reviewed application is complete and its history explains it, totals are never partial, files match rows, one mail each in order |
| Google Business Profile (`integrations/google-business-profile.service.ts`) | connections, locations, reviews, sync claims | OAuth, sync, reconnect, disconnect | Google | token and lease claims, cool-downs, reconnection during a sync, batches | rows of one account, nothing outdated is committed, a lost sync is taken over, no connection starves |
| Search Console, Meta (`integrations/`) | connections, selections, metrics | OAuth, select, sync | Google, Meta | a connection replaced while the provider answers | metrics and Pages of the connection that read them |
| Billing (`billing/`) | `StripeSubscription` | checkout, webhooks | Stripe | duplicated and reordered webhooks | paid access was reported by Stripe |
| Auth, users, organizations | users, reset tokens, memberships | register, login, reset | mail | a token used twice, a login racing a reset | a token works once, a reset ends every session |
| Documents, content studio, validation logs | documents, logs | generate, validate, publish | Python service | identifiers that read alike | what was approved is what is published |
| Locations, websites, competitors, prospects, intelligence | their rows | CRUD, read-side aggregation | | | |
| Python service (`python-service/`) | none | audit rules, scoring, prioritization, crawling | back-end | axes without a measure, crawl budget | a repair never lowers the score, nearest pages first |
| Migration guard (`scripts/safe-prisma-migrate.cjs`), deployment | none | compare declared and observed databases, then migrate | Postgres | two URLs of one or two servers | the migrated database is the one the application uses |

`PROJECT.json` lists the components with their status, the hazards with their
lines, and the findings.

## 2. Plan

1. (done) `StepRetry`, with the abstract `RunProgress` it implements, and its proofs.
2. (done) `AutomationRuns`, with the abstract `RunLifecycle` of one run.
3. (done) `Scheduler`, and `SchedulerBatch` for several automations.
4. (done) `NotificationDispatch`, with the abstract `Delivery` it implements, and its proofs.
5. (done) the check-then-write services: `OdcApplications`, `OdcScores`,
   `OdcOutreach`, `ActionExecution`, `AuditOpportunities`, `Billing`, `PasswordReset`.
6. (done) the connections: `GbpConnection`, `GbpReviews`, `RefreshBatch` (on
   `LeasedClaim`, the last one excepted), `SearchConsole`, `MetaPages`.
7. (done) files beside rows (`OdcDocuments`), the actions of a step (`OpsActions`), the
   crawl (`Crawler`).
8. (done) pure algorithms, over bounded inputs: `Conditions`, `MetaFindings`,
   `SeoScoring`, `MigrationGuard`, `PublicationPolicy`.
9. (done) `Services`, which composes the modules of 5 to 7, and the proofs of
   `AutomationRuns`, `Scheduler` and of every service (`OdcProofs`,
   `PlatformProofs`, `ServicesProofs`), lifted to the composition in `ServicesProofs`.
10. (done) `PeriodicJobs`, and in `PeriodicJobsProofs` who waits behind whom in
    `RefreshBatch` and `SchedulerBatch`.
11. Models still worth writing: runs with their steps and their deliveries in one
    module; documents and validation logs; organizations.

## 3. Modules

| Module | Role |
|---|---|
| `RunProgress` | abstract: the steps of a run succeed in order, at most one breaks it, the result follows |
| `StepRetry` | the step engine of one run |
| `StepRetryProofs` | theorems about `StepRetry` |
| `RunLifecycle` | abstract: the life of one run row |
| `AutomationRuns` | triggers, events, approvals and edits over the runs of an organization |
| `AutomationRunsProofs` | theorems about `AutomationRuns` |
| `Scheduler` | the schedule of one automation, with its dispatcher slots and editors |
| `SchedulerProofs` | theorems about `Scheduler` |
| `Delivery` | abstract: the life of one notification delivery |
| `NotificationDispatch` | the e-mail outbox: one delivery, its dispatcher slots and manual retries |
| `NotificationDispatchProofs` | theorems about `NotificationDispatch` |
| `SchedulerBatch` | one tick's batch over the automations of every organization |
| `LeasedClaim` | the claim (instant, token, last attempt) shared by the calls to Google Business Profile |
| `GbpConnection` | one Business Profile connection and the mirror of its locations |
| `GbpReviews` | the reviews and the performance of one location |
| `RefreshBatch` | the hourly refresh over the connections of every organization |
| `SearchConsole` | one Search Console and Analytics connection |
| `MetaPages` | one Meta connection and its selected Page |
| `OdcApplications` | one candidature: answers, documents, screening, decision, withdrawal, history |
| `OdcScores` | its score lines and totals |
| `OdcDocuments` | uploaded files beside their rows, and the clean-up script |
| `OdcOutreach` | the queue of invitations |
| `ActionExecution` | approval and reports of one action item |
| `AuditOpportunities` | one audit and what is generated from it |
| `Billing` | one subscription row beside Stripe |
| `PasswordReset` | one user's password, reset links and sessions |
| `OpsActions` | the actions of automation steps, and what repeating one leaves behind |
| `Crawler` | one crawl: its queue, its page budget and the links it follows |
| `Conditions` | operators: validation and evaluation of a condition tree |
| `MetaFindings` | operators: the findings made of Meta's signals |
| `SeoScoring` | operators: audit rules, score, and ranking of issues |
| `MigrationGuard` | operators: whether a migration is launched |
| `PublicationPolicy` | operators: whether a content is published |
| `Services` | composition: the fourteen services around the automations, over variables of their own |
| `OdcProofs` | theorems about `OdcApplications`, `OdcScores`, `OdcDocuments`, `OdcOutreach` |
| `PlatformProofs` | theorems about `ActionExecution`, `AuditOpportunities`, `Crawler`, `Billing`, `PasswordReset`, `OpsActions`, `MetaFindings` |
| `ServicesProofs` | theorems about `GbpConnection`, `GbpReviews`, `SearchConsole`, `MetaPages`, and from all of these about `Services` |
| `PeriodicJobs` | the jobs of the crons, each on its own: `Scheduler`, `GbpConnection`, `RefreshBatch`, `SchedulerBatch` |
| `PeriodicJobsProofs` | theorems about `PeriodicJobs`, its types from `SchedulerProofs` |
| `MCServices` | the services and the algorithms in one run, each on its own |
| `MC...` | constants and symmetries for TLC |

### StepRetry

One run, its frozen plan (`plan[i]` is what the registry says of the action of
step i: retry-safe, not retry-safe, or not in the allowlist) and one row per
sequence number. A *worker* is a call in progress: the request that triggered or
approved the run (in `runStepsFrom`), or a dispatcher slot (in `retryStep`). Its
`pc` names the next statement: `next` (loop head), `attempt`, `commit`, `finish`,
and in `retryStep` `claim`, `reclaim`, `legacy`, `exhausted`, `verify`, `refuse`.
Claim tokens are 1, 2, ...: a fresh UUID is a number never used before.

Time is relative: a row holds the age of its claim and how far ahead its next
attempt is, a retry how far its tick's `now` has fallen behind (`lag`). `Tick`
advances all of them; ages stop at `MaxAge`, beyond the last threshold any guard
compares with. There is thus no horizon, and liveness is checked on the real
state graph. Initial states include the rows the release before claims left.

`executions` counts the starts of each action; it is history and no guard reads it.

Failures: a worker is lost (`Crash`) at any point of `CrashPoints`, at most
`MaxCrashes` times; an exception of Prisma ends a call in the same way.

### AutomationRuns

Automation rows with what a run depends on (enabled, requiresApproval, whether
the steps hold a placeholder), whether their conditions hold now, the stored
payload of events, and one potential run per dedup key `<<automation, source>>`;
a source is an event, a scheduled occurrence, or the call itself for a manual
trigger (its UUID). A *call* is used once. It takes its snapshot of the
automations on entry (`findOne`, `findMany`, the scheduler's re-fetch) and then
goes through the statements of `startRun` for each automation it matched:
`LookUp`, `CheckActive`, `Decide`, `PersistRun`, `Raced`, `ExecuteSteps`. A
conflict or a P2002 that is not caught ends the whole call (`aborted`).
`ExecuteSteps` ends where `StepRetry` begins: the first step row, unique per run,
is created; `FinishRun` is that engine's result. `lastRunAt`, errors' wording and
the records of who approved are left out.

### Scheduler

The row of one automation (enabled, trigger, nextRunAt, scheduledClaimedAt),
dispatcher slots with their tick's `now`, and editors between their read and
their write. A cron expression is a period. The clock is as coarse as the tick;
two different instants are therefore told apart by `holder`, unless
`SharedInstants` lets two instances tick at the same millisecond. The run of an
occurrence either exists afterwards or the slot faults; both leave what the code
leaves.

`SchedulerBatch` is a tick over the automations of all organizations, each of
the batch processed whole. The queue is kept as who comes later than whom
(`later`) and how long until each is due (`wait`); the next occurrence of a run
that was created is any within `Period`. A refused run, that of a blocked
automation, keeps its instant and its claim for a lease. In a faulty tick any
of the batch may fail, or be left unread by a process that ends.

### NotificationDispatch

One `NotificationDelivery` row, dispatcher slots (`handleTick`, the scan, and
`processDueDelivery` statement by statement) and manual retries between their
read and their conditional update. Time is relative as in `StepRetry`: a claim
is the slot's own when its age is the age of the slot's `now`, which is how the
code compares `claimedAt` with `now`, equal instants of two slots included.
`SendEmail` is accepted, or fails temporarily or permanently; `RecordThrows` is
the update to `sent` throwing inside the `try` of the send. `takeovers`,
`mailed` and `accepted` (attempt numbers) and `claimer` are history.

### Connections to Google and Meta

`GbpConnection` holds one `GoogleBusinessProfileConnection` row (account of its
tokens, claim, ages of its last success and attempt, status) and one row per
location name. Calls are requests (`syncLocations`, the OAuth callback,
`disconnect`, linking) and the hourly crons (`refreshStaleLocations`, `purgeExpiredLocations`). A
synchronization is: claim, read the connection, ask Google, commit in a
transaction that requires the claim, or release. Google's answer is a set of
names of the account that was asked, or a failure; ages are relative. `outdated`
remembers the calls whose answer another write overtook. `GbpReviews` does the
same for one location row, which its environment (a synchronization, a purge, a
reconnection) creates and removes at any time. `RefreshBatch` keeps, of all this, what
the query of a tick looks at: who is due, in which order (`later`, since equal or
null instants have any), how many; with ticks that a process leaves unfinished,
synchronizations by hand and accounts connected in between. The claim is not in it: its
lease of minutes is over at the next tick, an hour later.

`SearchConsole` and `MetaPages` have no claim. A call reads the connection, asks
the provider and writes; the models keep apart what is written by connection and
what is written by organization, since only the former notices that the connection was replaced.

### Services of requests

Each models one row (an application, an item, an audit, a subscription, a user)
and two calls in progress, which hold what they read: the check is made on that
read, and the write on the row as it is by then. A Prisma transaction is one
step. `AuditOpportunities` and `OpsActions` count rows instead of naming them.
Ghosts (`overlapped`, `crossed`, `exposed`) delimit what the code does not
protect; every property that uses one is in the list of observations of section 5.

`Crawler` is `crawl_website`: a step fetches the head of the queue, or reads one
link of the page just fetched. What a page links to, in which order, and which
pages do not answer are any; the candidates of a sitemap enter the queue at
`MaxDepth`, since no link of theirs is followed.

### Algorithms

An input is a record of the module's `Inputs`; the property
compares the operator with what its documentation or name promises of it, never
with a second copy of it. `SeoScoring` takes a page as its set of defects, so
that a rule's table is its category, severity, impact, effort and confidence.

## 4. Runs

| Run | Kind | What it shows |
|---|---|---|
| `step_retry` | pass | three calls, two steps, three attempts, one call lost anywhere, lag beyond the lease: safety |
| `step_retry_live` | pass | when a lost call leaves a claimed row: recoverable, eventually finished, implements `RunProgress` |
| `step_retry_lost` | violation | a call lost between two steps strands the run |
| `automation_runs` | pass | two automations, an event (both payloads) and an occurrence triggered concurrently, manual triggers, decisions |
| `automation_edits` | pass | any edit between any two statements, a lost call |
| `automation_unapproved` | violation | a duplicate executes a run that waits for an approval |
| `automation_dropped` | violation | a conflict drops the automations after it in the loop |
| `scheduler` | pass | two slots with any lag, one editor: safety |
| `scheduler_editors` | violation | two edits at once leave the replaced schedule's instant |
| `periodic_jobs` | pass | schedule, refresh and both batches: every occurrence gets its run, even when two slots tick at the same instant; a lost synchronization is taken over; nobody waits longer than a turn of the others, and one more per faulty tick |
| `notifications` | pass | two slots with any lag, two manual retries, two faults: safety, implements `Delivery`, every delivery is eventually sent or a dead letter |
| `services` | pass | each request-driven service, the crawl and each algorithm on its own |

`Services` has an instance of each service over variables of its own; a step of
the whole is a step of one of them and leaves the others alone, since they share no
row. (What they exchange is one call: an audit's event reaches `AutomationRuns`
as an emission, a notification as the creation of a delivery.) The theorems of
`ServicesProofs` are about `Services!Spec`, where the services interleave freely.
TLC could not enumerate that product, and need not: in `MCServices`, `part` is
chosen at the start and says which service moves, so that the
behaviours of `PartsSpec` are those of each service with the others at rest, and
a property of the whole is the conjunction of what the modules state. Calls are
interchangeable (`CallSymmetry`). `PeriodicJobs` is such a sum too, and its theorems are about it.

| Property of `services` | Properties of the modules |
|---|---|
| `MirrorOfAccount` | `GbpConnection`: `OneAccount`, `SignalIsTrue`, `NothingOutdatedCommits` |
| `ReadForItsOwner` | `GbpReviews`: `ReadByOwner`, `AggregateWithReviews`, `NothingOutdatedIsAccepted`; `SearchConsole`: `MetricsOfConnection`; `MetaPages`: `OnePage` |
| `CandidatureIsExplained` | `OdcApplications`: `ReviewedHasDocuments`, `HistoryExplainsStatus`; `OdcScores`: `TotalIsNeverPartial` |
| `OneFileOneMail` | `OdcDocuments`: `FilesMatchRows`; `OdcOutreach`: `OneByOne` |
| `CountedOnce` | `ActionExecution`: `ReportsCountOnce`; `AuditOpportunities`: `AnnouncedIsCompleted`, `GeneratedOnce`; `Crawler`: `NearestFirst`; `OpsActions`: `ReplayIsHarmless` |
| `AccessIsJustified` | `Billing`: `PaidAccessWasReported`; `PasswordReset`: `ResetEndsSessions` |
| `Algorithms` | `Conditions`: `AbsenceIsNotEvidence`; `MetaFindings`: `NothingInvented`; `SeoScoring`: `RepairingHelps`; `MigrationGuard`: `MigratesWhatTheAppUses`; `PublicationPolicy`: `ApprovalBindsPublication` |

`CHECK_DEADLOCK FALSE` appears where calls are used once (`AutomationRuns`): when
all have ended and nothing is edited, nothing happens any more; and in
`services`, where an input of an algorithm has no successor, a crawl ends, and a
withdrawn application accepts nothing.

### Bounds

- `StepRetry`: three workers are the first driver, the call that takes it over,
  and one that finds either stale; two steps give a "before" and an "after";
  three attempts give a first, a middle and a last one (the code has four, with
  three delays of which two are longer than the others). One unit of time is the lease.
- `AutomationRuns`: three calls are two racing triggers and a decision, or a
  trigger and two racing decisions. Two automations are enough for a loop to be cut in its middle.
- `Scheduler`: a claim, its takeover, and one edit in between fit in five units of
  time with a lease of one; two periods distinguish a replaced schedule.
- `periodic_jobs`: for the schedule, time waits for a free slot to see what is
  due (`Prompt`) and the lag is bounded, since the clock has an end: `Horizon` is
  the last occurrence that leaves one stale lease per fault before it. For the
  connection, one request and one cron contend for one claim; for the batches, three
  connections of which two fail, or four automations of which one is blocked,
  with a batch of one, are enough for a head of the queue that would never move;
  one tick is faulty, or one connection replaced.
- `notifications`: a lag of four leases lets a first slot be taken over twice and
  still come back; two attempts are a first and a last one; two retries race each
  other and the dispatcher; two faults are a lost attempt and a lost record.
- `services`: two calls in progress are a read made stale by one write; two
  accounts, users, rules or criteria tell an owner from another; two connections
  or locations created one after the other are an identifier read and replaced;
  data become stale after one unit of time and expire after two, the least that
  tells fresh, stale and expired apart. `MaxCallbacks` (one OAuth
  callback at a time) is an assumption, not a bound: see the observations.
  `SchedulerBatch.FewBlocked` is one too: the blocked automations are fewer than
  the places of the batches of a lease, since each takes one of these places.
- the crawl: five pages of which one is legal, three fetched at most, two links
  deep, are a page found at two depths and a budget that ends between two depths.
- The algorithms' inputs: every leaf of a condition and the groups of two of
  them; up to three posts; sites of one or two pages with up to two defects, or
  all of them, on the first; every environment and pair of identities of the
  migration guard; every pair of bindings over identifiers of which two read alike once joined.

### Fairness

`StepRetry`: weak fairness of `Tick` (time passes) and of each worker's steps: a
statement that was sent returns, an action returns (the outcome is any), and the
cron decorator keeps calling the dispatcher, so that an idle slot scans again.
Crashes and clock lag are never forced. `Scheduler`: the same for its slots; the
number of faults is bounded, as a run that can never be created is never created.
`NotificationDispatch`: the same, `sendEmail` returning because its timeouts are
bounded; manual retries are never forced. `GbpConnection`: the crons keep
running, an accepted request to Google answers or times out, and time passes;
requests of users and losses are never forced. It is assumed that notifications are
enabled and configured: otherwise a tick does nothing.

## 5. Findings

Each violation run is a disagreement between the code and a sentence of the
repository; `PROJECT.json` quotes both. In order of consequence:

1. **A run stranded as `running`** (`step_retry_lost`). The claim protects an
   attempt, not the gap between two attempts.
2. **A run executed without its approval** (`automation_unapproved`): `startRun`
   executes whatever row `persistRun` found after a P2002.
3. **A lost update of `nextRunAt`** (`scheduler_editors`).
4. **Automations dropped from an event** (`automation_dropped`).

Smaller observations made while modelling, which no run states:

- Every lease is counted from the tick's `now`, not from the claim: a row a tick
  reaches late is claimed stale, and another tick may work on it at once
  (`StepRetry`, `Scheduler` and `NotificationDispatch` all allow it, and their
  properties hold in spite of it; a retry-safe action or a mail may be repeated).
- Two slots can thus both reach phase 3 of `processDueAutomation` for one
  occurrence (RC25 says one can); the run's dedup key absorbs it. Phase 3 also
  decides on the re-fetched snapshot, so that a disable after it comes too late.
- `reconcileMissingNextRunAt` writes where `nextRunAt` is null without looking at
  `enabled` again: a disabled automation may carry a `nextRunAt`, which `enabled`
  in every later guard makes harmless.
- Two instances that tick at the same millisecond cannot tell their scheduler
  claims apart (`SharedInstants`): a release may then end the other's claim.
- A concurrent duplicate of a trigger may fail with a conflict or a P2002
  instead of getting the run back, depending on the statement it is at.
- `processDueDelivery` records the success inside the `try` of the send: when that
  update throws, an accepted mail is scheduled again, or becomes a dead letter.

Observations on the components of the `services` and `periodic_jobs` runs; each
is a behaviour of the model that the stated properties allow:

- `OdcApplications`: a terminal status can be overwritten. Submission, decision
  and withdrawal check the status they read and write without a condition, so
  that a withdrawal that completes in between is replaced by a decision, although
  `odc-applications.service.ts:35-41` says that nothing moves it again. For the
  same reason a document uploaded while a screening runs leaves the application
  `incomplete`, and two concurrent edits of the answers keep one of them; a crash
  in a screening leaves it `screening`.
- `OdcScores`: totals computed from an older read can be written last; they are
  then a sum of scores since replaced, but never a partial one.
- `OdcDocuments`: a file written between the sweep's two reads, or whose upload
  failed after its transaction, can lose its file and keep its row.
- `OdcOutreach`: two members who send the same invitation at once both send it.
- `ActionExecution`: an approval and a rejection that cross both take effect; the
  item keeps the last one, and both events.
- `AuditOpportunities`: two generations that cross create everything twice; a
  process that ends leaves its audit `running` for good.
- `Billing`: two checkouts opened at once may both be paid, and the row keeps one
  of the subscriptions; of two updates delivered out of order the older one wins.
- `GbpConnection`: two OAuth callbacks in progress for one organization can leave
  the locations of one account under the other; with one at a time `OneAccount` holds.
- `SearchConsole`: metrics are stored by connection and day, not by site, so that
  a report of the site selected before can be stored after the selection changed.
- `SchedulerBatch`: when blocked automations are as many as the batches of a
  whole lease hold, the others can wait without bound; RC25 describes blocked
  automations as merely retried.
- `Conditions`: a `not` over a field that is unknown, or an empty group, holds.
  Validation refuses both, so that only a tree stored without it is affected.
- `SeoScoring`: a rule that fails in an axis nothing had measured can raise the global
  score; and performance has a weight in `scoring.py`, while the docstring of
  `evaluate_performance` says it does not influence the score.
- `OpsActions`: regenerating opportunities is retry-safe except when two attempts
  are made at the same time.

## 6. Proofs

`StepRetryProofs` proves, for every number of workers, steps and attempts, every
lease and backoff, every bound on lag and crashes and every set of crash points,
from `StepRetryAssumption` alone:

| Theorem | Statement |
|---|---|
| `TypeCorrect` | `Spec => []TypeOK` |
| `OneDriver` | `Spec => []SingleDriver` |
| `InOrder` | `Spec => []StepsInOrder` |
| `ResultMatches` | `Spec => []RunMatchesSteps` |
| `SettledForGood` | `Spec => SettledStays` |
| `UnsafeOnce` | `Spec => []UnsafeStartsOnce` |
| `Refinement` | `Spec => ImplementsProgress` |
| `ExecutionsArePaid` | `Spec => []AttemptBudget` |
| `LeaseIsRespected` | `Spec => TakeoverAfterLease` |
| `LostCallsAreRecoverable` | `ClaimedCrashes` gives `Spec => []Recoverable` |

The argument. `SingleDriver` is not inductive: a stale worker must be unable to
commit, which is a fact about tokens. The inductive invariant `TypeInv` adds to
the types that every token was minted and that a call past its claim holds a
token; `OrderInv` adds `SingleDriver`, `StepsInOrder`, `RunMatchesSteps` and
`DriverKnows` (what the call that drives has behind it), because a step is
created in order only if its creator is the one driver, and stays the one driver
only if rows are in order. `UnsafeInv` counts starts of an unsafe action against
the attempts charged and the call still on its way to one. The lemma
`EveryStepHasItsEffect` states once what a step of the system can do to the rows
and the run (nothing, hold one row, settle one row, create one row, finish the
run); the refinement and `SettledForGood` follow from it without looking at the
actions again. `AttemptBudget` needs that no two calls share a token, so that a
claim that is verified and still the row's has paid for an execution to come
(`BudgetInv`). `Recoverable` becomes inductive as `CarriedOn` (somebody drives
the run, or a row is live); `ClaimedCrashes` says that no call is lost at `next`
or `finish`, where the driver holds no claim. The run `step_retry_lost` shows
what happens there, so that the hypothesis cannot be dropped.

`NotificationDispatchProofs` proves, for every number of slots, manual retries
and attempts, every lease and delay, and every bound on lag and faults, from
`NotificationDispatchAssumption` alone:

| Theorem | Statement |
|---|---|
| `TypeCorrect` | `Spec => []TypeOK` |
| `MailsAreCharged` | `Spec => []EveryMailIsCharged` |
| `HolderRecords` | `Spec => OutcomeByHolder` |
| `DuplicatesArePaidFor` | `Spec => []NoNeedlessDuplicate` |
| `DeliveryRefinement` | `Spec => ImplementsDelivery` |

The argument. Unlike a step, a delivery's claim has no token: slots are told
apart by the instant of their tick, and two slots may have the same one. What
makes this enough is an order that the code never states: while a slot is past
its claim, the delivery is not due by that slot's instant or an older one
(`BehindInv`), so every later claim is of a younger instant (`YoungestClaims`),
no two slots that have claimed share theirs (`InstantInv`), and the slot whose
instant is in the row is the last claimer (`HolderInv`). `ChargeInv` then keeps
the attempts of all slots past their claim, and those already mailed, apart.
`DuplicateInv` is an account: accepted mails, slots that may still mail, and the
chance the row keeps never exceed one more than the takeovers and faults.

`AutomationRunsProofs` proves, for any automations, events, occurrences, calls
and bounds on edits and crashes (from `AutomationRunsAssumption`, and the
hypothesis in the table):

| Theorem | Hypothesis | Statement |
|---|---|---|
| `TypeCorrect` | | `Spec => []TypeOK` |
| `AtMostOneActiveRun` | | `Spec => []OneActiveRun` |
| `EveryMatchHasItsRun` | | `Spec => []EachMatchHasItsRun` |
| `NothingUnapprovedRuns` | `UniformApproval \/ NoSharedSources` | `Spec => []NothingRunsUnapproved` |
| `RunsKeepLifecycle` | `NoSharedSources \/ NoEdits` | `Spec => ImplementsLifecycle` |

The argument. `CoreInv` adds to the types what a call at each point knows (an
automation, a row that a run can start as, that its run exists), that an absent
run has left nothing behind, and `MatchInv`: of an emission in its loop, only
the current match may be without its run. `Effect` then states once what a step
can do to the runs, and the properties are proved from it. A call executes a row
it read, so approval depends on what other calls believe: either all of them
agree with the automation, because no edit touches `requiresApproval`
(`UniformInv`), or no two calls have a run in common, because there is no shared
event or occurrence (`OwnInv`). Runs `automation_runs` and `automation_edits`
are instances of the two hypotheses; `automation_unapproved` drops both and
fails. For the lifecycle, `SameInv` says that without edits all calls with one
key want the same row.

`SchedulerProofs` proves, for any slots, editors, triggers, lease, lag and horizon:

| Theorem | Hypothesis | Statement |
|---|---|---|
| `TypeCorrect` | | `Spec => []TypeOK` |
| `OccurrencesAreNotSkipped` | | `Spec => NoOccurrenceSkipped` |
| `ClaimsStand` | `~SharedInstants` | `Spec => ClaimStands` |
| `NextRunIsOfTheTrigger` | `~SharedInstants`, `OneEditor` | `Spec => []NextRunFollowsTrigger` |

The argument. A slot that advances has seen the run of the occurrence it claimed
(`SlotInv`), and its update matches that occurrence: no claim is needed for an
occurrence not to be skipped. Claims matter for the trigger: `CronInv` says that
a slot whose claim stands works with the automation's present cron, since an
edit ends the claim; `OrphanInv` and `EditInv` cover the reconciliation and an
edit between its read and its write. `ScheduleInv` is their conjunction with
`NextRunFollowsTrigger`. With two editors it fails (`scheduler_editors`); with two
ticks at one millisecond a claim is not the slot's own (section 5).

`OdcProofs`, `PlatformProofs` and, for the connections, `ServicesProofs` prove each
service alone; `ServicesProofs` then proves what the run `services` checks, for all
of them together and every value of the constants, from `ServicesAssumption`:

| Theorem of `ServicesProofs` | Statement | Rests on |
|---|---|---|
| `ServicesTypeCorrect` | `Spec => []TypeOK` | all of the following |
| `CandidaturesAreExplained` | `Spec => []CandidatureIsExplained` | `ReviewedIsComplete`, `HistoryExplains`, `TotalsAreWhole` |
| `FilesAndMailsMatch` | `Spec => []OneFileOneMail` | `FilesHaveRows`, `InvitationsGoInOrder` |
| `RepetitionsCountOnce` | `Spec => []CountedOnce` | `ReportsAreCountedOnce`, `OpportunitiesAreGeneratedOnce`, `NearestAreFirst`, `ReplaysAreHarmless` |
| `AccessStaysJustified` | `Spec => []AccessIsJustified` | `PaidAccessIsReported`, `ResetsEndSessions` |
| `MirrorStaysOfAccount` | `Spec => MirrorOfAccount` | `TheMirrorIsOfTheAccount` |
| `DataStayOfTheirOwner` | `Spec => ReadForItsOwner` | `ReviewsAreReadByTheirOwner`, `MetricsAreOfTheConnection`, `ThePageIsOne` |

A step of `Services` is, for each service, a step of its own or none
(`StepOfOdc` and its like), so a behaviour of the whole is one of each
(`BehavesAsOdc` ...), and `ServicesAssumption` implies what each theorem assumes
of the constants: finite sets where rows are counted, bounds that are numbers,
null outside the values, `StaleAfter < Expiry`, and one OAuth callback at a time.

The invariants, where the property is not inductive:

- *candidature*: what an operation read of the documents is still there, since no
  document leaves its slot (`DocumentsInv`); a status not yet in the history is
  being recorded (`HistoryInv`). *Scores*: what a recomputation has read stays
  scored until it writes (`ScoresInv`), whatever a weighted sum is.
- *files*: a file is named by one row or held by one upload (`SlotsInv`,
  `UploadsInv`), and what a sweep is about to delete is neither, unless it was
  exposed (`SweepInv`). *Invitations*: a candidate nobody crossed is in one
  request, whose read of his row still holds, and his mails are accounted for
  (`AloneInv`); before anybody who is mailed, all are done (`OrderInv`).
- *reports*: what is reported, or about to be, was approved once (`ExecutionInv`).
  *Audits*: the announcement is the last step of a run (`RunInv`), and a
  generation that crossed no other still holds what it read (`GenerationInv`).
  *Passwords*: `version` is the number of links used (`PasswordInv`).
  *Actions*: what an attempt alone has read of the rows still holds (`OpsInv`).
- *crawl*: the queue is in the order of the depths, and no entry is deeper by
  more than one than another or than a link still to read (`OrderedQueue`); what
  waits was seen, is not fetched and waits once (`FreshQueue`). This needs the links
  of one page to be read before the next fetch, not any order among them.
- *Business Profile*: the token and the rows are of the account shown, and as old
  as the last success says (`MirrorInv`); a call that holds the claim asks for
  that account and was overtaken by no write (`SyncInv`), which is why the claim
  has to be required by the transaction that commits. *Reviews*: a call that found its
  location read the account it belongs to (`OwnersInv`), and an overtaken call
  that has finished holds no claim (`OvertakenInv`). *Search Console*: a row of
  metrics has its connection (`ConsoleInv`).

`PeriodicJobsProofs` proves, for any number of connections and automations, any
size of the batches, lease, back-off, ages and periods, from
`PeriodicJobsAssumption` and the hypothesis in the table:

| Theorem | Hypothesis | Statement |
|---|---|---|
| `JobsTypeCorrect` | | `Spec => []TypeOK` |
| `ConnectionsAreNotStarved` | | `Spec => [](part = "refresh" => Refresh!NobodyStarves)` |
| `AutomationsAreOnlyDelayed` | `Batch!FewBlocked` | `Spec => [](part = "batch" => Batch!OnlyDelayed)` |
| `NobodyIsStarved` | `Batch!FewBlocked` | `Spec => []NobodyStarves` |

The argument. Waiting is bounded, which makes it a safety property, and both
proofs are accounts in which a tick of waiting has the price of a batch. For the
refresh (`RefreshInv`), a connection that is due and is not taken sees a whole
batch of those that may be read before it pass behind it, so what it has waited
and the connections still before it never exceed all the others; a tick cut
short and a connection that is new cost one batch each. For the scheduler this
is not enough: a blocked automation stays where it is in the queue. Each tick
with a full batch either sends an automation behind the one that waits or renews
a claim, and a claim keeps its automation out of the batches of a lease. `Burden`
therefore adds, to a lease for every automation that precedes, what is left of the
claims of the blocked ones; it falls by `Spare` at every whole tick
(`BatchInv`), and is at most a turn again after a faulty one. The claims are
counted as pairs of an automation and a number, so that the fall of a sum is an
injection between finite sets (`ShiftedPairs`). Without `FewBlocked`, `Spare` is
not positive and the account says nothing: see the observations. The types of
the schedule are read from `SchedulerProofs` through an INSTANCE; those of
`GbpConnection` need that a call which writes or asks has an account (`GbpType`).

Of the algorithms, `FindingsAreObserved` (in `PlatformProofs`) proves the property of
`MetaFindings` for any number of posts and any threshold above zero.

Only model-checked:

- liveness (`EventuallySettled`, `EveryOccurrenceRuns`, `RunningSettles`):
  fairness is beyond the prover;
- `Algorithms` but for that: a condition is evaluated by a recursive operator and
  a score by a fold, and what these return is proved by an induction that the prover
  cannot instantiate; the properties of the migration guard and of the
  publication policy have little more to them than their bounded inputs show. (`OdcScores`
  sums with a fold; nothing that is proved depends on its value, and a total's type is
  the set of these sums.)

## 7. Not modelled

Components without a module in section 3 are listed with their reason in
`PROJECT.json`: listeners, CRUD and read-side services, the n8n webhook, HTTP
wiring and deployment scripts have no state of their own that two steps could
disturb.

Within the modelled ones:

- automations: what an action does inside a step of `StepRetry` is an outcome
  (its effect is in `OpsActions`); contexts, inputs and errors are not spelled
  out; the limits on steps and trigger depth are enforced by validation before;
- authorization and the scoping by organization: each module has one organization;
- OAuth state tokens and their expiry, and the encryption of tokens: a callback
  begins with a code for some account;
- parsing and wording: crawled pages, prompts and answers of models, mails;
- `SeoScoring`: floating-point error (scores are exact rationals compared after
  rounding) and the legacy `compute_seo_score` and `prioritization.py`;
- `OdcDocuments`: the checks on the content of a file, and the download;
- the pool of five of a scheduler tick, which the slots' lag covers.
