----------------------------- MODULE StepRetry -----------------------------
(***************************************************************************)
(* The step engine of one automation run: AutomationsService.runStepsFrom, *)
(* commitStepAttempt, retryStep, its two reconciliations and finishRun,    *)
(* driven by AutomationStepRetryDispatcherService, over the run's row and  *)
(* the AutomationStepRun rows of its frozen plan.                          *)
(*                                                                         *)
(* A worker is one call in progress: the request that triggered or         *)
(* approved the run (inside runStepsFrom), or a dispatcher slot (inside    *)
(* retryStep).  Every statement sent to Postgres is one step; anything may *)
(* happen between two statements, and the call may be lost there.          *)
(*                                                                         *)
(* Instants are kept relative to the present, so that time has no horizon: *)
(* claimAge is how long ago claimedAt was (startedAt, on an unclaimed      *)
(* row), dueIn how far ahead nextAttemptAt is (negative once overdue), and *)
(* lag how far behind the present the `now` is that a retryStep call was   *)
(* handed by the tick that scanned.  They stop at MaxAge, beyond which no  *)
(* guard tells them apart.                                                 *)
(***************************************************************************)
EXTENDS Integers

CONSTANTS
    Workers,        \* calls that may be in progress at the same time
    NumSteps,       \* length of run.plannedSteps
    MaxAttempts,    \* MAX_STEP_ATTEMPTS
    Lease,          \* STEP_RETRY_CLAIM_LEASE_MS
    Backoff,        \* STEP_RETRY_BACKOFF_MS
    MaxLag,         \* bound: how long a scanned row waits in its tick's batch
    MaxAge,         \* bound: where ages stop growing
    MaxCrashes,     \* bound: how many calls are lost
    CrashPoints     \* the points at which a call may be lost

Steps == 1..NumSteps

(* How the registry describes the action of a step: retrySafe, not         *)
(* retrySafe, or no longer in the allowlist.                               *)
ActionKinds == {"retry_safe", "not_retry_safe", "not_allowed"}

Points == {"idle", "claim", "reclaim", "legacy", "exhausted", "verify",
           "refuse", "attempt", "commit", "next", "finish"}

ASSUME StepRetryAssumption ==
    /\ NumSteps \in Nat
    /\ MaxAttempts \in Nat \ {0}
    /\ Lease \in Nat
    /\ Backoff \in [1..(MaxAttempts - 1) -> Nat]
    /\ MaxLag \in Nat
    /\ MaxAge \in Nat
    /\ MaxAge > MaxLag + Lease
    /\ \A n \in 1..(MaxAttempts - 1) : Backoff[n] <= MaxAge
    /\ MaxCrashes \in Nat
    /\ CrashPoints \subseteq Points \ {"idle"}

VARIABLES
    run,            \* AutomationRun.status, from "running" on
    plan,           \* run.plannedSteps: the kind of each step's action
    step,           \* the AutomationStepRun row of each sequence number
    call,           \* what each worker is doing
    minted,         \* number of claim tokens minted so far
    executions,     \* times each step's action was started (history)
    crashes         \* calls lost so far

vars == <<run, plan, step, call, minted, executions, crashes>>

(***************************************************************************)
(* Rows and calls                                                          *)
(***************************************************************************)
NoToken == 0            \* claimToken null; tokens are 1, 2, ...

StepStatuses == {"none", "running", "retry_scheduled", "succeeded", "failed"}

Rows == [status : StepStatuses, attemptCount : 0..MaxAttempts,
         claimToken : Nat, claimAge : 0..MaxAge, dueIn : -MaxAge..MaxAge]

NoRow == [status |-> "none", attemptCount |-> 0, claimToken |-> NoToken,
          claimAge |-> 0, dueIn |-> 0]

Outcomes == {"none", "ok", "permanent", "transient"}

Calls == [pc : Points, seq : 1..(NumSteps + 1), token : Nat, lag : 0..MaxAge,
          attemptCount : 0..MaxAttempts, outcome : Outcomes]

(* A call at a point where it holds no claim.                              *)
CallAt(point, i) ==
    [pc |-> point, seq |-> i, token |-> NoToken, lag |-> 0,
     attemptCount |-> 0, outcome |-> "none"]

Idle == CallAt("idle", 1)

(* In runStepsFrom, about to look at sequence number i; about to record    *)
(* that step i failed the run.                                             *)
Driving(i) == CallAt("next", i)
Finishing(i) == CallAt("finish", i)

(* In retryStep, with a claim just won; in either, attempting the step.    *)
Verifying(c, token) ==
    [pc |-> "verify", seq |-> c.seq, token |-> token, lag |-> c.lag,
     attemptCount |-> 0, outcome |-> "none"]
Refusing(c) ==
    [pc |-> "refuse", seq |-> c.seq, token |-> c.token, lag |-> 0,
     attemptCount |-> 0, outcome |-> "none"]
Attempting(c, token, n) ==
    [pc |-> "attempt", seq |-> c.seq, token |-> token, lag |-> c.lag,
     attemptCount |-> n, outcome |-> "none"]
Attempted(c, outcome) ==
    [pc |-> "commit", seq |-> c.seq, token |-> c.token, lag |-> c.lag,
     attemptCount |-> c.attemptCount, outcome |-> outcome]

At(w, point) == call[w].pc = point
Row(w) == step[call[w].seq]

(* A row under a claim; a row whose next attempt is scheduled; a row once  *)
(* its outcome is recorded, claim and schedule gone.                       *)
ClaimedRow(token, age, n) ==
    [status |-> "running", attemptCount |-> n, claimToken |-> token,
     claimAge |-> age, dueIn |-> 0]
Scheduled(row, delay) ==
    [status |-> "retry_scheduled", attemptCount |-> row.attemptCount,
     claimToken |-> NoToken, claimAge |-> 0, dueIn |-> delay]
Closed(row, status) ==
    [status |-> status, attemptCount |-> row.attemptCount,
     claimToken |-> NoToken, claimAge |-> 0, dueIn |-> 0]

Live(row) == row.status \in {"running", "retry_scheduled"}
Settled(row) == row.status \in {"succeeded", "failed"}
RunSettled == run \in {"succeeded", "failed"}

(***************************************************************************)
(* The predicates of step-retry-policy.ts, as seen by a call whose `now`   *)
(* is lag behind the present.                                              *)
(***************************************************************************)
DueScheduledRetry(row, lag) ==
    /\ row.status = "retry_scheduled"
    /\ row.dueIn <= -lag

(* Mutant: the lease threshold is inclusive (lte for lt).                  *)
AbandonedAtLease(row, lag) ==
    /\ row.status = "running"
    /\ row.claimToken # NoToken
    /\ row.claimAge >= lag + Lease

AbandonedRunningClaim(row, lag) ==
    /\ row.status = "running"
    /\ row.claimToken # NoToken
    /\ row.claimAge > lag + Lease

LegacyUnclaimedRunning(row, lag) ==
    /\ row.status = "running"
    /\ row.claimToken = NoToken
    /\ row.claimAge > lag + Lease

DueStepRetry(row) ==
    \/ DueScheduledRetry(row, 0)
    \/ AbandonedRunningClaim(row, 0)
    \/ LegacyUnclaimedRunning(row, 0)

(* Mutant: the outcome is written by id alone.                             *)
OwnedWithoutToken(w) == Row(w).status # "none"

(* commitStepAttempt's guard: the row still carries this attempt's token.  *)
Owned(w) == Row(w).claimToken = call[w].token

(***************************************************************************)
(* Initial states: executeSteps was just called on the persisted run, or   *)
(* the release that introduced claims finds what its predecessor left: a   *)
(* first attempt without claim columns, or a retry it scheduled for any    *)
(* transient failure, whatever the action.                                 *)
(***************************************************************************)
FreshStart(w) ==
    /\ step = [i \in Steps |-> NoRow]
    /\ executions = [i \in Steps |-> 0]
    /\ call = [v \in Workers |-> IF v = w THEN Driving(1) ELSE Idle]

LegacyRow(status) ==
    [status |-> status, attemptCount |-> 1, claimToken |-> NoToken,
     claimAge |-> 0, dueIn |-> 0]

LegacyStart(status) ==
    /\ NumSteps > 0
    /\ MaxAttempts > 1
    /\ plan[1] # "not_allowed"
    /\ step = [i \in Steps |-> IF i = 1 THEN LegacyRow(status) ELSE NoRow]
    /\ executions = [i \in Steps |-> IF i = 1 THEN 1 ELSE 0]
    /\ call = [v \in Workers |-> Idle]

Init ==
    /\ run = "running"
    /\ plan \in [Steps -> ActionKinds]
    /\ minted = 0
    /\ crashes = 0
    /\ \/ \E w \in Workers : FreshStart(w)
       \/ LegacyStart("running")
       \/ LegacyStart("retry_scheduled")

(***************************************************************************)
(* runStepsFrom: the loop head                                             *)
(***************************************************************************)

(* The row of the next step is created claimed, and its first attempt      *)
(* starts.                                                                 *)
StartStep(w) ==
    LET i == call[w].seq IN
    /\ At(w, "next")
    /\ i \in Steps
    /\ plan[i] # "not_allowed"
    /\ minted' = minted + 1
    /\ step' = [step EXCEPT ![i] = ClaimedRow(minted + 1, 0, 1)]
    /\ call' = [call EXCEPT ![w] = Attempting(call[w], minted + 1, 1)]
    /\ executions' = [executions EXCEPT ![i] = @ + 1]
    /\ UNCHANGED <<run, plan, crashes>>

(* Mutant: the loop goes on past an action that left the allowlist.        *)
SkipStep(w) ==
    LET i == call[w].seq IN
    /\ At(w, "next")
    /\ i \in Steps
    /\ plan[i] = "not_allowed"
    /\ step' = [step EXCEPT ![i] = Closed(NoRow, "failed")]
    /\ call' = [call EXCEPT ![w] = Driving(i + 1)]
    /\ UNCHANGED <<run, plan, minted, executions, crashes>>

(* An action that left the allowlist fails the run without an attempt.     *)
RejectStep(w) ==
    LET i == call[w].seq IN
    /\ At(w, "next")
    /\ i \in Steps
    /\ plan[i] = "not_allowed"
    /\ step' = [step EXCEPT ![i] = Closed(NoRow, "failed")]
    /\ call' = [call EXCEPT ![w] = Finishing(i)]
    /\ UNCHANGED <<run, plan, minted, executions, crashes>>

(* finishRun writes the run's row unconditionally.                         *)
FinishSucceeded(w) ==
    /\ At(w, "next")
    /\ call[w].seq \notin Steps
    /\ run' = "succeeded"
    /\ call' = [call EXCEPT ![w] = Idle]
    /\ UNCHANGED <<plan, step, minted, executions, crashes>>

FinishFailed(w) ==
    /\ At(w, "finish")
    /\ run' = "failed"
    /\ call' = [call EXCEPT ![w] = Idle]
    /\ UNCHANGED <<plan, step, minted, executions, crashes>>

(***************************************************************************)
(* attemptStep, then the outcome recorded under the attempt's token        *)
(***************************************************************************)
Attempt(w) ==
    /\ At(w, "attempt")
    /\ \E outcome \in Outcomes \ {"none"} :
         call' = [call EXCEPT ![w] = Attempted(call[w], outcome)]
    /\ UNCHANGED <<run, plan, step, minted, executions, crashes>>

(* Whether a failed attempt is the step's last: runStepsFrom and retryStep *)
(* apply the same test, with 1 and fresh.attemptCount.                     *)
LastAttempt(w) ==
    \/ call[w].outcome = "permanent"
    \/ plan[call[w].seq] # "retry_safe"
    \/ call[w].attemptCount >= MaxAttempts

CommitSucceeded(w) ==
    LET i == call[w].seq IN
    /\ At(w, "commit")
    /\ call[w].outcome = "ok"
    /\ Owned(w)
    /\ step' = [step EXCEPT ![i] = Closed(Row(w), "succeeded")]
    /\ call' = [call EXCEPT ![w] = Driving(i + 1)]
    /\ UNCHANGED <<run, plan, minted, executions, crashes>>

CommitFailed(w) ==
    LET i == call[w].seq IN
    /\ At(w, "commit")
    /\ call[w].outcome # "ok"
    /\ LastAttempt(w)
    /\ Owned(w)
    /\ step' = [step EXCEPT ![i] = Closed(Row(w), "failed")]
    /\ call' = [call EXCEPT ![w] = Finishing(i)]
    /\ UNCHANGED <<run, plan, minted, executions, crashes>>

(* Mutant: the step is closed instead of scheduled, the run left running.  *)
CommitDropped(w) ==
    /\ At(w, "commit")
    /\ call[w].outcome # "ok"
    /\ ~LastAttempt(w)
    /\ Owned(w)
    /\ step' = [step EXCEPT ![call[w].seq] = Closed(Row(w), "failed")]
    /\ call' = [call EXCEPT ![w] = Idle]
    /\ UNCHANGED <<run, plan, minted, executions, crashes>>

(* The delay counts from the call's `now`: the present after a first       *)
(* attempt, the tick's instant after a retry.                              *)
CommitRetry(w) ==
    LET i == call[w].seq
        delay == Backoff[call[w].attemptCount] - call[w].lag
    IN
    /\ At(w, "commit")
    /\ call[w].outcome # "ok"
    /\ ~LastAttempt(w)
    /\ Owned(w)
    /\ step' = [step EXCEPT ![i] = Scheduled(step[i], delay)]
    /\ call' = [call EXCEPT ![w] = Idle]
    /\ UNCHANGED <<run, plan, minted, executions, crashes>>

(* Mutant: a call that lost its claim fails the run all the same.          *)
CommitLostFinishes(w) ==
    /\ call[w].pc \in {"commit", "refuse"}
    /\ ~Owned(w)
    /\ call' = [call EXCEPT ![w] = Finishing(call[w].seq)]
    /\ UNCHANGED <<run, plan, step, minted, executions, crashes>>

(* The claim was taken over while the attempt ran: its outcome is moot.    *)
CommitLost(w) ==
    /\ call[w].pc \in {"commit", "refuse"}
    /\ ~Owned(w)
    /\ call' = [call EXCEPT ![w] = Idle]
    /\ UNCHANGED <<run, plan, step, minted, executions, crashes>>

(***************************************************************************)
(* The dispatcher's scan, and retryStep                                    *)
(***************************************************************************)
Scan(w) ==
    /\ At(w, "idle")
    /\ \E i \in Steps :
         /\ DueStepRetry(step[i])
         /\ call' = [call EXCEPT ![w] = CallAt("claim", i)]
    /\ UNCHANGED <<run, plan, step, minted, executions, crashes>>

(* A conditional update that matches no row: go on to the next one.        *)
Miss(w, point) ==
    /\ call' = [call EXCEPT ![w] = [call[w] EXCEPT !.pc = point]]
    /\ UNCHANGED <<run, plan, step, minted, executions, crashes>>

(* Mutant: the attempt is not charged when it is claimed.                  *)
TakeClaimUncharged(w) ==
    /\ minted' = minted + 1
    /\ step' = [step EXCEPT ![call[w].seq] =
                  ClaimedRow(minted + 1, call[w].lag, Row(w).attemptCount)]
    /\ call' = [call EXCEPT ![w] = Verifying(call[w], minted + 1)]
    /\ UNCHANGED <<run, plan, executions, crashes>>

(* Both claims: a fresh token, claimedAt set to the call's own `now`, and  *)
(* one attempt spent at once, so that a crash counts.                      *)
TakeClaim(w) ==
    /\ minted' = minted + 1
    /\ step' = [step EXCEPT ![call[w].seq] =
                  ClaimedRow(minted + 1, call[w].lag, Row(w).attemptCount + 1)]
    /\ call' = [call EXCEPT ![w] = Verifying(call[w], minted + 1)]
    /\ UNCHANGED <<run, plan, executions, crashes>>

ScheduledMatches(w) ==
    /\ DueScheduledRetry(Row(w), call[w].lag)
    /\ Row(w).attemptCount < MaxAttempts

ClaimScheduled(w) ==
    /\ At(w, "claim")
    /\ \/ ScheduledMatches(w) /\ TakeClaim(w)
       \/ ~ScheduledMatches(w) /\ Miss(w, "reclaim")

(* Mutant: a takeover ignores the budget.                                  *)
AbandonedMatchesUnbounded(w) == AbandonedRunningClaim(Row(w), call[w].lag)

AbandonedMatches(w) ==
    /\ AbandonedRunningClaim(Row(w), call[w].lag)
    /\ Row(w).attemptCount < MaxAttempts

ClaimAbandoned(w) ==
    /\ At(w, "reclaim")
    /\ \/ AbandonedMatches(w) /\ TakeClaim(w)
       \/ ~AbandonedMatches(w) /\ Miss(w, "legacy")

(* Rows no claim can reach are failed outright, never re-executed.         *)
ForceFail(w) ==
    /\ step' = [step EXCEPT ![call[w].seq] = Closed(Row(w), "failed")]
    /\ call' = [call EXCEPT ![w] = Finishing(call[w].seq)]
    /\ UNCHANGED <<run, plan, minted, executions, crashes>>

ReconcileLegacy(w) ==
    /\ At(w, "legacy")
    /\ \/ LegacyUnclaimedRunning(Row(w), call[w].lag) /\ ForceFail(w)
       \/ /\ ~LegacyUnclaimedRunning(Row(w), call[w].lag)
          /\ Miss(w, "exhausted")

(* Mutants: only a row beyond its budget is failed; any row at its budget  *)
(* is, whatever its status.                                                *)
ExhaustedBeyond(w) ==
    /\ AbandonedRunningClaim(Row(w), call[w].lag)
    /\ Row(w).attemptCount > MaxAttempts

ExhaustedAnyStatus(w) == Row(w).attemptCount >= MaxAttempts

ExhaustedMatches(w) ==
    /\ AbandonedRunningClaim(Row(w), call[w].lag)
    /\ Row(w).attemptCount >= MaxAttempts

FailExhausted(w) ==
    /\ At(w, "exhausted")
    /\ \/ ExhaustedMatches(w) /\ ForceFail(w)
       \/ /\ ~ExhaustedMatches(w)
          /\ call' = [call EXCEPT ![w] = Idle]
          /\ UNCHANGED <<run, plan, step, minted, executions, crashes>>

(* The row is read back: another call may have taken the claim meanwhile.  *)
StillClaimed(w) == Row(w).status = "running" /\ Owned(w)

VerifyLost(w) ==
    /\ At(w, "verify")
    /\ ~StillClaimed(w)
    /\ call' = [call EXCEPT ![w] = Idle]
    /\ UNCHANGED <<run, plan, step, minted, executions, crashes>>

(* Mutant: a claim won on a scheduled row is trusted to be retry-safe.     *)
VerifyRetryAny(w) ==
    /\ At(w, "verify")
    /\ StillClaimed(w)
    /\ call' = [call EXCEPT ![w] =
                  Attempting(call[w], call[w].token, Row(w).attemptCount)]
    /\ executions' = [executions EXCEPT ![call[w].seq] = @ + 1]
    /\ UNCHANGED <<run, plan, step, minted, crashes>>

(* The retry starts, or is refused when the action is not retry-safe,      *)
(* whichever claim won.                                                    *)
VerifyRetry(w) ==
    /\ At(w, "verify")
    /\ StillClaimed(w)
    /\ plan[call[w].seq] = "retry_safe"
    /\ call' = [call EXCEPT ![w] =
                  Attempting(call[w], call[w].token, Row(w).attemptCount)]
    /\ executions' = [executions EXCEPT ![call[w].seq] = @ + 1]
    /\ UNCHANGED <<run, plan, step, minted, crashes>>

VerifyRefuse(w) ==
    /\ At(w, "verify")
    /\ StillClaimed(w)
    /\ plan[call[w].seq] # "retry_safe"
    /\ call' = [call EXCEPT ![w] = Refusing(call[w])]
    /\ UNCHANGED <<run, plan, step, minted, executions, crashes>>

CommitRefused(w) ==
    /\ At(w, "refuse")
    /\ Owned(w)
    /\ ForceFail(w)

(***************************************************************************)
(* The environment: time, and calls that are lost (the process dies, or a  *)
(* statement throws and the exception ends the call)                       *)
(***************************************************************************)
RetryPoints == {"claim", "reclaim", "legacy", "exhausted", "verify",
                "attempt", "commit"}
ScanPoints == {"claim", "reclaim", "legacy", "exhausted"}

(* A first attempt reads the clock when it needs it; only a retry carries  *)
(* its tick's instant along.                                               *)
CarriesNow(c) == c.pc \in RetryPoints /\ c.attemptCount # 1

Older(age) == IF age < MaxAge THEN age + 1 ELSE age
Nearer(due) == IF due > -MaxAge THEN due - 1 ELSE due

OlderRow(row) ==
    CASE row.status = "running" ->
           [row EXCEPT !.claimAge = Older(row.claimAge)]
      [] row.status = "retry_scheduled" ->
           [row EXCEPT !.dueIn = Nearer(row.dueIn)]
      [] OTHER -> row

OlderCall(c) ==
    IF CarriesNow(c) THEN [c EXCEPT !.lag = Older(c.lag)] ELSE c

Tick ==
    /\ \A w \in Workers : call[w].pc \in ScanPoints => call[w].lag < MaxLag
    /\ step' = [i \in Steps |-> OlderRow(step[i])]
    /\ call' = [w \in Workers |-> OlderCall(call[w])]
    /\ UNCHANGED <<run, plan, minted, executions, crashes>>

Crash(w) ==
    /\ call[w].pc \in CrashPoints
    /\ crashes < MaxCrashes
    /\ crashes' = crashes + 1
    /\ call' = [call EXCEPT ![w] = Idle]
    /\ UNCHANGED <<run, plan, step, minted, executions>>

(***************************************************************************)
(* Specification                                                           *)
(***************************************************************************)
RunStepsFrom(w) ==
    \/ StartStep(w)
    \/ RejectStep(w)
    \/ FinishSucceeded(w)
    \/ FinishFailed(w)
    \/ Attempt(w)
    \/ CommitSucceeded(w)
    \/ CommitFailed(w)
    \/ CommitRetry(w)
    \/ CommitLost(w)

RetryStep(w) ==
    \/ ClaimScheduled(w)
    \/ ClaimAbandoned(w)
    \/ ReconcileLegacy(w)
    \/ FailExhausted(w)
    \/ VerifyLost(w)
    \/ VerifyRetry(w)
    \/ VerifyRefuse(w)
    \/ CommitRefused(w)

Next ==
    \/ Tick
    \/ \E w \in Workers :
         RunStepsFrom(w) \/ RetryStep(w) \/ Scan(w) \/ Crash(w)

Spec == Init /\ [][Next]_vars

(* Time passes, the cron tick keeps scanning, statements and actions       *)
(* return.  Crashes are never forced.                                      *)
Fairness ==
    /\ WF_vars(Tick)
    /\ \A w \in Workers :
         WF_vars(RunStepsFrom(w) \/ RetryStep(w) \/ Scan(w))

FairSpec == Spec /\ Fairness

(***************************************************************************)
(* Invariants                                                              *)
(***************************************************************************)
(* Every variable has its type. *)
TypeOK ==
    /\ run \in {"running", "succeeded", "failed"}
    /\ plan \in [Steps -> ActionKinds]
    /\ step \in [Steps -> Rows]
    /\ call \in [Workers -> Calls]
    /\ minted \in Nat
    /\ executions \in [Steps -> Nat]
    /\ crashes \in 0..MaxCrashes

(* Continuing or finishing the run is the business of one call at most,    *)
(* and of none while a step is unsettled: a stale worker that wakes up     *)
(* after its claim was taken over never appends a step nor finishes the    *)
(* run, and the loop never meets a row it is about to create.              *)
Drives(w) == call[w].pc \in {"next", "finish"}

SingleDriver ==
    \A w \in Workers : Drives(w) =>
        /\ run = "running"
        /\ \A v \in Workers : Drives(v) => v = w
        /\ \A i \in Steps : ~Live(step[i])
        /\ At(w, "next") => \A i \in Steps : i >= call[w].seq
                                               => step[i].status = "none"

(* A step has a row only when every earlier step has succeeded, over any   *)
(* number of takeovers, resumptions and crashes.                           *)
StepsInOrder ==
    \A i \in Steps : step[i].status # "none" =>
        \A j \in 1..(i - 1) : step[j].status = "succeeded"

(* A finished run agrees with its steps: nothing is left to run or to      *)
(* retry, "succeeded" means all of them did, "failed" that one failed.     *)
RunMatchesSteps ==
    /\ RunSettled => \A i \in Steps : ~Live(step[i])
    /\ run = "succeeded" => \A i \in Steps : step[i].status = "succeeded"
    /\ run = "failed" => \E i \in Steps : step[i].status = "failed"

(* An action that is not retry-safe is started once at most, whatever      *)
(* crashes, takeovers, stale workers or legacy rows the run goes through.  *)
UnsafeStartsOnce ==
    \A i \in Steps : plan[i] # "retry_safe" => executions[i] <= 1

(* The action of a step is never started more often than its row has       *)
(* attempts charged, and never beyond the budget, even when a takeover     *)
(* runs beside the attempt it replaced.                                    *)
AttemptBudget ==
    \A i \in Steps : /\ executions[i] <= step[i].attemptCount
                     /\ step[i].attemptCount <= MaxAttempts

(* While nobody works on the run, a step row that the dispatcher can find  *)
(* again is what will carry it on: the crash of any call is recoverable    *)
(* (RC27_HARDENING.md, "Bail durable des la premiere tentative").          *)
Recoverable ==
    (run = "running" /\ \A w \in Workers : At(w, "idle"))
        => \E i \in Steps : Live(step[i])

(***************************************************************************)
(* Action properties                                                       *)
(***************************************************************************)
(* A step's recorded outcome and the run's result are never rewritten,     *)
(* although finishRun updates the run's row without a condition; and no    *)
(* action is started on behalf of a finished run.                          *)
SettledStays ==
    [][ /\ RunSettled => run' = run /\ executions' = executions
        /\ \A i \in Steps : Settled(step[i])
                              => step'[i].status = step[i].status ]_vars

(* The token of a claim changes hands only after the claim has been held   *)
(* for more than a lease by its claimedAt.                                 *)
TakeoverAfterLease ==
    [][ \A i \in Steps :
          /\ step[i].claimToken # NoToken
          /\ step'[i].claimToken \notin {NoToken, step[i].claimToken}
          => step[i].claimAge > Lease ]_vars

(***************************************************************************)
(* Liveness                                                                *)
(***************************************************************************)
(* The run is finished, for crashes that leave a claimed row behind.       *)
EventuallySettled == <>RunSettled

(***************************************************************************)
(* The abstract run                                                        *)
(***************************************************************************)
Succeeded == {i \in Steps : step[i].status = "succeeded"}
SomeFailed == \E i \in Steps : step[i].status = "failed"

Progress == INSTANCE RunProgress
              WITH status <- run, done <- Succeeded, broken <- SomeFailed

(* Through retries, takeovers and crashes the run makes the progress of    *)
(* RunProgress.                                                            *)
ImplementsProgress == Progress!Spec
=============================================================================
