-------------------------- MODULE StepRetryProofs --------------------------
(***************************************************************************)
(* Proofs about StepRetry, for any number of workers, steps, attempts and  *)
(* crashes, and any lease, backoff and lag.                                *)
(***************************************************************************)
EXTENDS StepRetry, TLAPS

(* What a call in progress knows: the step it works on is in the plan, an  *)
(* attempt has a token and a positive count.                               *)
CallOK(c) ==
    /\ c.pc \notin {"idle", "next"} => c.seq \in Steps
    /\ c.pc \in {"verify", "refuse", "attempt", "commit"} => c.token # NoToken
    /\ c.pc \in {"attempt", "commit"} => c.attemptCount # 0

(* Only a running row carries a token, and it has an attempt charged.      *)
RowOK(row) ==
    row.claimToken # NoToken => row.status = "running" /\ row.attemptCount # 0

GoodCalls == {c \in Calls : CallOK(c)}
GoodRows == {row \in Rows : RowOK(row)}

(* TypeOK made inductive.                                                  *)
TypeInv ==
    /\ TypeOK
    /\ call \in [Workers -> GoodCalls]
    /\ step \in [Steps -> GoodRows]

(***************************************************************************)
(* The constructors of calls and rows build good ones                      *)
(***************************************************************************)
LEMMA CallAtGood ==
    ASSUME NEW point \in Points, NEW i \in 1..(NumSteps + 1),
           point \notin {"verify", "refuse", "attempt", "commit"},
           point \notin {"idle", "next"} => i \in Steps
    PROVE  CallAt(point, i) \in GoodCalls
  BY StepRetryAssumption
  DEF CallAt, GoodCalls, Calls, CallOK, Outcomes, NoToken

LEMMA IdleGood == Idle \in GoodCalls
  BY CallAtGood, StepRetryAssumption DEF Idle, Points

LEMMA DrivingGood ==
    ASSUME NEW i \in 1..(NumSteps + 1) PROVE Driving(i) \in GoodCalls
  BY CallAtGood DEF Driving, Points

LEMMA StepsAreSequences == \A i \in Steps : i \in 1..(NumSteps + 1)
                                            /\ i + 1 \in 1..(NumSteps + 1)
  BY StepRetryAssumption DEF Steps

LEMMA DelayInRange ==
    ASSUME NEW b \in Nat, b <= MaxAge, NEW lag \in 0..MaxAge
    PROVE  b - lag \in -MaxAge..MaxAge
  BY StepRetryAssumption

LEMMA FinishingGood ==
    ASSUME NEW i \in Steps PROVE Finishing(i) \in GoodCalls
  BY CallAtGood, StepsAreSequences DEF Finishing, Points

LEMMA HoldingGood ==
    ASSUME NEW c \in Calls, c.seq \in Steps,
           NEW token \in Nat \ {NoToken}
    PROVE  /\ Verifying(c, token) \in GoodCalls
           /\ c.token # NoToken => Refusing(c) \in GoodCalls
           /\ \A n \in 1..MaxAttempts : Attempting(c, token, n) \in GoodCalls
  BY StepRetryAssumption
  DEF Verifying, Refusing, Attempting, GoodCalls, Calls, CallOK, Points,
      Outcomes, NoToken

LEMMA AttemptedGood ==
    ASSUME NEW c \in GoodCalls, c.pc = "attempt", NEW outcome \in Outcomes
    PROVE  Attempted(c, outcome) \in GoodCalls
  BY DEF Attempted, GoodCalls, Calls, CallOK, Points

LEMMA NoRowGood == NoRow \in GoodRows
  BY StepRetryAssumption
  DEF NoRow, GoodRows, Rows, RowOK, StepStatuses, NoToken

LEMMA ClaimedRowGood ==
    ASSUME NEW token \in Nat, NEW age \in 0..MaxAge, NEW n \in 1..MaxAttempts
    PROVE  ClaimedRow(token, age, n) \in GoodRows
  BY StepRetryAssumption
  DEF ClaimedRow, GoodRows, Rows, RowOK, StepStatuses

LEMMA ClosedGood ==
    ASSUME NEW row \in GoodRows, NEW status \in StepStatuses
    PROVE  Closed(row, status) \in GoodRows
  BY StepRetryAssumption DEF Closed, GoodRows, Rows, RowOK, NoToken

LEMMA ScheduledGood ==
    ASSUME NEW row \in GoodRows, NEW delay \in -MaxAge..MaxAge
    PROVE  Scheduled(row, delay) \in GoodRows
  BY StepRetryAssumption
  DEF Scheduled, GoodRows, Rows, RowOK, NoToken, StepStatuses

LEMMA OlderGood ==
    /\ \A row \in GoodRows : OlderRow(row) \in GoodRows
    /\ \A c \in GoodCalls : OlderCall(c) \in GoodCalls
<1>1. /\ \A age \in 0..MaxAge : Older(age) \in 0..MaxAge
      /\ \A due \in -MaxAge..MaxAge : Nearer(due) \in -MaxAge..MaxAge
  BY StepRetryAssumption DEF Older, Nearer
<1>2. ASSUME NEW row \in GoodRows PROVE OlderRow(row) \in GoodRows
  <2>1. CASE row.status = "running"
    <3>1. OlderRow(row) = [row EXCEPT !.claimAge = Older(row.claimAge)]
      BY <2>1 DEF OlderRow
    <3> QED
      BY <1>1, <3>1 DEF GoodRows, Rows, RowOK
  <2>2. CASE row.status = "retry_scheduled"
    <3>1. OlderRow(row) = [row EXCEPT !.dueIn = Nearer(row.dueIn)]
      BY <2>2 DEF OlderRow
    <3> QED
      BY <1>1, <3>1 DEF GoodRows, Rows, RowOK
  <2> QED
    BY <2>1, <2>2 DEF OlderRow
<1>3. ASSUME NEW c \in GoodCalls PROVE OlderCall(c) \in GoodCalls
  <2>1. [c EXCEPT !.lag = Older(c.lag)] \in GoodCalls
    BY <1>1 DEF GoodCalls, Calls, CallOK
  <2> QED
    BY <2>1 DEF OlderCall
<1> QED
  BY <1>2, <1>3

(***************************************************************************)
(* Type correctness                                                        *)
(***************************************************************************)
LEMMA GoodSplit ==
    /\ \A f \in [Workers -> GoodCalls] : f \in [Workers -> Calls]
    /\ \A f \in [Steps -> GoodRows] : f \in [Steps -> Rows]
  BY DEF GoodCalls, GoodRows

LEMMA TypeInit == Init => TypeInv
<1> SUFFICES ASSUME Init PROVE TypeInv
  OBVIOUS
<1> SUFFICES /\ call \in [Workers -> GoodCalls]
             /\ step \in [Steps -> GoodRows]
             /\ executions \in [Steps -> Nat]
  BY GoodSplit, StepRetryAssumption DEF Init, TypeInv, TypeOK
<1>1. ASSUME NEW w \in Workers, FreshStart(w)
      PROVE  /\ call \in [Workers -> GoodCalls]
             /\ step \in [Steps -> GoodRows]
             /\ executions \in [Steps -> Nat]
  <2>1. 1 \in 1..(NumSteps + 1)
    BY StepRetryAssumption
  <2> QED
    BY <1>1, <2>1, IdleGood, DrivingGood, NoRowGood DEF FreshStart
<1>2. ASSUME NEW status \in {"running", "retry_scheduled"}, LegacyStart(status)
      PROVE  /\ call \in [Workers -> GoodCalls]
             /\ step \in [Steps -> GoodRows]
             /\ executions \in [Steps -> Nat]
  <2>1. LegacyRow(status) \in GoodRows
    BY <1>2, StepRetryAssumption
    DEF LegacyStart, LegacyRow, GoodRows, Rows, RowOK, StepStatuses, NoToken
  <2> QED
    BY <1>2, <2>1, IdleGood, NoRowGood DEF LegacyStart
<1> QED
  BY <1>1, <1>2 DEF Init

(* A step that replaces one call, and possibly one row, by good ones.      *)
LEMMA CallUpdate ==
    ASSUME TypeInv, NEW w \in Workers, NEW c \in GoodCalls,
           call' = [call EXCEPT ![w] = c],
           UNCHANGED <<plan, step, minted, executions>>,
           run' \in {"running", "succeeded", "failed"},
           crashes' \in 0..MaxCrashes
    PROVE  TypeInv'
<1>1. call' \in [Workers -> GoodCalls]
  BY DEF TypeInv
<1> QED
  BY <1>1, GoodSplit DEF TypeInv, TypeOK

LEMMA RowUpdate ==
    ASSUME TypeInv, NEW w \in Workers, NEW c \in GoodCalls,
           NEW i \in Steps, NEW row \in GoodRows,
           call' = [call EXCEPT ![w] = c],
           step' = [step EXCEPT ![i] = row],
           minted' \in Nat, executions' \in [Steps -> Nat],
           UNCHANGED <<run, plan, crashes>>
    PROVE  TypeInv'
<1>1. call' \in [Workers -> GoodCalls] /\ step' \in [Steps -> GoodRows]
  BY DEF TypeInv
<1> QED
  BY <1>1, GoodSplit DEF TypeInv, TypeOK

LEMMA TypeStep == TypeInv /\ [Next]_vars => TypeInv'
<1> SUFFICES ASSUME TypeInv, [Next]_vars PROVE TypeInv'
  OBVIOUS
<1>a. ASSUME NEW w \in Workers
      PROVE  /\ call[w] \in GoodCalls
             /\ call[w] \in Calls
             /\ CallOK(call[w])
  BY DEF TypeInv, GoodCalls
<1>b. /\ run \in {"running", "succeeded", "failed"}
      /\ crashes \in 0..MaxCrashes
      /\ minted \in Nat /\ minted + 1 \in Nat \ {NoToken}
      /\ executions \in [Steps -> Nat]
      /\ \A i \in Steps : step[i] \in GoodRows
  BY DEF TypeInv, TypeOK, NoToken
<1>1. CASE UNCHANGED vars
  BY <1>1 DEF vars, TypeInv, TypeOK
<1>2. CASE Tick
  <2>1. call' \in [Workers -> GoodCalls] /\ step' \in [Steps -> GoodRows]
    BY <1>2, OlderGood DEF Tick, TypeInv
  <2> QED
    BY <1>2, <2>1, GoodSplit DEF Tick, TypeInv, TypeOK
<1>3. ASSUME NEW w \in Workers, Scan(w) PROVE TypeInv'
  <2>1. PICK i \in Steps : call' = [call EXCEPT ![w] = CallAt("claim", i)]
    BY <1>3 DEF Scan
  <2>2. CallAt("claim", i) \in GoodCalls
    BY CallAtGood, StepsAreSequences DEF Points
  <2> QED
    BY <1>3, <1>b, <2>1, <2>2, CallUpdate DEF Scan
<1>4. ASSUME NEW w \in Workers, Crash(w) PROVE TypeInv'
  <2>1. crashes' \in 0..MaxCrashes
    BY <1>4, <1>b, StepRetryAssumption DEF Crash
  <2>2. run' = run
    BY <1>4 DEF Crash
  <2> QED
    BY <1>4, <1>b, <2>1, <2>2, IdleGood, CallUpdate DEF Crash
<1>5. ASSUME NEW w \in Workers, RunStepsFrom(w) PROVE TypeInv'
  <2> DEFINE i == call[w].seq
  <2>1. CASE StartStep(w)
    <3>1. Attempting(call[w], minted + 1, 1) \in GoodCalls
      BY <1>a, <1>b, <2>1, HoldingGood, StepRetryAssumption DEF StartStep
    <3>2. ClaimedRow(minted + 1, 0, 1) \in GoodRows
      BY <1>b, ClaimedRowGood, StepRetryAssumption
    <3>3. executions' \in [Steps -> Nat]
      BY <1>b, <2>1 DEF StartStep
    <3> QED
      BY <1>b, <2>1, <3>1, <3>2, <3>3, RowUpdate DEF StartStep
  <2>2. CASE RejectStep(w)
    BY <1>b, <2>2, NoRowGood, ClosedGood, FinishingGood, RowUpdate
    DEF RejectStep, StepStatuses
  <2>3. CASE FinishSucceeded(w)
    BY <1>b, <2>3, IdleGood, CallUpdate DEF FinishSucceeded
  <2>4. CASE FinishFailed(w)
    BY <1>b, <2>4, IdleGood, CallUpdate DEF FinishFailed
  <2>5. CASE Attempt(w)
    <3>1. PICK outcome \in Outcomes :
            call' = [call EXCEPT ![w] = Attempted(call[w], outcome)]
      BY <2>5 DEF Attempt
    <3>2. Attempted(call[w], outcome) \in GoodCalls
      BY <1>a, <2>5, AttemptedGood DEF Attempt, At
    <3> QED
      BY <1>b, <2>5, <3>1, <3>2, CallUpdate DEF Attempt
  <2>6. CASE CommitSucceeded(w)
    <3>1. i \in Steps
      BY <1>a, <2>6 DEF CommitSucceeded, CallOK, At
    <3>2. Driving(i + 1) \in GoodCalls
      BY <3>1, StepsAreSequences, DrivingGood
    <3>3. Closed(Row(w), "succeeded") \in GoodRows
      BY <1>b, <3>1, ClosedGood DEF Row, StepStatuses
    <3> QED
      BY <1>b, <2>6, <3>1, <3>2, <3>3, RowUpdate DEF CommitSucceeded
  <2>7. CASE CommitFailed(w)
    <3>1. i \in Steps
      BY <1>a, <2>7 DEF CommitFailed, CallOK, At
    <3>2. Closed(Row(w), "failed") \in GoodRows
      BY <1>b, <3>1, ClosedGood DEF Row, StepStatuses
    <3> QED
      BY <1>b, <2>7, <3>1, <3>2, FinishingGood, RowUpdate DEF CommitFailed
  <2>8. CASE CommitRetry(w)
    <3> DEFINE n == call[w].attemptCount
               delay == Backoff[n] - call[w].lag
    <3>1. i \in Steps
      BY <1>a, <2>8 DEF CommitRetry, CallOK, At
    <3>2. n \in 0..MaxAttempts /\ n # 0 /\ call[w].lag \in 0..MaxAge
      BY <1>a, <2>8 DEF CommitRetry, At, CallOK, Calls
    <3>3. n \in 1..(MaxAttempts - 1)
      BY <2>8, <3>2, StepRetryAssumption DEF CommitRetry, LastAttempt
    <3>4. delay \in -MaxAge..MaxAge
      <4>1. Backoff[n] \in Nat /\ Backoff[n] <= MaxAge
        BY <3>3, StepRetryAssumption
      <4> QED
        BY <3>2, <4>1, DelayInRange
    <3>5. Scheduled(step[i], delay) \in GoodRows
      BY <1>b, <3>1, <3>4, ScheduledGood
    <3> QED
      BY <1>b, <2>8, <3>1, <3>5, IdleGood, RowUpdate DEF CommitRetry
  <2>9. CASE CommitLost(w)
    BY <1>b, <2>9, IdleGood, CallUpdate DEF CommitLost
  <2> QED
    BY <1>5, <2>1, <2>2, <2>3, <2>4, <2>5, <2>6, <2>7, <2>8, <2>9
    DEF RunStepsFrom
<1>6. ASSUME NEW w \in Workers, RetryStep(w) PROVE TypeInv'
  <2> DEFINE i == call[w].seq
  <2>1. ASSUME i \in Steps, TakeClaim(w), Row(w).attemptCount < MaxAttempts
        PROVE  TypeInv'
    <3>1. Row(w).attemptCount + 1 \in 1..MaxAttempts /\ call[w].lag \in 0..MaxAge
      <4>1. Row(w) \in Rows /\ call[w] \in Calls
        BY <1>a, <1>b, <2>1 DEF Row, GoodRows
      <4>2. Row(w).attemptCount \in 0..MaxAttempts /\ call[w].lag \in 0..MaxAge
        BY <4>1 DEF Rows, Calls
      <4> QED
        BY <2>1, <4>2, StepRetryAssumption
    <3>2. ClaimedRow(minted + 1, call[w].lag, Row(w).attemptCount + 1) \in GoodRows
      BY <1>b, <3>1, ClaimedRowGood
    <3>3. Verifying(call[w], minted + 1) \in GoodCalls
      BY <1>a, <1>b, <2>1, HoldingGood
    <3> QED
      BY <1>b, <2>1, <3>2, <3>3, RowUpdate DEF TakeClaim
  <2>2. ASSUME NEW point \in {"reclaim", "legacy", "exhausted"},
               i \in Steps, Miss(w, point)
        PROVE  TypeInv'
    <3>1. [call[w] EXCEPT !.pc = point] \in GoodCalls
      BY <1>a, <2>2 DEF GoodCalls, Calls, CallOK, Points
    <3> QED
      BY <1>b, <2>2, <3>1, CallUpdate DEF Miss
  <2>3. ASSUME i \in Steps, ForceFail(w) PROVE TypeInv'
    <3>1. Closed(Row(w), "failed") \in GoodRows
      BY <1>b, <2>3, ClosedGood DEF Row, StepStatuses
    <3> QED
      BY <1>b, <2>3, <3>1, FinishingGood, RowUpdate DEF ForceFail
  <2>4. CASE ClaimScheduled(w)
    <3>1. i \in Steps
      BY <1>a, <2>4 DEF ClaimScheduled, CallOK, At
    <3> QED
      BY <2>1, <2>2, <2>4, <3>1 DEF ClaimScheduled, ScheduledMatches
  <2>5. CASE ClaimAbandoned(w)
    <3>1. i \in Steps
      BY <1>a, <2>5 DEF ClaimAbandoned, CallOK, At
    <3> QED
      BY <2>1, <2>2, <2>5, <3>1 DEF ClaimAbandoned, AbandonedMatches
  <2>6. CASE ReconcileLegacy(w)
    <3>1. i \in Steps
      BY <1>a, <2>6 DEF ReconcileLegacy, CallOK, At
    <3> QED
      BY <2>2, <2>3, <2>6, <3>1 DEF ReconcileLegacy
  <2>7. CASE FailExhausted(w)
    <3>1. i \in Steps
      BY <1>a, <2>7 DEF FailExhausted, CallOK, At
    <3> QED
      BY <1>b, <2>3, <2>7, <3>1, IdleGood, CallUpdate DEF FailExhausted
  <2>8. CASE VerifyLost(w)
    BY <1>b, <2>8, IdleGood, CallUpdate DEF VerifyLost
  <2>9. CASE VerifyRetry(w)
    <3>1. i \in Steps /\ call[w].token \in Nat \ {NoToken}
      BY <1>a, <2>9 DEF VerifyRetry, CallOK, At, Calls
    <3>2. Row(w).attemptCount \in 1..MaxAttempts
      BY <1>b, <2>9, <3>1
      DEF VerifyRetry, StillClaimed, Owned, Row, GoodRows, Rows, RowOK
    <3>3. Attempting(call[w], call[w].token, Row(w).attemptCount) \in GoodCalls
      BY <1>a, <3>1, <3>2, HoldingGood
    <3>4. /\ call' \in [Workers -> GoodCalls]
          /\ executions' \in [Steps -> Nat]
      BY <1>b, <2>9, <3>1, <3>3 DEF VerifyRetry, TypeInv
    <3> QED
      BY <2>9, <3>4, GoodSplit DEF VerifyRetry, TypeInv, TypeOK
  <2>10. CASE VerifyRefuse(w)
    <3>1. i \in Steps /\ call[w].token \in Nat \ {NoToken}
      BY <1>a, <2>10 DEF VerifyRefuse, CallOK, At, Calls
    <3>2. Refusing(call[w]) \in GoodCalls
      BY <1>a, <3>1, HoldingGood
    <3> QED
      BY <1>b, <2>10, <3>2, CallUpdate DEF VerifyRefuse
  <2>11. CASE CommitRefused(w)
    <3>1. i \in Steps
      BY <1>a, <2>11 DEF CommitRefused, CallOK, At
    <3> QED
      BY <2>3, <2>11, <3>1 DEF CommitRefused
  <2> QED
    BY <1>6, <2>4, <2>5, <2>6, <2>7, <2>8, <2>9, <2>10, <2>11 DEF RetryStep
<1> QED
  BY <1>1, <1>2, <1>3, <1>4, <1>5, <1>6 DEF Next

LEMMA TypeInvariance == Spec => []TypeInv
  BY TypeInit, TypeStep, PTL DEF Spec

(* Every reachable state is well typed, whatever the constants.            *)
THEOREM TypeCorrect == Spec => []TypeOK
<1>1. TypeInv => TypeOK
  BY DEF TypeInv
<1> QED
  BY <1>1, TypeInvariance, PTL

(***************************************************************************)
(* Order: one driver, steps in order, a result that matches the steps.     *)
(* The three invariants are inductive together with what a driver knows    *)
(* about the steps before the one it looks at.                             *)
(***************************************************************************)
DriverKnows ==
    \A w \in Workers :
        /\ At(w, "next") => \A j \in Steps : j < call[w].seq
                                               => step[j].status = "succeeded"
        /\ At(w, "finish") => step[call[w].seq].status = "failed"

OrderInv == SingleDriver /\ StepsInOrder /\ RunMatchesSteps /\ DriverKnows

(* The same in terms of any two sequence numbers.                          *)
LEMMA EarlierSucceeded ==
    ASSUME TypeInv, OrderInv, NEW i \in Steps, NEW j \in Steps, j < i,
           step[i].status # "none"
    PROVE  step[j].status = "succeeded"
<1>1. j \in 1..(i - 1)
  BY StepRetryAssumption DEF Steps
<1> QED
  BY <1>1 DEF OrderInv, StepsInOrder

LEMMA OnlyLiveRow ==
    ASSUME TypeInv, OrderInv, NEW i \in Steps, Live(step[i])
    PROVE  /\ run = "running"
           /\ \A w \in Workers : ~Drives(w)
           /\ \A j \in Steps : j < i => step[j].status = "succeeded"
           /\ \A j \in Steps : j > i => step[j].status = "none"
<1>1. run = "running" /\ \A w \in Workers : ~Drives(w)
  BY DEF OrderInv, RunMatchesSteps, SingleDriver, RunSettled, TypeInv, TypeOK
<1>2. \A j \in Steps : j < i => step[j].status = "succeeded"
  BY EarlierSucceeded DEF Live
<1>3. ASSUME NEW j \in Steps, j > i, step[j].status # "none" PROVE FALSE
  <2>1. step[i].status = "succeeded"
    BY <1>3, EarlierSucceeded DEF Steps
  <2> QED
    BY <2>1 DEF Live
<1> QED
  BY <1>1, <1>2, <1>3

(* A held claim is a claim on a running row.                               *)
LEMMA OwnedIsLive ==
    ASSUME TypeInv, NEW w \in Workers, Owned(w),
           call[w].pc \in {"verify", "refuse", "attempt", "commit"}
    PROVE  call[w].seq \in Steps /\ Live(step[call[w].seq])
<1>1. call[w].seq \in Steps /\ call[w].token # NoToken
  BY DEF TypeInv, GoodCalls, CallOK
<1>2. step[call[w].seq].status = "running"
  BY <1>1 DEF TypeInv, GoodRows, RowOK, Owned, Row
<1> QED
  BY <1>1, <1>2 DEF Live

LEMMA OrderInit == Init => OrderInv
<1> SUFFICES ASSUME Init PROVE OrderInv
  OBVIOUS
<1>1. ASSUME NEW w \in Workers, FreshStart(w) PROVE OrderInv
  <2>1. /\ run = "running"
        /\ \A i \in Steps : step[i].status = "none"
        /\ \A v \in Workers : Drives(v) => v = w
        /\ call[w].pc = "next" /\ call[w].seq = 1
        /\ \A v \in Workers : ~At(v, "finish")
        /\ \A v \in Workers : At(v, "next") => v = w
    BY <1>1 DEF Init, FreshStart, Drives, Driving, Idle, CallAt, NoRow, At
  <2>2. \A j \in Steps : ~(j < 1)
    BY DEF Steps
  <2> QED
    BY <2>1, <2>2
    DEF OrderInv, SingleDriver, StepsInOrder, RunMatchesSteps, DriverKnows,
        RunSettled, Live
<1>2. ASSUME NEW status \in {"running", "retry_scheduled"}, LegacyStart(status)
      PROVE  OrderInv
  <2>1. /\ run = "running"
        /\ \A i \in Steps : i # 1 => step[i].status = "none"
        /\ \A v \in Workers : call[v].pc = "idle"
    BY <1>2 DEF Init, LegacyStart, Idle, CallAt, NoRow
  <2>2. \A j \in 1..(1 - 1) : FALSE
    OBVIOUS
  <2> QED
    BY <2>1, <2>2
    DEF OrderInv, SingleDriver, StepsInOrder, RunMatchesSteps, DriverKnows,
        RunSettled, Drives, At
<1> QED
  BY <1>1, <1>2 DEF Init

(* Steps after which nobody new drives and no row changes sides.           *)
LEMMA QuietStep ==
    ASSUME OrderInv,
           call \in [Workers -> GoodCalls],
           \A v \in Workers : call'[v].pc \in {"next", "finish"}
                                => /\ call'[v].pc = call[v].pc
                                   /\ call'[v].seq = call[v].seq,
           \A i \in Steps : \/ step'[i].status = step[i].status
                            \/ Live(step[i]) /\ Live(step'[i]),
           run' = run
    PROVE  OrderInv'
<1>1. \A i \in Steps : /\ Live(step'[i]) <=> Live(step[i])
                       /\ step'[i].status = "none" <=> step[i].status = "none"
                       /\ step'[i].status = "succeeded"
                            <=> step[i].status = "succeeded"
                       /\ step'[i].status = "failed"
                            <=> step[i].status = "failed"
  BY DEF Live
<1>2. SingleDriver'
  BY <1>1 DEF OrderInv, SingleDriver, Drives, At
<1>3. StepsInOrder'
  <2>1. \A i \in Steps : \A j \in 1..(i - 1) : j \in Steps
    BY StepRetryAssumption DEF Steps
  <2> QED
    BY <1>1, <2>1 DEF OrderInv, StepsInOrder
<1>4. RunMatchesSteps'
  BY <1>1 DEF OrderInv, RunMatchesSteps, RunSettled
<1>5. DriverKnows'
  <2>1. ASSUME NEW v \in Workers, At(v, "next")'
        PROVE  \A j \in Steps : j < call'[v].seq
                 => step'[j].status = "succeeded"
    BY <1>1, <2>1 DEF OrderInv, DriverKnows, At
  <2>2. ASSUME NEW v \in Workers, At(v, "finish")'
        PROVE  step'[call'[v].seq].status = "failed"
    <3>1. At(v, "finish") /\ call'[v].seq = call[v].seq
      BY <2>2 DEF At
    <3>2. step[call[v].seq].status = "failed" /\ call[v].seq \in Steps
      BY <3>1 DEF OrderInv, DriverKnows, GoodCalls, CallOK, At
    <3> QED
      BY <1>1, <3>1, <3>2
  <2> QED
    BY <2>1, <2>2 DEF DriverKnows
<1> QED
  BY <1>2, <1>3, <1>4, <1>5 DEF OrderInv

(* The outcome of the live step is recorded and its call drives the run.   *)
LEMMA SettleStep ==
    ASSUME TypeInv, OrderInv, NEW w \in Workers, NEW i \in Steps,
           Live(step[i]), run' = run,
           \/ /\ step' = [step EXCEPT ![i] = Closed(step[i], "succeeded")]
              /\ call' = [call EXCEPT ![w] = Driving(i + 1)]
           \/ /\ step' = [step EXCEPT ![i] = Closed(step[i], "failed")]
              /\ call' = [call EXCEPT ![w] = Finishing(i)]
    PROVE  OrderInv'
<1>1. /\ run = "running"
      /\ \A v \in Workers : ~Drives(v)
      /\ \A j \in Steps : j < i => step[j].status = "succeeded"
      /\ \A j \in Steps : j > i => step[j].status = "none"
  BY OnlyLiveRow
<1>2. /\ \A j \in Steps : j # i => step'[j] = step[j]
      /\ step'[i].status \in {"succeeded", "failed"}
      /\ \A v \in Workers : v # w => call'[v] = call[v]
      /\ call'[w].pc = "next" => /\ call'[w].seq = i + 1
                                 /\ step'[i].status = "succeeded"
      /\ call'[w].pc = "finish" => /\ call'[w].seq = i
                                   /\ step'[i].status = "failed"
  BY DEF TypeInv, Closed, Driving, Finishing, CallAt
<1>3. \A j \in Steps : j \in Int /\ i \in Int /\ (j < i \/ j = i \/ j > i)
  BY DEF Steps
<1>4. \A v \in Workers : Drives(v)' => v = w
  BY <1>1, <1>2 DEF Drives
<1>5. SingleDriver'
  BY <1>1, <1>2, <1>3, <1>4 DEF SingleDriver, Live, At
<1>6. StepsInOrder'
  <2>1. ASSUME NEW k \in Steps, step'[k].status # "none", NEW j \in 1..(k - 1)
        PROVE  step'[j].status = "succeeded"
    <3>1. j \in Steps /\ j < k
      BY StepRetryAssumption DEF Steps
    <3>2. k = i \/ k < i
      BY <1>1, <1>2, <1>3, <2>1
    <3> QED
      BY <1>1, <1>2, <1>3, <3>1, <3>2
  <2> QED
    BY <2>1 DEF StepsInOrder
<1>7. RunMatchesSteps'
  BY <1>1 DEF RunMatchesSteps, RunSettled
<1>8. DriverKnows'
  BY <1>1, <1>2, <1>3, <1>4 DEF DriverKnows, Drives, At
<1> QED
  BY <1>5, <1>6, <1>7, <1>8 DEF OrderInv

(* The driver creates the next row, under a claim or failed outright.      *)
LEMMA CreateStep ==
    ASSUME TypeInv, OrderInv, NEW w \in Workers, NEW i \in Steps,
           At(w, "next"), call[w].seq = i, run' = run,
           NEW row \in Rows, NEW c,
           step' = [step EXCEPT ![i] = row],
           call' = [call EXCEPT ![w] = c],
           \/ Live(row) /\ c.pc = "attempt"
           \/ row.status = "failed" /\ c = Finishing(i)
    PROVE  OrderInv'
<1>1. /\ run = "running"
      /\ \A v \in Workers : Drives(v) => v = w
      /\ \A j \in Steps : ~Live(step[j])
      /\ \A j \in Steps : j >= i => step[j].status = "none"
      /\ \A j \in Steps : j < i => step[j].status = "succeeded"
  BY DEF OrderInv, SingleDriver, DriverKnows, Drives, At
<1>2. /\ \A j \in Steps : j # i => step'[j] = step[j]
      /\ step'[i] = row
      /\ \A v \in Workers : v # w => call'[v] = call[v]
      /\ call'[w] = c
      /\ c.pc = "attempt" \/ (c.pc = "finish" /\ c.seq = i)
  BY DEF TypeInv, Finishing, CallAt
<1>3. \A j \in Steps : j \in Int /\ i \in Int /\ (j < i \/ j = i \/ j > i)
  BY DEF Steps
<1>4. \A v \in Workers : Drives(v)' => v = w /\ c.pc = "finish"
  BY <1>1, <1>2 DEF Drives
<1>5. SingleDriver'
  BY <1>1, <1>2, <1>3, <1>4 DEF SingleDriver, Live, At
<1>6. StepsInOrder'
  <2>1. ASSUME NEW k \in Steps, step'[k].status # "none", NEW j \in 1..(k - 1)
        PROVE  step'[j].status = "succeeded"
    <3>1. j \in Steps /\ j < k
      BY StepRetryAssumption DEF Steps
    <3>2. k = i \/ k < i
      BY <1>1, <1>2, <1>3, <2>1
    <3> QED
      BY <1>1, <1>2, <1>3, <3>1, <3>2
  <2> QED
    BY <2>1 DEF StepsInOrder
<1>7. RunMatchesSteps'
  BY <1>1 DEF RunMatchesSteps, RunSettled
<1>8. DriverKnows'
  BY <1>1, <1>2, <1>3, <1>4 DEF DriverKnows, Drives, At
<1> QED
  BY <1>5, <1>6, <1>7, <1>8 DEF OrderInv

LEMMA FinishStep ==
    ASSUME TypeInv, OrderInv, NEW w \in Workers,
           FinishSucceeded(w) \/ FinishFailed(w)
    PROVE  OrderInv'
<1>1. /\ run = "running"
      /\ \A v \in Workers : Drives(v) => v = w
      /\ \A j \in Steps : ~Live(step[j])
  BY DEF OrderInv, SingleDriver, Drives, At, FinishSucceeded, FinishFailed
<1>2. /\ step' = step
      /\ \A v \in Workers : ~Drives(v)'
      /\ \A v \in Workers : ~At(v, "next")' /\ ~At(v, "finish")'
  BY <1>1
  DEF FinishSucceeded, FinishFailed, TypeInv, Idle, CallAt, Drives, At
<1>3. RunMatchesSteps'
  <2>1. CASE FinishSucceeded(w)
    <3>1. \A j \in Steps : j < call[w].seq
      <4>1. call[w].seq \in 1..(NumSteps + 1) /\ call[w].seq \notin Steps
        BY <2>1 DEF FinishSucceeded, TypeInv, TypeOK, Calls
      <4> QED
        BY <4>1, StepRetryAssumption DEF Steps
    <3>2. \A j \in Steps : step[j].status = "succeeded"
      BY <2>1, <3>1 DEF FinishSucceeded, OrderInv, DriverKnows
    <3> QED
      BY <1>1, <1>2, <2>1, <3>2
      DEF FinishSucceeded, RunMatchesSteps, RunSettled
  <2>2. CASE FinishFailed(w)
    <3>1. call[w].seq \in Steps /\ step[call[w].seq].status = "failed"
      BY <2>2
      DEF FinishFailed, OrderInv, DriverKnows, TypeInv, GoodCalls, CallOK, At
    <3> QED
      BY <1>1, <1>2, <2>2, <3>1 DEF FinishFailed, RunMatchesSteps, RunSettled
  <2> QED
    BY <2>1, <2>2
<1>4. SingleDriver' /\ StepsInOrder' /\ DriverKnows'
  BY <1>2 DEF OrderInv, SingleDriver, StepsInOrder, DriverKnows
<1> QED
  BY <1>3, <1>4 DEF OrderInv

LEMMA OrderStep == TypeInv /\ OrderInv /\ [Next]_vars => OrderInv'
<1> SUFFICES ASSUME TypeInv, OrderInv, [Next]_vars PROVE OrderInv'
  OBVIOUS
<1>a. call \in [Workers -> GoodCalls] /\ step \in [Steps -> GoodRows]
  BY DEF TypeInv
<1>1. CASE UNCHANGED vars
  BY <1>1, <1>a, QuietStep DEF vars
<1>2. CASE Tick
  <2>1. \A v \in Workers : /\ call'[v].pc = call[v].pc
                           /\ call'[v].seq = call[v].seq
    BY <1>2, <1>a DEF Tick, OlderCall, GoodCalls, Calls
  <2>2. \A i \in Steps : step'[i].status = step[i].status
    BY <1>2, <1>a DEF Tick, OlderRow, GoodRows, Rows
  <2> QED
    BY <1>2, <1>a, <2>1, <2>2, QuietStep DEF Tick
<1>3. ASSUME NEW w \in Workers, Scan(w) PROVE OrderInv'
  <2>1. PICK i \in Steps : call' = [call EXCEPT ![w] = CallAt("claim", i)]
    BY <1>3 DEF Scan
  <2> QED
    BY <1>3, <1>a, <2>1, QuietStep DEF Scan, CallAt
<1>4. ASSUME NEW w \in Workers, NEW c,
             call' = [call EXCEPT ![w] = c],
             c.pc \notin {"next", "finish"},
             UNCHANGED <<run, step>>
      PROVE  OrderInv'
  BY <1>4, <1>a, QuietStep
<1>5. ASSUME NEW w \in Workers, Crash(w) PROVE OrderInv'
  BY <1>4, <1>5 DEF Crash, Idle, CallAt
<1>6. ASSUME NEW w \in Workers, RunStepsFrom(w) PROVE OrderInv'
  <2> DEFINE i == call[w].seq
  <2>1. CASE StartStep(w)
    <3>1. ClaimedRow(minted + 1, 0, 1) \in Rows
      BY ClaimedRowGood, StepRetryAssumption DEF TypeInv, TypeOK, GoodRows
    <3> QED
      BY <2>1, <3>1, CreateStep
      DEF StartStep, ClaimedRow, Live, Attempting
  <2>2. CASE RejectStep(w)
    <3>1. Closed(NoRow, "failed") \in Rows
      BY NoRowGood, ClosedGood DEF GoodRows, StepStatuses
    <3> QED
      BY <2>2, <3>1, CreateStep DEF RejectStep, Closed
  <2>3. CASE FinishSucceeded(w) \/ FinishFailed(w)
    BY <2>3, FinishStep
  <2>4. CASE Attempt(w)
    <3>1. PICK outcome \in Outcomes :
            call' = [call EXCEPT ![w] = Attempted(call[w], outcome)]
      BY <2>4 DEF Attempt
    <3> QED
      BY <1>4, <2>4, <3>1 DEF Attempt, Attempted
  <2>5. CASE CommitSucceeded(w) \/ CommitFailed(w)
    <3>1. i \in Steps /\ Live(step[i])
      BY <2>5, OwnedIsLive DEF CommitSucceeded, CommitFailed, At
    <3> QED
      BY <2>5, <3>1, SettleStep DEF CommitSucceeded, CommitFailed, Row
  <2>6. CASE CommitRetry(w)
    <3>1. i \in Steps /\ Live(step[i])
      BY <2>6, OwnedIsLive DEF CommitRetry, At
    <3>2. /\ \A j \in Steps : j # i => step'[j] = step[j]
          /\ Live(step'[i])
      BY <1>a, <2>6, <3>1 DEF CommitRetry, Scheduled, Live
    <3>3. \A v \in Workers : call'[v] = call[v] \/ call'[v].pc = "idle"
      BY <1>a, <2>6 DEF CommitRetry, Idle, CallAt
    <3> QED
      BY <1>a, <2>6, <3>1, <3>2, <3>3, QuietStep DEF CommitRetry
  <2>7. CASE CommitLost(w)
    BY <1>4, <2>7 DEF CommitLost, Idle, CallAt
  <2> QED
    BY <1>6, <2>1, <2>2, <2>3, <2>4, <2>5, <2>6, <2>7 DEF RunStepsFrom
<1>7. ASSUME NEW w \in Workers, RetryStep(w) PROVE OrderInv'
  <2> DEFINE i == call[w].seq
  <2>1. ASSUME i \in Steps, Live(step[i]), TakeClaim(w) PROVE OrderInv'
    <3>1. /\ \A j \in Steps : j # i => step'[j] = step[j]
          /\ Live(step'[i])
      BY <1>a, <2>1 DEF TakeClaim, ClaimedRow, Live
    <3>2. \A v \in Workers : call'[v] = call[v] \/ call'[v].pc = "verify"
      BY <1>a, <2>1 DEF TakeClaim, Verifying
    <3> QED
      BY <1>a, <2>1, <3>1, <3>2, QuietStep DEF TakeClaim
  <2>2. ASSUME NEW point \in {"reclaim", "legacy", "exhausted"}, Miss(w, point)
        PROVE  OrderInv'
    <3>1. \A v \in Workers : call'[v] = call[v] \/ call'[v].pc = point
      BY <1>a, <2>2 DEF Miss, GoodCalls, Calls
    <3> QED
      BY <1>a, <2>2, <3>1, QuietStep DEF Miss
  <2>3. ASSUME i \in Steps, Live(step[i]), ForceFail(w) PROVE OrderInv'
    BY <2>3, SettleStep DEF ForceFail, Row
  <2>4. call[w].pc \notin {"idle", "next"} => i \in Steps
    BY <1>a DEF GoodCalls, CallOK
  <2>5. CASE ClaimScheduled(w)
    BY <2>1, <2>2, <2>4, <2>5
    DEF ClaimScheduled, ScheduledMatches, DueScheduledRetry, Row, Live, At
  <2>6. CASE ClaimAbandoned(w)
    BY <2>1, <2>2, <2>4, <2>6
    DEF ClaimAbandoned, AbandonedMatches, AbandonedRunningClaim, Row, Live, At
  <2>7. CASE ReconcileLegacy(w)
    BY <2>2, <2>3, <2>4, <2>7
    DEF ReconcileLegacy, LegacyUnclaimedRunning, Row, Live, At
  <2>8. CASE FailExhausted(w)
    BY <1>4, <2>3, <2>4, <2>8
    DEF FailExhausted, ExhaustedMatches, AbandonedRunningClaim, Row, Live, At,
        Idle, CallAt
  <2>9. CASE VerifyLost(w)
    BY <1>4, <2>9 DEF VerifyLost, Idle, CallAt
  <2>10. CASE VerifyRetry(w)
    BY <1>4, <2>10 DEF VerifyRetry, Attempting
  <2>11. CASE VerifyRefuse(w)
    BY <1>4, <2>11 DEF VerifyRefuse, Refusing
  <2>12. CASE CommitRefused(w)
    <3>1. i \in Steps /\ Live(step[i])
      BY <2>12, OwnedIsLive DEF CommitRefused, At
    <3> QED
      BY <2>3, <2>12, <3>1 DEF CommitRefused
  <2> QED
    BY <1>7, <2>5, <2>6, <2>7, <2>8, <2>9, <2>10, <2>11, <2>12 DEF RetryStep
<1> QED
  BY <1>1, <1>2, <1>3, <1>5, <1>6, <1>7 DEF Next

LEMMA OrderInvariance == Spec => [](TypeInv /\ OrderInv)
  BY TypeInvariance, OrderInit, OrderStep, PTL DEF Spec

(* A stale worker never continues nor finishes a run that another call has *)
(* taken over, and the loop never meets the row it is about to create.     *)
THEOREM OneDriver == Spec => []SingleDriver
<1>1. OrderInv => SingleDriver
  BY DEF OrderInv
<1> QED
  BY <1>1, OrderInvariance, PTL

(* A step has a row only after every earlier step has succeeded.           *)
THEOREM InOrder == Spec => []StepsInOrder
<1>1. OrderInv => StepsInOrder
  BY DEF OrderInv
<1> QED
  BY <1>1, OrderInvariance, PTL

(* A finished run agrees with its steps.                                   *)
THEOREM ResultMatches == Spec => []RunMatchesSteps
<1>1. OrderInv => RunMatchesSteps
  BY DEF OrderInv
<1> QED
  BY <1>1, OrderInvariance, PTL

(***************************************************************************)
(* What a step may change: the effect of every action on the rows and the  *)
(* run, in the terms the remaining theorems need.                          *)
(***************************************************************************)
Claims(i) == Live(step[i]) /\ Live(step'[i])
Settles(i, status) ==
    /\ Live(step[i])
    /\ step'[i] = Closed(step[i], status)
Others(i) == \A j \in Steps : j # i => step'[j] = step[j]

(* No row changes sides; at most a retry-safe action is started again.     *)
Holds ==
    /\ run' = run
    /\ \A i \in Steps : step'[i].status = step[i].status \/ Claims(i)
    /\ \/ executions' = executions
       \/ \E i \in Steps : /\ Live(step[i])
                           /\ plan[i] = "retry_safe"
                           /\ executions' = [executions EXCEPT ![i] = @ + 1]

(* The live row is settled.                                                *)
SettlesOne ==
    /\ run' = run
    /\ executions' = executions
    /\ \E i \in Steps, status \in {"succeeded", "failed"} :
         Settles(i, status) /\ Others(i)

(* The row after the succeeded ones is created, started or refused.        *)
CreatesOne ==
    /\ run = "running"
    /\ run' = run
    /\ \E i \in Steps :
         /\ \A j \in Steps : j < i => step[j].status = "succeeded"
         /\ \A j \in Steps : j >= i => step[j].status = "none"
         /\ Others(i)
         /\ \/ /\ Live(step'[i])
               /\ executions' = [executions EXCEPT ![i] = @ + 1]
            \/ /\ step'[i].status = "failed"
               /\ executions' = executions

(* The run is finished as its steps have it.                               *)
FinishesRun ==
    /\ run = "running"
    /\ executions' = executions
    /\ step' = step
    /\ \/ /\ run' = "succeeded"
          /\ \A i \in Steps : step[i].status = "succeeded"
       \/ /\ run' = "failed"
          /\ \E i \in Steps : step[i].status = "failed"

Effect == Holds \/ SettlesOne \/ CreatesOne \/ FinishesRun

LEMMA EveryStepHasItsEffect ==
    TypeInv /\ OrderInv /\ [Next]_vars => Effect /\ plan' = plan
<1> SUFFICES ASSUME TypeInv, OrderInv, [Next]_vars
             PROVE  Effect /\ plan' = plan
  OBVIOUS
<1>a. call \in [Workers -> GoodCalls] /\ step \in [Steps -> GoodRows]
  BY DEF TypeInv
<1>b. ASSUME NEW w \in Workers
      PROVE  call[w].pc \notin {"idle", "next"} => call[w].seq \in Steps
  BY <1>a DEF GoodCalls, CallOK
<1>1. ASSUME UNCHANGED <<run, plan, step, executions>>
      PROVE  Effect /\ plan' = plan
  BY <1>1 DEF Effect, Holds
<1>2. CASE UNCHANGED vars
  BY <1>1, <1>2 DEF vars
<1>3. CASE Tick
  <2>1. \A i \in Steps : step'[i].status = step[i].status
    BY <1>3, <1>a DEF Tick, OlderRow, GoodRows, Rows
  <2> QED
    BY <1>3, <2>1 DEF Tick, Effect, Holds
<1>4. ASSUME NEW w \in Workers, Scan(w) \/ Crash(w)
      PROVE  Effect /\ plan' = plan
  BY <1>1, <1>4 DEF Scan, Crash
<1>5. ASSUME NEW w \in Workers, NEW i \in Steps, i = call[w].seq,
             Live(step[i]),
             NEW status \in {"succeeded", "failed"},
             step' = [step EXCEPT ![i] = Closed(step[i], status)],
             UNCHANGED <<run, plan, executions>>
      PROVE  Effect /\ plan' = plan
  <2>1. Settles(i, status) /\ Others(i)
    BY <1>5, <1>a DEF Settles, Others
  <2> QED
    BY <1>5, <2>1 DEF Effect, SettlesOne
<1>6. ASSUME NEW w \in Workers, At(w, "next"), call[w].seq \in Steps
      PROVE  /\ run = "running"
             /\ \A j \in Steps : j < call[w].seq => step[j].status = "succeeded"
             /\ \A j \in Steps : j >= call[w].seq => step[j].status = "none"
  BY <1>6 DEF OrderInv, SingleDriver, DriverKnows, Drives, At
<1>7. ASSUME NEW w \in Workers, RunStepsFrom(w) PROVE Effect /\ plan' = plan
  <2>1. CASE StartStep(w)
    <3>1. PICK i \in Steps : i = call[w].seq
      BY <2>1 DEF StartStep
    <3>2. Live(step'[i]) /\ Others(i)
      BY <1>a, <2>1, <3>1 DEF StartStep, ClaimedRow, Live, Others
    <3>3. /\ executions' = [executions EXCEPT ![i] = @ + 1]
          /\ run' = run /\ plan' = plan
      BY <2>1, <3>1 DEF StartStep
    <3> QED
      BY <1>6, <2>1, <3>1, <3>2, <3>3 DEF StartStep, Effect, CreatesOne
  <2>2. CASE RejectStep(w)
    <3>1. PICK i \in Steps : i = call[w].seq
      BY <2>2 DEF RejectStep
    <3>2. step'[i].status = "failed" /\ Others(i)
      BY <1>a, <2>2, <3>1 DEF RejectStep, Closed, Others
    <3>3. executions' = executions /\ run' = run /\ plan' = plan
      BY <2>2 DEF RejectStep
    <3> QED
      BY <1>6, <2>2, <3>1, <3>2, <3>3 DEF RejectStep, Effect, CreatesOne
  <2>3. CASE FinishSucceeded(w)
    <3>1. run' = "succeeded" /\ RunMatchesSteps'
      BY <2>3, FinishStep DEF FinishSucceeded, OrderInv
    <3>2. \A i \in Steps : step[i].status = "succeeded"
      BY <2>3, <3>1 DEF FinishSucceeded, RunMatchesSteps
    <3>3. run = "running"
      BY <2>3 DEF FinishSucceeded, OrderInv, SingleDriver, Drives, At
    <3> QED
      BY <2>3, <3>2, <3>3 DEF FinishSucceeded, Effect, FinishesRun
  <2>4. CASE FinishFailed(w)
    <3>1. run' = "failed" /\ RunMatchesSteps'
      BY <2>4, FinishStep DEF FinishFailed, OrderInv
    <3>2. \E i \in Steps : step[i].status = "failed"
      BY <2>4, <3>1 DEF FinishFailed, RunMatchesSteps
    <3>3. run = "running"
      BY <2>4 DEF FinishFailed, OrderInv, SingleDriver, Drives, At
    <3> QED
      BY <2>4, <3>2, <3>3 DEF FinishFailed, Effect, FinishesRun
  <2>5. CASE Attempt(w) \/ CommitLost(w)
    BY <1>1, <2>5 DEF Attempt, CommitLost
  <2>6. CASE CommitSucceeded(w) \/ CommitFailed(w)
    <3>1. call[w].seq \in Steps /\ Live(step[call[w].seq])
      BY <2>6, OwnedIsLive DEF CommitSucceeded, CommitFailed, At
    <3> QED
      BY <1>5, <2>6, <3>1 DEF CommitSucceeded, CommitFailed, Row
  <2>7. CASE CommitRetry(w)
    <3>1. PICK i \in Steps : i = call[w].seq /\ Live(step[i])
      BY <2>7, OwnedIsLive DEF CommitRetry, At
    <3>2. \A j \in Steps : step'[j].status = step[j].status \/ Claims(j)
      BY <1>a, <2>7, <3>1 DEF CommitRetry, Scheduled, Live, Claims
    <3> QED
      BY <2>7, <3>2 DEF CommitRetry, Effect, Holds
  <2> QED
    BY <1>7, <2>1, <2>2, <2>3, <2>4, <2>5, <2>6, <2>7 DEF RunStepsFrom
<1>8. ASSUME NEW w \in Workers, RetryStep(w) PROVE Effect /\ plan' = plan
  <2>1. ASSUME NEW i \in Steps, i = call[w].seq, Live(step[i]), TakeClaim(w)
        PROVE  Effect /\ plan' = plan
    <3>1. \A j \in Steps : step'[j].status = step[j].status \/ Claims(j)
      BY <1>a, <2>1 DEF TakeClaim, ClaimedRow, Live, Claims
    <3> QED
      BY <2>1, <3>1 DEF TakeClaim, Effect, Holds
  <2>2. ASSUME NEW point, Miss(w, point) PROVE Effect /\ plan' = plan
    BY <1>1, <2>2 DEF Miss
  <2>3. ASSUME NEW i \in Steps, i = call[w].seq, Live(step[i]), ForceFail(w)
        PROVE  Effect /\ plan' = plan
    BY <1>5, <2>3 DEF ForceFail, Row
  <2>4. CASE ClaimScheduled(w)
    BY <1>b, <2>1, <2>2, <2>4
    DEF ClaimScheduled, ScheduledMatches, DueScheduledRetry, Row, Live, At
  <2>5. CASE ClaimAbandoned(w)
    BY <1>b, <2>1, <2>2, <2>5
    DEF ClaimAbandoned, AbandonedMatches, AbandonedRunningClaim, Row, Live, At
  <2>6. CASE ReconcileLegacy(w)
    BY <1>b, <2>2, <2>3, <2>6
    DEF ReconcileLegacy, LegacyUnclaimedRunning, Row, Live, At
  <2>7. CASE FailExhausted(w)
    BY <1>1, <1>b, <2>3, <2>7
    DEF FailExhausted, ExhaustedMatches, AbandonedRunningClaim, Row, Live, At
  <2>8. CASE VerifyLost(w) \/ VerifyRefuse(w)
    BY <1>1, <2>8 DEF VerifyLost, VerifyRefuse
  <2>9. CASE VerifyRetry(w)
    <3>1. PICK i \in Steps : i = call[w].seq /\ Live(step[i])
      BY <2>9, OwnedIsLive DEF VerifyRetry, StillClaimed, At
    <3>2. /\ plan[i] = "retry_safe"
          /\ executions' = [executions EXCEPT ![i] = @ + 1]
          /\ run' = run /\ step' = step /\ plan' = plan
      BY <2>9, <3>1 DEF VerifyRetry
    <3> QED
      BY <3>1, <3>2 DEF Effect, Holds
  <2>10. CASE CommitRefused(w)
    <3>1. call[w].seq \in Steps /\ Live(step[call[w].seq])
      BY <2>10, OwnedIsLive DEF CommitRefused, At
    <3> QED
      BY <2>3, <2>10, <3>1 DEF CommitRefused
  <2> QED
    BY <1>8, <2>4, <2>5, <2>6, <2>7, <2>8, <2>9, <2>10 DEF RetryStep
<1> QED
  BY <1>2, <1>3, <1>4, <1>7, <1>8 DEF Next

(* Recorded outcomes and results are final, and nothing is started on      *)
(* behalf of a finished run.                                               *)
THEOREM SettledForGood == Spec => SettledStays
<1>1. ASSUME TypeInv, OrderInv, [Next]_vars
      PROVE  /\ RunSettled => run' = run /\ executions' = executions
             /\ \A i \in Steps : Settled(step[i])
                                   => step'[i].status = step[i].status
  <2>1. RunSettled => run # "running" /\ \A i \in Steps : ~Live(step[i])
    BY <1>1 DEF OrderInv, RunMatchesSteps, RunSettled
  <2>2. \A i \in Steps : Settled(step[i])
                           => ~Live(step[i]) /\ step[i].status # "none"
    BY DEF Settled, Live
  <2>3. \A i, j \in Steps : i = j \/ j < i \/ j >= i
    BY DEF Steps
  <2>4. CASE Holds
    BY <2>1, <2>2, <2>4 DEF Holds, Claims
  <2>5. CASE SettlesOne
    BY <2>1, <2>2, <2>5 DEF SettlesOne, Settles, Others
  <2>6. CASE CreatesOne
    <3>1. PICK k \in Steps :
            /\ \A j \in Steps : j >= k => step[j].status = "none"
            /\ Others(k)
      BY <2>6 DEF CreatesOne
    <3>2. ASSUME NEW i \in Steps, Settled(step[i])
          PROVE  step'[i].status = step[i].status
      <4>1. i # k
        BY <2>2, <3>1, <3>2 DEF Steps
      <4> QED
        BY <3>1, <4>1 DEF Others
    <3> QED
      BY <2>1, <2>6, <3>2 DEF CreatesOne
  <2>7. CASE FinishesRun
    BY <2>1, <2>7 DEF FinishesRun
  <2> QED
    BY <1>1, <2>4, <2>5, <2>6, <2>7, EveryStepHasItsEffect DEF Effect
<1> QED
  BY <1>1, OrderInvariance, PTL DEF Spec, SettledStays

(***************************************************************************)
(* Actions that are not retry-safe                                         *)
(***************************************************************************)
UnsafeInv ==
    /\ UnsafeStartsOnce
    /\ \A i \in Steps : step[i].status = "none" => executions[i] = 0

(* A crash, a takeover or a stale worker never makes the engine start an   *)
(* action that is not retry-safe a second time.                            *)
THEOREM UnsafeOnce == Spec => []UnsafeStartsOnce
<1>1. Init => UnsafeInv
  <2> SUFFICES ASSUME Init PROVE UnsafeInv
    OBVIOUS
  <2>1. \/ \A i \in Steps : executions[i] = 0
        \/ /\ executions = [i \in Steps |-> IF i = 1 THEN 1 ELSE 0]
           /\ \A i \in Steps : i = 1 => step[i].status # "none"
    BY DEF Init, FreshStart, LegacyStart, LegacyRow
  <2> QED
    BY <2>1 DEF UnsafeInv, UnsafeStartsOnce
<1>2. TypeInv /\ OrderInv /\ UnsafeInv /\ [Next]_vars => UnsafeInv'
  <2> SUFFICES ASSUME TypeInv, OrderInv, UnsafeInv, [Next]_vars
               PROVE  UnsafeInv'
    OBVIOUS
  <2>1. Effect /\ plan' = plan
    BY EveryStepHasItsEffect
  <2>2. executions \in [Steps -> Nat]
    BY DEF TypeInv, TypeOK
  <2>3. \A i, j \in Steps : i = j \/ j < i \/ j >= i
    BY DEF Steps
  <2>4. ASSUME NEW i \in Steps
        PROVE  /\ plan'[i] # "retry_safe" => executions'[i] <= 1
               /\ step'[i].status = "none" => executions'[i] = 0
    <3>1. /\ plan[i] # "retry_safe" => executions[i] <= 1
          /\ step[i].status = "none" => executions[i] = 0
          /\ executions[i] \in Nat
      BY <2>2 DEF UnsafeInv, UnsafeStartsOnce
    <3>2. CASE Holds
      <4>1. step'[i].status = "none" => step[i].status = "none"
        BY <3>2 DEF Holds, Claims, Live
      <4>2. \/ executions'[i] = executions[i]
            \/ /\ Live(step[i])
               /\ plan[i] = "retry_safe"
        BY <2>2, <3>2 DEF Holds
      <4>3. executions'[i] # executions[i] => step'[i].status # "none"
        BY <4>1, <4>2 DEF Live
      <4> QED
        BY <2>1, <3>1, <4>1, <4>2, <4>3
    <3>3. CASE SettlesOne
      <4>1. step'[i].status = "none" => step[i].status = "none"
        BY <3>3 DEF SettlesOne, Settles, Others, Closed
      <4> QED
        BY <2>1, <3>1, <3>3, <4>1 DEF SettlesOne
    <3>4. CASE CreatesOne
      <4>1. PICK k \in Steps :
              /\ \A j \in Steps : j >= k => step[j].status = "none"
              /\ Others(k)
              /\ \/ /\ Live(step'[k])
                    /\ executions' = [executions EXCEPT ![k] = @ + 1]
                 \/ /\ step'[k].status = "failed"
                    /\ executions' = executions
        BY <3>4 DEF CreatesOne
      <4>2. CASE i = k
        <5>1. step[i].status = "none" /\ executions[i] = 0
          BY <2>3, <3>1, <4>1, <4>2 DEF Steps
        <5>2. step'[i].status # "none"
          BY <4>1, <4>2 DEF Live
        <5> QED
          BY <2>1, <2>2, <4>1, <4>2, <5>1, <5>2
      <4>3. CASE i # k
        <5>1. step'[i] = step[i] /\ executions'[i] = executions[i]
          BY <2>2, <4>1, <4>3 DEF Others
        <5> QED
          BY <2>1, <3>1, <5>1
      <4> QED
        BY <4>2, <4>3
    <3>5. CASE FinishesRun
      BY <2>1, <3>1, <3>5 DEF FinishesRun
    <3> QED
      BY <2>1, <3>2, <3>3, <3>4, <3>5 DEF Effect
  <2> QED
    BY <2>4 DEF UnsafeInv, UnsafeStartsOnce
<1>3. UnsafeInv => UnsafeStartsOnce
  BY DEF UnsafeInv
<1> QED
  BY <1>1, <1>2, <1>3, OrderInvariance, PTL DEF Spec

(***************************************************************************)
(* The attempt budget and the lease                                        *)
(***************************************************************************)

(* A call that carries a claim's token.                                    *)
HasClaim(c) == c.pc \in {"verify", "refuse", "attempt", "commit"}

(* AttemptBudget made inductive: tokens are never shared, and a claim that *)
(* has not been verified has paid for an execution still to come.          *)
BudgetInv ==
    /\ \A i \in Steps : executions[i] <= step[i].attemptCount
    /\ \A i \in Steps : step[i].status = "none" => executions[i] = 0
    /\ \A w \in Workers : HasClaim(call[w]) => call[w].token <= minted
    /\ \A v, w \in Workers : HasClaim(call[v]) /\ HasClaim(call[w]) /\ v # w
                              => call[v].token # call[w].token
    /\ \A w \in Workers : At(w, "verify") /\ Owned(w)
                              => executions[call[w].seq] < Row(w).attemptCount

(* What a step does to claims and budgets: keep or drop the claims there   *)
(* are, take one that is free or expired, or start an execution.           *)
KeepsClaims ==
    /\ executions' = executions
    /\ minted' = minted
    /\ \A i \in Steps :
         /\ step'[i].attemptCount = step[i].attemptCount
         /\ step'[i].claimToken \in {step[i].claimToken, NoToken}
         /\ step'[i].status = "none" => step[i].status = "none"
    /\ \A w \in Workers : HasClaim(call'[w]) =>
         /\ HasClaim(call[w])
         /\ call'[w].token = call[w].token
         /\ call'[w].seq = call[w].seq
         /\ call'[w].pc = "verify" => call[w].pc = "verify"

TakesOver(w) ==
    /\ call[w].seq \in Steps
    /\ Live(Row(w))
    /\ Row(w).claimToken # NoToken => Row(w).claimAge > Lease
    /\ TakeClaim(w)

BudgetEffect ==
    \/ KeepsClaims
    \/ \E w \in Workers : \/ TakesOver(w)
                          \/ StartStep(w)
                          \/ RejectStep(w)
                          \/ VerifyRetry(w)

LEMMA EveryStepHasItsBudget ==
    TypeInv /\ [Next]_vars => BudgetEffect
<1> SUFFICES ASSUME TypeInv, [Next]_vars PROVE BudgetEffect
  OBVIOUS
<1>a. call \in [Workers -> GoodCalls] /\ step \in [Steps -> GoodRows]
  BY DEF TypeInv
<1>b. ASSUME NEW w \in Workers
      PROVE  /\ call[w].pc \notin {"idle", "next"} => call[w].seq \in Steps
             /\ call[w].lag \in 0..MaxAge
  BY <1>a DEF GoodCalls, Calls, CallOK
<1>c. ASSUME NEW w \in Workers, NEW c,
             call' = [call EXCEPT ![w] = c],
             HasClaim(c) => /\ HasClaim(call[w])
                            /\ c.token = call[w].token
                            /\ c.seq = call[w].seq
                            /\ c.pc = "verify" => call[w].pc = "verify",
             UNCHANGED <<executions, minted>>,
             \/ step' = step
             \/ \E row : /\ step' = [step EXCEPT ![call[w].seq] = row]
                        /\ call[w].seq \in Steps
                        /\ row.attemptCount = Row(w).attemptCount
                        /\ row.claimToken = NoToken
                        /\ row.status # "none"
      PROVE  BudgetEffect
  <2>1. \A i \in Steps :
          /\ step'[i].attemptCount = step[i].attemptCount
          /\ step'[i].claimToken \in {step[i].claimToken, NoToken}
          /\ step'[i].status = "none" => step[i].status = "none"
    BY <1>c, <1>a DEF Row
  <2>2. \A v \in Workers : HasClaim(call'[v]) =>
          /\ HasClaim(call[v])
          /\ call'[v].token = call[v].token
          /\ call'[v].seq = call[v].seq
          /\ call'[v].pc = "verify" => call[v].pc = "verify"
    BY <1>c, <1>a
  <2> QED
    BY <1>c, <2>1, <2>2 DEF BudgetEffect, KeepsClaims
<1>d. /\ ~HasClaim(Idle)
      /\ \A i : ~HasClaim(Driving(i)) /\ ~HasClaim(Finishing(i))
      /\ \A i : ~HasClaim(CallAt("claim", i))
  BY DEF HasClaim, Idle, Driving, Finishing, CallAt
<1>e. ASSUME NEW w \in Workers, NEW c, ~HasClaim(c),
             call' = [call EXCEPT ![w] = c],
             call[w].seq \in Steps,
             NEW status \in {"succeeded", "failed"},
             step' = [step EXCEPT ![call[w].seq] = Closed(Row(w), status)],
             UNCHANGED <<executions, minted>>
      PROVE  BudgetEffect
  <2>1. /\ Closed(Row(w), status).attemptCount = Row(w).attemptCount
        /\ Closed(Row(w), status).claimToken = NoToken
        /\ Closed(Row(w), status).status # "none"
    BY DEF Closed
  <2> QED
    BY <1>c, <1>e, <2>1
<1>1. CASE UNCHANGED vars
  BY <1>1 DEF vars, BudgetEffect, KeepsClaims
<1>2. CASE Tick
  <2>1. \A i \in Steps : /\ step'[i].attemptCount = step[i].attemptCount
                          /\ step'[i].claimToken = step[i].claimToken
                          /\ step'[i].status = step[i].status
    BY <1>2, <1>a DEF Tick, OlderRow, GoodRows, Rows
  <2>2. \A w \in Workers : /\ call'[w].pc = call[w].pc
                            /\ call'[w].seq = call[w].seq
                            /\ call'[w].token = call[w].token
    BY <1>2, <1>a DEF Tick, OlderCall, GoodCalls, Calls
  <2> QED
    BY <1>2, <2>1, <2>2 DEF Tick, BudgetEffect, KeepsClaims, HasClaim
<1>3. ASSUME NEW w \in Workers, Scan(w) \/ Crash(w) PROVE BudgetEffect
  BY <1>3, <1>c, <1>d DEF Scan, Crash
<1>4. ASSUME NEW w \in Workers, ForceFail(w), call[w].seq \in Steps
      PROVE  BudgetEffect
  BY <1>4, <1>d, <1>e DEF ForceFail
<1>5. ASSUME NEW w \in Workers, RunStepsFrom(w) PROVE BudgetEffect
  <2>1. CASE StartStep(w) \/ RejectStep(w)
    BY <2>1 DEF BudgetEffect
  <2>2. CASE FinishSucceeded(w) \/ FinishFailed(w) \/ CommitLost(w)
    BY <2>2, <1>c, <1>d DEF FinishSucceeded, FinishFailed, CommitLost
  <2>3. CASE Attempt(w)
    <3>1. PICK outcome : call' = [call EXCEPT ![w] = Attempted(call[w], outcome)]
      BY <2>3 DEF Attempt
    <3>2. /\ HasClaim(call[w])
          /\ Attempted(call[w], outcome).token = call[w].token
          /\ Attempted(call[w], outcome).seq = call[w].seq
          /\ Attempted(call[w], outcome).pc # "verify"
      BY <2>3 DEF Attempt, At, HasClaim, Attempted
    <3> QED
      BY <2>3, <3>1, <3>2, <1>c DEF Attempt
  <2>4. CASE CommitSucceeded(w)
    BY <2>4, <1>b, <1>d, <1>e DEF CommitSucceeded, At
  <2>5. CASE CommitFailed(w)
    BY <2>5, <1>b, <1>d, <1>e DEF CommitFailed, At
  <2>6. CASE CommitRetry(w)
    <3>1. \A delay : /\ Scheduled(Row(w), delay).attemptCount = Row(w).attemptCount
                     /\ Scheduled(Row(w), delay).claimToken = NoToken
                     /\ Scheduled(Row(w), delay).status # "none"
      BY DEF Scheduled
    <3> QED
      BY <2>6, <3>1, <1>b, <1>c, <1>d DEF CommitRetry, At, Row
  <2> QED
    BY <1>5, <2>1, <2>2, <2>3, <2>4, <2>5, <2>6 DEF RunStepsFrom
<1>6. ASSUME NEW w \in Workers, RetryStep(w) PROVE BudgetEffect
  <2>1. ASSUME NEW point \in {"reclaim", "legacy", "exhausted"}, Miss(w, point)
        PROVE  BudgetEffect
    <3>1. [call[w] EXCEPT !.pc = point].pc = point
      BY <1>a DEF GoodCalls, Calls
    <3>2. ~HasClaim([call[w] EXCEPT !.pc = point])
      BY <2>1, <3>1 DEF HasClaim
    <3> QED
      BY <2>1, <3>2, <1>c DEF Miss
  <2>2. CASE ClaimScheduled(w)
    <3>1. call[w].seq \in Steps
      BY <1>b, <2>2 DEF ClaimScheduled, At
    <3>2. ASSUME ScheduledMatches(w) PROVE Live(Row(w)) /\ Row(w).claimToken = NoToken
      BY <1>a, <3>1, <3>2
      DEF ScheduledMatches, DueScheduledRetry, Live, Row, GoodRows, RowOK
    <3> QED
      BY <2>1, <2>2, <3>1, <3>2 DEF ClaimScheduled, BudgetEffect, TakesOver
  <2>3. CASE ClaimAbandoned(w)
    <3>1. call[w].seq \in Steps
      BY <1>b, <2>3 DEF ClaimAbandoned, At
    <3>2. ASSUME AbandonedMatches(w) PROVE Live(Row(w)) /\ Row(w).claimAge > Lease
      <4>1. /\ Row(w).status = "running"
            /\ Row(w).claimAge > call[w].lag + Lease
        BY <3>2 DEF AbandonedMatches, AbandonedRunningClaim
      <4>2. Row(w).claimAge \in Nat /\ call[w].lag \in Nat /\ Lease \in Nat
        BY <1>a, <1>b, <3>1, StepRetryAssumption DEF Row, GoodRows, Rows
      <4> QED
        BY <4>1, <4>2 DEF Live
    <3> QED
      BY <2>1, <2>3, <3>1, <3>2 DEF ClaimAbandoned, BudgetEffect, TakesOver
  <2>4. CASE ReconcileLegacy(w)
    BY <2>1, <2>4, <1>4, <1>b DEF ReconcileLegacy, At
  <2>5. CASE FailExhausted(w)
    BY <2>5, <1>4, <1>b, <1>c, <1>d DEF FailExhausted, At
  <2>6. CASE VerifyLost(w)
    BY <2>6, <1>c, <1>d DEF VerifyLost
  <2>7. CASE VerifyRetry(w)
    BY <2>7 DEF BudgetEffect
  <2>8. CASE VerifyRefuse(w)
    <3>1. /\ HasClaim(call[w])
          /\ Refusing(call[w]).token = call[w].token
          /\ Refusing(call[w]).seq = call[w].seq
          /\ Refusing(call[w]).pc # "verify"
      BY <2>8 DEF VerifyRefuse, At, HasClaim, Refusing
    <3> QED
      BY <2>8, <3>1, <1>c DEF VerifyRefuse
  <2>9. CASE CommitRefused(w)
    BY <2>9, <1>4, <1>b DEF CommitRefused, At
  <2> QED
    BY <1>6, <2>2, <2>3, <2>4, <2>5, <2>6, <2>7, <2>8, <2>9 DEF RetryStep
<1> QED
  BY <1>1, <1>2, <1>3, <1>5, <1>6 DEF Next

LEMMA BudgetInit == Init => BudgetInv
<1> SUFFICES ASSUME Init PROVE BudgetInv
  OBVIOUS
<1>1. \A w \in Workers : ~HasClaim(call[w])
  <2>1. \A w \in Workers : call[w] = Idle \/ call[w] = Driving(1)
    BY DEF Init, FreshStart, LegacyStart
  <2>2. ~HasClaim(Idle) /\ ~HasClaim(Driving(1))
    BY DEF Driving, Idle, CallAt, HasClaim
  <2> QED
    BY <2>1, <2>2
<1>2. \A w \in Workers : At(w, "verify") => HasClaim(call[w])
  BY DEF At, HasClaim
<1>3. \A i \in Steps : /\ executions[i] <= step[i].attemptCount
                       /\ step[i].status = "none" => executions[i] = 0
  <2>1. \A i \in Steps : \/ executions[i] = 0 /\ step[i] = NoRow
                         \/ /\ executions[i] = 1
                            /\ \E status \in {"running", "retry_scheduled"} :
                                 step[i] = LegacyRow(status)
    BY DEF Init, FreshStart, LegacyStart
  <2> QED
    BY <2>1 DEF NoRow, LegacyRow
<1> QED
  BY <1>1, <1>2, <1>3 DEF BudgetInv

LEMMA BudgetStep ==
    TypeInv /\ OrderInv /\ BudgetInv /\ [Next]_vars => BudgetInv'
<1> SUFFICES ASSUME TypeInv, OrderInv, BudgetInv, [Next]_vars
             PROVE  BudgetInv'
  OBVIOUS
<1>a. call \in [Workers -> GoodCalls] /\ step \in [Steps -> GoodRows]
  BY DEF TypeInv
<1>b. /\ minted \in Nat /\ executions \in [Steps -> Nat]
      /\ \A w \in Workers : call[w].token \in Nat
      /\ \A w \in Workers : HasClaim(call[w]) => /\ call[w].seq \in Steps
                                                 /\ call[w].token # NoToken
      /\ \A i \in Steps : step[i].attemptCount \in Nat
  BY <1>a DEF TypeInv, TypeOK, GoodCalls, Calls, CallOK, GoodRows, Rows,
              HasClaim
<1>c. \A i \in Steps : /\ executions[i] <= step[i].attemptCount
                       /\ step[i].status = "none" => executions[i] = 0
  BY DEF BudgetInv
<1>d. \A w \in Workers : /\ HasClaim(call[w]) => call[w].token <= minted
                         /\ At(w, "verify") /\ Owned(w)
                              => executions[call[w].seq] < Row(w).attemptCount
  BY DEF BudgetInv
<1>e. \A v, w \in Workers : HasClaim(call[v]) /\ HasClaim(call[w]) /\ v # w
                              => call[v].token # call[w].token
  BY DEF BudgetInv
<1>f. \A w \in Workers : At(w, "verify") <=> call[w].pc = "verify"
  BY DEF At
<1>1. CASE KeepsClaims
  <2>1. ASSUME NEW w \in Workers, At(w, "verify")', Owned(w)'
        PROVE  executions'[call'[w].seq] < step'[call'[w].seq].attemptCount
    <3>1. HasClaim(call'[w]) /\ call'[w].pc = "verify"
      BY <2>1 DEF At, HasClaim
    <3>2. /\ HasClaim(call[w]) /\ At(w, "verify")
          /\ call'[w].token = call[w].token /\ call'[w].seq = call[w].seq
      BY <1>1, <1>f, <3>1 DEF KeepsClaims
    <3>3. call[w].seq \in Steps /\ call[w].token # NoToken
      BY <1>b, <3>2
    <3>4. step'[call[w].seq].claimToken = call[w].token
      BY <2>1, <3>2 DEF Owned, Row
    <3>5. Owned(w)
      BY <1>1, <3>3, <3>4 DEF KeepsClaims, Owned, Row
    <3> QED
      BY <1>1, <1>d, <3>2, <3>3, <3>5 DEF KeepsClaims, Row
  <2>2. \A i \in Steps : /\ executions'[i] <= step'[i].attemptCount
                         /\ step'[i].status = "none" => executions'[i] = 0
    BY <1>1, <1>c DEF KeepsClaims
  <2>3. /\ \A w \in Workers : HasClaim(call'[w]) => call'[w].token <= minted'
        /\ \A v, w \in Workers : HasClaim(call'[v]) /\ HasClaim(call'[w]) /\ v # w
                                   => call'[v].token # call'[w].token
    BY <1>1, <1>d, <1>e DEF KeepsClaims
  <2> QED
    BY <2>1, <2>2, <2>3 DEF BudgetInv, Row
(* A call that takes or mints a token nobody else knows.                   *)
<1>2. ASSUME NEW w \in Workers, NEW i \in Steps, NEW c, NEW row,
             HasClaim(c), c.seq = i, c.token = minted + 1,
             row.claimToken = minted + 1,
             call' = [call EXCEPT ![w] = c],
             step' = [step EXCEPT ![i] = row],
             minted' = minted + 1,
             \A j \in Steps : j # i => executions'[j] = executions[j],
             executions'[i] <= row.attemptCount,
             row.status # "none",
             c.pc = "verify" => executions'[i] < row.attemptCount
      PROVE  BudgetInv'
  <2>1. /\ call'[w] = c
        /\ \A v \in Workers : v # w => call'[v] = call[v]
        /\ step'[i] = row
        /\ \A j \in Steps : j # i => step'[j] = step[j]
    BY <1>a, <1>2
  <2>2. \A j \in Steps : /\ executions'[j] <= step'[j].attemptCount
                         /\ step'[j].status = "none" => executions'[j] = 0
    BY <1>c, <1>2, <2>1
  <2>3. \A v \in Workers : HasClaim(call[v]) => call[v].token < minted + 1
    BY <1>b, <1>d
  <2>4. /\ \A v \in Workers : HasClaim(call'[v]) => call'[v].token <= minted'
        /\ \A u, v \in Workers : HasClaim(call'[u]) /\ HasClaim(call'[v]) /\ u # v
                                   => call'[u].token # call'[v].token
    BY <1>b, <1>e, <1>2, <2>1, <2>3
  <2>5. ASSUME NEW v \in Workers, At(v, "verify")', Owned(v)'
        PROVE  executions'[call'[v].seq] < step'[call'[v].seq].attemptCount
    <3>1. CASE v = w
      BY <1>2, <2>1, <2>5, <3>1 DEF At
    <3>2. CASE v # w
      <4>1. call'[v] = call[v] /\ At(v, "verify") /\ HasClaim(call[v])
        BY <2>1, <2>5, <3>2 DEF At, HasClaim
      <4>2. call[v].seq \in Steps /\ call[v].token < minted + 1
        BY <1>b, <2>3, <4>1
      <4>3. step'[call[v].seq].claimToken = call[v].token
        BY <2>5, <4>1 DEF Owned, Row
      <4>4. call[v].seq # i
        BY <1>2, <1>b, <2>1, <4>2, <4>3
      <4>5. Owned(v)
        BY <2>1, <4>2, <4>3, <4>4 DEF Owned, Row
      <4> QED
        BY <1>2, <1>d, <2>1, <4>1, <4>2, <4>4, <4>5 DEF Row
    <3> QED
      BY <3>1, <3>2
  <2> QED
    BY <2>2, <2>4, <2>5 DEF BudgetInv, Row
<1>3. ASSUME NEW w \in Workers, TakesOver(w) PROVE BudgetInv'
  <2> DEFINE i == call[w].seq
             c == Verifying(call[w], minted + 1)
             row == ClaimedRow(minted + 1, call[w].lag, Row(w).attemptCount + 1)
  <2>1. /\ i \in Steps
        /\ minted' = minted + 1 /\ executions' = executions
        /\ call' = [call EXCEPT ![w] = c]
        /\ step' = [step EXCEPT ![i] = row]
    BY <1>3 DEF TakesOver, TakeClaim
  <2>2. HasClaim(c) /\ c.seq = i /\ c.token = minted + 1
    BY DEF Verifying, HasClaim
  <2>3. /\ row.claimToken = minted + 1
        /\ row.attemptCount = Row(w).attemptCount + 1
        /\ row.status # "none"
    BY DEF ClaimedRow
  <2>4. executions'[i] < row.attemptCount /\ executions'[i] <= row.attemptCount
    BY <1>b, <1>c, <2>1, <2>3 DEF Row
  <2> HIDE DEF i, c, row
  <2> QED
    BY <1>2, <2>1, <2>2, <2>3, <2>4
<1>4. ASSUME NEW w \in Workers, StartStep(w) PROVE BudgetInv'
  <2> DEFINE i == call[w].seq
             c == Attempting(call[w], minted + 1, 1)
             row == ClaimedRow(minted + 1, 0, 1)
  <2>1. /\ i \in Steps
        /\ minted' = minted + 1
        /\ executions' = [executions EXCEPT ![i] = @ + 1]
        /\ call' = [call EXCEPT ![w] = c]
        /\ step' = [step EXCEPT ![i] = row]
    BY <1>4 DEF StartStep
  <2>2. executions[i] = 0
    <3>1. step[i].status = "none"
      BY <1>4, <2>1 DEF StartStep, OrderInv, SingleDriver, Drives, At, Steps
    <3> QED
      BY <1>c, <2>1, <3>1
  <2>3. HasClaim(c) /\ c.seq = i /\ c.token = minted + 1 /\ c.pc # "verify"
    BY DEF Attempting, HasClaim
  <2>4. row.claimToken = minted + 1 /\ row.attemptCount = 1 /\ row.status # "none"
    BY DEF ClaimedRow
  <2>5. /\ executions'[i] <= row.attemptCount
        /\ \A j \in Steps : j # i => executions'[j] = executions[j]
    BY <1>b, <2>1, <2>2, <2>4
  <2> HIDE DEF i, c, row
  <2> QED
    BY <1>2, <2>1, <2>3, <2>4, <2>5
<1>5. ASSUME NEW w \in Workers, RejectStep(w) PROVE BudgetInv'
  <2> DEFINE i == call[w].seq
  <2>1. /\ i \in Steps
        /\ minted' = minted /\ executions' = executions
        /\ call' = [call EXCEPT ![w] = Finishing(i)]
        /\ step' = [step EXCEPT ![i] = Closed(NoRow, "failed")]
    BY <1>5 DEF RejectStep
  <2>2. executions[i] = 0
    <3>1. step[i].status = "none"
      BY <1>5, <2>1 DEF RejectStep, OrderInv, SingleDriver, Drives, At, Steps
    <3> QED
      BY <1>c, <2>1, <3>1
  <2>3. /\ step'[i].attemptCount = 0 /\ step'[i].claimToken = NoToken
        /\ step'[i].status # "none"
        /\ \A j \in Steps : j # i => step'[j] = step[j]
    BY <1>a, <2>1 DEF Closed, NoRow
  <2>4. ~HasClaim(call'[w]) /\ \A v \in Workers : v # w => call'[v] = call[v]
    BY <1>a, <2>1 DEF Finishing, CallAt, HasClaim
  <2>5. \A j \in Steps : /\ executions'[j] <= step'[j].attemptCount
                         /\ step'[j].status = "none" => executions'[j] = 0
    BY <1>c, <2>1, <2>2, <2>3
  <2>6. ASSUME NEW v \in Workers, At(v, "verify")', Owned(v)'
        PROVE  executions'[call'[v].seq] < step'[call'[v].seq].attemptCount
    <3>1. call'[v] = call[v] /\ HasClaim(call[v]) /\ At(v, "verify")
      BY <2>4, <2>6 DEF At, HasClaim
    <3>2. call[v].seq \in Steps /\ call[v].token # NoToken
      BY <1>b, <3>1
    <3>3. step'[call[v].seq].claimToken = call[v].token
      BY <2>6, <3>1 DEF Owned, Row
    <3>4. call[v].seq # i
      BY <2>3, <3>2, <3>3
    <3>5. Owned(v)
      BY <2>3, <3>2, <3>3, <3>4 DEF Owned, Row
    <3> QED
      BY <1>d, <2>1, <2>3, <3>1, <3>2, <3>4, <3>5 DEF Row
  <2> QED
    BY <1>d, <1>e, <2>1, <2>4, <2>5, <2>6 DEF BudgetInv, Row
<1>6. ASSUME NEW w \in Workers, VerifyRetry(w) PROVE BudgetInv'
  <2> DEFINE i == call[w].seq
             c == Attempting(call[w], call[w].token, Row(w).attemptCount)
  <2>1. /\ call[w].pc = "verify" /\ At(w, "verify") /\ Owned(w)
        /\ executions' = [executions EXCEPT ![i] = @ + 1]
        /\ call' = [call EXCEPT ![w] = c]
        /\ step' = step /\ minted' = minted
    BY <1>6 DEF VerifyRetry, StillClaimed, At
  <2>2. HasClaim(call[w]) /\ i \in Steps
    BY <1>b, <2>1 DEF HasClaim
  <2>3. c.token = call[w].token /\ c.pc # "verify"
    BY DEF Attempting
  <2>4. /\ call'[w] = c
        /\ \A v \in Workers : v # w => call'[v] = call[v]
    BY <1>a, <2>1
  <2>5. executions[i] + 1 <= step[i].attemptCount /\ step[i].status # "none"
    <3>1. executions[i] < step[i].attemptCount
      BY <1>d, <2>1 DEF Row
    <3>2. step[i].status # "none"
      BY <1>6 DEF VerifyRetry, StillClaimed, Row
    <3> QED
      BY <1>b, <2>2, <3>1, <3>2
  <2>6. \A j \in Steps : /\ executions'[j] <= step'[j].attemptCount
                         /\ step'[j].status = "none" => executions'[j] = 0
    BY <1>b, <1>c, <2>1, <2>2, <2>5
  <2>7. /\ \A v \in Workers : HasClaim(call'[v]) => call'[v].token <= minted'
        /\ \A u, v \in Workers : HasClaim(call'[u]) /\ HasClaim(call'[v]) /\ u # v
                                   => call'[u].token # call'[v].token
    BY <1>d, <1>e, <2>1, <2>2, <2>3, <2>4
  <2>8. ASSUME NEW v \in Workers, At(v, "verify")', Owned(v)'
        PROVE  executions'[call'[v].seq] < step'[call'[v].seq].attemptCount
    <3>1. v # w
      BY <2>3, <2>4, <2>8 DEF At
    <3>2. call'[v] = call[v] /\ HasClaim(call[v]) /\ At(v, "verify") /\ Owned(v)
      BY <2>1, <2>4, <2>8, <3>1 DEF At, HasClaim, Owned, Row
    <3>3. call[v].token # call[w].token
      BY <1>e, <2>2, <3>1, <3>2
    <3>4. call[v].seq # i
      BY <2>1, <3>2, <3>3 DEF Owned, Row
    <3>5. call[v].seq \in Steps
      BY <1>b, <3>2
    <3> QED
      BY <1>b, <1>d, <2>1, <3>2, <3>4, <3>5 DEF Row
  <2> QED
    BY <2>6, <2>7, <2>8 DEF BudgetInv, Row
<1>7. BudgetEffect
  BY EveryStepHasItsBudget
<1> QED
  BY <1>1, <1>3, <1>4, <1>5, <1>6, <1>7 DEF BudgetEffect

(* A takeover beside the attempt it replaces, a crash or a legacy row      *)
(* never makes the engine start an action more often than its row was      *)
(* charged, nor beyond MAX_STEP_ATTEMPTS.                                  *)
THEOREM ExecutionsArePaid == Spec => []AttemptBudget
<1>1. TypeInv /\ BudgetInv => AttemptBudget
  <2> SUFFICES ASSUME TypeInv, BudgetInv, NEW i \in Steps
               PROVE  /\ executions[i] <= step[i].attemptCount
                      /\ step[i].attemptCount <= MaxAttempts
    BY DEF AttemptBudget
  <2>1. step[i].attemptCount \in 0..MaxAttempts
    BY DEF TypeInv, GoodRows, Rows
  <2> QED
    BY <2>1, StepRetryAssumption DEF BudgetInv
<1> QED
  BY <1>1, BudgetInit, BudgetStep, OrderInvariance, PTL DEF Spec

(* A claim's token is replaced by another one only once the claim has been *)
(* held for more than a lease, by whichever statement writes the row.      *)
THEOREM LeaseIsRespected == Spec => TakeoverAfterLease
<1>1. ASSUME TypeInv, OrderInv, [Next]_vars, NEW i \in Steps,
             step[i].claimToken # NoToken,
             step'[i].claimToken \notin {NoToken, step[i].claimToken}
      PROVE  step[i].claimAge > Lease
  <2>a. step \in [Steps -> GoodRows]
    BY <1>1 DEF TypeInv
  <2>b. step[i].status # "none"
    BY <1>1, <2>a DEF GoodRows, RowOK
  <2>1. CASE KeepsClaims
    BY <1>1, <2>1 DEF KeepsClaims
  <2>2. ASSUME NEW w \in Workers, TakesOver(w) PROVE step[i].claimAge > Lease
    <3>1. i = call[w].seq
      BY <1>1, <2>a, <2>2 DEF TakesOver, TakeClaim
    <3> QED
      BY <1>1, <2>2, <3>1 DEF TakesOver, Row
  <2>3. ASSUME NEW w \in Workers, StartStep(w) \/ RejectStep(w)
        PROVE  FALSE
    <3>1. i = call[w].seq /\ At(w, "next")
      BY <1>1, <2>a, <2>3 DEF StartStep, RejectStep
    <3>2. step[i].status = "none"
      BY <1>1, <3>1 DEF OrderInv, SingleDriver, Drives, At, Steps
    <3> QED
      BY <2>b, <3>2
  <2>4. ASSUME NEW w \in Workers, VerifyRetry(w) PROVE FALSE
    BY <1>1, <2>4 DEF VerifyRetry
  <2> QED
    BY <1>1, <2>1, <2>2, <2>3, <2>4, EveryStepHasItsBudget DEF BudgetEffect
<1>2. TypeInv /\ OrderInv /\ [Next]_vars
        => \A i \in Steps :
             /\ step[i].claimToken # NoToken
             /\ step'[i].claimToken \notin {NoToken, step[i].claimToken}
             => step[i].claimAge > Lease
  BY <1>1
<1> QED
  BY <1>2, OrderInvariance, PTL DEF Spec, TakeoverAfterLease

(***************************************************************************)
(* Recovery                                                                *)
(***************************************************************************)

(* The driver between two rows and before finishRun holds no claim: calls  *)
(* lost there are the ones the engine cannot recover.                      *)
ClaimedCrashes == CrashPoints \cap {"next", "finish"} = {}

(* Recoverable made inductive: somebody drives the run, or a row is live.  *)
CarriedOn ==
    run = "running" => \/ \E w \in Workers : Drives(w)
                       \/ \E i \in Steps : Live(step[i])

LEMMA CarriedOnStep ==
    ASSUME ClaimedCrashes, TypeInv, OrderInv, CarriedOn, [Next]_vars
    PROVE  CarriedOn'
<1> SUFFICES ASSUME run' = "running"
             PROVE  \/ \E w \in Workers : Drives(w)'
                    \/ \E i \in Steps : Live(step'[i])
  BY DEF CarriedOn
<1>a. call \in [Workers -> GoodCalls] /\ step \in [Steps -> GoodRows]
  BY DEF TypeInv
<1>b. ASSUME NEW w \in Workers, call[w].pc \notin {"idle", "next"}
      PROVE  call[w].seq \in Steps
  BY <1>a, <1>b DEF GoodCalls, CallOK
(* A step that keeps whoever drives and whatever is live.                  *)
<1>c. ASSUME run' = run,
             \A w \in Workers : Drives(w) => Drives(w)',
             \A i \in Steps : Live(step[i]) => Live(step'[i])
      PROVE  \/ \E w \in Workers : Drives(w)'
             \/ \E i \in Steps : Live(step'[i])
  BY <1>c DEF CarriedOn
<1>d. ASSUME NEW w \in Workers, NEW c, ~Drives(w), run' = run,
             call' = [call EXCEPT ![w] = c],
             \A i \in Steps : Live(step[i]) => Live(step'[i])
      PROVE  \/ \E v \in Workers : Drives(v)'
             \/ \E i \in Steps : Live(step'[i])
  <2>1. \A v \in Workers : Drives(v) => Drives(v)'
    BY <1>a, <1>d DEF Drives
  <2> QED
    BY <1>c, <1>d, <2>1
(* A step whose call drives the run from here on.                          *)
<1>e. ASSUME NEW w \in Workers, NEW i,
             call' = [call EXCEPT ![w] = Driving(i)]
               \/ call' = [call EXCEPT ![w] = Finishing(i)]
      PROVE  \E v \in Workers : Drives(v)'
  BY <1>a, <1>e DEF Drives, Driving, Finishing, CallAt
<1>1. CASE UNCHANGED vars
  BY <1>1, <1>c DEF vars, Drives
<1>2. CASE Tick
  <2>1. \A i \in Steps : step'[i].status = step[i].status
    BY <1>2, <1>a DEF Tick, OlderRow, GoodRows, Rows
  <2>2. \A w \in Workers : call'[w].pc = call[w].pc
    BY <1>2, <1>a DEF Tick, OlderCall, GoodCalls, Calls
  <2> QED
    BY <1>2, <1>c, <2>1, <2>2 DEF Tick, Live, Drives
<1>3. ASSUME NEW w \in Workers, Scan(w) \/ Crash(w)
      PROVE  \/ \E v \in Workers : Drives(v)'
             \/ \E i \in Steps : Live(step'[i])
  <2>1. ~Drives(w)
    BY <1>3 DEF Scan, Crash, Drives, At, ClaimedCrashes
  <2>2. run' = run /\ step' = step
        /\ \E c : call' = [call EXCEPT ![w] = c]
    BY <1>3 DEF Scan, Crash
  <2> QED
    BY <1>d, <2>1, <2>2
<1>4. ASSUME NEW w \in Workers, RunStepsFrom(w)
      PROVE  \/ \E v \in Workers : Drives(v)'
             \/ \E i \in Steps : Live(step'[i])
  <2>1. CASE StartStep(w)
    <3>1. call[w].seq \in Steps /\ Live(step'[call[w].seq])
      BY <1>a, <2>1 DEF StartStep, ClaimedRow, Live
    <3> QED
      BY <3>1
  <2>2. CASE RejectStep(w) \/ CommitSucceeded(w) \/ CommitFailed(w)
    BY <1>e, <2>2 DEF RejectStep, CommitSucceeded, CommitFailed
  <2>3. CASE FinishSucceeded(w) \/ FinishFailed(w)
    BY <2>3 DEF FinishSucceeded, FinishFailed
  <2>4. CASE Attempt(w) \/ CommitLost(w)
    <3>1. ~Drives(w) /\ run' = run /\ step' = step
          /\ \E c : call' = [call EXCEPT ![w] = c]
      BY <2>4 DEF Attempt, CommitLost, Drives, At
    <3> QED
      BY <1>d, <3>1
  <2>5. CASE CommitRetry(w)
    <3>1. call[w].seq \in Steps /\ Live(step'[call[w].seq])
      BY <1>a, <1>b, <2>5 DEF CommitRetry, Scheduled, Live, At
    <3> QED
      BY <3>1
  <2> QED
    BY <1>4, <2>1, <2>2, <2>3, <2>4, <2>5 DEF RunStepsFrom
<1>5. ASSUME NEW w \in Workers, RetryStep(w)
      PROVE  \/ \E v \in Workers : Drives(v)'
             \/ \E i \in Steps : Live(step'[i])
  <2>1. ~Drives(w)
    BY <1>5 DEF RetryStep, ClaimScheduled, ClaimAbandoned, ReconcileLegacy,
                FailExhausted, VerifyLost, VerifyRetry, VerifyRefuse,
                CommitRefused, Drives, At
  <2>2. ASSUME NEW c, call' = [call EXCEPT ![w] = c], run' = run, step' = step
        PROVE  \/ \E v \in Workers : Drives(v)'
               \/ \E i \in Steps : Live(step'[i])
    BY <1>d, <2>1, <2>2
  <2>3. ASSUME NEW point, Miss(w, point)
        PROVE  \/ \E v \in Workers : Drives(v)'
               \/ \E i \in Steps : Live(step'[i])
    BY <2>2, <2>3 DEF Miss
  <2>4. ASSUME TakeClaim(w), call[w].seq \in Steps
        PROVE  \E i \in Steps : Live(step'[i])
    <3>1. Live(step'[call[w].seq])
      BY <1>a, <2>4 DEF TakeClaim, ClaimedRow, Live
    <3> QED
      BY <2>4, <3>1
  <2>5. ASSUME ForceFail(w) PROVE \E v \in Workers : Drives(v)'
    BY <1>e, <2>5 DEF ForceFail
  <2>6. CASE ClaimScheduled(w) \/ ClaimAbandoned(w)
    <3>1. call[w].seq \in Steps
      BY <1>b, <2>6 DEF ClaimScheduled, ClaimAbandoned, At
    <3> QED
      BY <2>3, <2>4, <2>6, <3>1 DEF ClaimScheduled, ClaimAbandoned
  <2>7. CASE ReconcileLegacy(w) \/ CommitRefused(w)
    BY <2>3, <2>5, <2>7 DEF ReconcileLegacy, CommitRefused
  <2>8. CASE FailExhausted(w)
    BY <2>2, <2>5, <2>8 DEF FailExhausted
  <2>9. CASE VerifyLost(w) \/ VerifyRefuse(w)
    BY <2>2, <2>9 DEF VerifyLost, VerifyRefuse
  <2>10. CASE VerifyRetry(w)
    BY <2>2, <2>10 DEF VerifyRetry
  <2> QED
    BY <1>5, <2>6, <2>7, <2>8, <2>9, <2>10 DEF RetryStep
<1> QED
  BY <1>1, <1>2, <1>3, <1>4, <1>5 DEF Next

(* As long as calls are lost only where they hold a claim or have left no  *)
(* trace, a running run nobody works on has a row the dispatcher can find  *)
(* again.  The run StepRetryLost shows that the hypothesis is needed.      *)
THEOREM LostCallsAreRecoverable ==
    ASSUME ClaimedCrashes PROVE Spec => []Recoverable
<1>1. Init => CarriedOn
  <2>1. ASSUME NEW w \in Workers, FreshStart(w) PROVE Drives(w)
    BY <2>1 DEF FreshStart, Driving, CallAt, Drives
  <2>2. ASSUME NEW status \in {"running", "retry_scheduled"},
               LegacyStart(status)
        PROVE  1 \in Steps /\ Live(step[1])
    <3>1. 1 \in Steps
      BY <2>2, StepRetryAssumption DEF LegacyStart, Steps
    <3> QED
      BY <2>2, <3>1 DEF LegacyStart, LegacyRow, Live
  <2> QED
    BY <2>1, <2>2 DEF Init, CarriedOn
<1>2. TypeInv /\ OrderInv /\ CarriedOn /\ [Next]_vars => CarriedOn'
  BY CarriedOnStep
<1>3. CarriedOn => Recoverable
  BY DEF CarriedOn, Recoverable, Drives, At
<1> QED
  BY <1>1, <1>2, <1>3, OrderInvariance, PTL DEF Spec

(***************************************************************************)
(* The abstract run                                                        *)
(***************************************************************************)

(* The step engine, with its claims, retries, takeovers and lost calls,    *)
(* implements RunProgress: steps succeed one at a time and in order, one   *)
(* failure ends the progress, and the run is finished once, accordingly.   *)
THEOREM Refinement == Spec => ImplementsProgress
<1> USE DEF Progress!Steps
<1>1. Init => Progress!Init
  <2> SUFFICES ASSUME Init PROVE Progress!Init
    OBVIOUS
  <2>1. \A i \in Steps : step[i].status \notin {"succeeded", "failed"}
    BY DEF Init, FreshStart, LegacyStart, LegacyRow, NoRow
  <2>2. run = "running" /\ Succeeded = {} /\ SomeFailed = FALSE
    BY <2>1 DEF Init, Succeeded, SomeFailed
  <2> QED
    BY <2>2 DEF Progress!Init
<1>2. ASSUME TypeInv, OrderInv, [Next]_vars
      PROVE  [Progress!Next]_(Progress!vars)
  <2>1. CASE Holds
    <3>1. \A i \in Steps :
            /\ step'[i].status = "succeeded" <=> step[i].status = "succeeded"
            /\ step'[i].status = "failed" <=> step[i].status = "failed"
      BY <2>1 DEF Holds, Claims, Live
    <3>2. Succeeded' = Succeeded /\ SomeFailed' = SomeFailed
      BY <3>1 DEF Succeeded, SomeFailed
    <3> QED
      BY <2>1, <3>2 DEF Holds, Progress!vars
  <2>2. CASE SettlesOne
    <3>1. PICK i \in Steps, status \in {"succeeded", "failed"} :
            Settles(i, status) /\ Others(i)
      BY <2>2 DEF SettlesOne
    <3>2. /\ Live(step[i]) /\ step'[i].status = status
          /\ \A j \in Steps : j # i => step'[j] = step[j]
      BY <3>1 DEF Settles, Others, Closed
    <3>3. /\ run = "running" /\ run' = run
          /\ \A j \in Steps : j < i => step[j].status = "succeeded"
          /\ \A j \in Steps : j > i => step[j].status = "none"
      BY <1>2, <2>2, <3>2, OnlyLiveRow DEF SettlesOne
    <3>4. \A j \in Steps : j < i \/ j = i \/ j > i
      BY DEF Steps
    <3>5. ~SomeFailed
      BY <3>2, <3>3, <3>4 DEF SomeFailed, Live
    <3>6. Succeeded = 1..(i - 1)
      <4>1. \A j : j \in 1..(i - 1) <=> j \in Steps /\ j < i
        BY StepRetryAssumption DEF Steps
      <4> QED
        BY <3>2, <3>3, <3>4, <4>1 DEF Succeeded, Live
    <3>7. CASE status = "succeeded"
      <4>1. Succeeded' = 1..i
        <5>1. \A j : j \in 1..i <=> j \in Steps /\ (j < i \/ j = i)
          BY StepRetryAssumption DEF Steps
        <5> QED
          BY <3>2, <3>3, <3>4, <3>7, <5>1 DEF Succeeded
      <4>2. SomeFailed' = SomeFailed
        BY <3>2, <3>5, <3>7 DEF SomeFailed
      <4>3. i \in Progress!Steps
        BY DEF Steps
      <4>4. Progress!Advance
        BY <3>3, <3>5, <3>6, <4>1, <4>2, <4>3 DEF Progress!Advance
      <4> QED
        BY <4>4 DEF Progress!Next
    <3>8. CASE status = "failed"
      <4>1. Succeeded' = Succeeded
        BY <3>2, <3>8 DEF Succeeded, Live
      <4>2. SomeFailed'
        BY <3>2, <3>8 DEF SomeFailed
      <4>3. Succeeded # Progress!Steps
        <5>1. i \notin Succeeded /\ i \in Progress!Steps
          BY <3>2 DEF Succeeded, Live, Steps
        <5> QED
          BY <5>1
      <4>4. Progress!Break
        BY <3>3, <3>5, <4>1, <4>2, <4>3 DEF Progress!Break, SomeFailed
      <4> QED
        BY <4>4 DEF Progress!Next
    <3> QED
      BY <3>7, <3>8
  <2>3. CASE CreatesOne
    <3>1. PICK i \in Steps :
            /\ \A j \in Steps : j < i => step[j].status = "succeeded"
            /\ \A j \in Steps : j >= i => step[j].status = "none"
            /\ Others(i)
            /\ Live(step'[i]) \/ step'[i].status = "failed"
      BY <2>3 DEF CreatesOne
    <3>2. /\ step[i].status = "none"
          /\ \A j \in Steps : j # i => step'[j] = step[j]
          /\ \A j \in Steps : step[j].status # "failed"
      BY <3>1 DEF Steps, Others
    <3>3. Succeeded' = Succeeded /\ ~SomeFailed
      BY <3>1, <3>2 DEF Succeeded, SomeFailed, Live
    <3>4. CASE Live(step'[i])
      <4>1. SomeFailed' = SomeFailed
        BY <3>2, <3>4 DEF SomeFailed, Live
      <4> QED
        BY <2>3, <3>3, <4>1 DEF CreatesOne, Progress!vars
    <3>5. CASE step'[i].status = "failed"
      <4>1. SomeFailed'
        BY <3>5 DEF SomeFailed
      <4>2. i \notin Succeeded /\ i \in Progress!Steps
        BY <3>2 DEF Succeeded, Steps
      <4>3. Progress!Break
        BY <2>3, <3>3, <4>1, <4>2 DEF CreatesOne, Progress!Break, SomeFailed
      <4> QED
        BY <4>3 DEF Progress!Next
    <3> QED
      BY <3>1, <3>4, <3>5
  <2>4. CASE FinishesRun
    <3>1. Succeeded' = Succeeded /\ SomeFailed' = SomeFailed
      BY <2>4 DEF FinishesRun, Succeeded, SomeFailed
    <3>2. CASE run' = "succeeded"
      <4>1. Succeeded = Progress!Steps /\ ~SomeFailed
        BY <2>4, <3>2 DEF FinishesRun, Succeeded, SomeFailed, Steps
      <4>2. Progress!Succeed
        BY <2>4, <3>1, <3>2, <4>1 DEF FinishesRun, Progress!Succeed
      <4> QED
        BY <4>2 DEF Progress!Next
    <3>3. CASE run' = "failed"
      <4>1. SomeFailed
        BY <2>4, <3>3 DEF FinishesRun, SomeFailed
      <4>2. Progress!Fail
        BY <2>4, <3>1, <3>3, <4>1 DEF FinishesRun, Progress!Fail
      <4> QED
        BY <4>2 DEF Progress!Next
    <3> QED
      BY <2>4, <3>2, <3>3 DEF FinishesRun
  <2> QED
    BY <1>2, <2>1, <2>2, <2>3, <2>4, EveryStepHasItsEffect DEF Effect
<1> QED
  BY <1>1, <1>2, OrderInvariance, PTL
  DEF Spec, ImplementsProgress, Progress!Spec
=============================================================================
