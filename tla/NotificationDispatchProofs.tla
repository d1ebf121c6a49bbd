--------------------- MODULE NotificationDispatchProofs ---------------------
(***************************************************************************)
(* Proofs about NotificationDispatch, for any number of slots, manual      *)
(* retries and attempts, any lease, delays, lag and faults.                *)
(*                                                                         *)
(* The point of interest: claims carry no token, they are told apart by    *)
(* the instant of their tick only.  That is enough here, even for slots    *)
(* with the same instant, because a delivery that leaves a claim is not    *)
(* due, by an older instant, ever again.                                   *)
(***************************************************************************)
EXTENDS NotificationDispatch, FiniteSetTheorems, TLAPS

(* The points of a slot that has claimed the delivery, and of one that has *)
(* verified its claim.                                                     *)
Verified == {"send", "record", "retry", "bury"}
Claimed == Verified \cup {"verify"}

Past(w) == slot[w].pc \in Claimed

Queued == delivery.status \in {"pending", "retry_scheduled"}

(* What the row says of itself.                                            *)
RowInv ==
    /\ delivery.status = "processing" <=> delivery.claimAge # None
    /\ delivery.status = "none" => delivery.attemptCount = 0
    /\ Queued => delivery.attemptCount < MaxAttempts
    /\ delivery.status = "processing" => delivery.attemptCount # 0

(* A slot that has claimed: no claim is older than its own, and the        *)
(* delivery is not due by its instant.                                     *)
Behind(w) ==
    /\ delivery.status # "none"
    /\ delivery.claimAge <= slot[w].lag
    /\ Queued => delivery.dueAge < slot[w].lag
    /\ delivery.status \in {"sent", "dead_letter"} => 0 < slot[w].lag

BehindInv == \A w \in Workers : Past(w) => Behind(w)

(* No two slots that have claimed have the same instant.                   *)
InstantInv ==
    \A v, w \in Workers : Past(v) /\ Past(w) /\ v # w
                            => slot[v].lag # slot[w].lag

(* The slot whose instant is the claim's is the one that claimed last, and *)
(* it knows the attempt.                                                   *)
HolderInv ==
    \A w \in Workers : Past(w) /\ Owned(w) =>
        /\ claimer = {w}
        /\ slot[w].pc \in Verified => slot[w].attempt = delivery.attemptCount

(* Attempts that have been or will be mailed are all different.            *)
ChargeInv ==
    /\ mailed \subseteq 1..delivery.attemptCount
    /\ \A w \in Workers :
         /\ slot[w].pc \in Verified =>
              slot[w].attempt \in 1..delivery.attemptCount
         /\ At(w, "send") => slot[w].attempt \notin mailed
         /\ At(w, "verify") /\ Owned(w) =>
              /\ delivery.attemptCount \notin mailed
              /\ \A v \in Workers : slot[v].pc \in Verified =>
                   slot[v].attempt # delivery.attemptCount
    /\ \A v, w \in Workers :
         slot[v].pc \in Verified /\ slot[w].pc \in Verified /\ v # w
           => slot[v].attempt # slot[w].attempt

IInv ==
    /\ TypeOK
    /\ RowInv
    /\ BehindInv
    /\ InstantInv
    /\ HolderInv
    /\ ChargeInv

(***************************************************************************)
(* What a step can do to the slots, the row and the history                *)
(***************************************************************************)
Others(w) == \A v \in Workers \ {w} : slot'[v] = slot[v]

(* A slot moves on, without a claim or with the one it has.                *)
Moves(w) ==
    /\ Others(w)
    /\ slot'[w].pc \in Points \ {"verify", "send", "record"}
    /\ slot'[w].pc \in Claimed =>
         /\ slot[w].pc \in Verified
         /\ slot'[w].lag = slot[w].lag
         /\ slot'[w].attempt = slot[w].attempt
    /\ UNCHANGED <<delivery, claimer, mailed>>

Confirms(w) ==
    /\ Others(w)
    /\ At(w, "verify")
    /\ Holds(w)
    /\ slot'[w].pc = "send"
    /\ slot'[w].lag = slot[w].lag
    /\ slot'[w].attempt = delivery.attemptCount
    /\ UNCHANGED <<delivery, claimer, mailed>>

Mails(w) ==
    /\ Others(w)
    /\ At(w, "send")
    /\ slot'[w].pc \in {"record", "retry", "bury"}
    /\ slot'[w].lag = slot[w].lag
    /\ slot'[w].attempt = slot[w].attempt
    /\ mailed' = mailed \cup {slot[w].attempt}
    /\ UNCHANGED <<delivery, claimer>>

(* The row leaves its claim: by the outcome of the slot that holds it, or  *)
(* because another finds its lease and its budget spent.                   *)
Closes(w) ==
    /\ Others(w)
    /\ slot'[w].pc \notin Claimed
    /\ \/ Past(w) /\ Owned(w) /\ slot[w].pc \in Verified
       \/ /\ ~Past(w)
          /\ delivery.claimAge > slot[w].lag
          /\ delivery'.status = "dead_letter"
    /\ delivery.status = "processing"
    /\ delivery'.status \in {"sent", "dead_letter", "retry_scheduled"}
    /\ delivery'.status = "retry_scheduled" =>
         /\ slot[w].pc \in Verified
         /\ slot[w].attempt < MaxAttempts
         /\ delivery'.dueAge <= slot[w].lag
    /\ delivery'.claimAge = None
    /\ delivery'.attemptCount = delivery.attemptCount
    /\ UNCHANGED <<claimer, mailed>>

Claims(w) ==
    /\ Others(w)
    /\ ~Past(w)
    /\ Claimable(w)
    /\ slot'[w].pc = "verify"
    /\ slot'[w].lag = slot[w].lag
    /\ delivery'.status = "processing"
    /\ delivery'.claimAge = slot[w].lag
    /\ delivery'.attemptCount = delivery.attemptCount + 1
    /\ claimer' = {w}
    /\ UNCHANGED mailed

Queues ==
    /\ delivery.status \in {"none", "dead_letter"}
    /\ delivery.attemptCount < MaxAttempts
    /\ delivery'.status = "pending"
    /\ delivery'.dueAge = 0
    /\ delivery'.claimAge = None
    /\ delivery'.attemptCount = delivery.attemptCount
    /\ UNCHANGED <<slot, claimer, mailed>>

Ages ==
    /\ \A w \in Workers :
         /\ slot'[w].pc = slot[w].pc
         /\ slot'[w].attempt = slot[w].attempt
         /\ slot[w].lag < MaxLag
         /\ Past(w) => slot'[w].lag = slot[w].lag + 1
    /\ delivery'.status = delivery.status
    /\ delivery'.attemptCount = delivery.attemptCount
    /\ delivery'.dueAge <= delivery.dueAge + 1
    /\ delivery.claimAge = None => delivery'.claimAge = None
    /\ delivery.claimAge # None =>
         /\ delivery'.claimAge # None
         /\ delivery'.claimAge <= delivery.claimAge + 1
         /\ delivery.claimAge <= MaxLag =>
              delivery'.claimAge = delivery.claimAge + 1
    /\ UNCHANGED <<claimer, mailed>>

Rests == UNCHANGED <<delivery, slot, claimer, mailed>>

Effect ==
    \/ Rests
    \/ Queues
    \/ Ages
    \/ \E w \in Workers : \/ Moves(w)
                          \/ Confirms(w)
                          \/ Mails(w)
                          \/ Closes(w)
                          \/ Claims(w)

LEMMA ToGo ==
    ASSUME TypeOK, NEW w \in Workers, NEW point, Goto(w, point)
    PROVE  /\ Others(w)
           /\ slot'[w].pc = point
           /\ slot'[w].lag = slot[w].lag
           /\ slot'[w].attempt = slot[w].attempt
  BY DEF Goto, SlotAt, Others, TypeOK

LEMMA ToLeave ==
    ASSUME TypeOK, NEW w \in Workers, Leave(w)
    PROVE  Others(w) /\ slot'[w].pc = "idle"
  BY DEF Leave, Idle, SlotAt, Others, TypeOK

LEMMA EveryStepHasItsEffect ==
    ASSUME IInv, [Next]_vars PROVE Effect
<1>a. TypeOK /\ RowInv /\ ChargeInv
  BY DEF IInv
<1>b. /\ MaxAttempts \in Nat \ {0} /\ Lease \in Nat /\ MaxLag \in Nat
      /\ Backoff \in [1..(MaxAttempts - 1) -> Nat]
  BY NotificationDispatchAssumption
<1>c. /\ delivery.status \in Statuses
      /\ delivery.attemptCount \in 0..MaxAttempts
      /\ delivery.dueAge \in Int
      /\ delivery.claimAge \in 0..MaxAge \cup {None}
  BY <1>a DEF TypeOK, Deliveries
<1>d. \A w \in Workers : /\ slot[w].pc \in Points
                         /\ slot[w].lag \in 0..MaxLag
                         /\ slot[w].attempt \in 0..MaxAttempts
  BY <1>a DEF TypeOK, Slots
<1>e. MaxAge = MaxLag + Lease + 1 /\ None = -1
  BY DEF MaxAge, None
<1>1. CASE Tick
  <2>1. \A w \in Workers :
          slot'[w] = IF At(w, "idle") THEN slot[w]
                     ELSE SlotAt(slot[w].pc, slot[w].lag + 1, slot[w].attempt)
    BY <1>1 DEF Tick
  <2>2. \A w \in Workers :
          /\ slot'[w].pc = slot[w].pc
          /\ slot'[w].attempt = slot[w].attempt
          /\ slot[w].lag < MaxLag
          /\ Past(w) => slot'[w].lag = slot[w].lag + 1
    BY <1>1, <2>1 DEF Tick, SlotAt, At, Past, Claimed, Verified
  <2>3. /\ delivery'.status = delivery.status
        /\ delivery'.attemptCount = delivery.attemptCount
        /\ delivery'.dueAge = Older(delivery.dueAge, MaxLag)
        /\ delivery'.claimAge = IF delivery.claimAge = None THEN None
                                ELSE Older(delivery.claimAge, MaxAge)
        /\ UNCHANGED <<claimer, mailed>>
    BY <1>1 DEF Tick, Row, history
  <2> QED
    BY <1>b, <1>c, <1>e, <2>2, <2>3 DEF Ages, Effect, Older
<1>2. CASE CreateEmailDelivery
  BY <1>2, <1>a, <1>b DEF CreateEmailDelivery, RowInv, Row, Queues, Effect,
                          history
<1>3. ASSUME NEW w \in Workers, Dispatch(w) PROVE Effect
  <2>1. CASE HandleTick(w)
    BY <1>a, <2>1, ToGo
    DEF HandleTick, history, Moves, Effect, Claimed, Verified, Points
  <2>2. CASE Scan(w)
    BY <1>a, <2>2, ToGo, ToLeave
    DEF Scan, history, Moves, Effect, Claimed, Verified, Points
  <2>3. CASE Exhaust(w)
    <3>1. /\ Others(w) /\ slot'[w].pc = "claim" /\ ~Past(w)
          /\ UNCHANGED <<claimer, mailed>>
      BY <1>a, <2>3, ToGo DEF Exhaust, At, Past, Claimed, Verified, history
    <3>2. CASE DueSet(w) /\ Exhausted
      <4>1. /\ delivery.status = "processing"
            /\ delivery.claimAge > slot[w].lag + Lease
        BY <1>a, <1>b, <1>c, <1>d, <3>2
        DEF DueSet, Exhausted, LeaseFree, RowInv, Queued
      <4>2. /\ delivery'.status = "dead_letter"
            /\ delivery'.claimAge = None
            /\ delivery'.attemptCount = delivery.attemptCount
        BY <2>3, <3>2 DEF Exhaust, Closed, Row
      <4>3. delivery.claimAge > slot[w].lag
        BY <1>b, <1>c, <1>d, <1>e, <4>1
      <4> QED
        BY <3>1, <4>1, <4>2, <4>3 DEF Closes, Effect, Claimed, Verified
    <3>3. CASE ~(DueSet(w) /\ Exhausted)
      BY <2>3, <3>1, <3>3
      DEF Exhaust, Moves, Effect, Claimed, Verified, Points
    <3> QED
      BY <3>2, <3>3
  <2>4. CASE Claim(w)
    <3>1. CASE Claimable(w)
      BY <1>a, <2>4, <3>1, ToGo
      DEF Claim, At, Row, Claims, Effect, Past, Claimed, Verified
    <3>2. CASE ~Claimable(w)
      BY <1>a, <2>4, <3>2, ToLeave
      DEF Claim, Moves, Effect, Claimed, Verified, Points
    <3> QED
      BY <3>1, <3>2
  <2>5. CASE Verify(w)
    <3>1. CASE Holds(w)
      <4>1. slot' = [slot EXCEPT ![w] =
                       SlotAt("send", slot[w].lag, delivery.attemptCount)]
        BY <2>5, <3>1 DEF Verify
      <4>2. /\ Others(w)
            /\ slot'[w].pc = "send"
            /\ slot'[w].lag = slot[w].lag
            /\ slot'[w].attempt = delivery.attemptCount
        BY <1>a, <4>1 DEF Others, SlotAt, TypeOK
      <4> QED
        BY <2>5, <3>1, <4>2 DEF Verify, Confirms, Effect, history
    <3>2. CASE ~Holds(w)
      BY <1>a, <2>5, <3>2, ToLeave
      DEF Verify, Moves, Effect, Claimed, Verified, Points, history
    <3> QED
      BY <3>1, <3>2
  <2>6. CASE Undeliverable(w)
    BY <1>a, <2>6, ToGo
    DEF Undeliverable, At, history, Moves, Effect, Claimed, Verified, Points
  <2>7. CASE SendEmail(w)
    <3>1. \E point \in {"record", "retry", "bury"} : Goto(w, point)
      BY <2>7 DEF SendEmail
    <3> QED
      BY <1>a, <2>7, <3>1, ToGo DEF SendEmail, Mails, Effect
  <2>8. ASSUME NEW row, Finalize(w, row), slot[w].pc \in Verified,
               row.status \in {"sent", "dead_letter", "retry_scheduled"},
               row.claimAge = None,
               row.attemptCount = delivery.attemptCount,
               row.status = "retry_scheduled" =>
                 slot[w].attempt < MaxAttempts /\ row.dueAge <= slot[w].lag
        PROVE  Effect
    <3>1. /\ Others(w) /\ slot'[w].pc = "idle"
          /\ UNCHANGED <<claimer, mailed>>
      BY <1>a, <2>8, ToLeave DEF Finalize, history
    <3>2. CASE Owned(w)
      <4>1. delivery' = row
        BY <2>8, <3>2 DEF Finalize
      <4>2. delivery.status = "processing"
        BY <1>a, <1>d, <1>e, <3>2 DEF Owned, RowInv
      <4> QED
        BY <2>8, <3>1, <3>2, <4>1, <4>2
        DEF Closes, Effect, Past, Claimed, Verified
    <3>3. CASE ~Owned(w)
      BY <2>8, <3>1, <3>3
      DEF Finalize, Moves, Effect, Claimed, Verified, Points
    <3> QED
      BY <3>2, <3>3
  <2>9. CASE RecordSent(w)
    BY <2>8, <2>9 DEF RecordSent, At, Closed, Row, Verified
  <2>10. CASE MarkDeadLetter(w)
    BY <2>8, <2>10 DEF MarkDeadLetter, At, Closed, Row, Verified
  <2>11. CASE ScheduleRetryOrDeadLetter(w)
    <3>1. slot[w].pc \in Verified
      BY <2>11 DEF ScheduleRetryOrDeadLetter, At, Verified
    <3>2. CASE slot[w].attempt < MaxAttempts
      <4> DEFINE due == slot[w].lag - Backoff[slot[w].attempt]
      <4>1. slot[w].attempt \in 1..(MaxAttempts - 1)
        BY <1>a, <1>b, <1>c, <1>d, <3>1, <3>2 DEF ChargeInv
      <4>2. Backoff[slot[w].attempt] \in Nat
        BY <1>b, <4>1
      <4>3. due <= slot[w].lag
        BY <1>d, <4>2
      <4>4. Finalize(w, Row("retry_scheduled", delivery.attemptCount, due, None))
        BY <2>11, <3>2 DEF ScheduleRetryOrDeadLetter
      <4> HIDE DEF due
      <4> QED
        BY <2>8, <3>1, <3>2, <4>3, <4>4 DEF Row
    <3>3. CASE ~(slot[w].attempt < MaxAttempts)
      BY <2>8, <2>11, <3>1, <3>3 DEF ScheduleRetryOrDeadLetter, Closed, Row
    <3> QED
      BY <3>2, <3>3
  <2> QED
    BY <1>3, <2>1, <2>2, <2>3, <2>4, <2>5, <2>6, <2>7, <2>9, <2>10, <2>11
    DEF Dispatch
<1>4. ASSUME NEW w \in Workers, RecordThrows(w) PROVE Effect
  BY <1>a, <1>4, ToGo
  DEF RecordThrows, At, history, Moves, Effect, Claimed, Verified, Points
<1>5. ASSUME NEW w \in Workers, Lose(w) PROVE Effect
  BY <1>a, <1>5, ToLeave
  DEF Lose, history, Moves, Effect, Claimed, Verified, Points
<1>6. ASSUME NEW r \in Requests, ReadRetry(r) \/ Retry(r) PROVE Effect
  BY <1>6 DEF ReadRetry, Retry, Requeued, Retryable, Row, history, Rests,
              Queues, Effect
<1>7. CASE UNCHANGED vars
  BY <1>7 DEF vars, Rests, Effect
<1> QED
  BY <1>1, <1>2, <1>3, <1>4, <1>5, <1>6, <1>7 DEF Next

(***************************************************************************)
(* The invariant is inductive                                              *)
(***************************************************************************)
LEMMA Typed ==
    ASSUME TypeOK
    PROVE  /\ delivery.status \in Statuses
           /\ delivery.attemptCount \in 0..MaxAttempts
           /\ delivery.dueAge \in Int
           /\ delivery.claimAge \in 0..MaxAge \cup {-1}
           /\ \A w \in Workers : /\ slot[w].pc \in Points
                                 /\ slot[w].lag \in 0..MaxLag
                                 /\ slot[w].attempt \in 0..MaxAttempts
           /\ MaxAttempts \in Nat \ {0} /\ Lease \in Nat /\ MaxLag \in Nat
           /\ MaxAge = MaxLag + Lease + 1 /\ None = -1
  BY NotificationDispatchAssumption
  DEF TypeOK, Deliveries, Slots, MaxAge, None

LEMMA TypedNext ==
    ASSUME TypeOK'
    PROVE  /\ delivery'.dueAge \in Int
           /\ delivery'.claimAge \in Int
           /\ \A w \in Workers : slot'[w].lag \in Nat
  BY NotificationDispatchAssumption
  DEF TypeOK, Deliveries, Slots, MaxAge, None

LEMMA InitInv == Init => IInv
  BY NotificationDispatchAssumption
  DEF Init, IInv, TypeOK, Deliveries, Statuses, Slots, Points, Row, Idle,
      SlotAt, None, MaxAge, RowInv, Queued, BehindInv, InstantInv, HolderInv,
      ChargeInv, Past, Claimed, Verified, At

LEMMA RowStep ==
    ASSUME IInv, TypeOK', Effect PROVE RowInv'
<1>a. TypeOK /\ RowInv
  BY DEF IInv
<1>1. CASE Rests \/ Queues \/ Ages
  BY <1>a, <1>1, Typed DEF Rests, Queues, Ages, RowInv, Queued
<1>2. ASSUME NEW w \in Workers, Moves(w) \/ Confirms(w) \/ Mails(w)
      PROVE  RowInv'
  BY <1>a, <1>2 DEF Moves, Confirms, Mails, RowInv, Queued
<1>3. ASSUME NEW w \in Workers, Closes(w) PROVE RowInv'
  <2>1. delivery'.status = "retry_scheduled"
          => delivery.attemptCount < MaxAttempts
    <3>1. ASSUME delivery'.status = "retry_scheduled"
          PROVE  /\ Past(w) /\ Owned(w)
                 /\ slot[w].pc \in Verified
                 /\ slot[w].attempt < MaxAttempts
      BY <1>3, <3>1 DEF Closes
    <3> QED
      BY <3>1 DEF IInv, HolderInv
  <2> QED
    BY <1>a, <1>3, <2>1 DEF Closes, RowInv, Queued
<1>4. ASSUME NEW w \in Workers, Claims(w) PROVE RowInv'
  BY <1>a, <1>4, Typed DEF Claims, RowInv, Queued
<1> QED
  BY <1>1, <1>2, <1>3, <1>4 DEF Effect

(* A slot that is past its claim stays behind the row, whatever the others *)
(* do to it.                                                               *)
LEMMA BehindStep ==
    ASSUME IInv, TypeOK', Effect PROVE BehindInv'
<1>a. TypeOK /\ RowInv /\ BehindInv /\ InstantInv
  BY DEF IInv
<1>1. CASE Rests
  BY <1>a, <1>1 DEF Rests, BehindInv, Behind, Past, Queued
<1>2. CASE Queues
  BY <1>a, <1>2, Typed DEF Queues, BehindInv, Behind, Past, Queued
<1>3. CASE Ages
  <2> SUFFICES ASSUME NEW w \in Workers, Past(w)' PROVE Behind(w)'
    BY DEF BehindInv
  <2>1. Past(w) /\ Behind(w) /\ slot'[w].lag = slot[w].lag + 1
    BY <1>a, <1>3 DEF Ages, Past, BehindInv
  <2> QED
    BY <1>a, <1>3, <2>1, Typed, TypedNext DEF Ages, Behind, Queued
<1>4. ASSUME NEW w \in Workers, Moves(w) \/ Confirms(w) \/ Mails(w)
      PROVE  BehindInv'
  <2> SUFFICES ASSUME NEW v \in Workers, Past(v)' PROVE Behind(v)'
    BY DEF BehindInv
  <2>1. Past(v) /\ slot'[v].lag = slot[v].lag /\ UNCHANGED delivery
    BY <1>4 DEF Moves, Confirms, Mails, Others, Past, Claimed, Verified, At
  <2> QED
    BY <1>a, <2>1 DEF BehindInv, Behind, Queued
<1>5. ASSUME NEW w \in Workers, Closes(w) PROVE BehindInv'
  <2> SUFFICES ASSUME NEW v \in Workers, Past(v)' PROVE Behind(v)'
    BY DEF BehindInv
  <2>1. v # w /\ Past(v) /\ slot'[v] = slot[v] /\ Behind(v)
    BY <1>a, <1>5 DEF Closes, Others, Past, BehindInv
  <2>2. slot[w].lag < slot[v].lag
    <3>1. CASE Past(w) /\ Owned(w)
      BY <1>a, <2>1, <3>1, Typed DEF Behind, Owned, InstantInv
    <3>2. CASE delivery.claimAge > slot[w].lag
      BY <1>a, <2>1, <3>2, Typed DEF Behind
    <3> QED
      BY <1>5, <3>1, <3>2 DEF Closes
  <2> QED
    BY <1>a, <1>5, <2>1, <2>2, Typed, TypedNext DEF Closes, Behind, Queued
<1>6. ASSUME NEW w \in Workers, Claims(w) PROVE BehindInv'
  <2> SUFFICES ASSUME NEW v \in Workers, Past(v)' PROVE Behind(v)'
    BY DEF BehindInv
  <2>1. CASE v = w
    BY <1>a, <1>6, <2>1, Typed DEF Claims, Behind, Queued
  <2>2. CASE v # w
    <3>1. Past(v) /\ slot'[v] = slot[v] /\ Behind(v)
      BY <1>a, <1>6, <2>2 DEF Claims, Others, Past, BehindInv
    <3>2. slot[w].lag < slot[v].lag
      BY <1>a, <1>6, <3>1, Typed
      DEF Claims, Claimable, DueSet, LeaseFree, Behind, Queued, RowInv
    <3> QED
      BY <1>a, <1>6, <3>1, <3>2, Typed DEF Claims, Behind, Queued
  <2> QED
    BY <2>1, <2>2
<1> QED
  BY <1>1, <1>2, <1>3, <1>4, <1>5, <1>6 DEF Effect

(* The claim that a slot wins is of an instant younger than any that has   *)
(* claimed before.                                                         *)
LEMMA YoungestClaims ==
    ASSUME IInv, NEW w \in Workers, Claims(w),
           NEW v \in Workers, v # w, Past(v)
    PROVE  slot[w].lag < slot[v].lag
<1>1. Behind(v)
  BY DEF IInv, BehindInv
<1> QED
  BY <1>1, Typed
  DEF IInv, Claims, Claimable, DueSet, LeaseFree, Behind, Queued, RowInv

LEMMA InstantStep ==
    ASSUME IInv, TypeOK', Effect PROVE InstantInv'
<1>a. TypeOK /\ InstantInv
  BY DEF IInv
<1>1. CASE Rests \/ Queues
  BY <1>a, <1>1 DEF Rests, Queues, InstantInv, Past
<1>2. CASE Ages
  BY <1>a, <1>2, Typed DEF Ages, InstantInv, Past
<1>3. ASSUME NEW w \in Workers,
             Moves(w) \/ Confirms(w) \/ Mails(w) \/ Closes(w)
      PROVE  InstantInv'
  <2>1. \A v \in Workers : Past(v)' => Past(v) /\ slot'[v].lag = slot[v].lag
    BY <1>3 DEF Moves, Confirms, Mails, Closes, Others, Past, Claimed,
                Verified, At
  <2> QED
    BY <1>a, <2>1 DEF InstantInv
<1>4. ASSUME NEW w \in Workers, Claims(w) PROVE InstantInv'
  <2>1. \A v \in Workers : v # w /\ Past(v)' =>
          /\ Past(v) /\ slot'[v].lag = slot[v].lag
          /\ slot[w].lag < slot[v].lag
    BY <1>4, YoungestClaims DEF Claims, Others, Past
  <2>2. slot'[w].lag = slot[w].lag
    BY <1>4 DEF Claims
  <2> QED
    BY <1>a, <2>1, <2>2, Typed DEF InstantInv
<1> QED
  BY <1>1, <1>2, <1>3, <1>4 DEF Effect

LEMMA HolderStep ==
    ASSUME IInv, TypeOK', Effect PROVE HolderInv'
<1>a. TypeOK /\ BehindInv /\ HolderInv
  BY DEF IInv
<1>1. CASE Rests
  BY <1>a, <1>1 DEF Rests, HolderInv, Past, Owned
<1>2. CASE Queues
  BY <1>a, <1>2, Typed DEF Queues, HolderInv, Past, Owned
<1>3. CASE Ages
  <2> SUFFICES ASSUME NEW w \in Workers, Past(w)', Owned(w)'
               PROVE  /\ claimer' = {w}
                      /\ slot'[w].pc \in Verified =>
                           slot'[w].attempt = delivery'.attemptCount
    BY DEF HolderInv
  <2>1. Past(w) /\ Behind(w) /\ slot'[w].lag = slot[w].lag + 1
    BY <1>a, <1>3 DEF Ages, Past, BehindInv
  <2>2. Owned(w)
    BY <1>a, <1>3, <2>1, Typed DEF Ages, Behind, Owned
  <2> QED
    BY <1>a, <1>3, <2>1, <2>2 DEF Ages, HolderInv
<1>4. ASSUME NEW w \in Workers, Moves(w) \/ Confirms(w) \/ Mails(w)
      PROVE  HolderInv'
  BY <1>a, <1>4
  DEF Moves, Confirms, Mails, Others, HolderInv, Past, Owned, Claimed,
      Verified, At
<1>5. ASSUME NEW w \in Workers, Closes(w) PROVE HolderInv'
  <2>1. \A v \in Workers : Past(v)' => ~Owned(v)'
    BY <1>5, Typed, TypedNext DEF Closes, Owned, IInv
  <2> QED
    BY <2>1 DEF HolderInv
<1>6. ASSUME NEW w \in Workers, Claims(w) PROVE HolderInv'
  <2>1. \A v \in Workers : v # w /\ Past(v)' => ~Owned(v)'
    <3> SUFFICES ASSUME NEW v \in Workers, v # w, Past(v)' PROVE ~Owned(v)'
      OBVIOUS
    <3>1. Past(v) /\ slot'[v] = slot[v]
      BY <1>6 DEF Claims, Others, Past
    <3>2. slot[w].lag < slot[v].lag
      BY <1>6, <3>1, YoungestClaims
    <3> QED
      BY <1>a, <1>6, <3>1, <3>2, Typed DEF Claims, Owned
  <2>2. slot'[w].pc \notin Verified /\ claimer' = {w}
    BY <1>6 DEF Claims, Verified
  <2> QED
    BY <2>1, <2>2 DEF HolderInv
<1> QED
  BY <1>1, <1>2, <1>3, <1>4, <1>5, <1>6 DEF Effect

LEMMA ChargeStep ==
    ASSUME IInv, TypeOK', Effect PROVE ChargeInv'
<1>a. TypeOK /\ ChargeInv
  BY DEF IInv
<1>1. CASE Rests \/ Queues
  <2>1. UNCHANGED <<slot, mailed>>
        /\ delivery'.attemptCount = delivery.attemptCount
    BY <1>1 DEF Rests, Queues
  <2>2. \A w \in Workers : Past(w) /\ Owned(w)' => Owned(w)
    BY <1>a, <1>1, <2>1, Typed DEF Rests, Queues, Owned
  <2> QED
    BY <1>a, <2>1, <2>2 DEF ChargeInv, At, Past, Claimed
<1>2. CASE Ages
  <2>1. \A w \in Workers : Past(w) /\ Owned(w)' => Owned(w)
    BY <1>2, Typed DEF IInv, BehindInv, Behind, Ages, Owned
  <2> QED
    BY <1>a, <1>2, <2>1 DEF Ages, ChargeInv, At, Past, Claimed
<1>3. ASSUME NEW w \in Workers, Moves(w) PROVE ChargeInv'
  BY <1>a, <1>3
  DEF Moves, Others, ChargeInv, At, Owned, Claimed, Verified
<1>4. ASSUME NEW w \in Workers, Confirms(w) PROVE ChargeInv'
  <2>1. /\ delivery.attemptCount \notin mailed
        /\ \A v \in Workers : slot[v].pc \in Verified =>
             slot[v].attempt # delivery.attemptCount
        /\ UNCHANGED <<delivery, mailed>>
    BY <1>a, <1>4 DEF Confirms, Holds, ChargeInv
  <2>2. delivery.attemptCount \in 1..delivery.attemptCount
    <3>1. delivery.attemptCount # 0
      BY <1>4 DEF IInv, RowInv, Confirms, Holds
    <3> QED
      BY <1>a, <3>1, Typed
  <2>3. \A v \in Workers : v # w => ~(At(v, "verify") /\ Owned(v))
    BY <1>4, Typed DEF IInv, InstantInv, Confirms, Holds, Owned, Past, Claimed, At
  <2>4. \A v \in Workers \ {w} : slot'[v] = slot[v]
    BY <1>4 DEF Confirms, Others
  <2>5. /\ slot'[w].pc = "send"
        /\ slot'[w].attempt = delivery.attemptCount
    BY <1>4 DEF Confirms
  <2> QED
    BY <1>a, <2>1, <2>2, <2>3, <2>4, <2>5
    DEF ChargeInv, At, Owned, Verified
<1>5. ASSUME NEW w \in Workers, Mails(w) PROVE ChargeInv'
  <2>1. /\ slot[w].pc \in Verified
        /\ slot[w].attempt \in 1..delivery.attemptCount
    BY <1>a, <1>5 DEF Mails, ChargeInv, At, Verified
  <2>2. \A v \in Workers \ {w} : slot[v].pc \in Verified =>
          slot[v].attempt # slot[w].attempt
    BY <1>a, <2>1 DEF ChargeInv
  <2>3. \A v \in Workers : At(v, "verify") /\ Owned(v) =>
          delivery.attemptCount # slot[w].attempt
    BY <1>a, <2>1 DEF ChargeInv
  <2>4. \A v \in Workers :
          /\ slot'[v].attempt = slot[v].attempt
          /\ slot'[v].lag = slot[v].lag
          /\ slot'[v].pc \in Verified <=> slot[v].pc \in Verified
          /\ slot'[v].pc = "verify" <=> slot[v].pc = "verify"
          /\ slot'[v].pc = "send" => v # w /\ slot[v].pc = "send"
    BY <1>5 DEF Mails, Others, At, Verified
  <2>5. mailed' = mailed \cup {slot[w].attempt} /\ delivery' = delivery
    BY <1>5 DEF Mails
  <2>6. mailed' \subseteq 1..delivery'.attemptCount
    BY <1>a, <2>1, <2>5 DEF ChargeInv
  <2>7. \A v \in Workers : slot'[v].pc \in Verified =>
          slot'[v].attempt \in 1..delivery'.attemptCount
    BY <1>a, <2>4, <2>5 DEF ChargeInv
  <2>8. \A v \in Workers : slot'[v].pc = "send" => slot'[v].attempt \notin mailed'
    BY <1>a, <2>2, <2>4, <2>5 DEF ChargeInv, At, Verified
  <2>9. \A v \in Workers : slot'[v].pc = "verify" /\ Owned(v)' =>
          /\ delivery'.attemptCount \notin mailed'
          /\ \A u \in Workers : slot'[u].pc \in Verified =>
               slot'[u].attempt # delivery'.attemptCount
    BY <1>a, <2>3, <2>4, <2>5 DEF ChargeInv, At, Owned
  <2>10. \A u, v \in Workers :
           slot'[u].pc \in Verified /\ slot'[v].pc \in Verified /\ u # v
             => slot'[u].attempt # slot'[v].attempt
    BY <1>a, <2>4 DEF ChargeInv
  <2> QED
    BY <2>6, <2>7, <2>8, <2>9, <2>10 DEF ChargeInv, At
<1>6. ASSUME NEW w \in Workers, Closes(w) PROVE ChargeInv'
  <2>1. \A v \in Workers : ~Owned(v)'
    BY <1>a, <1>6, Typed, TypedNext DEF Closes, Owned
  <2> QED
    BY <1>a, <1>6, <2>1
    DEF Closes, Others, ChargeInv, At, Claimed, Verified
<1>7. ASSUME NEW w \in Workers, Claims(w) PROVE ChargeInv'
  <2> DEFINE n == delivery.attemptCount
  <2>1. n \in Nat /\ delivery'.attemptCount = n + 1
    BY <1>a, <1>7, Typed DEF Claims
  <2>2. mailed \subseteq 1..(n + 1) /\ n + 1 \notin mailed /\ mailed' = mailed
    BY <1>a, <1>7, <2>1 DEF ChargeInv, Claims
  <2>3. \A v \in Workers : slot'[v].pc \in Verified =>
          /\ v # w
          /\ slot[v].pc \in Verified
          /\ slot'[v] = slot[v]
          /\ slot[v].attempt \in 1..(n + 1)
          /\ slot[v].attempt # n + 1
    BY <1>a, <1>7, <2>1 DEF Claims, Others, ChargeInv, Verified
  <2>4. \A v \in Workers : slot'[v].pc = "send" => slot[v].attempt \notin mailed
    BY <1>a, <1>7 DEF Claims, Others, ChargeInv, At
  <2> HIDE DEF n
  <2> QED
    BY <1>a, <2>1, <2>2, <2>3, <2>4 DEF ChargeInv, At, Verified
<1> QED
  BY <1>1, <1>2, <1>3, <1>4, <1>5, <1>6, <1>7 DEF Effect

LEMMA TypeStep ==
    ASSUME IInv, [Next]_vars PROVE TypeOK'
<1>a. TypeOK /\ ChargeInv
  BY DEF IInv
<1>b. Workers \in SUBSET Workers /\ \A w \in Workers : {w} \subseteq Workers
  OBVIOUS
<1>c. \A w \in Workers, s \in Slots : [slot EXCEPT ![w] = s] \in [Workers -> Slots]
  BY <1>a DEF TypeOK
<1>d. /\ \A point \in Points, lag \in 0..MaxLag, n \in 0..MaxAttempts :
            SlotAt(point, lag, n) \in Slots
      /\ Idle \in Slots
  BY Typed, <1>a DEF SlotAt, Idle, Slots, Points
<1>e. \A w \in Workers :
        /\ Leave(w) => slot' \in [Workers -> Slots]
        /\ \A point \in Points : Goto(w, point) => slot' \in [Workers -> Slots]
  BY <1>a, <1>c, <1>d, Typed DEF Leave, Goto
<1>f. \A status \in Statuses, n \in 0..MaxAttempts, due \in Int,
         age \in 0..MaxAge \cup {None} : Row(status, n, due, age) \in Deliveries
  BY DEF Row, Deliveries
<1>g. \A status \in Statuses : Closed(status) \in Deliveries
  BY <1>a, <1>f, Typed DEF Closed
<1>1. CASE Tick
  <2>1. slot' \in [Workers -> Slots]
    <3>1. ASSUME NEW w \in Workers
          PROVE  slot[w] \in Slots
                 /\ SlotAt(slot[w].pc, slot[w].lag + 1, slot[w].attempt) \in Slots
      <4>1. slot[w].lag + 1 \in 0..MaxLag
        BY <1>a, <1>1, Typed DEF Tick
      <4> QED
        BY <1>a, <1>d, <4>1, Typed DEF TypeOK
    <3> QED
      BY <1>1, <3>1 DEF Tick
  <2>2. /\ Older(delivery.dueAge, MaxLag) \in Int
        /\ delivery.claimAge # None =>
             Older(delivery.claimAge, MaxAge) \in 0..MaxAge
    BY <1>a, Typed DEF Older
  <2>3. delivery' \in Deliveries
    BY <1>a, <1>1, <1>f, <2>2, Typed DEF Tick
  <2> QED
    BY <1>a, <1>1, <2>1, <2>3 DEF Tick, TypeOK, history
<1>2. CASE CreateEmailDelivery
  <2>1. /\ "pending" \in Statuses /\ 0 \in 0..MaxAttempts /\ 0 \in Int
        /\ None \in 0..MaxAge \cup {None}
    BY <1>a, Typed DEF Statuses
  <2>2. Row("pending", 0, 0, None) \in Deliveries
    BY <1>f, <2>1
  <2>3. delivery' \in Deliveries
    BY <1>2, <2>2 DEF CreateEmailDelivery
  <2> QED
    BY <1>a, <1>2, <2>3 DEF CreateEmailDelivery, TypeOK, history
<1>3. ASSUME NEW w \in Workers, Dispatch(w) PROVE TypeOK'
  <2>1. CASE HandleTick(w)
    BY <1>a, <1>e, <2>1 DEF HandleTick, TypeOK, history, Points
  <2>2. CASE Scan(w)
    BY <1>a, <1>e, <2>2 DEF Scan, TypeOK, history, Points
  <2>3. CASE Exhaust(w)
    <3>1. delivery' \in Deliveries
      BY <1>a, <1>g, <2>3 DEF Exhaust, TypeOK, Statuses
    <3> QED
      BY <1>a, <1>e, <2>3, <3>1 DEF Exhaust, TypeOK, history, Points
  <2>4. CASE Claim(w)
    <3>1. CASE Claimable(w)
      <4>1. delivery.attemptCount + 1 \in 0..MaxAttempts
        BY <1>a, <3>1, Typed DEF Claimable
      <4>2. slot[w].lag \in 0..MaxAge
        BY <1>a, Typed
      <4>3. Row("processing", delivery.attemptCount + 1, delivery.dueAge,
                slot[w].lag) \in Deliveries
        <5>1. /\ "processing" \in Statuses /\ delivery.dueAge \in Int
              /\ slot[w].lag \in 0..MaxAge \cup {None}
          BY <1>a, <4>2, Typed DEF Statuses
        <5> QED
          BY <1>f, <4>1, <5>1
      <4>5. delivery' \in Deliveries
        BY <2>4, <3>1, <4>3 DEF Claim
      <4>4. takeovers' \in Nat
        BY <1>a, <2>4, <3>1 DEF Claim, TypeOK
      <4> QED
        BY <1>a, <1>e, <2>4, <3>1, <4>4, <4>5 DEF Claim, TypeOK, Points
    <3>2. CASE ~Claimable(w)
      BY <1>a, <1>e, <2>4, <3>2 DEF Claim, TypeOK
    <3> QED
      BY <3>1, <3>2
  <2>5. CASE Verify(w)
    <3>1. SlotAt("send", slot[w].lag, delivery.attemptCount) \in Slots
      BY <1>a, <1>d, Typed DEF Points
    <3>2. slot' \in [Workers -> Slots]
      BY <1>c, <1>e, <2>5, <3>1 DEF Verify
    <3> QED
      BY <1>a, <2>5, <3>2 DEF Verify, TypeOK, history
  <2>6. CASE Undeliverable(w)
    BY <1>a, <1>e, <2>6 DEF Undeliverable, TypeOK, history, Points
  <2>7. CASE SendEmail(w)
    <3>1. slot[w].attempt \in 1..MaxAttempts
      BY <1>a, <2>7, Typed DEF SendEmail, ChargeInv, At, Verified
    <3>2. slot' \in [Workers -> Slots]
      BY <1>e, <2>7 DEF SendEmail, Points
    <3>3. accepted' \in {accepted, accepted \cup {slot[w].attempt}}
      BY <2>7 DEF SendEmail
    <3> QED
      BY <1>a, <2>7, <3>1, <3>2, <3>3 DEF SendEmail, TypeOK
  <2>8. ASSUME NEW row \in Deliveries, Finalize(w, row) PROVE TypeOK'
    BY <1>a, <1>e, <2>8 DEF Finalize, TypeOK, history
  <2>9. CASE RecordSent(w)
    BY <1>g, <2>8, <2>9 DEF RecordSent, Statuses
  <2>10. CASE MarkDeadLetter(w)
    BY <1>g, <2>8, <2>10 DEF MarkDeadLetter, Statuses
  <2>11. CASE ScheduleRetryOrDeadLetter(w)
    <3>1. CASE slot[w].attempt < MaxAttempts
      <4> DEFINE due == slot[w].lag - Backoff[slot[w].attempt]
      <4>1. slot[w].attempt \in 1..(MaxAttempts - 1)
        BY <1>a, <2>11, <3>1, Typed
        DEF ScheduleRetryOrDeadLetter, ChargeInv, At, Verified
      <4>2. Backoff[slot[w].attempt] \in Nat
        BY <4>1, NotificationDispatchAssumption
      <4>3. due \in Int
        BY <1>a, <4>2, Typed
      <4>4. Finalize(w, Row("retry_scheduled", delivery.attemptCount, due, None))
        BY <2>11, <3>1 DEF ScheduleRetryOrDeadLetter
      <4> HIDE DEF due
      <4>5. Row("retry_scheduled", delivery.attemptCount, due, None) \in Deliveries
        BY <1>a, <1>f, <4>3, Typed DEF Statuses
      <4> QED
        BY <2>8, <4>4, <4>5
    <3>2. CASE ~(slot[w].attempt < MaxAttempts)
      BY <1>g, <2>8, <2>11, <3>2 DEF ScheduleRetryOrDeadLetter, Statuses
    <3> QED
      BY <3>1, <3>2
  <2> QED
    BY <1>3, <2>1, <2>2, <2>3, <2>4, <2>5, <2>6, <2>7, <2>9, <2>10, <2>11
    DEF Dispatch
<1>4. ASSUME NEW w \in Workers, RecordThrows(w) \/ Lose(w) PROVE TypeOK'
  <2>1. faults' \in 0..MaxFaults
    BY <1>a, <1>4, NotificationDispatchAssumption
    DEF RecordThrows, Lose, TypeOK
  <2> QED
    BY <1>a, <1>e, <1>4, <2>1
    DEF RecordThrows, Lose, TypeOK, history, Points
<1>5. ASSUME NEW r \in Requests, ReadRetry(r) \/ Retry(r) PROVE TypeOK'
  <2>1. Requeued \in Deliveries
    <3>1. /\ "pending" \in Statuses /\ 0 \in Int
          /\ delivery.attemptCount \in 0..MaxAttempts
          /\ None \in 0..MaxAge \cup {None}
      BY <1>a, Typed DEF Statuses
    <3>2. Row("pending", delivery.attemptCount, 0, None) \in Deliveries
      BY <1>f, <3>1
    <3> QED
      BY <1>a, <3>2 DEF Requeued, TypeOK
  <2> QED
    BY <1>a, <1>5, <2>1 DEF ReadRetry, Retry, TypeOK, history
<1>6. CASE UNCHANGED vars
  BY <1>a, <1>6 DEF vars, TypeOK
<1> QED
  BY <1>1, <1>2, <1>3, <1>4, <1>5, <1>6 DEF Next

LEMMA InvStep ==
    IInv /\ [Next]_vars => IInv'
  BY EveryStepHasItsEffect, TypeStep, RowStep, BehindStep, InstantStep,
     HolderStep, ChargeStep
  DEF IInv

LEMMA Invariance ==
    Spec => []IInv
  BY InitInv, InvStep, PTL DEF Spec

(***************************************************************************)
(* Theorems                                                                *)
(***************************************************************************)
(* Every variable keeps its type: in particular no delivery is ever        *)
(* charged with more than MAX_NOTIFICATION_ATTEMPTS.                       *)
THEOREM TypeCorrect ==
    Spec => []TypeOK
<1>1. IInv => TypeOK
  BY DEF IInv
<1> QED
  BY <1>1, Invariance, PTL

(* Every mail spends an attempt of its own, charged before it leaves,      *)
(* however many slots, instances, losses and retries by hand there are.    *)
THEOREM MailsAreCharged ==
    Spec => []EveryMailIsCharged
<1>1. IInv => EveryMailIsCharged
  BY DEF IInv, ChargeInv, EveryMailIsCharged, At, Verified
<1> QED
  BY <1>1, Invariance, PTL

(* An outcome is recorded by the slot that claimed last, although the      *)
(* claim carries an instant instead of a token.                            *)
THEOREM HolderRecords ==
    Spec => OutcomeByHolder
<1> DEFINE Recorded ==
      \A w \in Workers :
        /\ slot[w].pc \in {"record", "retry", "bury"}
        /\ slot'[w].pc = "idle"
        /\ delivery'.status # delivery.status
        => claimer = {w}
<1>1. IInv /\ [Next]_vars => [Recorded]_vars
  <2> SUFFICES ASSUME IInv, [Next]_vars, NEW w \in Workers,
                      slot[w].pc \in {"record", "retry", "bury"},
                      slot'[w].pc = "idle",
                      delivery'.status # delivery.status
               PROVE  claimer = {w}
    OBVIOUS
  <2>1. PICK v \in Workers : Closes(v) \/ Claims(v)
    BY EveryStepHasItsEffect
    DEF Effect, Rests, Queues, Ages, Moves, Confirms, Mails
  <2>2. v = w
    BY <2>1 DEF Closes, Claims, Others
  <2>3. Past(w) /\ Owned(w)
    BY <2>1, <2>2 DEF Closes, Claims, Past, Claimed, Verified
  <2> QED
    BY <2>3 DEF IInv, HolderInv
<1> QED
  BY <1>1, Invariance, PTL DEF Spec, OutcomeByHolder

(* The dispatcher keeps Delivery's promise: attempts are charged when they *)
(* start and bounded over the whole life of the row, a sent delivery is    *)
(* final, and a dead letter comes back within its budget only.             *)
THEOREM DeliveryRefinement ==
    Spec => ImplementsDelivery
<1>1. Init => Outbox!Init
  BY DEF Init, Row, Outbox!Init
<1>2. IInv /\ [Next]_vars => [Outbox!Next]_<<delivery.status, delivery.attemptCount>>
  <2> SUFFICES ASSUME IInv, [Next]_vars
               PROVE  \/ Outbox!Next
                      \/ UNCHANGED <<delivery.status, delivery.attemptCount>>
    OBVIOUS
  <2>1. Effect
    BY EveryStepHasItsEffect
  <2>2. CASE Rests \/ Ages
    BY <2>2 DEF Rests, Ages
  <2>3. CASE Queues
    BY <2>3 DEF Queues, Outbox!Queue, Outbox!Requeue, Outbox!Next
  <2>4. ASSUME NEW w \in Workers, Moves(w) \/ Confirms(w) \/ Mails(w)
        PROVE  UNCHANGED <<delivery.status, delivery.attemptCount>>
    BY <2>4 DEF Moves, Confirms, Mails
  <2>5. ASSUME NEW w \in Workers, Closes(w) PROVE Outbox!Conclude
    <3>1. delivery'.status = "retry_scheduled" =>
            delivery.attemptCount < MaxAttempts
      <4>1. CASE Past(w) /\ Owned(w) /\ slot[w].pc \in Verified
        BY <2>5, <4>1 DEF IInv, HolderInv, Closes
      <4>2. CASE delivery'.status = "dead_letter"
        BY <4>2
      <4> QED
        BY <2>5, <4>1, <4>2 DEF Closes
    <3> QED
      BY <2>5, <3>1 DEF Closes, Outbox!Conclude
  <2>6. ASSUME NEW w \in Workers, Claims(w) PROVE Outbox!Attempt
    BY <2>6 DEF Claims, Claimable, DueSet, Outbox!Attempt
  <2> QED
    BY <2>1, <2>2, <2>3, <2>4, <2>5, <2>6 DEF Effect, Outbox!Next
<1> QED
  BY <1>1, <1>2, Invariance, PTL DEF Spec, ImplementsDelivery, Outbox!Spec

(***************************************************************************)
(* Duplicates                                                              *)
(***************************************************************************)
(* The slots that may still have a mail accepted, or give the delivery     *)
(* back, and whether the row itself may still be claimed afresh.           *)
Mailing == {w \in Workers : slot[w].pc \in {"verify", "send", "retry", "bury"}}

Chances ==
    IF \/ delivery.status \in {"none", "pending", "retry_scheduled"}
       \/ delivery.status = "dead_letter" /\ delivery.attemptCount < MaxAttempts
    THEN 1 ELSE 0

(* Mails accepted and mails to come never exceed what was paid for.        *)
DuplicateInv ==
    /\ IsFiniteSet(Mailing)
    /\ Cardinality(accepted) + Cardinality(Mailing) + Chances
          <= 1 + takeovers + faults

LEMMA AcceptedIsFinite ==
    ASSUME TypeOK
    PROVE  /\ IsFiniteSet(accepted) /\ Cardinality(accepted) \in Nat
           /\ \A n : Cardinality(accepted \cup {n}) <= Cardinality(accepted) + 1
<1>1. IsFiniteSet(1..MaxAttempts) /\ accepted \subseteq 1..MaxAttempts
  BY FS_Interval, NotificationDispatchAssumption DEF TypeOK
<1>2. IsFiniteSet(accepted)
  BY <1>1, FS_Subset
<1> QED
  BY <1>2, FS_AddElement, FS_CardinalityType

(* What the step of one slot does to the number of slots that mail.        *)
LEMMA OneMailing ==
    ASSUME TypeOK, IsFiniteSet(Mailing), NEW w \in Workers, Others(w)
    PROVE  /\ IsFiniteSet(Mailing')
           /\ Cardinality(Mailing) \in Nat /\ Cardinality(Mailing') \in Nat
           /\ Cardinality(Mailing') <= Cardinality(Mailing) + 1
           /\ w \in Mailing => Cardinality(Mailing') <= Cardinality(Mailing)
           /\ w \notin Mailing' => Cardinality(Mailing') <= Cardinality(Mailing)
           /\ w \in Mailing /\ w \notin Mailing' =>
                Cardinality(Mailing') = Cardinality(Mailing) - 1
<1>1. Cardinality(Mailing) \in Nat
  BY FS_CardinalityType
<1>2. \A v \in Workers \ {w} : v \in Mailing' <=> v \in Mailing
  BY DEF Others, Mailing
<1>3. Mailing \subseteq Workers /\ Mailing' \subseteq Workers
  BY DEF Mailing
<1>4. \/ Mailing' = Mailing
      \/ w \notin Mailing /\ w \in Mailing' /\ Mailing' = Mailing \cup {w}
      \/ w \in Mailing /\ w \notin Mailing' /\ Mailing' = Mailing \ {w}
  BY <1>2, <1>3
<1>5. CASE Mailing' = Mailing
  BY <1>1, <1>5
<1>6. CASE w \notin Mailing /\ w \in Mailing' /\ Mailing' = Mailing \cup {w}
  BY <1>1, <1>6, FS_AddElement
<1>7. CASE w \in Mailing /\ w \notin Mailing' /\ Mailing' = Mailing \ {w}
  <2>1. IsFiniteSet(Mailing') /\ Cardinality(Mailing') = Cardinality(Mailing) - 1
    BY <1>7, FS_RemoveElement
  <2>2. Cardinality(Mailing') \in Nat
    BY <2>1, FS_CardinalityType
  <2> QED
    BY <1>1, <1>7, <2>1, <2>2
<1> QED
  BY <1>4, <1>5, <1>6, <1>7

LEMMA DuplicateStep ==
    ASSUME IInv, DuplicateInv, [Next]_vars PROVE DuplicateInv'
<1>a. /\ TypeOK /\ RowInv /\ IsFiniteSet(Mailing)
      /\ takeovers \in Nat /\ faults \in Nat
      /\ Chances \in 0..1 /\ Chances' \in 0..1
  BY NotificationDispatchAssumption DEF IInv, DuplicateInv, TypeOK, Chances
<1>b. /\ Cardinality(accepted) \in Nat
      /\ \A n : Cardinality(accepted \cup {n}) <= Cardinality(accepted) + 1
  BY <1>a, AcceptedIsFinite
<1>c. TypeOK' /\ Cardinality(accepted') \in Nat
  <2>1. TypeOK'
    BY TypeStep
  <2>2. IsFiniteSet(1..MaxAttempts)
    BY FS_Interval, NotificationDispatchAssumption
  <2>3. accepted' \subseteq 1..MaxAttempts
    BY <2>1 DEF TypeOK
  <2> QED
    BY <2>1, <2>2, <2>3, FS_Subset, FS_CardinalityType
<1>d. Cardinality(Mailing) \in Nat
  BY <1>a, FS_CardinalityType
<1>1. ASSUME Mailing' = Mailing, Chances' <= Chances,
             UNCHANGED <<accepted, takeovers, faults>>
      PROVE  DuplicateInv'
  BY <1>1, <1>a, <1>b, <1>d DEF DuplicateInv
<1>2. CASE Tick
  <2>1. \A w \in Workers : slot'[w].pc = slot[w].pc
    BY <1>2 DEF Tick, SlotAt
  <2>2. Mailing' = Mailing
    BY <2>1 DEF Mailing
  <2>3. Chances' = Chances
    BY <1>2 DEF Tick, Row, Chances
  <2> QED
    BY <1>1, <1>2, <1>a, <2>2, <2>3 DEF Tick, history
<1>3. CASE CreateEmailDelivery
  BY <1>1, <1>3, <1>a DEF CreateEmailDelivery, Row, Mailing, Chances, history
<1>4. ASSUME NEW r \in Requests, ReadRetry(r) \/ Retry(r) PROVE DuplicateInv'
  BY <1>1, <1>4, <1>a
  DEF ReadRetry, Retry, Requeued, Retryable, Row, Mailing, Chances, history
<1>5. ASSUME NEW w \in Workers, Dispatch(w) PROVE DuplicateInv'
  <2>1. ASSUME Others(w), w \notin Mailing', Chances' <= Chances,
               UNCHANGED <<accepted, takeovers, faults>>
        PROVE  DuplicateInv'
    BY <2>1, <1>a, <1>b, <1>d, OneMailing DEF DuplicateInv
  <2>2. CASE HandleTick(w)
    BY <1>a, <2>1, <2>2, ToGo DEF HandleTick, history, Mailing, Chances
  <2>3. CASE Scan(w)
    BY <1>a, <2>1, <2>3, ToGo, ToLeave DEF Scan, history, Mailing, Chances
  <2>4. CASE Exhaust(w)
    <3>1. Chances' <= Chances
      BY <1>a, <2>4, Typed DEF Exhaust, Exhausted, Closed, Row, Chances
    <3> QED
      BY <1>a, <2>1, <2>4, <3>1, ToGo DEF Exhaust, history, Mailing
  <2>5. CASE Claim(w)
    <3>1. CASE Claimable(w)
      <4>1. Others(w) /\ UNCHANGED <<accepted, faults>>
        BY <1>a, <2>5, <3>1, ToGo DEF Claim
      <4>2. /\ Chances' = 0
            /\ \/ Chances = 1 /\ takeovers' \in {takeovers, takeovers + 1}
               \/ takeovers' = takeovers + 1
        BY <1>a, <2>5, <3>1 DEF Claim, Claimable, DueSet, Row, Chances
      <4>3. /\ IsFiniteSet(Mailing') /\ Cardinality(Mailing') \in Nat
            /\ Cardinality(Mailing') <= Cardinality(Mailing) + 1
        BY <1>a, <4>1, OneMailing
      <4>4. Cardinality(accepted') = Cardinality(accepted) /\ faults' = faults
        BY <4>1
      <4>5. CASE takeovers' = takeovers + 1
        BY <1>a, <1>b, <1>d, <4>2, <4>3, <4>4, <4>5 DEF DuplicateInv
      <4>6. CASE Chances = 1 /\ takeovers' = takeovers
        BY <1>a, <1>b, <1>d, <4>2, <4>3, <4>4, <4>6 DEF DuplicateInv
      <4> QED
        BY <4>2, <4>5, <4>6
    <3>2. CASE ~Claimable(w)
      BY <1>a, <2>1, <2>5, <3>2, ToLeave DEF Claim, Mailing, Chances
    <3> QED
      BY <3>1, <3>2
  <2>6. CASE Verify(w)
    <3>1. CASE Holds(w)
      <4>1. \A v \in Workers : v \in Mailing' <=> v \in Mailing
        BY <1>a, <2>6, <3>1 DEF Verify, At, SlotAt, Mailing, TypeOK
      <4>2. Mailing' = Mailing
        BY <4>1 DEF Mailing
      <4> QED
        BY <1>1, <1>a, <2>6, <4>2 DEF Verify, Chances, history
    <3>2. CASE ~Holds(w)
      BY <1>a, <2>1, <2>6, <3>2, ToLeave DEF Verify, Mailing, Chances, history
    <3> QED
      BY <3>1, <3>2
  <2>7. ASSUME Others(w), w \in Mailing, UNCHANGED <<delivery, takeovers, faults>>,
               \/ UNCHANGED accepted
               \/ w \notin Mailing' /\ \E n : accepted' = accepted \cup {n}
        PROVE  DuplicateInv'
    <3>1. Chances' = Chances
      BY <2>7 DEF Chances
    <3> QED
      <4>1. /\ IsFiniteSet(Mailing') /\ Cardinality(Mailing') \in Nat
            /\ Cardinality(Mailing') <= Cardinality(Mailing)
            /\ w \notin Mailing' =>
                 Cardinality(Mailing') = Cardinality(Mailing) - 1
        BY <1>a, <2>7, OneMailing
      <4>2. \/ Cardinality(accepted') = Cardinality(accepted)
            \/ /\ w \notin Mailing'
               /\ Cardinality(accepted') <= Cardinality(accepted) + 1
        BY <1>b, <2>7
      <4>3. takeovers' = takeovers /\ faults' = faults
        BY <2>7
      <4> QED
        BY <1>a, <1>b, <1>c, <1>d, <3>1, <4>1, <4>2, <4>3 DEF DuplicateInv
  <2>8. CASE Undeliverable(w)
    BY <1>a, <2>7, <2>8, ToGo DEF Undeliverable, At, Mailing, history
  <2>9. CASE SendEmail(w)
    <3>1. Others(w) /\ w \in Mailing
      BY <1>a, <2>9, ToGo DEF SendEmail, At, Mailing
    <3>2. CASE UNCHANGED accepted
      BY <2>7, <2>9, <3>1, <3>2 DEF SendEmail
    <3>3. CASE Goto(w, "record") /\ accepted' = accepted \cup {slot[w].attempt}
      <4>1. w \notin Mailing'
        BY <1>a, <3>3, ToGo DEF Mailing
      <4> QED
        BY <2>7, <2>9, <3>1, <3>3, <4>1 DEF SendEmail
    <3> QED
      BY <2>9, <3>2, <3>3 DEF SendEmail
  <2>10. ASSUME NEW row, Finalize(w, row), w \in Mailing PROVE DuplicateInv'
    <3>1. /\ Others(w) /\ w \notin Mailing'
          /\ UNCHANGED <<accepted, takeovers, faults>>
      BY <1>a, <2>10, ToLeave DEF Finalize, Mailing, history
    <3> QED
      BY <1>a, <1>b, <1>d, <2>10, <3>1, OneMailing DEF DuplicateInv
  <2>11. CASE RecordSent(w)
    <3>1. /\ Others(w) /\ w \notin Mailing'
          /\ UNCHANGED <<accepted, takeovers, faults>>
      BY <1>a, <2>11, ToLeave DEF RecordSent, Finalize, Mailing, history
    <3>2. Chances' <= Chances
      BY <1>a, <2>11 DEF RecordSent, Finalize, Closed, Row, Chances
    <3> QED
      BY <2>1, <3>1, <3>2
  <2>12. CASE ScheduleRetryOrDeadLetter(w)
    BY <2>10, <2>12 DEF ScheduleRetryOrDeadLetter, At, Mailing
  <2>13. CASE MarkDeadLetter(w)
    BY <2>10, <2>13 DEF MarkDeadLetter, At, Mailing
  <2> QED
    BY <1>5, <2>2, <2>3, <2>4, <2>5, <2>6, <2>8, <2>9, <2>11, <2>12, <2>13
    DEF Dispatch
<1>6. ASSUME NEW w \in Workers, RecordThrows(w) \/ Lose(w) PROVE DuplicateInv'
  <2>1. /\ Others(w) /\ UNCHANGED <<delivery, accepted, takeovers>>
        /\ faults' = faults + 1
    BY <1>a, <1>6, ToGo, ToLeave DEF RecordThrows, Lose, history
  <2>2. Chances' = Chances
    BY <2>1 DEF Chances
  <2> QED
    BY <1>a, <1>b, <1>d, <2>1, <2>2, OneMailing DEF DuplicateInv
<1>7. CASE UNCHANGED vars
  BY <1>1, <1>7, <1>a DEF vars, Mailing, Chances
<1> QED
  BY <1>2, <1>3, <1>4, <1>5, <1>6, <1>7 DEF Next

LEMMA InitDuplicates ==
    Init => DuplicateInv
<1> SUFFICES ASSUME Init PROVE DuplicateInv
  OBVIOUS
<1>1. Mailing = {} /\ accepted = {} /\ Chances = 1 /\ takeovers = 0 /\ faults = 0
  BY DEF Init, Row, Idle, SlotAt, Mailing, Chances
<1> QED
  BY <1>1, FS_EmptySet DEF DuplicateInv

(* A mail is accepted twice only when a fault or a takeover paid for it:   *)
(* the mails accepted, the slots that may still mail and the chance that   *)
(* the row keeps never exceed one more than the faults and takeovers.      *)
THEOREM DuplicatesArePaidFor ==
    Spec => []NoNeedlessDuplicate
<1>1. IInv /\ DuplicateInv => NoNeedlessDuplicate
  <2> SUFFICES ASSUME IInv, DuplicateInv PROVE NoNeedlessDuplicate
    OBVIOUS
  <2>1. TypeOK /\ takeovers \in Nat /\ faults \in Nat /\ Chances \in 0..1
    BY NotificationDispatchAssumption DEF IInv, TypeOK, Chances
  <2>2. Cardinality(accepted) \in Nat /\ Cardinality(Mailing) \in Nat
    BY <2>1, AcceptedIsFinite, FS_CardinalityType DEF DuplicateInv
  <2> QED
    BY <2>1, <2>2 DEF DuplicateInv, NoNeedlessDuplicate
<1> QED
  BY <1>1, Invariance, InitDuplicates, DuplicateStep, PTL DEF Spec
=============================================================================
