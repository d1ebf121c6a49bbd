-------------------------- MODULE PeriodicJobsProofs --------------------------
(***************************************************************************)
(* Proofs about the batches of the periodic jobs: nobody waits forever     *)
(* behind what fails (RefreshBatch) or is blocked (SchedulerBatch), for    *)
(* any number of rows, any size of the batch, lease, back-off and periods. *)
(*                                                                         *)
(* Both arguments are accounts.  What a row has waited is paid for by the  *)
(* rows that were read before it: each tick of waiting fills a batch with  *)
(* some of them, and those then come after it.                             *)
(*                                                                         *)
(* The other two jobs keep their types: the schedule's are read from       *)
(* SchedulerProofs, those of a connection are proved here.                 *)
(***************************************************************************)
EXTENDS PeriodicJobs, FiniteSetTheorems, TLAPS

(* Each instance names the operator of its own FiniteSets.                 *)
LEMMA SameCardinality ==
    \A S : /\ Refresh!Cardinality(S) = Cardinality(S)
           /\ Batch!Cardinality(S) = Cardinality(S)
BY DEF Refresh!Cardinality, Batch!Cardinality, Cardinality

LEMMA ProductIsNat ==
    ASSUME NEW i \in Nat, NEW j \in Nat
    PROVE  i * j \in Nat /\ 0 * j = 0
OBVIOUS

LEMMA CountIn ==
    ASSUME NEW S, IsFiniteSet(S), NEW x \in S, NEW T \in SUBSET (S \ {x})
    PROVE  IsFiniteSet(T) /\ Cardinality(T) \in 0..(Cardinality(S) - 1)
<1>1. IsFiniteSet(S \ {x}) /\ Cardinality(S \ {x}) = Cardinality(S) - 1
  BY FS_RemoveElement
<1>2. IsFiniteSet(T) /\ Cardinality(T) <= Cardinality(S \ {x})
  BY <1>1, FS_Subset
<1>3. Cardinality(T) \in Nat /\ Cardinality(S) \in Nat
  BY <1>2, FS_CardinalityType
<1> QED
  BY <1>1, <1>2, <1>3

(***************************************************************************)
(* The refresh of the connections                                          *)
(***************************************************************************)

(* The connections that may be read before c.                              *)
InFront(c) == {d \in Refreshed \ {c} : Refresh!Before(d, c)}

(* The ticks c waited, in places of a batch, and the places before it.     *)
RefreshAccount(c) ==
    x5[c] * BatchSize + Cardinality(InFront(c))
      < Cardinality(Refreshed) + BatchSize * x6

RefreshInv ==
    Refresh!TypeOK /\ \A c \in Refreshed : RefreshAccount(c)

LEMMA InFrontBounded ==
    ASSUME NEW c \in Refreshed
    PROVE  /\ IsFiniteSet(InFront(c))
           /\ Cardinality(InFront(c)) \in 0..(Cardinality(Refreshed) - 1)
<1>1. InFront(c) \in SUBSET (Refreshed \ {c})
  BY DEF InFront
<1> QED
  BY <1>1, CountIn, PeriodicJobsAssumption

LEMMA InFrontBoundedNext ==
    ASSUME NEW c \in Refreshed
    PROVE  Cardinality(InFront(c)') \in 0..(Cardinality(Refreshed) - 1)
<1>1. InFront(c)' \in SUBSET (Refreshed \ {c})
  BY DEF InFront
<1> QED
  BY <1>1, CountIn, PeriodicJobsAssumption

LEMMA SizesOfConnections ==
    /\ Cardinality(Refreshed) \in Nat
    /\ BatchSize \in Nat \ {0} /\ Faulty \in Nat
    /\ \A c \in Refreshed : Cardinality(Refreshed) > 0
<1>1. Cardinality(Refreshed) \in Nat
  BY FS_CardinalityType, PeriodicJobsAssumption
<1>2. ASSUME NEW c \in Refreshed PROVE Cardinality(Refreshed) > 0
  BY <1>1, <1>2, FS_EmptySet, PeriodicJobsAssumption
<1> QED
  BY <1>1, <1>2, PeriodicJobsAssumption

(* Once a row has waited no time its account is balanced.                  *)
LEMMA RefreshAccountOpens ==
    ASSUME Refresh!TypeOK', NEW c \in Refreshed, x5'[c] = 0
    PROVE  RefreshAccount(c)'
<1>1. x6' \in Nat
  BY SizesOfConnections DEF Refresh!TypeOK
<1>2. Cardinality(InFront(c)') \in 0..(Cardinality(Refreshed) - 1)
  BY InFrontBoundedNext
<1>a. BatchSize \in Nat
  BY SizesOfConnections
<1>3. BatchSize * x6' \in Nat /\ 0 * BatchSize = 0
  BY <1>1, <1>a, ProductIsNat
<1>4. x5'[c] * BatchSize + Cardinality(InFront(c)')
        < Cardinality(Refreshed) + BatchSize * x6'
  BY <1>2, <1>3, SizesOfConnections
<1> QED
  BY <1>4 DEF RefreshAccount

(* What one step may do to an account that stays open.                     *)
LEMMA RefreshBalance ==
    ASSUME NEW w \in Nat, NEW n \in Nat, NEW d \in Nat, NEW size \in Nat,
           NEW b \in Nat \ {0}, NEW v \in Nat, NEW m \in Nat, NEW e \in Nat,
           w * b + n < size + b * d,
           \/ v = w /\ e = d /\ m <= n
           \/ v = w /\ e = d + 1 /\ m <= n + 1
           \/ v = w + 1 /\ e = d /\ m + b <= n
           \/ v = w + 1 /\ e = d + 1 /\ m <= n
    PROVE  v * b + m < size + b * e
<1>1. (w + 1) * b = w * b + b /\ b * (d + 1) = b * d + b
  OBVIOUS
<1>2. w * b \in Nat /\ b * d \in Nat
  OBVIOUS
<1> QED
  BY <1>1, <1>2

LEMMA RefreshAccountStays ==
    ASSUME Refresh!TypeOK, Refresh!TypeOK', NEW c \in Refreshed,
           RefreshAccount(c),
           LET n == Cardinality(InFront(c))
               m == Cardinality(InFront(c)')
           IN  \/ x5'[c] = x5[c] /\ x6' = x6 /\ m <= n
               \/ x5'[c] = x5[c] /\ x6' = x6 + 1 /\ m <= n + 1
               \/ x5'[c] = x5[c] + 1 /\ x6' = x6 /\ m + BatchSize <= n
               \/ x5'[c] = x5[c] + 1 /\ x6' = x6 + 1 /\ m <= n
    PROVE  RefreshAccount(c)'
<1>1. /\ x5[c] \in Nat /\ x5'[c] \in Nat /\ x6 \in Nat /\ x6' \in Nat
  BY SizesOfConnections DEF Refresh!TypeOK
<1>2. /\ Cardinality(InFront(c)) \in Nat /\ Cardinality(InFront(c)') \in Nat
  BY InFrontBounded, InFrontBoundedNext, SizesOfConnections
<1>3. x5[c] * BatchSize + Cardinality(InFront(c))
        < Cardinality(Refreshed) + BatchSize * x6
  BY DEF RefreshAccount
<1>4. x5'[c] * BatchSize + Cardinality(InFront(c)')
        < Cardinality(Refreshed) + BatchSize * x6'
  BY <1>1, <1>2, <1>3, RefreshBalance, SizesOfConnections
<1> QED
  BY <1>4 DEF RefreshAccount

LEMMA RefreshInit == Refresh!Init => RefreshInv
<1> SUFFICES ASSUME Refresh!Init PROVE RefreshInv
  OBVIOUS
<1>1. Refresh!TypeOK
  BY SizesOfConnections, PeriodicJobsAssumption
  DEF Refresh!Init, Refresh!TypeOK, Refresh!MaxAge, Refresh!Never,
      Refresh!Statuses
<1>2. ASSUME NEW c \in Refreshed PROVE RefreshAccount(c)
  <2>1. x5[c] = 0 /\ x6 = 0
    BY DEF Refresh!Init
  <2>2. Cardinality(InFront(c)) \in 0..(Cardinality(Refreshed) - 1)
    BY InFrontBounded
  <2> QED
    BY <2>1, <2>2, SizesOfConnections DEF RefreshAccount
<1> QED
  BY <1>1, <1>2 DEF RefreshInv

LEMMA OlderIsAge ==
    ASSUME NEW age \in 0..Refresh!Never, age # Refresh!Never
    PROVE  Refresh!Older(age) \in 0..Refresh!MaxAge
BY PeriodicJobsAssumption DEF Refresh!Older, Refresh!MaxAge, Refresh!Never

LEMMA AgesOfConnections ==
    /\ Refresh!MaxAge \in Nat /\ Refresh!Never = Refresh!MaxAge + 1
BY PeriodicJobsAssumption DEF Refresh!MaxAge, Refresh!Never

LEMMA RefreshTypeStep ==
    Refresh!TypeOK /\ [Refresh!Next]_(Refresh!vars) => Refresh!TypeOK'
<1> SUFFICES ASSUME Refresh!TypeOK, [Refresh!Next]_(Refresh!vars)
             PROVE  Refresh!TypeOK'
  OBVIOUS
<1>a. /\ x1 \in [Refreshed -> SUBSET Refreshed]
      /\ x2 \in [Refreshed -> 0..Refresh!MaxAge]
      /\ x3 \in [Refreshed -> 0..Refresh!Never]
      /\ x4 \in [Refreshed -> Refresh!Statuses]
      /\ x5 \in [Refreshed -> Nat]
      /\ x6 \in 0..Faulty
  BY DEF Refresh!TypeOK
<1>b. ASSUME NEW taken \in SUBSET Refreshed,
             NEW outcome \in [taken -> Refresh!Statuses],
             Refresh!Attempt(taken, outcome)
      PROVE  /\ x1' \in [Refreshed -> SUBSET Refreshed]
             /\ x4' \in [Refreshed -> Refresh!Statuses]
  BY <1>a, <1>b DEF Refresh!Attempt
<1>1. CASE Refresh!RefreshStaleLocations
  <2>1. PICK batch \in SUBSET Refreshed : \E taken \in SUBSET batch :
          /\ taken # batch => x6 < Faulty
          /\ \E outcome \in [taken -> Refresh!Statuses] :
               /\ Refresh!Attempt(taken, outcome)
               /\ x3' = [c \in Refreshed |->
                           IF c \in Refresh!Synced(taken, outcome) THEN 0
                           ELSE IF x3[c] = Refresh!Never THEN Refresh!Never
                           ELSE Refresh!Older(x3[c])]
          /\ x2' = [c \in Refreshed |->
                      IF c \in taken THEN 0 ELSE Refresh!Older(x2[c])]
          /\ x5' = [c \in Refreshed |->
                      IF c \in taken \/ ~Refresh!Due(c) THEN 0 ELSE x5[c] + 1]
          /\ x6' = IF taken = batch THEN x6 ELSE x6 + 1
    BY <1>1 DEF Refresh!RefreshStaleLocations
  <2>2. PICK taken \in SUBSET batch :
          /\ taken # batch => x6 < Faulty
          /\ \E outcome \in [taken -> Refresh!Statuses] :
               /\ Refresh!Attempt(taken, outcome)
               /\ x3' = [c \in Refreshed |->
                           IF c \in Refresh!Synced(taken, outcome) THEN 0
                           ELSE IF x3[c] = Refresh!Never THEN Refresh!Never
                           ELSE Refresh!Older(x3[c])]
          /\ x2' = [c \in Refreshed |->
                      IF c \in taken THEN 0 ELSE Refresh!Older(x2[c])]
          /\ x5' = [c \in Refreshed |->
                      IF c \in taken \/ ~Refresh!Due(c) THEN 0 ELSE x5[c] + 1]
          /\ x6' = IF taken = batch THEN x6 ELSE x6 + 1
    BY <2>1
  <2>3. PICK outcome \in [taken -> Refresh!Statuses] :
          /\ Refresh!Attempt(taken, outcome)
          /\ x3' = [c \in Refreshed |->
                      IF c \in Refresh!Synced(taken, outcome) THEN 0
                      ELSE IF x3[c] = Refresh!Never THEN Refresh!Never
                      ELSE Refresh!Older(x3[c])]
    BY <2>2
  <2>4. /\ x1' \in [Refreshed -> SUBSET Refreshed]
        /\ x4' \in [Refreshed -> Refresh!Statuses]
    BY <1>b, <2>3
  <2>5. x2' \in [Refreshed -> 0..Refresh!MaxAge]
    BY <1>a, <2>2, OlderIsAge, AgesOfConnections
  <2>6. x3' \in [Refreshed -> 0..Refresh!Never]
    BY <1>a, <2>3, OlderIsAge, AgesOfConnections
  <2>7. x5' \in [Refreshed -> Nat]
    BY <1>a, <2>2
  <2>8. x6' \in 0..Faulty
    BY <1>a, <2>2, SizesOfConnections
  <2> QED
    BY <2>4, <2>5, <2>6, <2>7, <2>8 DEF Refresh!TypeOK
<1>2. ASSUME NEW c \in Refreshed, Refresh!SyncLocations(c)
      PROVE  Refresh!TypeOK'
  <2>1. PICK outcome \in [{c} -> Refresh!Statuses] :
          /\ Refresh!Attempt({c}, outcome)
          /\ x3' = [d \in Refreshed |->
                      IF d \in Refresh!Synced({c}, outcome) THEN 0 ELSE x3[d]]
    BY <1>2 DEF Refresh!SyncLocations
  <2>2. /\ x1' \in [Refreshed -> SUBSET Refreshed]
        /\ x4' \in [Refreshed -> Refresh!Statuses]
    BY <1>b, <2>1
  <2>3. x3' \in [Refreshed -> 0..Refresh!Never]
    BY <1>a, <2>1, AgesOfConnections
  <2>4. /\ x2' \in [Refreshed -> 0..Refresh!MaxAge]
        /\ x5' \in [Refreshed -> Nat] /\ x6' \in 0..Faulty
    BY <1>a, <1>2, AgesOfConnections DEF Refresh!SyncLocations
  <2> QED
    BY <2>2, <2>3, <2>4 DEF Refresh!TypeOK
<1>3. ASSUME NEW c \in Refreshed, Refresh!Reconnect(c)
      PROVE  Refresh!TypeOK'
  <2>1. x1' \in [Refreshed -> SUBSET Refreshed]
    BY <1>a, <1>3 DEF Refresh!Reconnect
  <2>2. /\ x2' \in [Refreshed -> 0..Refresh!MaxAge]
        /\ x3' \in [Refreshed -> 0..Refresh!Never]
        /\ x5' \in [Refreshed -> Nat]
    BY <1>a, <1>3, AgesOfConnections DEF Refresh!Reconnect
  <2>3. x4' \in [Refreshed -> Refresh!Statuses] /\ x6' \in 0..Faulty
    BY <1>a, <1>3, SizesOfConnections DEF Refresh!Reconnect, Refresh!Statuses
  <2> QED
    BY <2>1, <2>2, <2>3 DEF Refresh!TypeOK
<1>4. CASE UNCHANGED Refresh!vars
  BY <1>a, <1>4 DEF Refresh!vars, Refresh!TypeOK
<1> QED
  BY <1>1, <1>2, <1>3, <1>4 DEF Refresh!Next

(* A due connection that is left out of a batch has a full batch in front. *)
LEMMA RefreshBatchIsFull ==
    ASSUME NEW batch \in SUBSET Refreshed, Refresh!IsBatch(batch),
           NEW c \in Refreshed \ batch, Refresh!Due(c)
    PROVE  /\ IsFiniteSet(batch) /\ Cardinality(batch) = BatchSize
           /\ batch \subseteq InFront(c)
<1>1. c \in Refresh!DueSet /\ batch \subseteq Refresh!DueSet
  BY DEF Refresh!DueSet, Refresh!IsBatch, Refresh!FirstOf
<1>2. IsFiniteSet(Refresh!DueSet) /\ IsFiniteSet(batch)
  BY FS_Subset, PeriodicJobsAssumption DEF Refresh!DueSet
<1>3. Cardinality(batch) # Cardinality(Refresh!DueSet)
  BY <1>1, <1>2, FS_Subset
<1>4. Cardinality(batch) = BatchSize
  BY <1>3, SameCardinality DEF Refresh!IsBatch
<1>5. batch \subseteq InFront(c)
  BY <1>1 DEF Refresh!IsBatch, Refresh!FirstOf, InFront
<1> QED
  BY <1>2, <1>4, <1>5

(* Attempts move connections behind those that were not attempted.         *)
LEMMA AttemptedAreBehind ==
    ASSUME NEW taken \in SUBSET Refreshed, NEW outcome,
           Refresh!Attempt(taken, outcome), NEW c \in Refreshed \ taken
    PROVE  InFront(c)' = InFront(c) \ taken
BY DEF Refresh!Attempt, Refresh!Before, InFront

LEMMA FewerInFront ==
    ASSUME NEW c \in Refreshed, NEW taken \in SUBSET InFront(c),
           InFront(c)' = InFront(c) \ taken
    PROVE  Cardinality(InFront(c)') + Cardinality(taken)
             = Cardinality(InFront(c))
<1>1. IsFiniteSet(InFront(c)) /\ Cardinality(InFront(c)) \in Nat
  BY InFrontBounded, SizesOfConnections
<1>2. InFront(c) \cap taken = taken
  OBVIOUS
<1>3. IsFiniteSet(taken) /\ Cardinality(taken) \in Nat
  BY <1>1, FS_Subset, FS_CardinalityType
<1>4. Cardinality(InFront(c) \ taken)
        = Cardinality(InFront(c)) - Cardinality(taken)
  BY <1>1, <1>2, FS_Difference
<1>5. Cardinality(InFront(c)') = Cardinality(InFront(c) \ taken)
  OBVIOUS
<1> QED
  BY <1>1, <1>3, <1>4, <1>5

LEMMA NotMoreInFront ==
    ASSUME NEW c \in Refreshed, InFront(c)' \subseteq InFront(c)
    PROVE  Cardinality(InFront(c)') <= Cardinality(InFront(c))
BY InFrontBounded, FS_Subset

LEMMA RefreshTickStep ==
    ASSUME RefreshInv, Refresh!TypeOK', Refresh!RefreshStaleLocations,
           NEW c \in Refreshed
    PROVE  RefreshAccount(c)'
<1>1. PICK batch \in SUBSET Refreshed : \E taken \in SUBSET batch :
        /\ Refresh!IsBatch(batch)
        /\ \E outcome : Refresh!Attempt(taken, outcome)
        /\ x5' = [d \in Refreshed |->
                    IF d \in taken \/ ~Refresh!Due(d) THEN 0 ELSE x5[d] + 1]
        /\ x6' = IF taken = batch THEN x6 ELSE x6 + 1
  BY DEF Refresh!RefreshStaleLocations
<1>2. PICK taken \in SUBSET batch :
        /\ Refresh!IsBatch(batch)
        /\ \E outcome : Refresh!Attempt(taken, outcome)
        /\ x5' = [d \in Refreshed |->
                    IF d \in taken \/ ~Refresh!Due(d) THEN 0 ELSE x5[d] + 1]
        /\ x6' = IF taken = batch THEN x6 ELSE x6 + 1
  BY <1>1
<1>3. CASE c \in taken \/ ~Refresh!Due(c)
  <2>1. x5'[c] = 0
    BY <1>2, <1>3
  <2> QED
    BY <2>1, RefreshAccountOpens
<1>4. CASE c \notin taken /\ Refresh!Due(c)
  <2>1. x5'[c] = x5[c] + 1
    BY <1>2, <1>4
  <2>2. InFront(c)' = InFront(c) \ taken
    BY <1>2, <1>4, AttemptedAreBehind
  <2>3. CASE taken = batch
    <3>1. /\ Cardinality(taken) = BatchSize
          /\ taken \subseteq InFront(c)
      BY <1>2, <1>4, <2>3, RefreshBatchIsFull
    <3>2. Cardinality(InFront(c)') + BatchSize = Cardinality(InFront(c))
      BY <2>2, <3>1, FewerInFront
    <3>3. x6' = x6
      BY <1>2, <2>3
    <3>4. Cardinality(InFront(c)') + BatchSize <= Cardinality(InFront(c))
      BY <3>2, InFrontBounded, SizesOfConnections
    <3> QED
      BY <2>1, <3>3, <3>4, RefreshAccountStays DEF RefreshInv
  <2>4. CASE taken # batch
    <3>1. x6' = x6 + 1
      BY <1>2, <2>4
    <3>2. Cardinality(InFront(c)') <= Cardinality(InFront(c))
      BY <2>2, NotMoreInFront
    <3> QED
      BY <2>1, <3>1, <3>2, RefreshAccountStays DEF RefreshInv
  <2> QED
    BY <2>3, <2>4
<1> QED
  BY <1>3, <1>4

LEMMA SyncLocationsStep ==
    ASSUME RefreshInv, Refresh!TypeOK', NEW d \in Refreshed,
           Refresh!SyncLocations(d), NEW c \in Refreshed
    PROVE  RefreshAccount(c)'
<1>0. x5 \in [Refreshed -> Nat]
  BY DEF RefreshInv, Refresh!TypeOK
<1>1. CASE c = d
  <2>1. x5'[c] = 0
    BY <1>0, <1>1 DEF Refresh!SyncLocations
  <2> QED
    BY <2>1, RefreshAccountOpens
<1>2. CASE c # d
  <2>1. InFront(c)' = InFront(c) \ {d}
    BY <1>2, AttemptedAreBehind DEF Refresh!SyncLocations
  <2>2. x5'[c] = x5[c] /\ x6' = x6
    BY <1>0, <1>2 DEF Refresh!SyncLocations
  <2>3. Cardinality(InFront(c)') <= Cardinality(InFront(c))
    BY <2>1, NotMoreInFront
  <2> QED
    BY <2>2, <2>3, RefreshAccountStays DEF RefreshInv
<1> QED
  BY <1>1, <1>2

LEMMA ReconnectStep ==
    ASSUME RefreshInv, Refresh!TypeOK', NEW d \in Refreshed,
           Refresh!Reconnect(d), NEW c \in Refreshed
    PROVE  RefreshAccount(c)'
<1>0. x5 \in [Refreshed -> Nat] /\ x1 \in [Refreshed -> SUBSET Refreshed]
  BY DEF RefreshInv, Refresh!TypeOK
<1>1. CASE c = d
  <2>1. x5'[c] = 0
    BY <1>0, <1>1 DEF Refresh!Reconnect
  <2> QED
    BY <2>1, RefreshAccountOpens
<1>2. CASE c # d
  <2>1. InFront(c)' = InFront(c) \cup {d}
    BY <1>0, <1>2 DEF Refresh!Reconnect, Refresh!Before, InFront
  <2>2. x5'[c] = x5[c] /\ x6' = x6 + 1
    BY <1>0, <1>2 DEF Refresh!Reconnect
  <2>3. Cardinality(InFront(c)') <= Cardinality(InFront(c)) + 1
    <3>1. IsFiniteSet(InFront(c)) /\ Cardinality(InFront(c)) \in Nat
      BY InFrontBounded, SizesOfConnections
    <3>2. Cardinality(InFront(c) \cup {d})
            = IF d \in InFront(c) THEN Cardinality(InFront(c))
              ELSE Cardinality(InFront(c)) + 1
      BY <3>1, FS_AddElement
    <3> QED
      BY <2>1, <3>1, <3>2
  <2> QED
    BY <2>2, <2>3, RefreshAccountStays DEF RefreshInv
<1> QED
  BY <1>1, <1>2

LEMMA RefreshStep ==
    RefreshInv /\ [Refresh!Next]_(Refresh!vars) => RefreshInv'
<1> SUFFICES ASSUME RefreshInv, [Refresh!Next]_(Refresh!vars)
             PROVE  RefreshInv'
  OBVIOUS
<1>1. Refresh!TypeOK'
  BY RefreshTypeStep DEF RefreshInv
<1>2. ASSUME NEW c \in Refreshed PROVE RefreshAccount(c)'
  <2>1. CASE Refresh!RefreshStaleLocations
    BY <1>1, <2>1, RefreshTickStep
  <2>2. ASSUME NEW d \in Refreshed, Refresh!SyncLocations(d)
        PROVE  RefreshAccount(c)'
    BY <1>1, <2>2, SyncLocationsStep
  <2>3. ASSUME NEW d \in Refreshed, Refresh!Reconnect(d)
        PROVE  RefreshAccount(c)'
    BY <1>1, <2>3, ReconnectStep
  <2>4. CASE UNCHANGED Refresh!vars
    BY <2>4 DEF Refresh!vars, Refresh!Before, RefreshInv, RefreshAccount,
                InFront
  <2> QED
    BY <2>1, <2>2, <2>3, <2>4 DEF Refresh!Next
<1> QED
  BY <1>1, <1>2 DEF RefreshInv

(***************************************************************************)
(* The batches of the scheduler                                            *)
(***************************************************************************)

(* Pairs of a member and a place up to f of it: as many as f adds up to.   *)
Pairs(S, f, n) == {p \in S \X (1..n) : p[2] <= f[p[1]]}

LEMMA PairsAreFinite ==
    ASSUME NEW S, IsFiniteSet(S), NEW f, NEW n \in Nat
    PROVE  /\ IsFiniteSet(Pairs(S, f, n))
           /\ Cardinality(Pairs(S, f, n)) \in Nat
           /\ Cardinality(Pairs(S, f, n)) <= Cardinality(S) * n
<1>1. IsFiniteSet(1..n) /\ Cardinality(1..n) = n
  BY FS_Interval
<1>2. /\ IsFiniteSet(S \X (1..n))
      /\ Cardinality(S \X (1..n)) = Cardinality(S) * n
  BY <1>1, FS_Product
<1>3. Pairs(S, f, n) \in SUBSET (S \X (1..n))
  BY DEF Pairs
<1> QED
  BY <1>2, <1>3, FS_Subset, FS_CardinalityType

(* Those of a smaller set under a smaller function are fewer.              *)
LEMMA FewerPairs ==
    ASSUME NEW S, IsFiniteSet(S), NEW Q \in SUBSET S, NEW f, NEW n \in Nat
    PROVE  Cardinality(Pairs(Q, f, n)) <= Cardinality(Pairs(S, f, n))
<1>1. Pairs(Q, f, n) \in SUBSET Pairs(S, f, n)
  BY DEF Pairs
<1> QED
  BY <1>1, PairsAreFinite, FS_Subset

(* Where all of f grows by one at most, and falls from n to one on T.      *)
LEMMA ShiftedPairs ==
    ASSUME NEW S, IsFiniteSet(S), NEW Q \in SUBSET S, NEW T \in SUBSET S,
           NEW n \in Nat, NEW f \in [S -> 1..n], NEW g \in [S -> 1..n],
           \A s \in T : f[s] = n /\ g[s] = 1,
           \A s \in S \ T : g[s] <= f[s] + 1
    PROVE  Cardinality(Pairs(Q, g, n)) + n * Cardinality(T)
             <= Cardinality(Pairs(S, f, n)) + Cardinality(S)
<1> DEFINE High == {p \in Pairs(Q, g, n) : p[2] > 1}
           Low == {p \in Pairs(Q, g, n) : p[2] = 1}
           Rest == Pairs(S \ T, f, n)
           Down == [p \in High |-> <<p[1], p[2] - 1>>]
<1>1. /\ IsFiniteSet(Q) /\ IsFiniteSet(T) /\ IsFiniteSet(S \ T)
      /\ Cardinality(Q) <= Cardinality(S)
      /\ Cardinality(S) \in Nat /\ Cardinality(T) \in Nat
      /\ Cardinality(Q) \in Nat
  BY FS_Subset, FS_CardinalityType
<1>2. /\ IsFiniteSet(Pairs(Q, g, n)) /\ IsFiniteSet(Rest)
      /\ IsFiniteSet(Pairs(S, f, n)) /\ Cardinality(Pairs(S, f, n)) \in Nat
      /\ Cardinality(Rest) \in Nat /\ Cardinality(Pairs(Q, g, n)) \in Nat
  BY <1>1, PairsAreFinite
<1>3. Cardinality(Low) <= Cardinality(S) /\ Cardinality(Low) \in Nat
  <2>1. IsFiniteSet({1}) /\ Cardinality({1}) = 1
    BY FS_Singleton
  <2>2. IsFiniteSet(Q \X {1}) /\ Cardinality(Q \X {1}) = Cardinality(Q) * 1
    BY <1>1, <2>1, FS_Product
  <2>3. Low \in SUBSET (Q \X {1})
    BY DEF Pairs
  <2>4. Cardinality(Low) <= Cardinality(Q) * 1 /\ IsFiniteSet(Low)
    BY <2>2, <2>3, FS_Subset
  <2> QED
    BY <1>1, <2>4, FS_CardinalityType
<1>4. Cardinality(High) <= Cardinality(Rest) /\ Cardinality(High) \in Nat
  <2>1. ASSUME NEW p \in High
        PROVE  /\ p[1] \in S \ T /\ p[2] - 1 \in 1..n
               /\ p[2] - 1 <= f[p[1]]
    <3>1. /\ p[1] \in Q /\ p[2] \in 1..n /\ p[2] <= g[p[1]] /\ p[2] > 1
      BY DEF Pairs
    <3>2. p[1] \notin T
      BY <3>1
    <3>3. g[p[1]] \in 1..n /\ f[p[1]] \in 1..n /\ g[p[1]] <= f[p[1]] + 1
      BY <3>1, <3>2
    <3> QED
      BY <3>1, <3>2, <3>3
  <2>2. Down \in [High -> Rest]
    <3>1. ASSUME NEW p \in High PROVE <<p[1], p[2] - 1>> \in Rest
      BY <2>1 DEF Pairs
    <3> QED
      BY <3>1
  <2>3. ASSUME NEW p \in High, NEW q \in High, Down[p] = Down[q]
        PROVE  p = q
    <3>1. /\ p \in Q \X (1..n) /\ q \in Q \X (1..n)
      BY DEF Pairs
    <3>2. p[1] = q[1] /\ p[2] - 1 = q[2] - 1
      BY <2>3
    <3>3. p[2] = q[2]
      BY <3>1, <3>2
    <3>4. p = <<p[1], p[2]>> /\ q = <<q[1], q[2]>>
      BY <3>1
    <3> QED
      BY <3>2, <3>3, <3>4
  <2>4. Down \in Injection(High, Rest)
    BY <2>2, <2>3 DEF Injection, IsInjective
  <2> HIDE DEF High, Rest, Down
  <2>5. IsFiniteSet(High) /\ Cardinality(High) <= Cardinality(Rest)
    BY <1>2, <2>4, FS_Injection
  <2> QED
    BY <2>5, FS_CardinalityType
<1>5. Cardinality(Pairs(Q, g, n)) = Cardinality(Low) + Cardinality(High)
  <2>1. IsFiniteSet(Low) /\ IsFiniteSet(High)
    BY <1>2, FS_Subset
  <2>2. Low \cap High = {} /\ Low \cup High = Pairs(Q, g, n)
    BY DEF Pairs
  <2>3. Cardinality(Low \cup High)
          = Cardinality(Low) + Cardinality(High) - Cardinality(Low \cap High)
    BY <2>1, FS_Union
  <2>4. Cardinality(Low \cap High) = 0
    BY <2>2, FS_EmptySet
  <2> HIDE DEF High, Low
  <2>5. Cardinality(Low \cup High) = Cardinality(Low) + Cardinality(High)
    BY <1>3, <1>4, <2>3, <2>4
  <2> QED
    BY <2>2, <2>5
<1>6. Cardinality(Rest) + n * Cardinality(T) <= Cardinality(Pairs(S, f, n))
  <2>1. IsFiniteSet(1..n) /\ Cardinality(1..n) = n
    BY FS_Interval
  <2>2. /\ IsFiniteSet(T \X (1..n))
        /\ Cardinality(T \X (1..n)) = Cardinality(T) * n
    BY <1>1, <2>1, FS_Product
  <2>3. Rest \cap (T \X (1..n)) = {}
    BY DEF Pairs
  <2>4. Rest \cup (T \X (1..n)) \in SUBSET Pairs(S, f, n)
    BY DEF Pairs
  <2>5. Cardinality(Rest \cup (T \X (1..n)))
          = Cardinality(Rest) + Cardinality(T) * n
              - Cardinality(Rest \cap (T \X (1..n)))
    BY <1>2, <2>2, FS_Union
  <2>6. Cardinality(Rest \cup (T \X (1..n))) <= Cardinality(Pairs(S, f, n))
    BY <1>2, <2>4, FS_Subset
  <2>7. Cardinality(Rest \cap (T \X (1..n))) = 0
    BY <2>3, FS_EmptySet
  <2>8. Cardinality(T) * n = n * Cardinality(T) /\ n * Cardinality(T) \in Nat
    BY <1>1
  <2> HIDE DEF Rest
  <2> QED
    BY <1>2, <2>5, <2>6, <2>7, <2>8
<1>7. n * Cardinality(T) \in Nat
  BY <1>1, ProductIsNat
<1> HIDE DEF High, Low, Rest
<1> QED
  BY <1>1, <1>2, <1>3, <1>4, <1>5, <1>6, <1>7

(* The automations that may be read before a, and those of them blocked by *)
(* an active run: what their claims add up to falls when they are refused. *)
Preceding(a) == {b \in Planned \ {a} : Batch!Before(b, a)}
Blocking(a) == x4 \cap Preceding(a)
Claims(a) == Pairs(Blocking(a), x3, Batch!Unclaimed)
Burden(a) ==
    Batch!Unclaimed * Cardinality(Preceding(a)) + Cardinality(Claims(a))

(* What w ticks of waiting have cost against a turn for each faulty tick.  *)
(* A claimed automation has its lease to wait, and then a turn.            *)
Paid(w, burden, claim, f) ==
    IF claim = Batch!Unclaimed
    THEN (w + 1) * Batch!Spare + burden <= Batch!Turn * (f + 1)
    ELSE (w + 1) * Batch!Spare <= Batch!Turn * f + claim * Batch!Spare

BatchAccount(a) == Paid(x5[a], Burden(a), x3[a], x6)

BatchInv ==
    Batch!TypeOK /\ \A a \in Planned : BatchAccount(a)

LEMMA SizesOfAutomations ==
    ASSUME Batch!FewBlocked
    PROVE  /\ Batch!Spare \in Nat \ {0}
           /\ Batch!Spare = Batch!Unclaimed * BatchSize - BlockedRows
           /\ Batch!Unclaimed \in Nat \ {0}
           /\ Batch!Unclaimed = ClaimTicks + 1
           /\ Batch!Turn = Batch!Ahead + Batch!Unclaimed * Batch!Spare
           /\ Cardinality(Planned) \in Nat
           /\ \A a \in Planned :
                /\ Batch!Ahead \in Nat
                /\ Batch!Turn \in Nat
                /\ Batch!Ahead
                     = Batch!Unclaimed * (Cardinality(Planned) - 1)
                         + Batch!Unclaimed * BlockedRows
<1>1. /\ Batch!Unclaimed \in Nat \ {0} /\ Batch!Unclaimed = ClaimTicks + 1
  BY PeriodicJobsAssumption DEF Batch!Unclaimed
<1>2. Cardinality(Planned) \in Nat
  BY FS_CardinalityType, PeriodicJobsAssumption
<1>3. /\ Batch!Spare = Batch!Unclaimed * BatchSize - BlockedRows
      /\ Batch!Spare \in Nat \ {0}
  <2>1. Batch!Unclaimed * BatchSize \in Nat
    BY <1>1, ProductIsNat, PeriodicJobsAssumption
  <2>2. Batch!Spare = Batch!Unclaimed * BatchSize - BlockedRows
    BY <1>1 DEF Batch!Spare
  <2>3. Batch!Spare > 0
    BY DEF Batch!FewBlocked
  <2> QED
    BY <2>1, <2>2, <2>3, PeriodicJobsAssumption
<1>4. Batch!Turn = Batch!Ahead + Batch!Unclaimed * Batch!Spare
  BY <1>1 DEF Batch!Turn
<1>5. ASSUME NEW a \in Planned
      PROVE  /\ Batch!Ahead \in Nat /\ Batch!Turn \in Nat
             /\ Batch!Ahead
                  = Batch!Unclaimed * (Cardinality(Planned) - 1)
                      + Batch!Unclaimed * BlockedRows
  <2>1. Cardinality(Planned) - 1 \in Nat
    BY <1>2, <1>5, FS_EmptySet, PeriodicJobsAssumption
  <2>2. Batch!Ahead
          = Batch!Unclaimed * ((Cardinality(Planned) - 1) + BlockedRows)
    BY <1>1, SameCardinality DEF Batch!Ahead
  <2>3. Batch!Unclaimed * ((Cardinality(Planned) - 1) + BlockedRows)
          = Batch!Unclaimed * (Cardinality(Planned) - 1)
              + Batch!Unclaimed * BlockedRows
    BY <1>1, <2>1, PeriodicJobsAssumption
  <2>4. /\ Batch!Unclaimed * (Cardinality(Planned) - 1) \in Nat
        /\ Batch!Unclaimed * BlockedRows \in Nat
        /\ Batch!Unclaimed * Batch!Spare \in Nat
    BY <1>1, <1>3, <2>1, ProductIsNat, PeriodicJobsAssumption
  <2> QED
    BY <1>4, <2>2, <2>3, <2>4
<1> QED
  BY <1>1, <1>2, <1>3, <1>4, <1>5

LEMMA PrecedingBounded ==
    ASSUME NEW a \in Planned
    PROVE  /\ IsFiniteSet(Preceding(a))
           /\ Cardinality(Preceding(a)) \in 0..(Cardinality(Planned) - 1)
<1>1. Preceding(a) \in SUBSET (Planned \ {a})
  BY DEF Preceding
<1> QED
  BY <1>1, CountIn, PeriodicJobsAssumption

LEMMA BlockingBounded ==
    ASSUME Batch!TypeOK, NEW a \in Planned
    PROVE  /\ IsFiniteSet(Blocking(a))
           /\ Cardinality(Blocking(a)) \in 0..BlockedRows
<1>1. x4 \in SUBSET Planned /\ Cardinality(x4) <= BlockedRows
  BY SameCardinality DEF Batch!TypeOK
<1>2. IsFiniteSet(x4)
  BY <1>1, FS_Subset, PeriodicJobsAssumption
<1>3. Blocking(a) \in SUBSET x4
  BY DEF Blocking
<1>4. IsFiniteSet(Blocking(a)) /\ Cardinality(Blocking(a)) <= Cardinality(x4)
  BY <1>2, <1>3, FS_Subset
<1>5. Cardinality(Blocking(a)) \in Nat /\ Cardinality(x4) \in Nat
  BY <1>2, <1>4, FS_CardinalityType
<1> QED
  BY <1>1, <1>4, <1>5, PeriodicJobsAssumption

LEMMA ProductsGrow ==
    ASSUME NEW i \in Nat, NEW j \in Nat, NEW k \in Nat, i <= j
    PROVE  i * k <= j * k /\ k * i <= k * j
OBVIOUS

LEMMA BurdenBounded ==
    ASSUME Batch!FewBlocked, Batch!TypeOK, NEW a \in Planned
    PROVE  Burden(a) \in 0..Batch!Ahead
<1>1. /\ Batch!Unclaimed \in Nat /\ BlockedRows \in Nat
      /\ Cardinality(Preceding(a)) \in Nat
      /\ Cardinality(Planned) - 1 \in Nat
      /\ Cardinality(Preceding(a)) <= Cardinality(Planned) - 1
  BY SizesOfAutomations, PrecedingBounded, PeriodicJobsAssumption
<1>2. /\ IsFiniteSet(Blocking(a)) /\ Cardinality(Blocking(a)) \in Nat
      /\ Cardinality(Blocking(a)) <= BlockedRows
  BY BlockingBounded, PeriodicJobsAssumption
<1>3. /\ Cardinality(Claims(a)) \in Nat
      /\ Cardinality(Claims(a)) <= Cardinality(Blocking(a)) * Batch!Unclaimed
  BY <1>1, <1>2, PairsAreFinite DEF Claims
<1>4. /\ Cardinality(Blocking(a)) * Batch!Unclaimed
           <= BlockedRows * Batch!Unclaimed
      /\ Batch!Unclaimed * Cardinality(Preceding(a))
           <= Batch!Unclaimed * (Cardinality(Planned) - 1)
  BY <1>1, <1>2, ProductsGrow
<1>5. /\ BlockedRows * Batch!Unclaimed = Batch!Unclaimed * BlockedRows
      /\ BlockedRows * Batch!Unclaimed \in Nat
      /\ Cardinality(Blocking(a)) * Batch!Unclaimed \in Nat
      /\ Batch!Unclaimed * Cardinality(Preceding(a)) \in Nat
      /\ Batch!Unclaimed * (Cardinality(Planned) - 1) \in Nat
  BY <1>1, <1>2, ProductIsNat
<1>6. Batch!Ahead = Batch!Unclaimed * (Cardinality(Planned) - 1)
                      + Batch!Unclaimed * BlockedRows
  BY SizesOfAutomations
<1> QED
  BY <1>3, <1>4, <1>5, <1>6 DEF Burden

LEMMA BurdensBounded ==
    Batch!FewBlocked /\ Batch!TypeOK
      => \A a \in Planned : Burden(a) \in 0..Batch!Ahead
BY BurdenBounded

LEMMA BurdensBoundedNext ==
    (Batch!FewBlocked /\ Batch!TypeOK
       => \A a \in Planned : Burden(a) \in 0..Batch!Ahead)'
BY BurdensBounded, PTL

(* What has been paid never exceeds a turn for each faulty tick, and one.  *)
LEMMA PaidIsDelayed ==
    ASSUME Batch!FewBlocked, NEW a \in Planned, NEW w \in Nat, NEW f \in Nat,
           NEW burden \in Nat, NEW claim \in 1..Batch!Unclaimed,
           Paid(w, burden, claim, f)
    PROVE  (w + 1) * Batch!Spare <= Batch!Turn * (f + 1)
<1>1. /\ Batch!Spare \in Nat /\ Batch!Turn \in Nat
      /\ Batch!Unclaimed \in Nat /\ claim \in Nat
      /\ claim <= Batch!Unclaimed
      /\ Batch!Turn = Batch!Ahead + Batch!Unclaimed * Batch!Spare
      /\ Batch!Ahead \in Nat
  BY SizesOfAutomations
<1>2. /\ Batch!Turn * (f + 1) = Batch!Turn * f + Batch!Turn
      /\ (w + 1) * Batch!Spare \in Nat /\ Batch!Turn * f \in Nat
      /\ claim * Batch!Spare \in Nat /\ Batch!Unclaimed * Batch!Spare \in Nat
      /\ Batch!Turn * (f + 1) \in Nat
  BY <1>1
<1>3. claim * Batch!Spare <= Batch!Unclaimed * Batch!Spare
  BY <1>1, ProductsGrow
<1> QED
  BY <1>1, <1>2, <1>3 DEF Paid

(* A tick that something fails in costs a turn at most.                    *)
LEMMA PaidByFault ==
    ASSUME Batch!FewBlocked, NEW a \in Planned, NEW w \in Nat, NEW f \in Nat,
           (w + 1) * Batch!Spare <= Batch!Turn * (f + 1),
           NEW burden \in 0..Batch!Ahead, NEW claim \in 1..Batch!Unclaimed
    PROVE  Paid(w + 1, burden, claim, f + 1)
<1>1. /\ Batch!Spare \in Nat /\ Batch!Turn \in Nat
      /\ Batch!Unclaimed \in Nat /\ claim \in Nat
      /\ 1 <= claim /\ 1 <= Batch!Unclaimed
      /\ Batch!Turn = Batch!Ahead + Batch!Unclaimed * Batch!Spare
      /\ Batch!Ahead \in Nat
  BY SizesOfAutomations
<1>2. /\ 1 * Batch!Spare <= claim * Batch!Spare
      /\ 1 * Batch!Spare <= Batch!Unclaimed * Batch!Spare
  BY <1>1, ProductsGrow
<1>3. /\ (w + 1 + 1) * Batch!Spare = (w + 1) * Batch!Spare + Batch!Spare
      /\ Batch!Turn * (f + 1 + 1) = Batch!Turn * (f + 1) + Batch!Turn
      /\ 1 * Batch!Spare = Batch!Spare
      /\ (w + 1) * Batch!Spare \in Nat /\ Batch!Turn * (f + 1) \in Nat
      /\ claim * Batch!Spare \in Nat /\ Batch!Unclaimed * Batch!Spare \in Nat
  BY <1>1
<1> QED
  BY <1>1, <1>2, <1>3 DEF Paid

(* An automation that has waited no time owes nothing.                     *)
LEMMA PaidOpens ==
    ASSUME Batch!FewBlocked, NEW a \in Planned, NEW f \in Nat,
           NEW burden \in 0..Batch!Ahead, NEW claim \in 1..Batch!Unclaimed
    PROVE  Paid(0, burden, claim, f)
<1>1. /\ Batch!Spare \in Nat /\ Batch!Turn \in Nat
      /\ Batch!Unclaimed \in Nat /\ claim \in Nat
      /\ 1 <= claim /\ 1 <= Batch!Unclaimed
      /\ Batch!Turn = Batch!Ahead + Batch!Unclaimed * Batch!Spare
      /\ Batch!Ahead \in Nat
  BY SizesOfAutomations
<1>2. /\ 1 * Batch!Spare <= claim * Batch!Spare
      /\ 1 * Batch!Spare <= Batch!Unclaimed * Batch!Spare
  BY <1>1, ProductsGrow
<1>3. /\ (0 + 1) * Batch!Spare = Batch!Spare
      /\ Batch!Turn * (f + 1) = Batch!Turn * f + Batch!Turn
      /\ 1 * Batch!Spare = Batch!Spare
      /\ Batch!Turn * f \in Nat
      /\ claim * Batch!Spare \in Nat /\ Batch!Unclaimed * Batch!Spare \in Nat
  BY <1>1
<1> QED
  BY <1>1, <1>2, <1>3 DEF Paid

(* A tick costs the places it leaves, or one more tick of the lease.       *)
LEMMA PaidByTick ==
    ASSUME Batch!FewBlocked, NEW a \in Planned, NEW w \in Nat, NEW f \in Nat,
           NEW claim \in 1..Batch!Unclaimed, NEW next \in 1..Batch!Unclaimed,
           NEW burden \in Nat, NEW left \in 0..Batch!Ahead,
           Paid(w, burden, claim, f),
           \/ /\ claim = Batch!Unclaimed /\ next = Batch!Unclaimed
              /\ left + Batch!Spare <= burden
           \/ claim # Batch!Unclaimed /\ next = claim + 1
    PROVE  Paid(w + 1, left, next, f)
<1>1. /\ Batch!Spare \in Nat /\ Batch!Turn \in Nat
      /\ Batch!Unclaimed \in Nat /\ claim \in Nat
      /\ Batch!Turn = Batch!Ahead + Batch!Unclaimed * Batch!Spare
      /\ Batch!Ahead \in Nat
  BY SizesOfAutomations
<1>2. /\ (w + 1 + 1) * Batch!Spare = (w + 1) * Batch!Spare + Batch!Spare
      /\ Batch!Turn * (f + 1) = Batch!Turn * f + Batch!Turn
      /\ (claim + 1) * Batch!Spare = claim * Batch!Spare + Batch!Spare
      /\ (w + 1) * Batch!Spare \in Nat /\ Batch!Turn * f \in Nat
      /\ claim * Batch!Spare \in Nat /\ Batch!Unclaimed * Batch!Spare \in Nat
  BY <1>1
<1>3. CASE claim = Batch!Unclaimed /\ next = Batch!Unclaimed
             /\ left + Batch!Spare <= burden
  BY <1>1, <1>2, <1>3 DEF Paid
<1>4. CASE claim # Batch!Unclaimed /\ next = claim + 1
  <2>1. (w + 1 + 1) * Batch!Spare <= Batch!Turn * f + next * Batch!Spare
    BY <1>1, <1>2, <1>4 DEF Paid
  <2>2. CASE next = Batch!Unclaimed
    <3>1. (w + 1 + 1) * Batch!Spare + left <= Batch!Turn * (f + 1)
      BY <1>1, <1>2, <2>1, <2>2
    <3> QED
      BY <2>2, <3>1 DEF Paid
  <2>3. CASE next # Batch!Unclaimed
    BY <2>1, <2>3 DEF Paid
  <2> QED
    BY <2>2, <2>3
<1> QED
  BY <1>3, <1>4

(* An automation that does not wait, when less may be read before it.      *)
LEMMA PaidStays ==
    ASSUME NEW w \in Nat, NEW f \in Nat, Batch!FewBlocked, NEW a \in Planned,
           NEW claim, NEW burden \in Nat, NEW left \in Nat, left <= burden,
           Paid(w, burden, claim, f)
    PROVE  Paid(w, left, claim, f)
<1>1. (w + 1) * Batch!Spare \in Nat /\ Batch!Turn * (f + 1) \in Nat
  BY SizesOfAutomations, ProductIsNat
<1> QED
  BY <1>1 DEF Paid

(* What one tick does with the batch, of which `run` get their run.        *)
Ticked(batch, run, refused) ==
    /\ Batch!IsBatch(batch)
    /\ run \in SUBSET (batch \ x4) /\ refused \in SUBSET (batch \ run)
    /\ Batch!Process(batch, run, refused)

LEMMA BatchTypeStep ==
    Batch!TypeOK /\ [Batch!Next]_(Batch!vars) => Batch!TypeOK'
<1> SUFFICES ASSUME Batch!TypeOK, [Batch!Next]_(Batch!vars)
             PROVE  Batch!TypeOK'
  OBVIOUS
<1>a. /\ x1 \in [Planned -> SUBSET Planned]
      /\ x2 \in [Planned -> 0..(CronTicks - 1)]
      /\ x3 \in [Planned -> 1..Batch!Unclaimed]
      /\ x4 \in SUBSET Planned /\ Batch!Cardinality(x4) <= BlockedRows
      /\ x5 \in [Planned -> Nat]
      /\ x6 \in 0..Faulty
  BY DEF Batch!TypeOK
<1>1. CASE Batch!RunDueAutomations
  <2>1. PICK batch \in SUBSET Planned :
          \E run \in SUBSET (batch \ x4) :
            \E refused \in SUBSET (batch \ run) :
              Batch!Process(batch, run, refused)
    BY <1>1 DEF Batch!RunDueAutomations
  <2>r. PICK run \in SUBSET (batch \ x4) :
          \E refused \in SUBSET (batch \ run) :
            Batch!Process(batch, run, refused)
    BY <2>1
  <2>2. PICK refused \in SUBSET (batch \ run) :
          Batch!Process(batch, run, refused)
    BY <2>r
  <2>3. PICK next \in [run -> 0..(CronTicks - 1)] : Batch!Advance(run, next)
    BY <2>2 DEF Batch!Process
  <2>4. x2' \in [Planned -> 0..(CronTicks - 1)]
    BY <1>a, <2>3, PeriodicJobsAssumption DEF Batch!Advance
  <2>5. x1' \in [Planned -> SUBSET Planned]
    BY <2>3 DEF Batch!Advance
  <2>6. x3' \in [Planned -> 1..Batch!Unclaimed]
    BY <1>a, <2>2, PeriodicJobsAssumption DEF Batch!Process, Batch!Unclaimed
  <2>7. x4' \in SUBSET Planned /\ Batch!Cardinality(x4') <= BlockedRows
    BY <1>a, <2>2 DEF Batch!Process
  <2>8. x5' \in [Planned -> Nat]
    BY <1>a, <2>2 DEF Batch!Process
  <2>9. x6' \in 0..Faulty
    BY <1>a, <2>2, PeriodicJobsAssumption DEF Batch!Process
  <2> QED
    BY <2>4, <2>5, <2>6, <2>7, <2>8, <2>9 DEF Batch!TypeOK
<1>2. ASSUME NEW a \in Planned, Batch!EndRun(a)
      PROVE  Batch!TypeOK'
  <2>1. x4' \in SUBSET Planned /\ Cardinality(x4') <= BlockedRows
    <3>1. x4' \in SUBSET x4
      BY <1>2 DEF Batch!EndRun
    <3>2. IsFiniteSet(x4)
      BY <1>a, FS_Subset, PeriodicJobsAssumption
    <3>3. /\ Cardinality(x4') <= Cardinality(x4) /\ IsFiniteSet(x4')
          /\ Cardinality(x4) <= BlockedRows
      BY <1>a, <3>1, <3>2, FS_Subset, SameCardinality
    <3>4. Cardinality(x4') \in Nat /\ Cardinality(x4) \in Nat
      BY <3>2, <3>3, FS_CardinalityType
    <3> QED
      BY <1>a, <3>1, <3>3, <3>4, PeriodicJobsAssumption
  <2>2. UNCHANGED <<x1, x2, x3, x5, x6>>
    BY <1>2 DEF Batch!EndRun
  <2> QED
    BY <1>a, <2>1, <2>2, SameCardinality DEF Batch!TypeOK
<1>3. CASE UNCHANGED Batch!vars
  BY <1>a, <1>3 DEF Batch!vars, Batch!TypeOK
<1> QED
  BY <1>1, <1>2, <1>3 DEF Batch!Next

(* Whatever comes after a before the tick does so after it, and those that *)
(* got their run, too, as long as a still waits for its own.               *)
LEMMA RunAreBehind ==
    ASSUME Batch!TypeOK, NEW a \in Planned, x2[a] = 0, NEW batch, NEW run,
           NEW refused, Ticked(batch, run, refused), a \notin run
    PROVE  Preceding(a)' \subseteq Preceding(a) \ run
<1>1. PICK next : Batch!Advance(run, next)
  BY DEF Ticked, Batch!Process
<1>2. x1' = [c \in Planned |->
               {b \in Planned :
                  \/ x2'[b] > x2'[c]
                  \/ /\ x2'[b] = 0 /\ c \notin run
                     /\ b \in x1[c] \/ (b \in run /\ x2[c] = 0)}]
  BY <1>1 DEF Batch!Advance
<1>3. PICK ticks \in [run -> 0..(CronTicks - 1)] : Batch!Advance(run, ticks)
  BY DEF Ticked, Batch!Process
<1>4. /\ x2' \in [Planned -> 0..(CronTicks - 1)]
      /\ x2'[a] = 0
  BY <1>3, PeriodicJobsAssumption DEF Batch!Advance, Batch!TypeOK
<1>5. ASSUME NEW b \in Planned, b \in run \/ b \in x1[a]
      PROVE  b \in x1'[a]
  <2>1. x2'[b] > x2'[a] \/ x2'[b] = 0
    BY <1>4
  <2> QED
    BY <1>2, <1>5, <2>1
<1> QED
  BY <1>5 DEF Preceding, Batch!Before

LEMMA BlockingShrinks ==
    ASSUME NEW a \in Planned, NEW run, Preceding(a)' \subseteq Preceding(a) \ run,
           x4' \subseteq x4 \cup run
    PROVE  Blocking(a)' \subseteq Blocking(a)
BY DEF Blocking

(* A due automation that is left out of a batch has a full batch in front. *)
LEMMA BatchIsFull ==
    ASSUME NEW batch \in SUBSET Planned, Batch!IsBatch(batch),
           NEW a \in Planned \ batch, Batch!Due(a)
    PROVE  /\ IsFiniteSet(batch) /\ Cardinality(batch) = BatchSize
           /\ batch \subseteq Preceding(a)
           /\ \A b \in batch : Batch!Due(b)
<1>1. a \in Batch!DueSet /\ batch \subseteq Batch!DueSet
  BY DEF Batch!DueSet, Batch!IsBatch
<1>2. IsFiniteSet(Batch!DueSet) /\ IsFiniteSet(batch)
  BY FS_Subset, PeriodicJobsAssumption DEF Batch!DueSet
<1>3. Cardinality(batch) # Cardinality(Batch!DueSet)
  BY <1>1, <1>2, FS_Subset
<1>4. Cardinality(batch) = BatchSize
  BY <1>3, SameCardinality DEF Batch!IsBatch
<1>5. batch \subseteq Preceding(a)
  BY <1>1 DEF Batch!IsBatch, Preceding
<1>6. \A b \in batch : Batch!Due(b)
  BY <1>1 DEF Batch!DueSet
<1> QED
  BY <1>2, <1>4, <1>5, <1>6

LEMMA BatchAccountNext ==
    ASSUME NEW a \in Planned, Paid(x5'[a], Burden(a)', x3'[a], x6')
    PROVE  BatchAccount(a)'
BY DEF BatchAccount, Paid

(* The rows read before a in a whole tick: some are behind it for good, the*)
(* others are refused and claimed anew, and the rest are a tick nearer to  *)
(* the end of their claims.                                                *)
LEMMA BurdenFalls ==
    ASSUME Batch!FewBlocked, Batch!TypeOK, Batch!TypeOK', NEW a \in Planned,
           NEW batch \in SUBSET Planned, NEW run, NEW refused,
           Ticked(batch, run, refused),
           run = batch \ x4, refused = batch \cap x4,
           a \notin batch, Batch!Due(a)
    PROVE  Burden(a)' + Batch!Spare <= Burden(a)
<1>1. /\ IsFiniteSet(batch) /\ Cardinality(batch) = BatchSize
      /\ batch \subseteq Preceding(a) /\ \A b \in batch : Batch!Due(b)
  BY BatchIsFull DEF Ticked
<1>2. Preceding(a)' \subseteq Preceding(a) \ run
  BY RunAreBehind DEF Batch!Due
<1>3. x4' \subseteq x4 \cup run
  BY DEF Ticked, Batch!Process
<1>4. Blocking(a)' \subseteq Blocking(a)
  BY <1>2, <1>3, BlockingShrinks
<1>5. run \subseteq Preceding(a) /\ refused \subseteq Blocking(a)
  BY <1>1 DEF Blocking
<1>6. /\ IsFiniteSet(run) /\ IsFiniteSet(refused)
      /\ Cardinality(run) \in Nat /\ Cardinality(refused) \in Nat
      /\ Cardinality(run) + Cardinality(refused) = BatchSize
  <2>1. IsFiniteSet(run) /\ IsFiniteSet(refused)
    BY <1>1, FS_Subset
  <2>2. run \cap refused = {} /\ run \cup refused = batch
    OBVIOUS
  <2>3. Cardinality(run \cup refused)
          = Cardinality(run) + Cardinality(refused)
              - Cardinality(run \cap refused)
    BY <2>1, FS_Union
  <2>4. Cardinality(run \cap refused) = 0
    BY <2>2, FS_EmptySet
  <2>5. Cardinality(run \cup refused) = Cardinality(batch)
    BY <2>2
  <2>6. Cardinality(run) \in Nat /\ Cardinality(refused) \in Nat
    BY <2>1, FS_CardinalityType
  <2> QED
    BY <1>1, <2>1, <2>3, <2>4, <2>5, <2>6
<1>7. /\ Cardinality(Preceding(a)') \in Nat
      /\ Cardinality(Preceding(a)) \in Nat
      /\ Cardinality(Preceding(a)') + Cardinality(run)
           <= Cardinality(Preceding(a))
  <2>1. IsFiniteSet(Preceding(a)) /\ Cardinality(Preceding(a)) \in Nat
    BY PrecedingBounded, FS_CardinalityType
  <2>2. /\ IsFiniteSet(Preceding(a) \ run)
        /\ Cardinality(Preceding(a) \ run)
             = Cardinality(Preceding(a)) - Cardinality(Preceding(a) \cap run)
    BY <2>1, FS_Difference
  <2>3. Preceding(a) \cap run = run
    BY <1>5
  <2>4. Cardinality(Preceding(a) \cap run) = Cardinality(run)
    BY <2>3
  <2>5. /\ IsFiniteSet(Preceding(a)')
        /\ Cardinality(Preceding(a)') <= Cardinality(Preceding(a) \ run)
    BY <1>2, <2>2, FS_Subset
  <2>6. Cardinality(Preceding(a)') \in Nat
    BY <2>5, FS_CardinalityType
  <2> QED
    BY <1>6, <2>1, <2>2, <2>4, <2>5, <2>6
<1>8. /\ IsFiniteSet(Blocking(a)) /\ Cardinality(Blocking(a)) \in Nat
      /\ Cardinality(Blocking(a)) <= BlockedRows
  BY BlockingBounded, PeriodicJobsAssumption
<1>9. /\ Cardinality(Claims(a)) \in Nat /\ Cardinality(Claims(a)') \in Nat
      /\ Cardinality(Claims(a)') + Batch!Unclaimed * Cardinality(refused)
           <= Cardinality(Claims(a)) + Cardinality(Blocking(a))
  <2> DEFINE f == [s \in Blocking(a) |-> x3[s]]
             g == [s \in Blocking(a) |-> x3'[s]]
  <2>0. Batch!Unclaimed \in Nat
    BY SizesOfAutomations
  <2>1. Blocking(a) \subseteq Planned
    BY DEF Blocking, Preceding
  <2>2. /\ f \in [Blocking(a) -> 1..Batch!Unclaimed]
        /\ g \in [Blocking(a) -> 1..Batch!Unclaimed]
    BY <2>1 DEF Batch!TypeOK
  <2>3. \A s \in Planned :
          x3'[s] = IF s \in run THEN Batch!Unclaimed
                   ELSE IF s \in refused THEN 1
                   ELSE IF x3[s] < Batch!Unclaimed THEN x3[s] + 1
                   ELSE Batch!Unclaimed
    BY DEF Ticked, Batch!Process
  <2>4. ASSUME NEW s \in refused PROVE f[s] = Batch!Unclaimed /\ g[s] = 1
    <3>1. x3[s] \in 1..Batch!Unclaimed /\ x3[s] > ClaimTicks
      BY <1>1, <2>1, <1>5 DEF Batch!TypeOK, Batch!Due
    <3>2. x3[s] = Batch!Unclaimed
      BY <3>1, SizesOfAutomations, PeriodicJobsAssumption
    <3>3. x3'[s] = 1
      BY <1>5, <2>1, <2>3
    <3> QED
      BY <1>5, <3>2, <3>3
  <2>5. ASSUME NEW s \in Blocking(a) \ refused PROVE g[s] <= f[s] + 1
    <3>1. s \notin run /\ x3[s] \in 1..Batch!Unclaimed
      BY <2>1 DEF Blocking, Batch!TypeOK
    <3>2. x3'[s] <= x3[s] + 1
      BY <2>0, <2>1, <2>3, <3>1
    <3> QED
      BY <3>2
  <2>6. /\ Claims(a) = Pairs(Blocking(a), f, Batch!Unclaimed)
        /\ Claims(a)' = Pairs(Blocking(a)', g, Batch!Unclaimed)
    BY <1>4 DEF Claims, Pairs
  <2> HIDE DEF f, g
  <2>7. Cardinality(Pairs(Blocking(a)', g, Batch!Unclaimed))
          + Batch!Unclaimed * Cardinality(refused)
          <= Cardinality(Pairs(Blocking(a), f, Batch!Unclaimed))
               + Cardinality(Blocking(a))
    BY <1>4, <1>5, <1>8, <2>0, <2>2, <2>4, <2>5, ShiftedPairs
  <2>8. IsFiniteSet(Blocking(a)')
    BY <1>4, <1>8, FS_Subset
  <2>9. /\ Cardinality(Pairs(Blocking(a)', g, Batch!Unclaimed)) \in Nat
        /\ Cardinality(Pairs(Blocking(a), f, Batch!Unclaimed)) \in Nat
    BY <1>8, <2>0, <2>8, PairsAreFinite
  <2>10. /\ Cardinality(Claims(a))
              = Cardinality(Pairs(Blocking(a), f, Batch!Unclaimed))
         /\ Cardinality(Claims(a)')
              = Cardinality(Pairs(Blocking(a)', g, Batch!Unclaimed))
    BY <2>6
  <2> QED
    BY <2>7, <2>9, <2>10
<1>10. /\ Batch!Unclaimed \in Nat /\ BatchSize \in Nat /\ BlockedRows \in Nat
       /\ Batch!Spare = Batch!Unclaimed * BatchSize - BlockedRows
  BY SizesOfAutomations, PeriodicJobsAssumption
<1>11. /\ Batch!Unclaimed * (Cardinality(Preceding(a)') + Cardinality(run))
            <= Batch!Unclaimed * Cardinality(Preceding(a))
       /\ Batch!Unclaimed * (Cardinality(Preceding(a)') + Cardinality(run))
            = Batch!Unclaimed * Cardinality(Preceding(a)')
                + Batch!Unclaimed * Cardinality(run)
       /\ Batch!Unclaimed * (Cardinality(run) + Cardinality(refused))
            = Batch!Unclaimed * Cardinality(run)
                + Batch!Unclaimed * Cardinality(refused)
  BY <1>6, <1>7, <1>10, ProductsGrow
<1>12. /\ Batch!Unclaimed * Cardinality(Preceding(a)) \in Nat
       /\ Batch!Unclaimed * Cardinality(Preceding(a)') \in Nat
       /\ Batch!Unclaimed * Cardinality(run) \in Nat
       /\ Batch!Unclaimed * Cardinality(refused) \in Nat
       /\ Batch!Unclaimed * BatchSize \in Nat
  BY <1>6, <1>7, <1>10, ProductIsNat
<1>13. Batch!Unclaimed * (Cardinality(run) + Cardinality(refused))
         = Batch!Unclaimed * BatchSize
  BY <1>6
<1>14. Batch!Unclaimed * Cardinality(Preceding(a)') + Cardinality(Claims(a)')
         + Batch!Spare
         <= Batch!Unclaimed * Cardinality(Preceding(a))
              + Cardinality(Claims(a))
  BY <1>8, <1>9, <1>10, <1>11, <1>12, <1>13
<1> QED
  BY <1>14 DEF Burden

LEMMA BatchTickStep ==
    ASSUME Batch!FewBlocked, BatchInv, Batch!TypeOK', NEW a \in Planned,
           NEW batch \in SUBSET Planned, NEW run, NEW refused,
           Ticked(batch, run, refused)
    PROVE  BatchAccount(a)'
<1>1. /\ Batch!TypeOK /\ BatchAccount(a)
      /\ x5 \in [Planned -> Nat] /\ x6 \in Nat
      /\ x3 \in [Planned -> 1..Batch!Unclaimed]
      /\ x5' \in [Planned -> Nat] /\ x6' \in Nat
      /\ x3' \in [Planned -> 1..Batch!Unclaimed]
  BY DEF BatchInv, Batch!TypeOK
<1>2. Burden(a)' \in 0..Batch!Ahead /\ Burden(a) \in 0..Batch!Ahead
  BY <1>1, BurdensBounded, BurdensBoundedNext
<1>3. /\ x5[a] \in Nat /\ x5'[a] \in Nat
      /\ x3[a] \in 1..Batch!Unclaimed /\ x3'[a] \in 1..Batch!Unclaimed
      /\ Burden(a) \in Nat /\ Batch!Unclaimed \in Nat
      /\ Batch!Unclaimed = ClaimTicks + 1
  BY <1>1, <1>2, SizesOfAutomations
<1>4. Paid(x5[a], Burden(a), x3[a], x6)
  BY <1>1 DEF BatchAccount
<1>5. /\ run \in SUBSET (batch \ x4) /\ refused \in SUBSET (batch \ run)
      /\ x5'[a] = IF a \in x4 \cup run \/ x2[a] > 0 THEN 0 ELSE x5[a] + 1
      /\ x3'[a] = IF a \in run THEN Batch!Unclaimed
                  ELSE IF a \in refused THEN 1
                  ELSE IF x3[a] < Batch!Unclaimed THEN x3[a] + 1
                  ELSE Batch!Unclaimed
      /\ x6' = IF run = batch \ x4 /\ refused = batch \cap x4
               THEN x6 ELSE x6 + 1
  BY DEF Ticked, Batch!Process
<1>6. CASE a \in x4 \cup run \/ x2[a] > 0
  <2>1. Paid(0, Burden(a)', x3'[a], x6')
    BY <1>1, <1>2, <1>3, PaidOpens
  <2>2. x5'[a] = 0
    BY <1>5, <1>6
  <2> QED
    BY <2>1, <2>2, BatchAccountNext
<1>7. CASE ~(a \in x4 \cup run \/ x2[a] > 0)
  <2>1. x5'[a] = x5[a] + 1
    BY <1>5, <1>7
  <2>2. x2[a] = 0
    BY <1>1, <1>7, PeriodicJobsAssumption DEF Batch!TypeOK
  <2>3. CASE ~(run = batch \ x4 /\ refused = batch \cap x4)
    <3>1. x6' = x6 + 1
      BY <1>5, <2>3
    <3>2. (x5[a] + 1) * Batch!Spare <= Batch!Turn * (x6 + 1)
      BY <1>1, <1>3, <1>4, PaidIsDelayed
    <3>3. Paid(x5[a] + 1, Burden(a)', x3'[a], x6 + 1)
      BY <1>1, <1>2, <1>3, <3>2, PaidByFault
    <3> QED
      BY <2>1, <3>1, <3>3, BatchAccountNext
  <2>4. CASE run = batch \ x4 /\ refused = batch \cap x4
    <3>1. x6' = x6 /\ a \notin batch
      BY <1>5, <1>7, <2>4
    <3>2. CASE x3[a] = Batch!Unclaimed
      <4>1. Batch!Due(a)
        BY <1>3, <2>2, <3>2, PeriodicJobsAssumption DEF Batch!Due
      <4>2. Burden(a)' + Batch!Spare <= Burden(a)
        BY <1>1, <2>4, <3>1, <4>1, BurdenFalls
      <4>3. x3'[a] = Batch!Unclaimed
        BY <1>3, <1>5, <3>1, <3>2
      <4>4. Paid(x5[a] + 1, Burden(a)', x3'[a], x6)
        BY <1>1, <1>2, <1>3, <1>4, <3>2, <4>2, <4>3, PaidByTick
      <4> QED
        BY <2>1, <3>1, <4>4, BatchAccountNext
    <3>3. CASE x3[a] # Batch!Unclaimed
      <4>1. x3'[a] = x3[a] + 1
        BY <1>3, <1>5, <3>1, <3>3
      <4>2. Paid(x5[a] + 1, Burden(a)', x3'[a], x6)
        BY <1>1, <1>2, <1>3, <1>4, <3>3, <4>1, PaidByTick
      <4> QED
        BY <2>1, <3>1, <4>2, BatchAccountNext
    <3> QED
      BY <3>2, <3>3
  <2> QED
    BY <2>3, <2>4
<1> QED
  BY <1>6, <1>7

(* A run that ends makes room: fewer claims are left to wait for.          *)
LEMMA EndRunStep ==
    ASSUME Batch!FewBlocked, BatchInv, Batch!TypeOK', NEW b \in Planned,
           Batch!EndRun(b), NEW a \in Planned
    PROVE  BatchAccount(a)'
<1>1. /\ Batch!TypeOK /\ BatchAccount(a)
      /\ x5 \in [Planned -> Nat] /\ x6 \in Nat
  BY DEF BatchInv, Batch!TypeOK
<1>2. UNCHANGED <<x1, x3, x5, x6>> /\ x4' \subseteq x4
  BY DEF Batch!EndRun
<1>3. Preceding(a)' = Preceding(a)
  BY <1>2 DEF Preceding, Batch!Before
<1>4. /\ IsFiniteSet(Blocking(a)) /\ Blocking(a)' \subseteq Blocking(a)
  BY <1>1, <1>2, <1>3, BlockingBounded DEF Blocking
<1>5. Claims(a)' = Pairs(Blocking(a)', x3, Batch!Unclaimed)
  BY <1>2 DEF Claims, Pairs
<1>6. Cardinality(Claims(a)') <= Cardinality(Claims(a))
  <2>1. Cardinality(Pairs(Blocking(a)', x3, Batch!Unclaimed))
          <= Cardinality(Pairs(Blocking(a), x3, Batch!Unclaimed))
    BY <1>4, FewerPairs, SizesOfAutomations
  <2> QED
    BY <1>5, <2>1 DEF Claims
<1>7. Burden(a)' <= Burden(a)
  <2>1. /\ Cardinality(Claims(a)) \in Nat /\ Cardinality(Claims(a)') \in Nat
    <3>1. IsFiniteSet(Blocking(a)')
      BY <1>4, FS_Subset
    <3>2. Cardinality(Pairs(Blocking(a)', x3, Batch!Unclaimed)) \in Nat
      BY <3>1, PairsAreFinite, SizesOfAutomations
    <3>3. Cardinality(Pairs(Blocking(a), x3, Batch!Unclaimed)) \in Nat
      BY <1>4, PairsAreFinite, SizesOfAutomations
    <3> QED
      BY <1>5, <3>2, <3>3 DEF Claims
  <2>2. Batch!Unclaimed * Cardinality(Preceding(a)) \in Nat
    BY PrecedingBounded, SizesOfAutomations, ProductIsNat
  <2>3. Batch!Unclaimed * Cardinality(Preceding(a)')
          = Batch!Unclaimed * Cardinality(Preceding(a))
    BY <1>3
  <2>4. Batch!Unclaimed * Cardinality(Preceding(a)') + Cardinality(Claims(a)')
          <= Batch!Unclaimed * Cardinality(Preceding(a))
               + Cardinality(Claims(a))
    BY <1>6, <2>1, <2>2, <2>3
  <2> QED
    BY <2>4 DEF Burden
<1>8. Burden(a) \in Nat /\ Burden(a)' \in Nat
  BY <1>1, BurdensBounded, BurdensBoundedNext, SizesOfAutomations
<1>9. Paid(x5[a], Burden(a)', x3[a], x6)
  BY <1>1, <1>7, <1>8, PaidStays DEF BatchAccount
<1> QED
  BY <1>2, <1>9, BatchAccountNext

LEMMA BatchInitTyped == Batch!Init => Batch!TypeOK
BY PeriodicJobsAssumption DEF Batch!Init, Batch!TypeOK, Batch!Unclaimed

LEMMA BatchInit == Batch!FewBlocked /\ Batch!Init => BatchInv
<1> SUFFICES ASSUME Batch!FewBlocked, Batch!Init PROVE BatchInv
  OBVIOUS
<1>1. Batch!TypeOK
  BY BatchInitTyped
<1>2. ASSUME NEW a \in Planned PROVE BatchAccount(a)
  <2>1. x5[a] = 0 /\ x6 = 0 /\ x3[a] = Batch!Unclaimed
    BY <1>2 DEF Batch!Init
  <2>2. Burden(a) \in 0..Batch!Ahead /\ x3[a] \in 1..Batch!Unclaimed
    BY <1>1, <1>2, <2>1, BurdenBounded, SizesOfAutomations
  <2>3. Paid(0, Burden(a), x3[a], 0)
    BY <1>2, <2>2, PaidOpens
  <2> QED
    BY <2>1, <2>3 DEF BatchAccount
<1> QED
  BY <1>1, <1>2 DEF BatchInv

LEMMA BatchStep ==
    Batch!FewBlocked /\ BatchInv /\ [Batch!Next]_(Batch!vars) => BatchInv'
<1> SUFFICES ASSUME Batch!FewBlocked, BatchInv, [Batch!Next]_(Batch!vars)
             PROVE  BatchInv'
  OBVIOUS
<1>1. Batch!TypeOK'
  BY BatchTypeStep DEF BatchInv
<1>2. ASSUME NEW a \in Planned PROVE BatchAccount(a)'
  <2>1. CASE Batch!RunDueAutomations
    <3>1. PICK batch \in SUBSET Planned :
            /\ Batch!IsBatch(batch)
            /\ \E run \in SUBSET (batch \ x4) :
                 \E refused \in SUBSET (batch \ run) :
                   Batch!Process(batch, run, refused)
      BY <2>1 DEF Batch!RunDueAutomations
    <3>2. PICK run \in SUBSET (batch \ x4) :
            \E refused \in SUBSET (batch \ run) :
              Batch!Process(batch, run, refused)
      BY <3>1
    <3>3. PICK refused \in SUBSET (batch \ run) :
            Batch!Process(batch, run, refused)
      BY <3>2
    <3>4. Ticked(batch, run, refused)
      BY <3>1, <3>3 DEF Ticked
    <3> QED
      BY <1>1, <1>2, <3>4, BatchTickStep
  <2>2. ASSUME NEW b \in Planned, Batch!EndRun(b)
        PROVE  BatchAccount(a)'
    BY <1>1, <1>2, <2>2, EndRunStep
  <2>3. CASE UNCHANGED Batch!vars
    BY <1>2, <2>3
    DEF Batch!vars, Batch!Before, BatchInv, BatchAccount, Paid, Burden, Claims,
        Pairs, Blocking, Preceding
  <2> QED
    BY <2>1, <2>2, <2>3 DEF Batch!Next
<1> QED
  BY <1>1, <1>2 DEF BatchInv

LEMMA BatchInvDelays ==
    Batch!FewBlocked /\ BatchInv => Batch!OnlyDelayed
<1> SUFFICES ASSUME Batch!FewBlocked, BatchInv, NEW a \in Planned
             PROVE  (x5[a] + 1) * Batch!Spare <= Batch!Turn * (x6 + 1)
  BY DEF Batch!OnlyDelayed
<1>1. /\ x5[a] \in Nat /\ x6 \in Nat /\ x3[a] \in 1..Batch!Unclaimed
      /\ Batch!TypeOK
      /\ Paid(x5[a], Burden(a), x3[a], x6)
  BY DEF BatchInv, Batch!TypeOK, BatchAccount
<1>2. Burden(a) \in Nat
  BY <1>1, BurdenBounded, SizesOfAutomations
<1> QED
  BY <1>1, <1>2, PaidIsDelayed

LEMMA RefreshInvStarves == RefreshInv => Refresh!NobodyStarves
<1> SUFFICES ASSUME RefreshInv, NEW c \in Refreshed
             PROVE  x5[c] * BatchSize
                      <= Cardinality(Refreshed) - 1 + BatchSize * x6
  BY SameCardinality DEF Refresh!NobodyStarves
<1>1. /\ x5[c] \in Nat /\ x6 \in Nat
      /\ x5[c] * BatchSize + Cardinality(InFront(c))
           < Cardinality(Refreshed) + BatchSize * x6
  BY SizesOfConnections DEF RefreshInv, Refresh!TypeOK, RefreshAccount
<1>2. Cardinality(InFront(c)) \in Nat
  BY InFrontBounded, SizesOfConnections
<1>3. x5[c] * BatchSize \in Nat /\ BatchSize * x6 \in Nat
  BY <1>1, SizesOfConnections
<1> QED
  BY <1>1, <1>2, <1>3, SizesOfConnections

(***************************************************************************)
(* The types of the two jobs that are not batches                          *)
(***************************************************************************)
(* The schedule of one automation has its proofs; here they are read.      *)
Planner == INSTANCE SchedulerProofs WITH
    clock <- x1, row <- x2, ran <- x3, worker <- x4, editor <- x5, holder <- x6,
    edits <- x7, faults <- x8,
    Editors <- {}, Crons <- {2, 3}, Lease <- 1, MaxTime <- 9, MaxLag <- 1,
    SharedInstants <- TRUE, Prompt <- TRUE, MaxEdits <- 0, MaxFaults <- 1

LEMMA PlannerAssumption == Planner!SchedulerAssumption
BY DEF Planner!SchedulerAssumption, Planner!Times

LEMMA PlannerTypes == Planner!TypeOK => Schedule!TypeOK
BY DEF Planner!TypeOK, Schedule!TypeOK, Planner!Times, Schedule!Times,
       Planner!AutomationRows, Schedule!AutomationRows,
       Planner!Triggers, Schedule!Triggers,
       Planner!Occurrences, Schedule!Occurrences,
       Planner!None, Schedule!None, Planner!Instants, Schedule!Instants,
       Planner!Slots, Schedule!Slots, Planner!Points, Schedule!Points,
       Planner!EditRows, Schedule!EditRows, Planner!Options, Schedule!Options

LEMMA PlannerInit == Schedule!Init => Planner!Init
BY DEF Planner!Init, Schedule!Init, Planner!Triggers, Schedule!Triggers,
       Planner!ResolveNextRunAt, Schedule!ResolveNextRunAt,
       Planner!NextOccurrence, Schedule!NextOccurrence,
       Planner!None, Schedule!None, Planner!NoEdit, Schedule!NoEdit,
       Planner!IdleSlot, Schedule!IdleSlot, Planner!AnyCron, Schedule!AnyCron

LEMMA PlannerTick == Schedule!Tick => Planner!Tick
BY DEF Schedule!Tick, Planner!Tick, Schedule!At, Planner!At,
       Schedule!IsDueAt, Planner!IsDueAt, Schedule!Scheduled, Planner!Scheduled,
       Schedule!None, Planner!None, Schedule!ClaimFreeAt, Planner!ClaimFreeAt

LEMMA PlannerSlot ==
    ASSUME NEW w \in Workers, Schedule!Dispatch(w) \/ Schedule!Fault(w)
    PROVE  Planner!Dispatch(w) \/ Planner!Fault(w)
<1>1. Schedule!HandleTick(w) => Planner!HandleTick(w)
  BY DEF Schedule!HandleTick, Planner!HandleTick, Schedule!At, Planner!At
<1>2. Schedule!FindOrphan(w) => Planner!FindOrphan(w)
  BY DEF Schedule!FindOrphan, Planner!FindOrphan, Schedule!At, Planner!At,
         Schedule!Goto, Planner!Goto, Schedule!Scheduled, Planner!Scheduled,
         Schedule!None, Planner!None
<1>3. Schedule!InitializeNextRunAt(w) => Planner!InitializeNextRunAt(w)
  BY DEF Schedule!InitializeNextRunAt, Planner!InitializeNextRunAt,
         Schedule!StillNull, Planner!StillNull, Schedule!None, Planner!None,
         Schedule!NextOccurrence, Planner!NextOccurrence,
         Schedule!At, Planner!At, Schedule!Goto, Planner!Goto
<1>4. Schedule!Leave(w) <=> Planner!Leave(w)
  BY DEF Schedule!Leave, Planner!Leave, Schedule!IdleSlot, Planner!IdleSlot,
         Schedule!AnyCron, Planner!AnyCron, Schedule!None, Planner!None
<1>5. Schedule!FindDue(w) => Planner!FindDue(w)
  BY <1>4
  DEF Schedule!FindDue, Planner!FindDue, Schedule!At, Planner!At,
      Schedule!IsDue, Planner!IsDue, Schedule!IsDueAt, Planner!IsDueAt,
      Schedule!Scheduled, Planner!Scheduled, Schedule!None, Planner!None,
      Schedule!ClaimFreeAt, Planner!ClaimFreeAt
<1>6. Schedule!Claim(w) => Planner!Claim(w)
  BY <1>4
  DEF Schedule!Claim, Planner!Claim, Schedule!At, Planner!At,
      Schedule!Goto, Planner!Goto, Schedule!Claimable, Planner!Claimable,
      Schedule!ClaimFreeAt, Planner!ClaimFreeAt, Schedule!None, Planner!None
<1>7. Schedule!ClaimedNow(w) <=> Planner!ClaimedNow(w)
  BY DEF Schedule!ClaimedNow, Planner!ClaimedNow
<1>8. Schedule!Verify(w) => Planner!Verify(w)
  BY <1>7
  DEF Schedule!Verify, Planner!Verify, Schedule!At, Planner!At,
      Schedule!Goto, Planner!Goto, Schedule!Fresh, Planner!Fresh,
      Schedule!Scheduled, Planner!Scheduled
<1>9. Schedule!Release(w) => Planner!Release(w)
  BY <1>4, <1>7
  DEF Schedule!Release, Planner!Release, Schedule!At, Planner!At,
      Schedule!None, Planner!None
<1>10. Schedule!TriggerScheduled(w) => Planner!TriggerScheduled(w)
  BY DEF Schedule!TriggerScheduled, Planner!TriggerScheduled,
         Schedule!At, Planner!At, Schedule!Goto, Planner!Goto
<1>11. Schedule!Advance(w) => Planner!Advance(w)
  BY <1>4, <1>7
  DEF Schedule!Advance, Planner!Advance, Schedule!At, Planner!At,
      Schedule!HoldsOccurrence, Planner!HoldsOccurrence,
      Schedule!NextOccurrence, Planner!NextOccurrence,
      Schedule!None, Planner!None
<1>12. Schedule!Fault(w) => Planner!Fault(w)
  BY <1>4
  DEF Schedule!Fault, Planner!Fault, Schedule!At, Planner!At
<1> QED
  BY <1>1, <1>2, <1>3, <1>5, <1>6, <1>8, <1>9, <1>10, <1>11, <1>12
  DEF Schedule!Dispatch, Planner!Dispatch

LEMMA PlannerStep ==
    Planner!CoreInv /\ [Schedule!Next]_(Schedule!vars) => Planner!CoreInv'
<1>1. [Schedule!Next]_(Schedule!vars) => [Planner!Next]_(Planner!vars)
  BY PlannerTick, PlannerSlot
  DEF Schedule!Next, Planner!Next, Schedule!vars, Planner!vars
<1> QED
  BY <1>1, PlannerAssumption, Planner!CoreStep

LEMMA PlannerStarts == Schedule!Init => Planner!CoreInv
BY PlannerInit, PlannerAssumption, Planner!InitCore

(* A callback that writes, and a synchronization that asks Google, has its *)
(* account.                                                                *)
GbpCalls ==
    {r \in Gbp!CallStates :
       r.pc \in {"callback", "upsert", "google", "commit"}
         => r.account \in Accounts}

GbpType == Gbp!TypeOK /\ x3 \in [Gbp!Callers -> GbpCalls]

GbpClaims ==
    [token : Gbp!Callers \cup {Null}, claimed : 0..Gbp!MaxAge,
     attempted : 0..Gbp!MaxAge]

LEMMA GbpAges ==
    /\ Gbp!MaxAge = 3 /\ Gbp!Never = 4
    /\ 0 \in 0..Gbp!MaxAge /\ Gbp!MaxAge \in 0..Gbp!MaxAge
    /\ Gbp!Never \in 0..Gbp!Never
    /\ 0..Gbp!MaxAge \subseteq 0..Gbp!Never
    /\ \A age \in 0..Gbp!MaxAge : Gbp!Older(age) \in 0..Gbp!MaxAge
    /\ \A age \in 0..Gbp!Never :
         age # Gbp!Never => Gbp!Older(age) \in 0..Gbp!Never
BY DEF Gbp!MaxAge, Gbp!Never, Gbp!Older

LEMMA GbpClaimsTyped ==
    /\ Gbp!Unclaimed \in GbpClaims
    /\ \A c \in Gbp!Callers : Gbp!Taken(c) \in GbpClaims
    /\ \A claim \in GbpClaims :
         Gbp!Released(claim) \in GbpClaims /\ Gbp!Aged(claim) \in GbpClaims
BY GbpAges
DEF GbpClaims, Gbp!Unclaimed, Gbp!Taken, Gbp!Released, Gbp!Aged, Gbp!Claim

LEMMA GbpFacts ==
    ASSUME GbpType
    PROVE  /\ x1 \in Gbp!Connections \cup {Null}
           /\ x2 \in [Names -> Gbp!Rows \cup {Null}]
           /\ x3 \in [Gbp!Callers -> GbpCalls]
           /\ x4 \in 0..1 /\ x5 \in 0..1 /\ x6 \subseteq Gbp!Callers
           /\ \A c \in Gbp!Callers : x3[c] \in GbpCalls
           /\ x1 # Null =>
                /\ x1 \in Gbp!Connections /\ x1.id \in 0..1
                /\ x1.token \in Accounts /\ x1.claim \in GbpClaims
                /\ x1.synced \in 0..Gbp!Never
BY DEF GbpType, Gbp!TypeOK, Gbp!Connections, GbpClaims

LEMMA GbpTypedNext ==
    ASSUME x1' \in Gbp!Connections \cup {Null},
           x2' \in [Names -> Gbp!Rows \cup {Null}],
           x3' \in [Gbp!Callers -> GbpCalls],
           x4' \in 0..1, x5' \in 0..1, x6' \subseteq Gbp!Callers
    PROVE  GbpType'
<1>1. x3' \in [Gbp!Callers -> Gbp!CallStates]
  BY DEF GbpCalls
<1> QED
  BY <1>1 DEF GbpType, Gbp!TypeOK

(* The fields of a connection are written one at a time.                   *)
LEMMA ConnectionTyped ==
    ASSUME NEW p \in Gbp!Connections
    PROVE  /\ \A claim \in GbpClaims :
                /\ [p EXCEPT !.claim = claim] \in Gbp!Connections
                /\ \A state \in Gbp!Statuses :
                     [p EXCEPT !.claim = claim, !.status = state]
                       \in Gbp!Connections
                /\ \A age \in 0..Gbp!Never :
                     /\ [p EXCEPT !.claim = claim, !.synced = age]
                          \in Gbp!Connections
                     /\ \A state \in Gbp!Statuses :
                          [p EXCEPT !.claim = claim, !.synced = age,
                                    !.status = state] \in Gbp!Connections
           /\ \A account \in Accounts :
                [p EXCEPT !.subject = account, !.token = account]
                  \in Gbp!Connections
BY DEF Gbp!Connections, GbpClaims

LEMMA CallTyped ==
    /\ Gbp!Idle \in GbpCalls
    /\ \A account \in Accounts :
         [Gbp!Idle EXCEPT !.pc = "callback", !.account = account] \in GbpCalls
    /\ \A account \in Accounts, changed \in BOOLEAN :
         [Gbp!Idle EXCEPT !.pc = "upsert", !.account = account,
                          !.changed = changed] \in GbpCalls
    /\ \A id \in 0..1 :
         /\ [Gbp!Idle EXCEPT !.pc = "claim", !.id = id] \in GbpCalls
         /\ \A account \in Accounts :
              [Gbp!Idle EXCEPT !.pc = "revoke", !.id = id, !.account = account]
                \in GbpCalls
<1>1. Gbp!Idle \in Gbp!CallStates
  BY DEF Gbp!CallStates, Gbp!Idle, Gbp!Points, Gbp!Statuses
<1>2. Gbp!Idle.pc = "idle"
  BY DEF Gbp!Idle
<1>3. \A account \in Accounts :
        [Gbp!Idle EXCEPT !.pc = "callback", !.account = account] \in GbpCalls
  BY <1>1 DEF GbpCalls, Gbp!CallStates, Gbp!Points
<1>4. \A account \in Accounts, changed \in BOOLEAN :
        [Gbp!Idle EXCEPT !.pc = "upsert", !.account = account,
                         !.changed = changed] \in GbpCalls
  BY <1>1 DEF GbpCalls, Gbp!CallStates, Gbp!Points
<1>5. \A id \in 0..1 :
        [Gbp!Idle EXCEPT !.pc = "claim", !.id = id] \in GbpCalls
  BY <1>1 DEF GbpCalls, Gbp!CallStates, Gbp!Points
<1>6. \A id \in 0..1, account \in Accounts :
        [Gbp!Idle EXCEPT !.pc = "revoke", !.id = id, !.account = account]
          \in GbpCalls
  BY <1>1 DEF GbpCalls, Gbp!CallStates, Gbp!Points
<1> QED
  BY <1>1, <1>2, <1>3, <1>4, <1>5, <1>6 DEF GbpCalls

(* One call moves; the others stay as they are.                            *)
LEMMA CallMoves ==
    ASSUME GbpType, NEW c \in Gbp!Callers, NEW r \in GbpCalls,
           x3' = [x3 EXCEPT ![c] = r]
    PROVE  x3' \in [Gbp!Callers -> GbpCalls]
BY GbpFacts

LEMMA CallLeaves ==
    ASSUME GbpType, NEW c \in Gbp!Callers, Gbp!Leave(c)
    PROVE  x3' \in [Gbp!Callers -> GbpCalls]
BY CallMoves, CallTyped DEF Gbp!Leave

(* A call goes on without an account, or with the one it has.              *)
LEMMA CallGoes ==
    ASSUME GbpType, NEW c \in Gbp!Callers
    PROVE  /\ \A point \in {"read", "delete"} :
                [x3[c] EXCEPT !.pc = point] \in GbpCalls
           /\ \A account \in Accounts :
                [x3[c] EXCEPT !.pc = "google", !.account = account] \in GbpCalls
           /\ \A status \in Gbp!Statuses :
                [x3[c] EXCEPT !.pc = "release", !.status = status] \in GbpCalls
           /\ x3[c].pc = "google" => \A names \in SUBSET Names :
                [x3[c] EXCEPT !.pc = "commit", !.observed = names] \in GbpCalls
<1>1. /\ x3[c] \in Gbp!CallStates
      /\ x3[c].pc = "google" => x3[c].account \in Accounts
  BY GbpFacts DEF GbpCalls
<1>2. \A point \in {"read", "delete"} :
        [x3[c] EXCEPT !.pc = point] \in GbpCalls
  BY <1>1 DEF GbpCalls, Gbp!CallStates, Gbp!Points
<1>3. \A account \in Accounts :
        [x3[c] EXCEPT !.pc = "google", !.account = account] \in GbpCalls
  BY <1>1 DEF GbpCalls, Gbp!CallStates, Gbp!Points
<1>4. \A status \in Gbp!Statuses :
        [x3[c] EXCEPT !.pc = "release", !.status = status] \in GbpCalls
  BY <1>1 DEF GbpCalls, Gbp!CallStates, Gbp!Points
<1>5. x3[c].pc = "google" => \A names \in SUBSET Names :
        [x3[c] EXCEPT !.pc = "commit", !.observed = names] \in GbpCalls
  BY <1>1 DEF GbpCalls, Gbp!CallStates, Gbp!Points
<1> QED
  BY <1>2, <1>3, <1>4, <1>5

LEMMA GbpInit == Gbp!Init => GbpType
<1> SUFFICES ASSUME Gbp!Init PROVE GbpType
  OBVIOUS
<1>1. /\ x1 = Null /\ x2 = [n \in Names |-> Null]
      /\ x3 = [c \in Gbp!Callers |-> Gbp!Idle]
      /\ x4 = 0 /\ x5 = 0 /\ x6 = {}
  BY DEF Gbp!Init
<1>2. x3 \in [Gbp!Callers -> GbpCalls]
  BY <1>1, CallTyped
<1>3. x3 \in [Gbp!Callers -> Gbp!CallStates]
  BY <1>2 DEF GbpCalls
<1> QED
  BY <1>1, <1>2, <1>3 DEF GbpType, Gbp!TypeOK

LEMMA GbpCallbackStep ==
    ASSUME GbpType, NEW c \in Gbp!Callers, Gbp!Callback(c)
    PROVE  GbpType'
<1>1. ASSUME NEW account \in Accounts, Gbp!ExchangeCode(c, account)
      PROVE  GbpType'
  <2>1. x3' \in [Gbp!Callers -> GbpCalls]
    BY <1>1, CallMoves, CallTyped DEF Gbp!ExchangeCode
  <2> QED
    BY <1>1, <2>1, GbpFacts, GbpTypedNext DEF Gbp!ExchangeCode
<1>2. CASE Gbp!ReadExisting(c)
  <2>1. x3[c].pc = "callback" /\ x3[c].account \in Accounts
    BY <1>2, GbpFacts DEF Gbp!ReadExisting, Gbp!At, GbpCalls
  <2>2. x3' \in [Gbp!Callers -> GbpCalls]
    <3>1. CASE Gbp!Leave(c)
      BY <3>1, CallLeaves
    <3>2. CASE x3' = [x3 EXCEPT ![c] =
                 [Gbp!Idle EXCEPT !.pc = "upsert", !.account = x3[c].account,
                    !.changed = Gbp!Connected /\ ~Gbp!SameAccount(c)]]
      <4>1. (Gbp!Connected /\ ~Gbp!SameAccount(c)) \in BOOLEAN
        OBVIOUS
      <4> QED
        BY <2>1, <3>2, <4>1, CallMoves, CallTyped
    <3> QED
      BY <1>2, <3>1, <3>2 DEF Gbp!ReadExisting
  <2> QED
    BY <1>2, <2>2, GbpFacts, GbpTypedNext DEF Gbp!ReadExisting
<1>3. CASE Gbp!UpsertConnection(c)
  <2>1. x3[c].account \in Accounts
    BY <1>3, GbpFacts DEF Gbp!UpsertConnection, Gbp!At, GbpCalls
  <2>2. x3' \in [Gbp!Callers -> GbpCalls]
    BY <1>3, CallLeaves DEF Gbp!UpsertConnection
  <2>3. x2' \in [Names -> Gbp!Rows \cup {Null}]
    BY <1>3, GbpFacts DEF Gbp!UpsertConnection, Gbp!Emptied
  <2>4. x4' \in 0..1 /\ x1' \in Gbp!Connections \cup {Null}
    <3>a. \A id \in 1..1 :
            [id |-> id, subject |-> x3[c].account, token |-> x3[c].account,
             claim |-> Gbp!Unclaimed, synced |-> Gbp!Never, status |-> "never"]
              \in Gbp!Connections
      BY <2>1, GbpClaimsTyped, GbpAges
      DEF Gbp!Connections, GbpClaims, Gbp!Statuses
    <3>1. CASE ~Gbp!Connected
      <4>1. x4 + 1 \in 1..1 /\ x4' = x4 + 1
        BY <1>3, <3>1, GbpFacts DEF Gbp!UpsertConnection
      <4> QED
        BY <1>3, <3>a, <3>1, <4>1 DEF Gbp!UpsertConnection
    <3>2. CASE Gbp!Connected
      <4>1. x1 \in Gbp!Connections /\ x1.id \in 1..1
        BY <3>2, GbpFacts DEF Gbp!Connected, Gbp!Connections
      <4> QED
        BY <1>3, <2>1, <3>a, <3>2, <4>1, ConnectionTyped, GbpFacts
        DEF Gbp!UpsertConnection
    <3> QED
      BY <3>1, <3>2
  <2>5. x5' \in 0..1 /\ x6' \subseteq Gbp!Callers
    BY <1>3, GbpFacts DEF Gbp!UpsertConnection
  <2> QED
    BY <2>2, <2>3, <2>4, <2>5, GbpTypedNext
<1> QED
  BY <1>1, <1>2, <1>3 DEF Gbp!Callback

LEMMA GbpBeginStep ==
    ASSUME GbpType, NEW c \in Gbp!Callers, Gbp!BeginSync(c)
    PROVE  GbpType'
<1>1. x1.id \in 0..1
  BY GbpFacts DEF Gbp!BeginSync, Gbp!Connected
<1>2. x3' \in [Gbp!Callers -> GbpCalls]
  BY <1>1, CallMoves, CallTyped DEF Gbp!BeginSync
<1> QED
  BY <1>2, GbpFacts, GbpTypedNext DEF Gbp!BeginSync

LEMMA GbpSyncStep ==
    ASSUME GbpType, NEW c \in Gbp!Callers, Gbp!RunLocationsSync(c)
    PROVE  GbpType'
<1>s. {"running", "success", "partial", "failed"} \subseteq Gbp!Statuses
  BY DEF Gbp!Statuses
<1>1. CASE Gbp!ClaimSync(c)
  <2>1. x3' \in [Gbp!Callers -> GbpCalls]
    <3>1. CASE Gbp!Leave(c)
      BY <3>1, CallLeaves
    <3>2. CASE Gbp!Goto(c, "read")
      <4>1. x3' = [x3 EXCEPT ![c] = [x3[c] EXCEPT !.pc = "read"]]
        BY <3>2 DEF Gbp!Goto
      <4> QED
        BY <4>1, CallGoes, CallMoves
    <3> QED
      BY <1>1, <3>1, <3>2 DEF Gbp!ClaimSync
  <2>2. x1' \in Gbp!Connections \cup {Null} /\ x6' \subseteq Gbp!Callers
    <3>1. CASE Gbp!Holds(c) /\ Gbp!Claimable(x1.claim)
      <4>1. x1 \in Gbp!Connections /\ Gbp!Taken(c) \in GbpClaims
        BY <3>1, GbpFacts, GbpClaimsTyped DEF Gbp!Holds, Gbp!Connected
      <4>2. x1' = [x1 EXCEPT !.claim = Gbp!Taken(c), !.status = "running"]
        BY <1>1, <3>1 DEF Gbp!ClaimSync
      <4>3. x1' \in Gbp!Connections
        BY <1>s, <4>1, <4>2, ConnectionTyped
      <4> QED
        BY <1>1, <3>1, <4>3, GbpFacts DEF Gbp!ClaimSync
    <3>2. CASE ~(Gbp!Holds(c) /\ Gbp!Claimable(x1.claim))
      BY <1>1, <3>2, GbpFacts DEF Gbp!ClaimSync
    <3> QED
      BY <3>1, <3>2
  <2> QED
    BY <1>1, <2>1, <2>2, GbpFacts, GbpTypedNext DEF Gbp!ClaimSync
<1>2. CASE Gbp!ReadConnection(c)
  <2>1. x3' \in [Gbp!Callers -> GbpCalls]
    <3>1. CASE Gbp!Holds(c)
      <4>1. x1.token \in Accounts
        BY <3>1, GbpFacts DEF Gbp!Holds, Gbp!Connected
      <4>2. x3' = [x3 EXCEPT ![c] = [x3[c] EXCEPT !.pc = "google",
                                                  !.account = x1.token]]
        BY <1>2, <3>1, GbpFacts DEF Gbp!ReadConnection
      <4> QED
        BY <4>1, <4>2, CallGoes, CallMoves
    <3>2. CASE ~Gbp!Holds(c)
      <4>1. x3' = [x3 EXCEPT ![c] = [x3[c] EXCEPT !.pc = "release",
                                                  !.status = "failed"]]
        BY <1>2, <3>2, GbpFacts DEF Gbp!ReadConnection
      <4> QED
        BY <1>s, <4>1, CallGoes, CallMoves
    <3> QED
      BY <3>1, <3>2
  <2> QED
    BY <1>2, <2>1, GbpFacts, GbpTypedNext DEF Gbp!ReadConnection
<1>3. CASE Gbp!FetchLocations(c)
  <2>a. x3[c].pc = "google"
    BY <1>3 DEF Gbp!FetchLocations, Gbp!At
  <2>1. x3' \in [Gbp!Callers -> GbpCalls]
    <3>1. ASSUME NEW names \in SUBSET Names,
                 x3' = [x3 EXCEPT ![c].pc = "commit", ![c].observed = names]
          PROVE  x3' \in [Gbp!Callers -> GbpCalls]
      <4>1. x3' = [x3 EXCEPT ![c] = [x3[c] EXCEPT !.pc = "commit",
                                                  !.observed = names]]
        BY <3>1, GbpFacts
      <4> QED
        BY <2>a, <4>1, CallGoes, CallMoves
    <3>2. ASSUME NEW status \in {"partial", "failed"},
                 x3' = [x3 EXCEPT ![c].pc = "release", ![c].status = status]
          PROVE  x3' \in [Gbp!Callers -> GbpCalls]
      <4>1. x3' = [x3 EXCEPT ![c] = [x3[c] EXCEPT !.pc = "release",
                                                  !.status = status]]
        BY <3>2, GbpFacts
      <4> QED
        BY <1>s, <4>1, CallGoes, CallMoves
    <3> QED
      BY <1>3, <3>1, <3>2 DEF Gbp!FetchLocations
  <2> QED
    BY <1>3, <2>1, GbpFacts, GbpTypedNext DEF Gbp!FetchLocations
<1>4. CASE Gbp!CommitSync(c)
  <2>a. x3[c].account \in Accounts
    BY <1>4, GbpFacts DEF Gbp!CommitSync, Gbp!At, GbpCalls
  <2>1. CASE Gbp!Owned(c)
    <3>1. x1' \in Gbp!Connections
      <4>1. x1 \in Gbp!Connections /\ Gbp!Released(x1.claim) \in GbpClaims
        BY <2>1, GbpFacts, GbpClaimsTyped
        DEF Gbp!Owned, Gbp!Holds, Gbp!Connected
      <4>2. x1' = [x1 EXCEPT !.claim = Gbp!Released(x1.claim),
                             !.synced = 0, !.status = "success"]
        BY <1>4, <2>1 DEF Gbp!CommitSync
      <4>3. 0 \in 0..Gbp!Never /\ "success" \in Gbp!Statuses
        BY <1>s, GbpAges
      <4> QED
        BY <4>1, <4>2, <4>3, ConnectionTyped
    <3>2. ASSUME NEW n \in Names
          PROVE  [source |-> x3[c].account, synced |-> 0,
                  linked |-> x2[n] # Null /\ x2[n].linked] \in Gbp!Rows
      <4>1. (x2[n] # Null /\ x2[n].linked) \in BOOLEAN
        BY <3>2
      <4> QED
        BY <2>a, <4>1, GbpAges DEF Gbp!Rows
    <3>3. x2' \in [Names -> Gbp!Rows \cup {Null}]
      BY <1>4, <2>1, <3>2 DEF Gbp!CommitSync
    <3>4. x3' \in [Gbp!Callers -> GbpCalls]
      BY <1>4, <2>1, CallLeaves DEF Gbp!CommitSync
    <3> QED
      BY <1>4, <2>1, <3>1, <3>3, <3>4, GbpFacts, GbpTypedNext
      DEF Gbp!CommitSync
  <2>2. CASE ~Gbp!Owned(c)
    <3>1. x3' = [x3 EXCEPT ![c] = [x3[c] EXCEPT !.pc = "release",
                                                !.status = "failed"]]
      BY <1>4, <2>2, GbpFacts DEF Gbp!CommitSync
    <3>2. x3' \in [Gbp!Callers -> GbpCalls]
      BY <1>s, <3>1, CallGoes, CallMoves
    <3> QED
      BY <1>4, <2>2, <3>2, GbpFacts, GbpTypedNext DEF Gbp!CommitSync
  <2> QED
    BY <2>1, <2>2
<1>5. CASE Gbp!ReleaseSyncClaim(c)
  <2>1. x3' \in [Gbp!Callers -> GbpCalls]
    BY <1>5, CallLeaves DEF Gbp!ReleaseSyncClaim
  <2>2. x1' \in Gbp!Connections \cup {Null}
    <3>1. CASE Gbp!Owned(c)
      <4>1. x3[c].status \in Gbp!Statuses
        BY GbpFacts DEF GbpCalls, Gbp!CallStates
      <4> QED
        BY <1>5, <3>1, <4>1, GbpFacts, GbpClaimsTyped, ConnectionTyped
        DEF Gbp!ReleaseSyncClaim, Gbp!Owned, Gbp!Holds, Gbp!Connected
    <3>2. CASE ~Gbp!Owned(c)
      BY <1>5, <3>2, GbpFacts DEF Gbp!ReleaseSyncClaim
    <3> QED
      BY <3>1, <3>2
  <2> QED
    BY <1>5, <2>1, <2>2, GbpFacts, GbpTypedNext DEF Gbp!ReleaseSyncClaim
<1> QED
  BY <1>1, <1>2, <1>3, <1>4, <1>5 DEF Gbp!RunLocationsSync

LEMMA GbpDisconnectStep ==
    ASSUME GbpType, NEW c \in Gbp!Callers, Gbp!Disconnect(c)
    PROVE  GbpType'
<1>1. CASE Gbp!ReadForRevocation(c)
  <2>1. x1.id \in 0..1 /\ x1.token \in Accounts
    BY <1>1, GbpFacts DEF Gbp!ReadForRevocation, Gbp!Connected
  <2>2. x3' \in [Gbp!Callers -> GbpCalls]
    BY <1>1, <2>1, CallMoves, CallTyped DEF Gbp!ReadForRevocation
  <2> QED
    BY <1>1, <2>2, GbpFacts, GbpTypedNext DEF Gbp!ReadForRevocation
<1>2. CASE Gbp!Revoke(c)
  <2>1. CASE Gbp!Leave(c)
    BY <1>2, <2>1, CallLeaves, GbpFacts, GbpTypedNext DEF Gbp!Revoke
  <2>2. CASE Gbp!Goto(c, "delete")
    <3>1. x3' = [x3 EXCEPT ![c] = [x3[c] EXCEPT !.pc = "delete"]]
      BY <2>2 DEF Gbp!Goto
    <3>2. x3' \in [Gbp!Callers -> GbpCalls]
      BY <3>1, CallGoes, CallMoves
    <3> QED
      BY <1>2, <3>2, GbpFacts, GbpTypedNext DEF Gbp!Revoke
  <2> QED
    BY <1>2, <2>1, <2>2 DEF Gbp!Revoke
<1>3. CASE Gbp!DeleteConnection(c)
  <2>1. x3' \in [Gbp!Callers -> GbpCalls]
    BY <1>3, CallLeaves DEF Gbp!DeleteConnection
  <2>2. /\ x1' \in Gbp!Connections \cup {Null}
        /\ x2' \in [Names -> Gbp!Rows \cup {Null}]
        /\ x6' \subseteq Gbp!Callers
    BY <1>3, GbpFacts DEF Gbp!DeleteConnection
  <2> QED
    BY <1>3, <2>1, <2>2, GbpFacts, GbpTypedNext DEF Gbp!DeleteConnection
<1> QED
  BY <1>1, <1>2, <1>3 DEF Gbp!Disconnect

LEMMA GbpMirrorStep ==
    ASSUME GbpType,
           \/ \E n \in Names, linked \in BOOLEAN : Gbp!LinkLocation(n, linked)
           \/ Gbp!PurgeExpiredLocations
           \/ Gbp!Tick
    PROVE  GbpType'
<1>1. ASSUME NEW n \in Names, NEW linked \in BOOLEAN,
             Gbp!LinkLocation(n, linked)
      PROVE  GbpType'
  <2>1. x2[n] \in Gbp!Rows
    BY <1>1, GbpFacts DEF Gbp!LinkLocation, Gbp!Served
  <2>2. [x2[n] EXCEPT !.linked = linked] \in Gbp!Rows
    BY <2>1 DEF Gbp!Rows
  <2>3. x2' \in [Names -> Gbp!Rows \cup {Null}]
    BY <1>1, <2>2, GbpFacts DEF Gbp!LinkLocation
  <2> QED
    BY <1>1, <2>3, GbpFacts, GbpTypedNext DEF Gbp!LinkLocation
<1>2. CASE Gbp!PurgeExpiredLocations
  <2>1. x2' \in [Names -> Gbp!Rows \cup {Null}]
    BY <1>2, GbpFacts DEF Gbp!PurgeExpiredLocations, Gbp!Purged
  <2> QED
    BY <1>2, <2>1, GbpFacts, GbpTypedNext DEF Gbp!PurgeExpiredLocations
<1>3. CASE Gbp!Tick
  <2>1. x5' \in 0..1
    BY <1>3, GbpFacts DEF Gbp!Tick
  <2>2. x1' \in Gbp!Connections \cup {Null}
    <3>1. CASE Gbp!Connected
      <4>1. (IF x1.synced = Gbp!Never THEN Gbp!Never ELSE Gbp!Older(x1.synced))
              \in 0..Gbp!Never
        BY <3>1, GbpFacts, GbpAges DEF Gbp!Connected
      <4> QED
        BY <1>3, <3>1, <4>1, GbpFacts, GbpClaimsTyped, ConnectionTyped
        DEF Gbp!Tick, Gbp!Connected
    <3>2. CASE ~Gbp!Connected
      BY <1>3, <3>2, GbpFacts DEF Gbp!Tick
    <3> QED
      BY <3>1, <3>2
  <2>3. x2' \in [Names -> Gbp!Rows \cup {Null}]
    <3>1. \A r \in Gbp!Rows : [r EXCEPT !.synced = Gbp!Older(r.synced)]
                                \in Gbp!Rows
      BY GbpAges DEF Gbp!Rows
    <3> QED
      BY <1>3, <3>1, GbpFacts DEF Gbp!Tick
  <2> QED
    BY <1>3, <2>1, <2>2, <2>3, GbpFacts, GbpTypedNext DEF Gbp!Tick
<1> QED
  BY <1>1, <1>2, <1>3

LEMMA GbpStep == GbpType /\ [Gbp!Next]_(Gbp!vars) => GbpType'
<1> SUFFICES ASSUME GbpType, [Gbp!Next]_(Gbp!vars) PROVE GbpType'
  OBVIOUS
<1>1. ASSUME NEW c \in Gbp!Callers, Gbp!Lose(c) PROVE GbpType'
  <2>1. x3' \in [Gbp!Callers -> GbpCalls] /\ x5' \in 0..1
    BY <1>1, CallLeaves, GbpFacts DEF Gbp!Lose
  <2> QED
    BY <1>1, <2>1, GbpFacts, GbpTypedNext DEF Gbp!Lose
<1>2. CASE UNCHANGED Gbp!vars
  BY <1>2, GbpFacts, GbpTypedNext DEF Gbp!vars
<1> QED
  BY <1>1, <1>2, GbpCallbackStep, GbpBeginStep, GbpSyncStep,
     GbpDisconnectStep, GbpMirrorStep
  DEF Gbp!Next, Gbp!SyncLocations, Gbp!RefreshStaleLocations

(***************************************************************************)
(* The theorems                                                            *)
(***************************************************************************)

(* However many connections fail on every attempt, and whatever members    *)
(* and stops of the process do between two ticks of refreshStaleLocations, *)
(* a due connection waits for one turn of the others at most, and for one  *)
(* batch more for each tick cut short or connection put in front.          *)
THEOREM ConnectionsAreNotStarved == Refresh!Spec => []Refresh!NobodyStarves
<1>1. Refresh!Init => RefreshInv
  BY RefreshInit
<1>2. RefreshInv /\ [Refresh!Next]_(Refresh!vars) => RefreshInv'
  BY RefreshStep
<1>3. RefreshInv => Refresh!NobodyStarves
  BY RefreshInvStarves
<1> QED
  BY <1>1, <1>2, <1>3, PTL DEF Refresh!Spec

(* As long as blocked automations do not fill the batches of a whole lease *)
(* every due automation gets its occurrence within a turn of the others,   *)
(* and one turn more for each tick of runDueAutomations that fails.        *)
THEOREM AutomationsAreOnlyDelayed ==
    Batch!FewBlocked => (Batch!Spec => []Batch!OnlyDelayed)
<1> SUFFICES ASSUME Batch!FewBlocked PROVE Batch!Spec => []Batch!OnlyDelayed
  OBVIOUS
<1>1. Batch!Init => BatchInv
  BY BatchInit
<1>2. BatchInv /\ [Batch!Next]_(Batch!vars) => BatchInv'
  BY BatchStep
<1>3. BatchInv => Batch!OnlyDelayed
  BY BatchInvDelays
<1> QED
  BY <1>1, <1>2, <1>3, PTL DEF Batch!Spec

(* Each job keeps its invariant; no step is of two of them.                *)
JobsType ==
    /\ part = "schedule" => Planner!CoreInv
    /\ part = "gbp" => GbpType
    /\ part = "refresh" => RefreshInv
    /\ part = "batch" => Batch!TypeOK

JobsInv == JobsType /\ (part = "batch" => BatchInv)

LEMMA JobsMove ==
    ASSUME [Next]_jobs
    PROVE  /\ part' = part
           /\ part = "schedule" => [Schedule!Next]_(Schedule!vars)
           /\ part = "gbp" => [Gbp!Next]_(Gbp!vars)
           /\ part = "refresh" => [Refresh!Next]_(Refresh!vars)
           /\ part = "batch" => [Batch!Next]_(Batch!vars)
<1>1. CASE UNCHANGED jobs
  BY <1>1 DEF jobs, Schedule!vars, Gbp!vars, Refresh!vars, Batch!vars
<1>2. CASE Next
  BY <1>2 DEF Next, Moves, ScheduleMoves, GbpMoves
<1> QED
  BY <1>1, <1>2

LEMMA JobsStart ==
    /\ Init => JobsType
    /\ Batch!FewBlocked /\ Init => JobsInv
<1>2. Init => JobsType
  BY BatchInitTyped, PlannerStarts, GbpInit, RefreshInit DEF Init, JobsType
<1>3. Batch!FewBlocked /\ Init => (part = "batch" => BatchInv)
  BY BatchInit DEF Init
<1> QED
  BY <1>2, <1>3 DEF JobsInv

LEMMA JobsTypeStep == JobsType /\ [Next]_jobs => JobsType'
BY JobsMove, PlannerStep, GbpStep, RefreshStep, BatchTypeStep DEF JobsType

LEMMA JobsStep == Batch!FewBlocked /\ JobsInv /\ [Next]_jobs => JobsInv'
BY JobsTypeStep, JobsMove, BatchStep DEF JobsInv

(* Of whichever job it is, every variable keeps its type.                  *)
THEOREM JobsTypeCorrect == Spec => []TypeOK
<1>1. Init => JobsType
  BY JobsStart
<1>2. JobsType /\ [Next]_jobs => JobsType'
  BY JobsTypeStep
<1>3. Planner!CoreInv => Schedule!TypeOK
  BY PlannerTypes DEF Planner!CoreInv
<1>4. JobsType => TypeOK
  BY <1>3 DEF JobsType, TypeOK, GbpType, RefreshInv
<1> QED
  BY <1>1, <1>2, <1>4, PTL DEF Spec

(* No row of either batch waits without bound: what fails or is blocked at *)
(* the head of a queue costs those behind it a turn, for any number of     *)
(* rows, any batch, lease, back-off and periods.                           *)
THEOREM NobodyIsStarved == Batch!FewBlocked => (Spec => []NobodyStarves)
<1> SUFFICES ASSUME Batch!FewBlocked PROVE Spec => []NobodyStarves
  OBVIOUS
<1>1. Init => JobsInv
  BY JobsStart
<1>2. JobsInv /\ [Next]_jobs => JobsInv'
  BY JobsStep
<1>3. JobsInv => NobodyStarves
  BY RefreshInvStarves, BatchInvDelays DEF JobsInv, JobsType, NobodyStarves
<1> QED
  BY <1>1, <1>2, <1>3, PTL DEF Spec

=============================================================================
