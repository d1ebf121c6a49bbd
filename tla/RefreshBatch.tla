---------------------------- MODULE RefreshBatch ----------------------------
(***************************************************************************)
(* The hourly refresh of the Business Profile connections of every         *)
(* organization (GoogleBusinessProfileService.refreshStaleLocations): one  *)
(* query picks the connections that are due, the least recently attempted  *)
(* first, and the tick synchronizes those that fit in its batch one after  *)
(* the other.  What one synchronization does is GbpConnection.             *)
(***************************************************************************)
EXTENDS Naturals, FiniteSets

CONSTANTS
    Connections,        \* of all organizations
    Failing,            \* those Google refuses for ever
    Batch,              \* LOCATIONS_REFRESH_BATCH_SIZE
    Backoff, StaleAfter,\* in ticks, as in GbpConnection
    MaxDelays           \* bound: ticks cut short, and connections replaced

VARIABLES
    later,              \* for each connection, those attempted after it
    attempted,          \* ticks since the last attempt
    synced,             \* ticks since the last success
    status,             \* lastSyncStatus
    waited,             \* history: ticks a due connection was not taken
    delays              \* history: what MaxDelays bounds

vars == <<later, attempted, synced, status, waited, delays>>

MaxAge == StaleAfter + 1
Never == MaxAge + 1     \* lastSyncedAt null

Older(age) == IF age < MaxAge THEN age + 1 ELSE age

Statuses == {"never", "running", "success", "partial", "failed"}

Init ==
    /\ later = [c \in Connections |-> {}]
    /\ attempted = [c \in Connections |-> MaxAge]
    /\ synced = [c \in Connections |-> Never]
    /\ status = [c \in Connections |-> "never"]
    /\ waited = [c \in Connections |-> 0]
    /\ delays = 0

Due(c) ==
    /\ synced[c] > StaleAfter
    /\ status[c] \in {"failed", "partial"} => attempted[c] > Backoff

DueSet == {c \in Connections : Due(c)}

(* orderBy of the scan.  Mutant: by lastSyncedAt, as an earlier version.   *)
LeastRecentlySynced(c, d) ==
    synced[c] > synced[d] \/ (synced[c] = synced[d] /\ attempted[c] >= attempted[d])

(* lastSyncAttemptAt of c is null or not after d's.  The order among equal *)
(* instants (lastSyncedAt, then id) is left open.                          *)
Before(c, d) == c \notin later[d]

(* What the query, or a tick cut short, takes of a set: the first ones.    *)
FirstOf(first, all) ==
    /\ first \subseteq all
    /\ \A c \in first, d \in all \ first : Before(c, d)

(* take: the batch is the first of those that are due.                     *)
IsBatch(batch) ==
    /\ FirstOf(batch, DueSet)
    /\ Cardinality(batch) = IF Cardinality(DueSet) < Batch
                            THEN Cardinality(DueSet) ELSE Batch

(* running: the call was lost, or could not release its claim.             *)
Outcomes(c) == IF c \in Failing THEN {"failed", "partial", "running"}
               ELSE {"success", "failed", "running"}

(* Attempts of some connections, after those of all the others.            *)
Attempt(taken, outcome) ==
    /\ \A c \in taken : outcome[c] \in Outcomes(c)
    /\ later' = [c \in Connections |->
                   IF c \in taken THEN later[c] \cap taken
                   ELSE later[c] \cup taken]
    /\ status' = [c \in Connections |->
                    IF c \in taken THEN outcome[c] ELSE status[c]]

Synced(taken, outcome) == {c \in taken : outcome[c] = "success"}

(* A tick, an hour after the one before: it ends with its batch, unless the*)
(* process stops.                                                          *)
RefreshStaleLocations ==
    \E batch \in SUBSET Connections : \E taken \in SUBSET batch :
      /\ IsBatch(batch)
      /\ FirstOf(taken, batch)
      /\ taken # batch => delays < MaxDelays
      /\ \E outcome \in [taken -> Statuses] :
           /\ Attempt(taken, outcome)
           /\ synced' = [c \in Connections |->
                           IF c \in Synced(taken, outcome) THEN 0
                           ELSE IF synced[c] = Never THEN Never
                           ELSE Older(synced[c])]
      /\ attempted' = [c \in Connections |->
                         IF c \in taken THEN 0 ELSE Older(attempted[c])]
      /\ waited' = [c \in Connections |->
                      IF c \in taken \/ ~Due(c) THEN 0 ELSE waited[c] + 1]
      /\ delays' = IF taken = batch THEN delays ELSE delays + 1

(* A member synchronizes by hand, between two ticks.                       *)
SyncLocations(c) ==
    /\ \E outcome \in [{c} -> Statuses] :
         /\ Attempt({c}, outcome)
         /\ synced' = [d \in Connections |->
                         IF d \in Synced({c}, outcome) THEN 0 ELSE synced[d]]
    /\ attempted' = [attempted EXCEPT ![c] = 0]
    /\ waited' = [waited EXCEPT ![c] = 0]
    /\ UNCHANGED delays

(* Another account is connected, or a new connection takes the place of a  *)
(* removed one: lastSyncAttemptAt is null, it is read first.               *)
Reconnect(c) ==
    /\ delays < MaxDelays
    /\ later' = [d \in Connections |->
                   IF d = c THEN {e \in Connections \ {c} : status[e] # "never"}
                   ELSE later[d] \ {c}]
    /\ attempted' = [attempted EXCEPT ![c] = MaxAge]
    /\ synced' = [synced EXCEPT ![c] = Never]
    /\ status' = [status EXCEPT ![c] = "never"]
    /\ waited' = [waited EXCEPT ![c] = 0]
    /\ delays' = delays + 1

Next ==
    \/ RefreshStaleLocations
    \/ \E c \in Connections : SyncLocations(c) \/ Reconnect(c)

Spec == Init /\ [][Next]_vars

(***************************************************************************)
(* Properties                                                              *)
(***************************************************************************)
TypeOK ==
    /\ later \in [Connections -> SUBSET Connections]
    /\ attempted \in [Connections -> 0..MaxAge]
    /\ synced \in [Connections -> 0..Never]
    /\ status \in [Connections -> Statuses]
    /\ waited \in [Connections -> Nat]
    /\ delays \in 0..MaxDelays

(* A connection that is due is attempted after all the others have had one *)
(* turn at most, however many of them fail on every attempt and would fill *)
(* the batch; a tick cut short and a connection that goes first because it *)
(* is new cost it one batch each.                                          *)
NobodyStarves ==
    \A c \in Connections :
      waited[c] * Batch <= Cardinality(Connections) - 1 + Batch * delays

=============================================================================
