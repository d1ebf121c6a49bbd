--------------------------- MODULE GbpConnection ---------------------------
(***************************************************************************)
(* The Google Business Profile connection of one organization and the      *)
(* mirror of its locations (GoogleBusinessProfileService): the OAuth       *)
(* callback, the synchronization with its claim, the hourly refresh and    *)
(* purge, and the disconnection.  Each call is a sequence of statements    *)
(* and requests to Google, one step each; the transactions are one step.   *)
(***************************************************************************)
EXTENDS Naturals, FiniteSets

CONSTANTS
    Requests,           \* HTTP requests in progress at a time
    Crons,              \* hourly refreshes in progress, one per instance
    Accounts,           \* Google accounts
    Names,              \* names of the locations Google may return
    None,               \* null
    Lease, Cooldown,    \* SYNC_CLAIM_LEASE_MS, SYNC_COOLDOWN_MS
    Backoff,            \* LOCATIONS_FAILURE_BACKOFF_MS
    StaleAfter,         \* LOCATIONS_STALE_AFTER_MS
    Expiry,             \* LOCATIONS_ABSOLUTE_EXPIRY_MS
    MaxCallbacks,       \* assumption: OAuth callbacks in progress at a time
    MaxConnections,     \* bound: connections created one after the other
    MaxFaults           \* bound: calls lost, and calls that outlive their lease

VARIABLES
    conn,               \* the GoogleBusinessProfileConnection row
    mirror,             \* the GoogleBusinessProfileLocation rows
    call,               \* what each call is doing
    created,            \* connections created so far
    faults,             \* calls lost or overdue so far
    outdated            \* history: calls whose data another write overtook

vars == <<conn, mirror, call, created, faults, outdated>>

MaxAge == Expiry + 1
Never == MaxAge + 1     \* lastSyncedAt null

INSTANCE LeasedClaim WITH NoToken <- None

Callers == Requests \cup Crons

Statuses == {"never", "running", "success", "partial", "failed"}

(* token is the account whose refresh token the row holds.                 *)
Connections ==
    [id : 1..MaxConnections, subject : Accounts, token : Accounts,
     claim : [token : Callers \cup {None}, claimed : 0..MaxAge,
              attempted : 0..MaxAge],
     synced : 0..Never, status : Statuses]

(* source is history: the account with whose token the row was read.       *)
Rows == [source : Accounts, synced : 0..MaxAge, linked : BOOLEAN]

Points == {"idle", "callback", "upsert", "claim", "read", "google",
           "commit", "release", "revoke", "delete"}

CallStates ==
    [pc : Points, id : 0..MaxConnections, account : Accounts \cup {None},
     changed : BOOLEAN, status : Statuses, observed : SUBSET Names]

Idle == [pc |-> "idle", id |-> 0, account |-> None, changed |-> FALSE,
         status |-> "never", observed |-> {}]

At(c, point) == call[c].pc = point

Goto(c, point) == call' = [call EXCEPT ![c].pc = point]

Leave(c) == call' = [call EXCEPT ![c] = Idle]

Connected == conn # None
Holds(c) == Connected /\ conn.id = call[c].id

Init ==
    /\ conn = None
    /\ mirror = [n \in Names |-> None]
    /\ call = [c \in Callers |-> Idle]
    /\ created = 0
    /\ faults = 0
    /\ outdated = {}

(***************************************************************************)
(* completeAuthorization                                                   *)
(***************************************************************************)
InCallback == {c \in Callers : At(c, "callback") \/ At(c, "upsert")}

(* The state is verified, the code exchanged and the account identified.   *)
ExchangeCode(c, account) ==
    /\ c \in Requests
    /\ At(c, "idle")
    /\ Cardinality(InCallback) < MaxCallbacks
    /\ call' = [call EXCEPT ![c] =
         [Idle EXCEPT !.pc = "callback", !.account = account]]
    /\ UNCHANGED <<conn, mirror, created, faults, outdated>>

SameAccount(c) == Connected /\ conn.subject = call[c].account

(* `existing` is read; the token is Google's, or the one `existing` holds. *)
ReadExisting(c) ==
    /\ At(c, "callback")
    /\ \E given \in BOOLEAN :
         IF given \/ SameAccount(c)
         THEN call' = [call EXCEPT ![c] =
                [Idle EXCEPT !.pc = "upsert", !.account = call[c].account,
                             !.changed = Connected /\ ~SameAccount(c)]]
         ELSE Leave(c)
    /\ UNCHANGED <<conn, mirror, created, faults, outdated>>

(* Mutant: the mirror of the replaced account is kept.                     *)
NotEmptied(c) == mirror

Emptied(c) == IF call[c].changed THEN [n \in Names |-> None] ELSE mirror

UpsertConnection(c) ==
    /\ At(c, "upsert")
    /\ LET account == call[c].account IN
       IF ~Connected
       THEN /\ created < MaxConnections
            /\ created' = created + 1
            /\ conn' = [id |-> created + 1, subject |-> account,
                        token |-> account, claim |-> Unclaimed,
                        synced |-> Never, status |-> "never"]
       ELSE /\ conn' = IF call[c].changed
                       THEN [id |-> conn.id, subject |-> account,
                             token |-> account, claim |-> Unclaimed,
                             synced |-> Never, status |-> "never"]
                       ELSE [conn EXCEPT !.subject = account,
                                         !.token = account]
            /\ UNCHANGED created
    /\ mirror' = Emptied(c)
    /\ outdated' = IF call[c].changed THEN Callers ELSE outdated
    /\ Leave(c)
    /\ UNCHANGED faults

(***************************************************************************)
(* runLocationsSync                                                        *)
(***************************************************************************)
(* The where clause of refreshStaleLocations.  Mutant: it has no lease.    *)
Stale ==
    /\ Connected
    /\ conn.synced > StaleAfter
    /\ conn.status \in {"failed", "partial"} => conn.claim.attempted > Backoff

DueIfUnclaimed == Stale /\ conn.claim.token = None

DueForRefresh == Stale /\ LeaseFree(conn.claim)

BeginSync(c) ==
    /\ At(c, "idle")
    /\ Connected
    /\ call' = [call EXCEPT ![c] =
         [Idle EXCEPT !.pc = "claim", !.id = conn.id]]
    /\ UNCHANGED <<conn, mirror, created, faults, outdated>>

SyncLocations(c) == c \in Requests /\ BeginSync(c)

RefreshStaleLocations(c) == c \in Crons /\ DueForRefresh /\ BeginSync(c)

ClaimSync(c) ==
    /\ At(c, "claim")
    /\ IF Holds(c) /\ Claimable(conn.claim)
       THEN /\ conn' = [conn EXCEPT !.claim = Taken(c), !.status = "running"]
            /\ Goto(c, "read")
            /\ outdated' = outdated \ {c}
       ELSE Leave(c) /\ UNCHANGED <<conn, outdated>>
    /\ UNCHANGED <<mirror, created, faults>>

(* The connection is read again, strictly after the claim.                 *)
ReadConnection(c) ==
    /\ At(c, "read")
    /\ IF Holds(c)
       THEN call' = [call EXCEPT ![c].pc = "google",
                                 ![c].account = conn.token]
       ELSE call' = [call EXCEPT ![c].pc = "release", ![c].status = "failed"]
    /\ UNCHANGED <<conn, mirror, created, faults, outdated>>

(* refreshAccessToken, fetchAccounts, and every page of fetchLocations.    *)
FetchLocations(c) ==
    /\ At(c, "google")
    /\ \/ \E names \in SUBSET Names :
            call' = [call EXCEPT ![c].pc = "commit", ![c].observed = names]
       \/ \E status \in {"partial", "failed"} :
            call' = [call EXCEPT ![c].pc = "release", ![c].status = status]
    /\ outdated' = outdated \ {c}
    /\ UNCHANGED <<conn, mirror, created, faults>>

(* where id and syncClaimToken.  Mutant: by id alone.                      *)
OwnedById(c) == Holds(c)

Owned(c) == Holds(c) /\ conn.claim.token = c

CommitSync(c) ==
    /\ At(c, "commit")
    /\ IF Owned(c)
       THEN /\ conn' = [conn EXCEPT !.claim = Released(conn.claim),
                                    !.synced = 0, !.status = "success"]
            /\ mirror' = [n \in Names |->
                 IF n \notin call[c].observed THEN None
                 ELSE [source |-> call[c].account, synced |-> 0,
                       linked |-> mirror[n] # None /\ mirror[n].linked]]
            /\ outdated' = Callers
            /\ Leave(c)
       ELSE /\ call' = [call EXCEPT ![c].pc = "release",
                                    ![c].status = "failed"]
            /\ UNCHANGED <<conn, mirror, outdated>>
    /\ UNCHANGED <<created, faults>>

ReleaseSyncClaim(c) ==
    /\ At(c, "release")
    /\ conn' = IF Owned(c)
               THEN [conn EXCEPT !.claim = Released(conn.claim),
                                 !.status = call[c].status]
               ELSE conn
    /\ Leave(c)
    /\ UNCHANGED <<mirror, created, faults, outdated>>

(***************************************************************************)
(* disconnect                                                              *)
(***************************************************************************)
ReadForRevocation(c) ==
    /\ c \in Requests
    /\ At(c, "idle")
    /\ Connected
    /\ call' = [call EXCEPT ![c] =
         [Idle EXCEPT !.pc = "revoke", !.id = conn.id, !.account = conn.token]]
    /\ UNCHANGED <<conn, mirror, created, faults, outdated>>

(* Google confirms, or the connection is kept.                             *)
Revoke(c) ==
    /\ At(c, "revoke")
    /\ Goto(c, "delete") \/ Leave(c)
    /\ UNCHANGED <<conn, mirror, created, faults, outdated>>

(* The locations go with the connection, by the foreign key's cascade.     *)
DeleteConnection(c) ==
    /\ At(c, "delete")
    /\ IF Holds(c)
       THEN /\ conn' = None
            /\ mirror' = [n \in Names |-> None]
            /\ outdated' = Callers
       ELSE UNCHANGED <<conn, mirror, outdated>>
    /\ Leave(c)
    /\ UNCHANGED <<created, faults>>

(***************************************************************************)
(* linkLocation, unlinkLocation, purgeExpiredLocations, getStatus          *)
(***************************************************************************)
Served(n) == mirror[n] # None /\ mirror[n].synced < Expiry

LinkLocation(n, linked) ==
    /\ Served(n)
    /\ mirror' = [mirror EXCEPT ![n].linked = linked]
    /\ UNCHANGED <<conn, call, created, faults, outdated>>

Purged == [n \in Names |-> IF Served(n) THEN mirror[n] ELSE None]

PurgeExpiredLocations ==
    /\ mirror # Purged
    /\ mirror' = Purged
    /\ UNCHANGED <<conn, call, created, faults, outdated>>

(* getIntelligenceSignal, over getStatus.                                  *)
IntelligenceSignal ==
    IF ~Connected THEN "not_connected"
    ELSE IF conn.synced = Never THEN "not_configured"
    ELSE IF \/ conn.synced > Expiry
            \/ conn.synced > StaleAfter
            \/ conn.status # "success" THEN "partial"
    ELSE "ok"

LocationCount == Cardinality({n \in Names : Served(n)})

(***************************************************************************)
(* Time and faults                                                         *)
(***************************************************************************)
(* The call that holds the claim is about to outlive its lease.            *)
Overdue ==
    /\ Connected
    /\ conn.claim.claimed = Lease
    /\ \E c \in Callers :
         /\ conn.claim.token = c
         /\ call[c].pc \in {"read", "google", "commit", "release"}

Tick ==
    /\ faults' = faults + IF Overdue THEN 1 ELSE 0
    /\ faults' <= MaxFaults
    /\ conn' = IF Connected
               THEN [conn EXCEPT !.claim = Aged(conn.claim),
                       !.synced = IF conn.synced = Never THEN Never
                                  ELSE Older(conn.synced)]
               ELSE conn
    /\ mirror' = [n \in Names |->
         IF mirror[n] = None THEN None
         ELSE [mirror[n] EXCEPT !.synced = Older(mirror[n].synced)]]
    /\ UNCHANGED <<call, created, outdated>>

(* A call is lost, or the release of its claim throws.                     *)
Lose(c) ==
    /\ ~At(c, "idle")
    /\ faults < MaxFaults
    /\ faults' = faults + 1
    /\ Leave(c)
    /\ UNCHANGED <<conn, mirror, created, outdated>>

Callback(c) ==
    \/ \E account \in Accounts : ExchangeCode(c, account)
    \/ ReadExisting(c)
    \/ UpsertConnection(c)

RunLocationsSync(c) ==
    \/ ClaimSync(c)
    \/ ReadConnection(c)
    \/ FetchLocations(c)
    \/ CommitSync(c)
    \/ ReleaseSyncClaim(c)

Disconnect(c) ==
    \/ ReadForRevocation(c)
    \/ Revoke(c)
    \/ DeleteConnection(c)

Next ==
    \/ \E c \in Callers :
         \/ Callback(c)
         \/ SyncLocations(c)
         \/ RefreshStaleLocations(c)
         \/ RunLocationsSync(c)
         \/ Disconnect(c)
         \/ Lose(c)
    \/ \E n \in Names, linked \in BOOLEAN : LinkLocation(n, linked)
    \/ PurgeExpiredLocations
    \/ Tick

Continue(c) ==
    \/ RunLocationsSync(c) \/ ReadExisting(c)
    \/ UpsertConnection(c) \/ Revoke(c) \/ DeleteConnection(c)

(* Time passes, a statement or request that was sent returns (its outcome  *)
(* is any), and the two cron methods are called every hour.                *)
Fairness ==
    /\ WF_vars(Tick)
    /\ WF_vars(PurgeExpiredLocations)
    /\ WF_vars(\E c \in Callers : RefreshStaleLocations(c))
    /\ \A c \in Callers : WF_vars(Continue(c))

Spec == Init /\ [][Next]_vars /\ Fairness

(***************************************************************************)
(* Properties                                                              *)
(***************************************************************************)
TypeOK ==
    /\ conn \in Connections \cup {None}
    /\ mirror \in [Names -> Rows \cup {None}]
    /\ call \in [Callers -> CallStates]
    /\ created \in 0..MaxConnections
    /\ faults \in 0..MaxFaults
    /\ outdated \subseteq Callers

(* The refresh token belongs to the account the connection shows, and so   *)
(* does every row of the mirror: what an account's synchronization read is *)
(* never presented under another account (runLocationsSync reads the token *)
(* after its claim; completeAuthorization drops the mirror and the claim). *)
OneAccount ==
    Connected =>
      /\ conn.token = conn.subject
      /\ \A n \in Names : mirror[n] # None => mirror[n].source = conn.subject

(* The rows are exactly as old as the synchronization the connection       *)
(* reports, so that the signal of getIntelligenceSignal, which looks at    *)
(* the connection only, is `ok` only over rows that are fresh and served.  *)
SignalIsTrue ==
    \A n \in Names :
      mirror[n] # None =>
        /\ Connected
        /\ mirror[n].synced = conn.synced
        /\ IntelligenceSignal = "ok" => Served(n)

OutdatedCommit ==
    \E c \in outdated : At(c, "commit") /\ call'[c] = Idle /\ faults' = faults

(* What a synchronization read before another one committed, or before the *)
(* connection changed hands, never reaches the mirror.                     *)
NothingOutdatedCommits == [][~OutdatedCommit]_vars

Running == Connected /\ conn.status = "running"

(* A connection does not stay `running` because the call that claimed it   *)
(* is lost: once its lease and its data are old, the hourly refresh takes  *)
(* it over.                                                                *)
RunningSettles == Running ~> ~Running

=============================================================================
