----------------------------- MODULE GbpReviews -----------------------------
(***************************************************************************)
(* The reviews and the performance of one Business Profile location        *)
(* (GoogleBusinessProfileService.syncReviews, getPerformanceMetrics): each *)
(* reads Google under a claim of the location's row, found before it is    *)
(* claimed, beside the removal of that row by a synchronization, a purge,  *)
(* a reconnection or a disconnection (GbpConnection).                      *)
(***************************************************************************)
EXTENDS Naturals

CONSTANTS
    Calls,              \* requests in progress at a time
    Accounts,           \* Google accounts
    None,               \* null
    Lease, Cooldown,    \* REVIEWS_SYNC_CLAIM_LEASE_MS, ..._COOLDOWN_MS
    CacheTtl,           \* REVIEWS_CACHE_TTL_MS
    MaxLocations        \* bound: rows created one after the other

VARIABLES
    account,            \* the account of the connection, or None
    location,           \* the GoogleBusinessProfileLocation row
    reviews,            \* its GoogleBusinessProfileReview rows
    call,               \* what each call is doing
    created,            \* rows created so far
    outdated            \* history: calls whose data another result overtook

vars == <<account, location, reviews, call, created, outdated>>

MaxAge == CacheTtl + 1
Never == MaxAge + 1     \* reviewsCacheExpiresAt null

INSTANCE LeasedClaim WITH NoToken <- None

Kinds == {"reviews", "performance"}

Claims == [token : Calls \cup {None}, claimed : 0..MaxAge,
           attempted : 0..MaxAge]

(* owner is the account whose synchronization created the row.             *)
Locations == [id : 1..MaxLocations, owner : Accounts,
              claims : [Kinds -> Claims], cached : 0..Never]

Points == {"idle", "connection", "claim", "google", "finish", "release"}

CallStates == [pc : Points, kind : Kinds, id : 0..MaxLocations,
               account : Accounts \cup {None}]

Idle == [pc |-> "idle", kind |-> "reviews", id |-> 0, account |-> None]

At(c, point) == call[c].pc = point
Goto(c, point) == call' = [call EXCEPT ![c].pc = point]
Leave(c) == call' = [call EXCEPT ![c] = Idle]

(* where id, as every statement about the row says.  Mutant: whatever row. *)
AnyRow(c) == location # None

Found(c) == location # None /\ location.id = call[c].id

ClaimOf(c) == location.claims[call[c].kind]

(* and the claim's token.  Mutant: by id alone.                            *)
OwnedById(c) == Found(c)

Owned(c) == Found(c) /\ ClaimOf(c).token = c

WithClaim(c, claim) ==
    [location EXCEPT !.claims[call[c].kind] = claim]

Others(kind, c) == {d \in Calls : call[d].kind = kind /\ d # c}

Init ==
    /\ account = None
    /\ location = None
    /\ reviews = {}
    /\ call = [c \in Calls |-> Idle]
    /\ created = 0
    /\ outdated = {}

(***************************************************************************)
(* The row, as GbpConnection creates and removes it                        *)
(***************************************************************************)
CreateLocation ==
    /\ account # None /\ location = None
    /\ created < MaxLocations
    /\ created' = created + 1
    /\ location' = [id |-> created + 1, owner |-> account,
                    claims |-> [k \in Kinds |-> Unclaimed], cached |-> Never]
    /\ UNCHANGED <<account, reviews, call, outdated>>

(* The reviews go with the row, by the foreign key's cascade.              *)
RemoveLocation ==
    /\ location # None
    /\ location' = None
    /\ reviews' = {}
    /\ UNCHANGED <<account, call, created, outdated>>

Reconnect(a) ==
    /\ a # account
    /\ account' = a
    /\ location' = None
    /\ reviews' = {}
    /\ UNCHANGED <<call, created, outdated>>

(***************************************************************************)
(* syncReviews and getPerformanceMetrics                                   *)
(***************************************************************************)
(* findOwnedLocationWithConnection, in two reads.                          *)
FindLocation(c, kind) ==
    /\ At(c, "idle")
    /\ location # None
    /\ call' = [call EXCEPT ![c] =
         [pc |-> "connection", kind |-> kind, id |-> location.id,
          account |-> None]]
    /\ UNCHANGED <<account, location, reviews, created, outdated>>

FindConnection(c) ==
    /\ At(c, "connection")
    /\ IF account = None
       THEN Leave(c)
       ELSE call' = [call EXCEPT ![c].pc = "claim", ![c].account = account]
    /\ UNCHANGED <<account, location, reviews, created, outdated>>

ClaimLocation(c) ==
    /\ At(c, "claim")
    /\ IF Found(c) /\ Claimable(ClaimOf(c))
       THEN /\ location' = WithClaim(c, Taken(c))
            /\ Goto(c, "google")
       ELSE Leave(c) /\ UNCHANGED location
    /\ UNCHANGED <<account, reviews, created, outdated>>

(* refreshAccessToken and every page, or an error on the way.              *)
ReadGoogle(c) ==
    /\ At(c, "google")
    /\ Goto(c, "finish") \/ Goto(c, "release")
    /\ outdated' = outdated \ {c}
    /\ UNCHANGED <<account, location, reviews, created>>

(* Google lists a review or none; the aggregate is kept beside it.         *)
CommitReviews(c) ==
    /\ At(c, "finish") /\ call[c].kind = "reviews"
    /\ IF Owned(c)
       THEN /\ location' =
                 [WithClaim(c, Released(ClaimOf(c))) EXCEPT !.cached = 0]
            /\ reviews' \in {{}, {0}}
            /\ outdated' = outdated \cup Others("reviews", c)
            /\ Leave(c)
       ELSE Goto(c, "release") /\ UNCHANGED <<location, reviews, outdated>>
    /\ UNCHANGED <<account, created>>

(* The result is returned only when the release still finds the claim.     *)
ReturnPerformance(c) ==
    /\ At(c, "finish") /\ call[c].kind = "performance"
    /\ IF Owned(c)
       THEN /\ location' = WithClaim(c, Released(ClaimOf(c)))
            /\ outdated' = outdated \cup Others("performance", c)
            /\ Leave(c)
       ELSE Goto(c, "release") /\ UNCHANGED <<location, outdated>>
    /\ UNCHANGED <<account, reviews, created>>

(* releaseReviewsSyncClaim, releasePerformanceClaim, in the finally.       *)
ReleaseClaim(c) ==
    /\ At(c, "release")
    /\ location' = IF Owned(c) THEN WithClaim(c, Released(ClaimOf(c)))
                   ELSE location
    /\ Leave(c)
    /\ UNCHANGED <<account, reviews, created, outdated>>

(* A call is lost, or the release of its claim throws.                     *)
Lose(c) ==
    /\ ~At(c, "idle")
    /\ Leave(c)
    /\ UNCHANGED <<account, location, reviews, created, outdated>>

(***************************************************************************)
(* listReviews, purgeExpiredReviews, time                                  *)
(***************************************************************************)
ServedReviews == {age \in reviews : age < CacheTtl}

AggregateServed == location # None /\ location.cached < CacheTtl

PurgeExpiredReviews ==
    /\ reviews # ServedReviews
    /\ reviews' = ServedReviews
    /\ UNCHANGED <<account, location, call, created, outdated>>

Tick ==
    /\ location' =
         IF location = None THEN None
         ELSE [location EXCEPT
                 !.claims = [k \in Kinds |-> Aged(location.claims[k])],
                 !.cached = IF location.cached = Never THEN Never
                            ELSE Older(location.cached)]
    /\ reviews' = {Older(age) : age \in reviews}
    /\ UNCHANGED <<account, call, created, outdated>>

Next ==
    \/ CreateLocation
    \/ RemoveLocation
    \/ \E a \in Accounts \cup {None} : Reconnect(a)
    \/ \E c \in Calls :
         \/ \E kind \in Kinds : FindLocation(c, kind)
         \/ FindConnection(c)
         \/ ClaimLocation(c)
         \/ ReadGoogle(c)
         \/ CommitReviews(c)
         \/ ReturnPerformance(c)
         \/ ReleaseClaim(c)
         \/ Lose(c)
    \/ PurgeExpiredReviews
    \/ Tick

Spec == Init /\ [][Next]_vars

(***************************************************************************)
(* Properties                                                              *)
(***************************************************************************)
TypeOK ==
    /\ account \in Accounts \cup {None}
    /\ location \in Locations \cup {None}
    /\ reviews \in SUBSET (0..MaxAge)
    /\ call \in [Calls -> CallStates]
    /\ created \in 0..MaxLocations
    /\ outdated \subseteq Calls

(* A call that holds a claim reads Google with the token of the account    *)
(* the location belongs to, although it read that token before it claimed  *)
(* the row, and the connection may have changed hands in between.          *)
ReadByOwner ==
    \A c \in Calls :
      (At(c, "google") \/ At(c, "finish")) /\ Owned(c)
        => call[c].account = location.owner

(* Reviews are never served without the aggregate that summarizes them,    *)
(* nor past it: both come from one synchronization and expire together.    *)
AggregateWithReviews ==
    /\ \A age \in reviews : location # None /\ location.cached = age
    /\ ServedReviews # {} => AggregateServed

OutdatedResult ==
    \E c \in outdated :
      At(c, "finish") /\ call'[c].pc = "idle" /\ location' # location

(* A result read before another one of its kind was accepted is discarded: *)
(* it is neither stored nor returned.                                      *)
NothingOutdatedIsAccepted == [][~OutdatedResult]_vars

=============================================================================
