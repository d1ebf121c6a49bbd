---------------------------- MODULE SearchConsole ----------------------------
(***************************************************************************)
(* The Search Console and Analytics connection of one organization         *)
(* (GoogleSearchConsoleService): the OAuth callback, the selection of a    *)
(* site and of a property, the reads of both performances, and the signal  *)
(* an audit attaches.  A call reads the connection, asks Google and writes;*)
(* selections are written by organization, what was read by connection.    *)
(***************************************************************************)
EXTENDS Naturals

CONSTANTS
    Calls,              \* requests in progress at a time
    Accounts,           \* Google accounts
    Sites, SitesOf,     \* Search Console properties, and those of an account
    Days,               \* days of the reporting window
    None,               \* null
    MaxConnections      \* bound: connections created one after the other

VARIABLES
    conn,               \* the GoogleSearchConsoleConnection row
    metrics,            \* the GoogleSearchConsoleDailyMetric rows, by day
    call,               \* what each call is doing
    created             \* connections created so far

vars == <<conn, metrics, call, created>>

(* token is the account of the refresh token.  An Analytics property stands*)
(* for the account that listed it.                                         *)
Connections ==
    [id : 1..MaxConnections, token : Accounts, site : Sites \cup {None},
     property : Accounts \cup {None}, synced : BOOLEAN]

(* of and site are history: the connection and the site a row was read for.*)
Metrics == [of : 1..MaxConnections, site : Sites]

Points == {"idle", "callback", "upsert", "sites", "properties", "report",
           "analytics"}

CallStates ==
    [pc : Points, id : 0..MaxConnections, account : Accounts \cup {None},
     token : Accounts \cup {None}, site : Sites \cup {None}]

Idle == [pc |-> "idle", id |-> 0, account |-> None, token |-> None,
         site |-> None]

At(c, point) == call[c].pc = point
Leave(c) == call' = [call EXCEPT ![c] = Idle]
Connected == conn # None

Init ==
    /\ conn = None
    /\ metrics = [d \in Days |-> None]
    /\ call = [c \in Calls |-> Idle]
    /\ created = 0

(***************************************************************************)
(* completeAuthorization                                                   *)
(***************************************************************************)
ExchangeCode(c, account) ==
    /\ At(c, "idle")
    /\ call' = [call EXCEPT ![c] =
         [Idle EXCEPT !.pc = "callback", !.account = account]]
    /\ UNCHANGED <<conn, metrics, created>>

(* The site selected before is kept if this account may select it; the only*)
(* one there is is selected.                                               *)
Selection(account, previous) ==
    IF previous \in SitesOf[account] THEN previous
    ELSE IF \E s \in Sites : SitesOf[account] = {s}
    THEN CHOOSE s \in Sites : SitesOf[account] = {s}
    ELSE None

(* `existing` is read; without a new refresh token its own is kept.        *)
ReadExisting(c) ==
    /\ At(c, "callback")
    /\ \E given \in BOOLEAN :
         IF given \/ Connected
         THEN call' = [call EXCEPT
                ![c].pc = "upsert",
                ![c].token = IF given THEN call[c].account ELSE conn.token,
                ![c].site = Selection(call[c].account,
                              IF Connected THEN conn.site ELSE None)]
         ELSE Leave(c)
    /\ UNCHANGED <<conn, metrics, created>>

UpsertConnection(c) ==
    /\ At(c, "upsert")
    /\ IF Connected
       THEN /\ conn' = [conn EXCEPT !.token = call[c].token,
                                    !.site = call[c].site]
            /\ UNCHANGED created
       ELSE /\ created < MaxConnections
            /\ created' = created + 1
            /\ conn' = [id |-> created + 1, token |-> call[c].token,
                        site |-> call[c].site, property |-> None,
                        synced |-> FALSE]
    /\ Leave(c)
    /\ UNCHANGED metrics

(***************************************************************************)
(* selectSite, selectAnalyticsProperty, getPerformance,                    *)
(* getAnalyticsPerformance                                                 *)
(***************************************************************************)
(* authorizedConnection, and the checks on what was selected before.       *)
ReadConnection(c, point) ==
    /\ At(c, "idle")
    /\ Connected
    /\ point = "report" => conn.site # None
    /\ point = "analytics" => conn.property # None
    /\ call' = [call EXCEPT ![c] =
         [pc |-> point, id |-> conn.id, account |-> None,
          token |-> conn.token, site |-> conn.site]]
    /\ UNCHANGED <<conn, metrics, created>>

(* Google refuses or does not answer, the selection is not in its list, or *)
(* the call is lost.                                                       *)
Fail(c) ==
    /\ ~At(c, "idle")
    /\ Leave(c)
    /\ UNCHANGED <<conn, metrics, created>>

SelectSite(c) ==
    /\ At(c, "sites")
    /\ conn' \in IF Connected
                 THEN {[conn EXCEPT !.site = s] : s \in SitesOf[call[c].token]}
                 ELSE {conn}
    /\ Leave(c)
    /\ UNCHANGED <<metrics, created>>

SelectAnalyticsProperty(c) ==
    /\ At(c, "properties")
    /\ conn' = IF Connected
               THEN [conn EXCEPT !.property = call[c].token] ELSE conn
    /\ Leave(c)
    /\ UNCHANGED <<metrics, created>>

(* where id = connection.id, or the foreign key refuses the whole          *)
(* transaction.  Mutant: by organization, as the selections are written.   *)
StillAny(c) == Connected

StillThere(c) == Connected /\ conn.id = call[c].id

StorePerformance(c) ==
    /\ At(c, "report")
    /\ IF StillThere(c)
       THEN /\ conn' = [conn EXCEPT !.synced = TRUE]
            /\ \E returned \in SUBSET Days :
                 metrics' = [d \in Days |->
                   IF d \in returned
                   THEN [of |-> call[c].id, site |-> call[c].site]
                   ELSE metrics[d]]
       ELSE UNCHANGED <<conn, metrics>>
    /\ Leave(c)
    /\ UNCHANGED created

(* lastAnalyticsSyncedAt; the report itself goes to the caller.            *)
ReturnAnalytics(c) ==
    /\ At(c, "analytics")
    /\ Leave(c)
    /\ UNCHANGED <<conn, metrics, created>>

(* The metrics go with the connection, by the foreign key's cascade.       *)
Disconnect ==
    /\ Connected
    /\ conn' = None
    /\ metrics' = [d \in Days |-> None]
    /\ UNCHANGED <<call, created>>

(* A day leaves the window, another one enters it without a row.           *)
NextDay(d) ==
    /\ metrics[d] # None
    /\ metrics' = [metrics EXCEPT ![d] = None]
    /\ UNCHANGED <<conn, call, created>>

Next ==
    \/ \E c \in Calls :
         \/ \E account \in Accounts : ExchangeCode(c, account)
         \/ ReadExisting(c)
         \/ UpsertConnection(c)
         \/ \E point \in {"sites", "properties", "report", "analytics"} :
              ReadConnection(c, point)
         \/ Fail(c)
         \/ SelectSite(c)
         \/ SelectAnalyticsProperty(c)
         \/ StorePerformance(c)
         \/ ReturnAnalytics(c)
    \/ Disconnect
    \/ \E d \in Days : NextDay(d)

Spec == Init /\ [][Next]_vars

(* getSearchConsoleSignalsForAudit.                                        *)
AuditSignal ==
    IF ~Connected THEN "not_connected"
    ELSE IF conn.site = None THEN "no_property_selected"
    ELSE IF \A d \in Days : metrics[d] = None THEN "not_synced_recently"
    ELSE "ok"

(***************************************************************************)
(* Properties                                                              *)
(***************************************************************************)
TypeOK ==
    /\ conn \in Connections \cup {None}
    /\ metrics \in [Days -> Metrics \cup {None}]
    /\ call \in [Calls -> CallStates]
    /\ created \in 0..MaxConnections

(* Metrics never outlive their connection: a report that Google answers    *)
(* after a disconnection is not stored under the connection that replaces  *)
(* it, so that an `ok` signal only ever shows what the connection read.    *)
MetricsOfConnection ==
    /\ \A d \in Days :
         metrics[d] # None => Connected /\ metrics[d].of = conn.id
    /\ AuditSignal = "ok" => conn.synced

=============================================================================
