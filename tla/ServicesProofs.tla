---------------------------- MODULE ServicesProofs ----------------------------
(***************************************************************************)
(* Proofs about the integrations, the Pages of Meta (MetaPages), Search    *)
(* Console (SearchConsole), the reviews (GbpReviews) and the locations     *)
(* (GbpConnection) of a Business Profile, for any number of calls,         *)
(* accounts, sites, Pages and locations, and any lease and cool-down; then *)
(* about the services together (Services): whatever order their steps come *)
(* in, each one keeps what it promises alone.  A step of the whole is for  *)
(* each service a step of its own or none, so that what OdcProofs,         *)
(* PlatformProofs and the first part of this module prove of each holds of *)
(* all, for every value of the constants ServicesAssumption allows.        *)
(***************************************************************************)
EXTENDS OdcProofs, PlatformProofs

(***************************************************************************)
(* The selected Page                                                       *)
(***************************************************************************)

(* A callback about to write has its user, a selection has its Page.       *)
PageCalls ==
    {r \in Meta!CallStates :
       /\ r.pc = "upsert" => r.user \in Users
       /\ r.pc = "select" => r.page \in Pages}

MetaInv ==
    /\ facebook \in Meta!Connections \cup {None}
    /\ selecting \in [Calls -> PageCalls]
    /\ Meta!OnePage

LEMMA MetaInit == Meta!Init => MetaInv
<1>1. Meta!Idle \in PageCalls
  BY DEF PageCalls, Meta!CallStates, Meta!Idle
<1> QED
  BY <1>1 DEF Meta!Init, MetaInv, Meta!OnePage, Meta!Connected

LEMMA MetaStep == MetaInv /\ [Meta!Next]_(Meta!vars) => MetaInv'
<1> SUFFICES ASSUME MetaInv, [Meta!Next]_(Meta!vars)
             PROVE  MetaInv'
  OBVIOUS
<1>a. /\ facebook \in Meta!Connections \cup {None}
      /\ selecting \in [Calls -> PageCalls]
      /\ Meta!OnePage
  BY DEF MetaInv
<1>b. ASSUME NEW c \in Calls, NEW r \in PageCalls,
             selecting' = [selecting EXCEPT ![c] = r]
      PROVE  selecting' \in [Calls -> PageCalls]
  BY <1>a, <1>b
<1>c. Meta!Idle \in PageCalls
  BY DEF PageCalls, Meta!CallStates, Meta!Idle
<1>d. ASSUME NEW c \in Calls, Meta!Leave(c)
      PROVE  selecting' \in [Calls -> PageCalls]
  BY <1>b, <1>c, <1>d DEF Meta!Leave
<1>e. facebook # None =>
        /\ facebook \in Meta!Connections
        /\ facebook.user \in Users /\ facebook.page \in Pages \cup {None}
  BY <1>a DEF Meta!Connections
<1>f. ASSUME NEW c \in Calls
      PROVE  /\ selecting[c].page \in Pages \cup {None}
             /\ selecting[c].pc = "upsert" => selecting[c].user \in Users
             /\ selecting[c].pc = "select" => selecting[c].page \in Pages
  BY <1>a, <1>f DEF PageCalls, Meta!CallStates
<1>g. ASSUME NEW page \in Pages \cup {None}
      PROVE  Meta!InstagramOf(page) \in WithInstagram \cup {None}
  BY DEF Meta!InstagramOf
<1>1. ASSUME NEW c \in Calls, NEW user \in Users, Meta!Authorize(c, user)
      PROVE  MetaInv'
  <2> DEFINE page ==
               Meta!Selection(user, IF Meta!Connected THEN facebook.page
                                    ELSE None)
  <2>1. page \in Pages \cup {None}
    BY <1>e DEF Meta!Selection, Meta!Connected
  <2>2. [pc |-> "upsert", user |-> user, page |-> page] \in PageCalls
    BY <2>1 DEF PageCalls, Meta!CallStates
  <2>3. selecting' \in [Calls -> PageCalls]
    BY <1>1, <1>b, <2>2 DEF Meta!Authorize
  <2> QED
    BY <1>1, <1>a, <2>3
    DEF Meta!Authorize, MetaInv, Meta!OnePage, Meta!Connected
<1>2. ASSUME NEW c \in Calls, Meta!UpsertConnection(c)
      PROVE  MetaInv'
  <2>1. /\ facebook' \in Meta!Connections
        /\ facebook'.token = facebook'.page
        /\ facebook'.instagram = Meta!InstagramOf(facebook'.page)
    <3>1. /\ selecting[c].page \in Pages \cup {None}
          /\ selecting[c].user \in Users
      BY <1>2, <1>f DEF Meta!UpsertConnection, Meta!At
    <3>2. (Meta!Connected /\ facebook.synced) \in BOOLEAN
      BY <1>a DEF Meta!Connections, Meta!Connected
    <3> QED
      BY <1>2, <1>g, <3>1, <3>2 DEF Meta!UpsertConnection, Meta!Connections
  <2>2. selecting' \in [Calls -> PageCalls]
    BY <1>2, <1>d DEF Meta!UpsertConnection
  <2> QED
    BY <2>1, <2>2 DEF MetaInv, Meta!OnePage
<1>3. ASSUME NEW c \in Calls, NEW page \in Pages,
             Meta!ReadForSelection(c, page)
      PROVE  MetaInv'
  <2>1. [pc |-> "select", user |-> facebook.user, page |-> page]
          \in PageCalls
    BY <1>3, <1>e
    DEF Meta!ReadForSelection, Meta!Connected, PageCalls, Meta!CallStates
  <2>2. selecting' \in [Calls -> PageCalls]
    BY <1>3, <1>b, <2>1 DEF Meta!ReadForSelection
  <2> QED
    BY <1>3, <1>a, <2>2
    DEF Meta!ReadForSelection, MetaInv, Meta!OnePage, Meta!Connected
<1>4. ASSUME NEW c \in Calls, Meta!SelectPage(c)
      PROVE  MetaInv'
  <2>1. selecting' \in [Calls -> PageCalls]
    BY <1>4, <1>d DEF Meta!SelectPage
  <2>2. CASE facebook = None
    BY <1>4, <2>1, <2>2
    DEF Meta!SelectPage, Meta!Connected, MetaInv, Meta!OnePage
  <2>3. CASE facebook # None
    <3>1. selecting[c].page \in Pages
      BY <1>4, <1>f DEF Meta!SelectPage, Meta!At
    <3>2. /\ facebook' \in Meta!Connections
          /\ facebook'.token = facebook'.page
          /\ facebook'.instagram = Meta!InstagramOf(facebook'.page)
      BY <1>4, <1>e, <1>g, <2>3, <3>1
      DEF Meta!SelectPage, Meta!Connected, Meta!Selected, Meta!Connections
    <3> QED
      BY <2>1, <3>2 DEF MetaInv, Meta!OnePage
  <2> QED
    BY <2>2, <2>3
<1>5. ASSUME NEW c \in Calls, Meta!ReadForPerformance(c)
      PROVE  MetaInv'
  <2>1. [pc |-> "store", user |-> facebook.user, page |-> facebook.page]
          \in PageCalls
    BY <1>5, <1>e
    DEF Meta!ReadForPerformance, Meta!Connected, PageCalls, Meta!CallStates
  <2>2. selecting' \in [Calls -> PageCalls]
    BY <1>5, <1>b, <2>1 DEF Meta!ReadForPerformance
  <2> QED
    BY <1>5, <1>a, <2>2
    DEF Meta!ReadForPerformance, MetaInv, Meta!OnePage, Meta!Connected
<1>6. ASSUME NEW c \in Calls, Meta!StoreSync(c)
      PROVE  MetaInv'
  <2>1. selecting' \in [Calls -> PageCalls]
    BY <1>6, <1>d DEF Meta!StoreSync
  <2>2. CASE facebook = None
    BY <1>6, <2>1, <2>2
    DEF Meta!StoreSync, Meta!Connected, MetaInv, Meta!OnePage
  <2>3. CASE facebook # None
    <3>1. /\ facebook' \in Meta!Connections
          /\ facebook'.token = facebook.token
          /\ facebook'.page = facebook.page
          /\ facebook'.instagram = facebook.instagram
      BY <1>6, <1>e, <2>3
      DEF Meta!StoreSync, Meta!Connected, Meta!Connections
    <3> QED
      BY <1>a, <2>1, <2>3, <3>1 DEF MetaInv, Meta!OnePage, Meta!Connected
  <2> QED
    BY <2>2, <2>3
<1>7. ASSUME NEW c \in Calls, Meta!Fail(c)
      PROVE  MetaInv'
  BY <1>7, <1>a, <1>d DEF Meta!Fail, MetaInv, Meta!OnePage, Meta!Connected
<1>8. CASE Meta!Disconnect
  BY <1>8, <1>a DEF Meta!Disconnect, MetaInv, Meta!OnePage, Meta!Connected
<1>9. CASE UNCHANGED Meta!vars
  BY <1>9, <1>a DEF Meta!vars, MetaInv, Meta!OnePage, Meta!Connected
<1> QED
  BY <1>1, <1>2, <1>3, <1>4, <1>5, <1>6, <1>7, <1>8, <1>9 DEF Meta!Next

(* The Page, its token and its Instagram account are always of one Page,   *)
(* whatever callbacks, selections and disconnections overlap.              *)
THEOREM ThePageIsOne ==
    Meta!Spec => [](Meta!TypeOK /\ Meta!OnePage)
<1>1. MetaInv => Meta!TypeOK /\ Meta!OnePage
  <2> SUFFICES ASSUME MetaInv PROVE selecting \in [Calls -> Meta!CallStates]
    BY DEF MetaInv, Meta!TypeOK
  <2> QED
    BY DEF MetaInv, PageCalls
<1> QED
  BY <1>1, MetaInit, MetaStep, PTL DEF Meta!Spec
(***************************************************************************)
(* The metrics of Search Console                                           *)
(***************************************************************************)
ConsoleAssumption ==
    /\ MaxConnections \in Nat
    /\ SitesOf \in [Accounts -> SUBSET WebSites]
    /\ None \notin Gsc!Connections

(* What each call has read by the time it writes it.                       *)
Queries ==
    {r \in Gsc!CallStates :
       /\ r.pc = "callback" => r.account \in Accounts
       /\ r.pc \in {"upsert", "sites", "properties"} => r.token \in Accounts
       /\ r.pc = "report" => r.id \in 1..MaxConnections /\ r.site \in WebSites}

(* A row of metrics needs its connection, and a connection that has stored *)
(* one is synchronized.                                                    *)
ConsoleInv ==
    /\ console \in Gsc!Connections \cup {None}
    /\ metrics \in [Days -> Gsc!Metrics \cup {None}]
    /\ querying \in [Calls -> Queries]
    /\ consoles \in 0..MaxConnections
    /\ \A d \in Days :
         metrics[d] # None =>
           console # None /\ metrics[d].of = console.id /\ console.synced

LEMMA ConsoleInit ==
    ASSUME ConsoleAssumption, Gsc!Init
    PROVE  ConsoleInv
<1>1. Gsc!Idle \in Queries
  BY ConsoleAssumption DEF ConsoleAssumption, Queries, Gsc!CallStates,
     Gsc!Points, Gsc!Idle
<1>2. querying \in [Calls -> Queries]
  BY <1>1 DEF Gsc!Init
<1>3. 0 \in 0..MaxConnections
  BY DEF ConsoleAssumption
<1> QED
  BY <1>2, <1>3 DEF Gsc!Init, ConsoleInv

LEMMA ConsoleFacts ==
    ASSUME ConsoleAssumption, ConsoleInv
    PROVE  /\ console # None =>
                /\ console \in Gsc!Connections
                /\ console.id \in 1..MaxConnections
                /\ console.token \in Accounts
                /\ console.site \in WebSites \cup {None}
           /\ \A c \in Calls :
                /\ querying[c] \in Gsc!CallStates
                /\ querying[c].site \in WebSites \cup {None}
                /\ querying[c].pc = "callback" =>
                     querying[c].account \in Accounts
                /\ querying[c].pc \in {"upsert", "sites", "properties"} =>
                     querying[c].token \in Accounts
                /\ querying[c].pc = "report" =>
                     /\ querying[c].id \in 1..MaxConnections
                     /\ querying[c].site \in WebSites
BY DEF ConsoleInv, Queries, Gsc!CallStates, Gsc!Connections

LEMMA QueryMoves ==
    ASSUME ConsoleAssumption, ConsoleInv, NEW c \in Calls
    PROVE  /\ Gsc!Leave(c) => querying' \in [Calls -> Queries]
           /\ \A r \in Queries :
                querying' = [querying EXCEPT ![c] = r]
                  => querying' \in [Calls -> Queries]
<1>1. Gsc!Idle \in Queries
  BY DEF ConsoleAssumption, Queries, Gsc!CallStates, Gsc!Points, Gsc!Idle
<1> QED
  BY <1>1 DEF ConsoleInv, Gsc!Leave

(* The site of a callback: the one selected before, or the only one.       *)
LEMMA SiteSelected ==
    ASSUME ConsoleAssumption, NEW a \in Accounts, NEW previous
    PROVE  Gsc!Selection(a, previous) \in WebSites \cup {None}
BY DEF ConsoleAssumption, Gsc!Selection

LEMMA ConsoleCallback ==
    ASSUME ConsoleAssumption, ConsoleInv, NEW c \in Calls,
           \/ \E a \in Accounts : Gsc!ExchangeCode(c, a)
           \/ Gsc!ReadExisting(c)
    PROVE  ConsoleInv'
<1> SUFFICES querying' \in [Calls -> Queries]
  BY DEF ConsoleInv, Gsc!ExchangeCode, Gsc!ReadExisting
<1>1. ASSUME NEW a \in Accounts, Gsc!ExchangeCode(c, a)
      PROVE  querying' \in [Calls -> Queries]
  <2> DEFINE one == [Gsc!Idle EXCEPT !.pc = "callback"]
             two == [one EXCEPT !.account = a]
  <2>a. Gsc!Idle \in Gsc!CallStates
    BY DEF ConsoleAssumption, Gsc!CallStates, Gsc!Points, Gsc!Idle
  <2>b. one \in Gsc!CallStates /\ one.pc = "callback"
    BY <2>a DEF Gsc!CallStates, Gsc!Points
  <2>c. querying' = [querying EXCEPT ![c] = two]
    BY <1>1 DEF Gsc!ExchangeCode
  <2> HIDE DEF one
  <2>1. two \in Queries
    BY <2>b DEF Queries, Gsc!CallStates
  <2> QED
    BY <2>c, <2>1, QueryMoves
<1>2. CASE Gsc!ReadExisting(c)
  <2>1. CASE Gsc!Leave(c)
    BY <2>1, QueryMoves
  <2>2. ASSUME NEW t \in Accounts, NEW s \in WebSites \cup {None},
               querying' = [querying EXCEPT ![c].pc = "upsert",
                                            ![c].token = t, ![c].site = s]
        PROVE  querying' \in [Calls -> Queries]
    <3> DEFINE one == [querying[c] EXCEPT !.pc = "upsert"]
               two == [one EXCEPT !.token = t]
               three == [two EXCEPT !.site = s]
    <3>1. querying' = [querying EXCEPT ![c] = three]
      BY <2>2 DEF ConsoleInv
    <3>2. one \in Gsc!CallStates /\ one.pc = "upsert"
      BY ConsoleFacts DEF Gsc!CallStates, Gsc!Points
    <3> HIDE DEF one
    <3>3. two \in Gsc!CallStates /\ two.pc = "upsert" /\ two.token = t
      BY <3>2 DEF Gsc!CallStates
    <3> HIDE DEF two
    <3>4. three \in Queries
      BY <3>3 DEF Gsc!CallStates, Queries
    <3> QED
      BY <3>1, <3>4, QueryMoves
  <2>3. querying[c].account \in Accounts
    BY <1>2, ConsoleFacts DEF Gsc!ReadExisting, Gsc!At
  <2>4. \A given \in BOOLEAN :
          given \/ Gsc!Connected =>
            (IF given THEN querying[c].account ELSE console.token) \in Accounts
    BY <2>3, ConsoleFacts DEF Gsc!Connected
  <2>5. Gsc!Selection(querying[c].account,
                      IF Gsc!Connected THEN console.site ELSE None)
          \in WebSites \cup {None}
    BY <2>3, SiteSelected
  <2> QED
    BY <1>2, <2>1, <2>2, <2>4, <2>5 DEF Gsc!ReadExisting
<1> QED
  BY <1>1, <1>2

LEMMA ConsoleUpsert ==
    ASSUME ConsoleAssumption, ConsoleInv, NEW c \in Calls,
           Gsc!UpsertConnection(c)
    PROVE  ConsoleInv'
<1>1. querying' \in [Calls -> Queries] /\ metrics' = metrics
  BY QueryMoves DEF Gsc!UpsertConnection
<1>2. querying[c].token \in Accounts /\ querying[c].site \in WebSites \cup {None}
  BY ConsoleFacts DEF Gsc!UpsertConnection, Gsc!At
<1>3. CASE console # None
  <2> DEFINE one == [console EXCEPT !.token = querying[c].token]
             two == [one EXCEPT !.site = querying[c].site]
  <2>1. console' = two /\ consoles' = consoles
    BY <1>3 DEF Gsc!UpsertConnection, Gsc!Connected
  <2>2. /\ one \in Gsc!Connections /\ one.id = console.id
        /\ one.synced = console.synced
    BY <1>2, <1>3, ConsoleFacts DEF Gsc!Connections
  <2> HIDE DEF one
  <2>3. /\ two \in Gsc!Connections /\ two.id = console.id
        /\ two.synced = console.synced
    BY <1>2, <2>2 DEF Gsc!Connections
  <2> HIDE DEF two
  <2> QED
    BY <1>1, <1>3, <2>1, <2>3 DEF ConsoleInv, ConsoleAssumption
<1>4. CASE console = None
  <2>1. /\ consoles < MaxConnections /\ consoles' = consoles + 1
        /\ console' = [id |-> consoles + 1, token |-> querying[c].token,
                       site |-> querying[c].site, property |-> None,
                       synced |-> FALSE]
    BY <1>4 DEF Gsc!UpsertConnection, Gsc!Connected
  <2>2. /\ consoles + 1 \in 1..MaxConnections
        /\ consoles + 1 \in 0..MaxConnections
    BY <2>1 DEF ConsoleInv, ConsoleAssumption
  <2>3. console' \in Gsc!Connections
    BY <1>2, <2>1, <2>2 DEF Gsc!Connections
  <2>4. \A d \in Days : metrics[d] = None
    BY <1>4 DEF ConsoleInv
  <2> QED
    BY <1>1, <2>1, <2>2, <2>3, <2>4 DEF ConsoleInv
<1> QED
  BY <1>3, <1>4

LEMMA ConsoleSelections ==
    ASSUME ConsoleAssumption, ConsoleInv, NEW c \in Calls,
           Gsc!SelectSite(c) \/ Gsc!SelectAnalyticsProperty(c)
    PROVE  ConsoleInv'
<1>1. /\ querying' \in [Calls -> Queries]
      /\ metrics' = metrics /\ consoles' = consoles
  BY QueryMoves DEF Gsc!SelectSite, Gsc!SelectAnalyticsProperty
<1>2. querying[c].token \in Accounts
  BY ConsoleFacts
  DEF Gsc!SelectSite, Gsc!SelectAnalyticsProperty, Gsc!At
<1>3. \/ console' = console
      \/ /\ console # None
         /\ \/ \E s \in WebSites : console' = [console EXCEPT !.site = s]
            \/ console' = [console EXCEPT !.property = querying[c].token]
  BY <1>2 DEF Gsc!SelectSite, Gsc!SelectAnalyticsProperty, Gsc!Connected,
              ConsoleAssumption
<1>4. console # None =>
        \/ console' = console
        \/ /\ console' \in Gsc!Connections /\ console'.id = console.id
           /\ console'.synced = console.synced
  BY <1>2, <1>3, ConsoleFacts DEF Gsc!Connections
<1> QED
  BY <1>1, <1>3, <1>4 DEF ConsoleInv, ConsoleAssumption

LEMMA ConsoleStore ==
    ASSUME ConsoleAssumption, ConsoleInv, NEW c \in Calls,
           Gsc!StorePerformance(c)
    PROVE  ConsoleInv'
<1>1. querying' \in [Calls -> Queries] /\ consoles' = consoles
  BY QueryMoves DEF Gsc!StorePerformance
<1>2. CASE ~Gsc!StillThere(c)
  BY <1>1, <1>2 DEF Gsc!StorePerformance, ConsoleInv
<1>3. CASE Gsc!StillThere(c)
  <2>1. /\ console # None /\ console.id = querying[c].id
        /\ console' = [console EXCEPT !.synced = TRUE]
    BY <1>3 DEF Gsc!StorePerformance, Gsc!StillThere, Gsc!Connected
  <2>2. /\ console' \in Gsc!Connections
        /\ console'.id = console.id /\ console'.synced
    BY <2>1, ConsoleFacts DEF Gsc!Connections
  <2> DEFINE new == [of |-> querying[c].id, site |-> querying[c].site]
  <2>3. new \in Gsc!Metrics /\ new.of = console.id
    BY <2>1, ConsoleFacts DEF Gsc!StorePerformance, Gsc!At, Gsc!Metrics
  <2>4. PICK returned \in SUBSET Days :
          metrics' = [d \in Days |->
                        IF d \in returned THEN new ELSE metrics[d]]
    BY <1>3 DEF Gsc!StorePerformance
  <2> HIDE DEF new
  <2>5. metrics' \in [Days -> Gsc!Metrics \cup {None}]
    BY <2>3, <2>4 DEF ConsoleInv
  <2>6. \A d \in Days :
          metrics'[d] # None => metrics'[d].of = console'.id
    BY <2>2, <2>3, <2>4 DEF ConsoleInv
  <2>7. console' # None
    BY <2>2 DEF ConsoleAssumption
  <2> QED
    BY <1>1, <2>2, <2>5, <2>6, <2>7 DEF ConsoleInv
<1> QED
  BY <1>2, <1>3

LEMMA ConsoleStep ==
    ASSUME ConsoleAssumption, ConsoleInv, [Gsc!Next]_(Gsc!vars)
    PROVE  ConsoleInv'
<1>1. ASSUME NEW c \in Calls,
             NEW point \in {"sites", "properties", "report", "analytics"},
             Gsc!ReadConnection(c, point)
      PROVE  ConsoleInv'
  <2> DEFINE r == [pc |-> point, id |-> console.id, account |-> None,
                   token |-> console.token, site |-> console.site]
  <2>1. r \in Gsc!CallStates
    BY <1>1, ConsoleFacts
    DEF Gsc!ReadConnection, Gsc!Connected, Gsc!CallStates, Gsc!Points,
        ConsoleAssumption
  <2>2. /\ r.pc # "callback" /\ r.token \in Accounts
        /\ r.pc = "report" => r.id \in 1..MaxConnections /\ r.site \in WebSites
    BY <1>1, ConsoleFacts DEF Gsc!ReadConnection, Gsc!Connected
  <2>3. querying' = [querying EXCEPT ![c] = r]
    BY <1>1 DEF Gsc!ReadConnection
  <2> HIDE DEF r
  <2>4. querying' \in [Calls -> Queries]
    BY <2>1, <2>2, <2>3, QueryMoves DEF Queries
  <2> QED
    BY <1>1, <2>4 DEF ConsoleInv, Gsc!ReadConnection
<1>2. ASSUME NEW c \in Calls, Gsc!Fail(c) \/ Gsc!ReturnAnalytics(c)
      PROVE  ConsoleInv'
  BY <1>2, QueryMoves DEF ConsoleInv, Gsc!Fail, Gsc!ReturnAnalytics
<1>3. CASE Gsc!Disconnect
  BY <1>3 DEF ConsoleInv, Gsc!Disconnect
<1>4. ASSUME NEW d \in Days, Gsc!NextDay(d)
      PROVE  ConsoleInv'
  BY <1>4 DEF ConsoleInv, Gsc!NextDay
<1>5. CASE UNCHANGED Gsc!vars
  BY <1>5 DEF ConsoleInv, Gsc!vars
<1> QED
  BY <1>1, <1>2, <1>3, <1>4, <1>5, ConsoleCallback, ConsoleUpsert,
     ConsoleSelections, ConsoleStore
  DEF Gsc!Next

(* Metrics never outlive their connection, nor are they stored under the   *)
(* one that replaces it, and an `ok` signal is of a connection that was    *)
(* synchronized.                                                           *)
THEOREM MetricsAreOfTheConnection ==
    ASSUME ConsoleAssumption
    PROVE  Gsc!Spec => [](Gsc!TypeOK /\ Gsc!MetricsOfConnection)
<1>1. Gsc!Init => ConsoleInv
  BY ConsoleInit
<1>2. ConsoleInv /\ [Gsc!Next]_(Gsc!vars) => ConsoleInv'
  BY ConsoleStep
<1>3. ConsoleInv => Gsc!TypeOK
  <2> SUFFICES ASSUME ConsoleInv
               PROVE  querying \in [Calls -> Gsc!CallStates]
    BY DEF ConsoleInv, Gsc!TypeOK
  <2> QED
    BY DEF ConsoleInv, Queries
<1>4. ConsoleInv => Gsc!MetricsOfConnection
  BY DEF ConsoleInv, Gsc!MetricsOfConnection, Gsc!AuditSignal, Gsc!Connected
<1> QED
  BY <1>1, <1>2, <1>3, <1>4, PTL DEF Gsc!Spec
(***************************************************************************)
(* The reviews and the performance of a location                           *)
(***************************************************************************)
ReviewsAssumption ==
    /\ MaxLocations \in Nat /\ CacheTtl \in Nat
    /\ None \notin Calls /\ None \notin Reviews!Locations

Late == {"claim", "google", "finish", "release"}

(* A location is of the account now connected, a call that found it read   *)
(* that account after it, and rows are never created under an old number.  *)
OwnersInv ==
    /\ location # None =>
         location.owner = account /\ location.id <= locations
    /\ \A c \in Calls :
         /\ reading[c].id <= locations
         /\ reading[c].pc \in Late /\ Reviews!Found(c)
              => reading[c].account = location.owner

(* A call that another one overtook holds no claim when it has finished.   *)
OvertakenInv ==
    \A c \in outrun : reading[c].pc = "finish" => ~Reviews!Owned(c)

ReviewsInv ==
    /\ Reviews!TypeOK
    /\ OwnersInv
    /\ \A age \in reviews : location # None /\ location.cached = age
    /\ OvertakenInv

LEMMA ReviewsFacts ==
    ASSUME ReviewsAssumption, ReviewsInv
    PROVE  /\ Reviews!MaxAge \in Nat /\ Reviews!Never = Reviews!MaxAge + 1
           /\ locations \in 0..MaxLocations
           /\ account \in Accounts \cup {None}
           /\ reviews \subseteq 0..Reviews!MaxAge
           /\ outrun \subseteq Calls
           /\ reading \in [Calls -> Reviews!CallStates]
           /\ \A c \in Calls :
                /\ reading[c] \in Reviews!CallStates
                /\ reading[c].kind \in Reviews!Kinds
                /\ reading[c].id \in 0..MaxLocations
                /\ reading[c].id <= locations
           /\ location # None =>
                /\ location \in Reviews!Locations
                /\ location.id \in 1..MaxLocations
                /\ location.id <= locations
                /\ location.owner \in Accounts /\ location.owner = account
                /\ location.cached \in 0..Reviews!Never
                /\ location.claims \in [Reviews!Kinds -> Reviews!Claims]
BY DEF ReviewsAssumption, ReviewsInv, OwnersInv, Reviews!TypeOK,
       Reviews!Locations, Reviews!CallStates, Reviews!MaxAge, Reviews!Never

LEMMA ClaimsAreClaims ==
    ASSUME ReviewsAssumption
    PROVE  /\ Reviews!Unclaimed \in Reviews!Claims
           /\ Reviews!Unclaimed.token = None
           /\ \A c \in Calls : /\ Reviews!Taken(c) \in Reviews!Claims
                               /\ Reviews!Taken(c).token = c
           /\ \A claim \in Reviews!Claims :
                /\ Reviews!Released(claim) \in Reviews!Claims
                /\ Reviews!Released(claim).token = None
                /\ Reviews!Aged(claim) \in Reviews!Claims
                /\ Reviews!Aged(claim).token = claim.token
<1>1. Reviews!MaxAge \in Nat
  BY DEF ReviewsAssumption, Reviews!MaxAge
<1>2. \A age \in 0..Reviews!MaxAge : Reviews!Older(age) \in 0..Reviews!MaxAge
  BY <1>1 DEF Reviews!Older
<1>3. 0 \in 0..Reviews!MaxAge /\ Reviews!MaxAge \in 0..Reviews!MaxAge
  BY <1>1
<1> QED
  BY <1>2, <1>3
  DEF Reviews!Claims, Reviews!Claim, Reviews!Unclaimed, Reviews!Taken,
      Reviews!Released, Reviews!Aged

(* A claim that is written changes that claim alone.                       *)
LEMMA ClaimWritten ==
    ASSUME ReviewsAssumption, ReviewsInv, location # None, NEW c \in Calls,
           NEW claim \in Reviews!Claims, NEW w,
           \/ w = Reviews!WithClaim(c, claim)
           \/ w = [Reviews!WithClaim(c, claim) EXCEPT !.cached = 0]
    PROVE  /\ w \in Reviews!Locations
           /\ w.id = location.id /\ w.owner = location.owner
           /\ w = Reviews!WithClaim(c, claim) => w.cached = location.cached
           /\ w # Reviews!WithClaim(c, claim) => w.cached = 0
           /\ \A k \in Reviews!Kinds :
                w.claims[k] = IF k = reading[c].kind THEN claim
                              ELSE location.claims[k]
<1> DEFINE kinds == [location.claims EXCEPT ![reading[c].kind] = claim]
           one == [location EXCEPT !.claims = kinds]
           two == [one EXCEPT !.cached = 0]
<1>1. /\ kinds \in [Reviews!Kinds -> Reviews!Claims]
      /\ \A k \in Reviews!Kinds :
           kinds[k] = IF k = reading[c].kind THEN claim ELSE location.claims[k]
  BY ReviewsFacts
<1>2. Reviews!WithClaim(c, claim) = one
  BY DEF Reviews!WithClaim
<1> HIDE DEF kinds
<1>3. /\ one \in Reviews!Locations
      /\ one.id = location.id /\ one.owner = location.owner
      /\ one.cached = location.cached /\ one.claims = kinds
  BY <1>1, ReviewsFacts DEF Reviews!Locations
<1> HIDE DEF one
<1>4. /\ two \in Reviews!Locations
      /\ two.id = location.id /\ two.owner = location.owner
      /\ two.cached = 0 /\ two.claims = kinds
  BY <1>3, ReviewsFacts DEF Reviews!Locations
<1>5. w = one \/ w = two
  BY <1>2
<1> HIDE DEF two
<1> QED
  BY <1>1, <1>2, <1>3, <1>4, <1>5

(* The other calls hold no claim they did not hold before, and none of the *)
(* kind of the call that wrote its own.                                    *)
LEMMA OthersGainNothing ==
    ASSUME ReviewsAssumption, ReviewsInv, location # None, NEW c \in Calls,
           NEW claim \in Reviews!Claims, claim.token \in {c, None},
           \/ location' = Reviews!WithClaim(c, claim)
           \/ location' = [Reviews!WithClaim(c, claim) EXCEPT !.cached = 0],
           NEW d \in Calls, d # c, reading'[d] = reading[d],
           Reviews!Owned(d)'
    PROVE  Reviews!Owned(d) /\ reading[d].kind # reading[c].kind
<1>1. /\ location'.id = location.id
      /\ \A k \in Reviews!Kinds :
           location'.claims[k] = IF k = reading[c].kind THEN claim
                                 ELSE location.claims[k]
  BY ClaimWritten
<1>2. reading[d].kind \in Reviews!Kinds
  BY ReviewsFacts
<1>3. /\ location'.id = reading[d].id
      /\ location'.claims[reading[d].kind].token = d
  BY DEF Reviews!Owned, Reviews!Found, Reviews!ClaimOf
<1>4. reading[d].kind # reading[c].kind
  BY <1>1, <1>2, <1>3 DEF ReviewsAssumption
<1> QED
  BY <1>1, <1>2, <1>3, <1>4 DEF Reviews!Owned, Reviews!Found, Reviews!ClaimOf

(* What a step of one call must establish.                                 *)
LEMMA CallStep ==
    ASSUME ReviewsAssumption, ReviewsInv, NEW c \in Calls,
           NEW r \in Reviews!CallStates,
           reading' = [reading EXCEPT ![c] = r],
           account' = account, locations' = locations, r.id <= locations,
           \/ location' = location
           \/ /\ location # None /\ location' \in Reviews!Locations
              /\ location'.id = location.id
              /\ location'.owner = location.owner,
           r.pc \in Late /\ location # None /\ location.id = r.id
             => r.account = location.owner,
           reviews' \subseteq 0..Reviews!MaxAge,
           \A age \in reviews' : location' # None /\ location'.cached = age,
           outrun' \subseteq Calls,
           \A d \in outrun' :
             /\ d = c => r.pc # "finish"
             /\ d # c /\ reading[d].pc = "finish" => ~Reviews!Owned(d)'
    PROVE  ReviewsInv'
<1>1. /\ reading'[c] = r
      /\ \A d \in Calls : d # c => reading'[d] = reading[d]
      /\ reading' \in [Calls -> Reviews!CallStates]
  BY ReviewsFacts
<1>2. location' # None <=> location # None
  BY DEF ReviewsAssumption
<1>3. location # None => /\ location'.id = location.id
                         /\ location'.owner = location.owner
  OBVIOUS
<1>4. Reviews!TypeOK'
  <2>1. location' \in Reviews!Locations \cup {None}
    BY ReviewsFacts
  <2> QED
    BY <1>1, <2>1, ReviewsFacts DEF Reviews!TypeOK
<1>5. OwnersInv'
  <2>1. location' # None =>
          location'.owner = account' /\ location'.id <= locations'
    BY <1>2, <1>3 DEF ReviewsInv, OwnersInv
  <2>2. \A d \in Calls : reading'[d].id <= locations'
    BY <1>1 DEF ReviewsInv, OwnersInv
  <2>3. ASSUME NEW d \in Calls, reading'[d].pc \in Late, Reviews!Found(d)'
        PROVE  reading'[d].account = location'.owner
    BY <1>1, <1>2, <1>3, <2>3 DEF ReviewsInv, OwnersInv, Reviews!Found
  <2> QED
    BY <2>1, <2>2, <2>3 DEF OwnersInv
<1>6. OvertakenInv'
  BY <1>1 DEF OvertakenInv
<1> QED
  BY <1>4, <1>5, <1>6 DEF ReviewsInv

LEMMA ReviewsInit ==
    ASSUME ReviewsAssumption, Reviews!Init
    PROVE  ReviewsInv
<1>1. Reviews!Idle \in Reviews!CallStates
  BY DEF ReviewsAssumption, Reviews!Idle, Reviews!CallStates,
         Reviews!Points, Reviews!Kinds
<1>2. /\ reading = [c \in Calls |-> Reviews!Idle]
      /\ reading \in [Calls -> Reviews!CallStates]
      /\ location = None /\ locations = 0 /\ reviews = {} /\ outrun = {}
      /\ account = None
  BY <1>1 DEF Reviews!Init
<1>3. 0 \in 0..MaxLocations
  BY DEF ReviewsAssumption
<1>4. Reviews!TypeOK
  BY <1>2, <1>3 DEF Reviews!TypeOK
<1>5. \A c \in Calls : reading[c].id <= locations
  BY <1>2 DEF Reviews!Idle
<1> QED
  BY <1>2, <1>4, <1>5
  DEF ReviewsInv, OwnersInv, OvertakenInv, Reviews!Found

(* The steps of a call that leave the row alone.                           *)
LEMMA ReadersStep ==
    ASSUME ReviewsAssumption, ReviewsInv, NEW c \in Calls,
           \/ \E kind \in Reviews!Kinds : Reviews!FindLocation(c, kind)
           \/ Reviews!FindConnection(c)
           \/ Reviews!ReadGoogle(c)
           \/ Reviews!Lose(c)
    PROVE  ReviewsInv'
<1>1. /\ account' = account /\ location' = location /\ reviews' = reviews
      /\ locations' = locations
      /\ outrun' = outrun \/ outrun' = outrun \ {c}
      /\ outrun' = outrun \/ Reviews!ReadGoogle(c)
  BY DEF Reviews!FindLocation, Reviews!FindConnection, Reviews!ReadGoogle,
         Reviews!Lose
<1>2. \A d \in outrun' : d # c /\ reading[d].pc = "finish"
                            => ~Reviews!Owned(d) /\ d \in Calls
  BY <1>1, ReviewsFacts DEF ReviewsInv, OvertakenInv
<1>3. PICK r \in Reviews!CallStates :
        /\ reading' = [reading EXCEPT ![c] = r] /\ r.id <= locations
        /\ r.pc \in Late /\ location # None /\ location.id = r.id
             => r.account = location.owner
        /\ r.pc = "finish" => Reviews!ReadGoogle(c)
  <2>1. ASSUME NEW kind \in Reviews!Kinds, Reviews!FindLocation(c, kind)
        PROVE  \E r \in Reviews!CallStates :
                 /\ reading' = [reading EXCEPT ![c] = r] /\ r.id <= locations
                 /\ r.pc \notin Late
    <3> DEFINE r == [pc |-> "connection", kind |-> kind, id |-> location.id,
                     account |-> None]
    <3>1. location.id \in 0..MaxLocations /\ location.id <= locations
      BY <2>1, ReviewsFacts DEF Reviews!FindLocation
    <3>2. r \in Reviews!CallStates /\ r.id <= locations /\ r.pc \notin Late
      BY <3>1 DEF Reviews!CallStates, Reviews!Points, Late
    <3> QED
      BY <2>1, <3>2 DEF Reviews!FindLocation
  <2>2. CASE Reviews!FindConnection(c) /\ account # None
    <3> DEFINE one == [reading[c] EXCEPT !.pc = "claim"]
               two == [one EXCEPT !.account = account]
    <3>1. reading' = [reading EXCEPT ![c] = two]
      BY <2>2, ReviewsFacts DEF Reviews!FindConnection
    <3>2. one \in Reviews!CallStates /\ one.pc = "claim"
          /\ one.id = reading[c].id
      BY ReviewsFacts DEF Reviews!CallStates, Reviews!Points
    <3> HIDE DEF one
    <3>3. /\ two \in Reviews!CallStates /\ two.pc = "claim"
          /\ two.id = reading[c].id /\ two.account = account
      BY <3>2, ReviewsFacts DEF Reviews!CallStates
    <3>4. location # None => location.owner = account
      BY ReviewsFacts
    <3>5. two.id <= locations
      BY <3>3, ReviewsFacts
    <3> HIDE DEF two
    <3> QED
      BY <3>1, <3>3, <3>4, <3>5
  <2>3. CASE Reviews!Leave(c)
    <3>1. /\ Reviews!Idle \in Reviews!CallStates
          /\ Reviews!Idle.id <= locations /\ Reviews!Idle.pc = "idle"
      BY ReviewsFacts
      DEF ReviewsAssumption, Reviews!Idle, Reviews!CallStates,
          Reviews!Points, Reviews!Kinds
    <3> QED
      BY <2>3, <3>1 DEF Reviews!Leave, Late
  <2>4. CASE Reviews!ReadGoogle(c)
    <3>1. PICK point \in {"finish", "release"} :
            reading' = [reading EXCEPT ![c].pc = point]
      BY <2>4 DEF Reviews!ReadGoogle, Reviews!Goto
    <3> DEFINE one == [reading[c] EXCEPT !.pc = point]
    <3>2. reading' = [reading EXCEPT ![c] = one]
      BY <3>1, ReviewsFacts
    <3>3. /\ one \in Reviews!CallStates /\ one.id = reading[c].id
          /\ one.account = reading[c].account
      BY ReviewsFacts DEF Reviews!CallStates, Reviews!Points
    <3>4. reading[c].pc \in Late
      BY <2>4 DEF Reviews!ReadGoogle, Reviews!At, Late
    <3>5. location # None /\ location.id = one.id
            => one.account = location.owner
      BY <3>3, <3>4 DEF ReviewsInv, OwnersInv, Reviews!Found
    <3>6. one.id <= locations
      BY <3>3, ReviewsFacts
    <3> HIDE DEF one
    <3> QED
      BY <2>4, <3>2, <3>3, <3>5, <3>6
  <2> QED
    BY <2>1, <2>2, <2>3, <2>4
    DEF Reviews!FindConnection, Reviews!Lose, Late
<1>4. \A d \in outrun' : d = c => r.pc # "finish"
  <2>1. Reviews!ReadGoogle(c) => c \notin outrun'
    BY DEF Reviews!ReadGoogle
  <2> QED
    BY <1>3, <2>1
<1>5. \A d \in outrun' : d # c /\ reading[d].pc = "finish"
                                    => ~Reviews!Owned(d)'
  <2> SUFFICES ASSUME NEW d \in outrun', d # c, reading[d].pc = "finish"
               PROVE  ~Reviews!Owned(d)'
    OBVIOUS
  <2>1. d \in Calls /\ reading'[d] = reading[d] /\ ~Reviews!Owned(d)
    BY <1>2, <1>3, ReviewsFacts
  <2> QED
    BY <1>1, <2>1 DEF Reviews!Owned, Reviews!Found, Reviews!ClaimOf
<1>6. outrun' \subseteq Calls
  BY <1>1, ReviewsFacts
<1>7. /\ reviews' \subseteq 0..Reviews!MaxAge
      /\ \A age \in reviews' : location' # None /\ location'.cached = age
  BY <1>1, ReviewsFacts DEF ReviewsInv
<1> QED
  BY <1>1, <1>3, <1>4, <1>5, <1>6, <1>7, CallStep
LEMMA ClaimStep ==
    ASSUME ReviewsAssumption, ReviewsInv, NEW c \in Calls,
           Reviews!ClaimLocation(c)
    PROVE  ReviewsInv'
<1>1. /\ account' = account /\ reviews' = reviews /\ locations' = locations
      /\ outrun' = outrun /\ reading[c].pc = "claim"
  BY DEF Reviews!ClaimLocation, Reviews!At
<1>2. CASE Reviews!Found(c) /\ Reviews!Claimable(Reviews!ClaimOf(c))
  <2> DEFINE claim == Reviews!Taken(c)
             r == [reading[c] EXCEPT !.pc = "google"]
  <2>1. /\ location # None /\ location.id = reading[c].id
        /\ location' = Reviews!WithClaim(c, claim)
        /\ reading' = [reading EXCEPT ![c] = r]
    BY <1>2, ReviewsFacts
    DEF Reviews!ClaimLocation, Reviews!Found, Reviews!Goto
  <2>2. claim \in Reviews!Claims /\ claim.token = c
    BY ClaimsAreClaims
  <2>3. /\ r \in Reviews!CallStates /\ r.id = reading[c].id
        /\ r.account = reading[c].account /\ r.pc = "google"
    BY ReviewsFacts DEF Reviews!CallStates, Reviews!Points
  <2> HIDE DEF claim, r
  <2>4. /\ location' \in Reviews!Locations
        /\ location'.id = location.id /\ location'.owner = location.owner
        /\ location'.cached = location.cached
    BY <2>1, <2>2, ClaimWritten
  <2>5. r.account = location.owner /\ r.id <= locations
    BY <1>1, <2>1, <2>3, ReviewsFacts
    DEF ReviewsInv, OwnersInv, Reviews!Found, Late
  <2>6. \A d \in outrun' : d # c /\ reading[d].pc = "finish"
                                      => ~Reviews!Owned(d)'
    <3> SUFFICES ASSUME NEW d \in outrun', d # c, reading[d].pc = "finish",
                        Reviews!Owned(d)'
                 PROVE  FALSE
      OBVIOUS
    <3>1. d \in Calls /\ reading'[d] = reading[d] /\ ~Reviews!Owned(d)
      BY <1>1, <2>1, ReviewsFacts DEF ReviewsInv, OvertakenInv
    <3> QED
      BY <2>1, <2>2, <3>1, OthersGainNothing
  <2>7. \A age \in reviews' : location' # None /\ location'.cached = age
    BY <1>1, <2>4 DEF ReviewsInv, ReviewsAssumption
  <2> QED
    BY <1>1, <2>1, <2>3, <2>4, <2>5, <2>6, <2>7, ReviewsFacts, CallStep
<1>3. CASE ~(Reviews!Found(c) /\ Reviews!Claimable(Reviews!ClaimOf(c)))
  <2>1. Reviews!Leave(c) /\ location' = location
    BY <1>3 DEF Reviews!ClaimLocation
  <2>2. \A d \in outrun' : d # c /\ reading[d].pc = "finish"
                                      => ~Reviews!Owned(d)'
    <3> SUFFICES ASSUME NEW d \in outrun', d # c, reading[d].pc = "finish"
                 PROVE  ~Reviews!Owned(d)'
      OBVIOUS
    <3>1. d \in Calls /\ reading'[d] = reading[d] /\ ~Reviews!Owned(d)
      BY <1>1, <2>1, ReviewsFacts
      DEF ReviewsInv, OvertakenInv, Reviews!Leave
    <3> QED
      BY <2>1, <3>1 DEF Reviews!Owned, Reviews!Found, Reviews!ClaimOf
  <2>3. /\ Reviews!Idle \in Reviews!CallStates
        /\ Reviews!Idle.id <= locations /\ Reviews!Idle.pc = "idle"
    BY ReviewsFacts
    DEF ReviewsAssumption, Reviews!Idle, Reviews!CallStates,
        Reviews!Points, Reviews!Kinds
  <2>4. \A age \in reviews' : location' # None /\ location'.cached = age
    BY <1>1, <2>1 DEF ReviewsInv
  <2> QED
    BY <1>1, <2>1, <2>2, <2>3, <2>4, ReviewsFacts, CallStep
    DEF Reviews!Leave, Late
<1> QED
  BY <1>2, <1>3

(* What a commit or a release leaves in the row, when the claim is held.   *)
LEMMA ReleasingStep ==
    ASSUME ReviewsAssumption, ReviewsInv, NEW c \in Calls,
           Reviews!Owned(c), Reviews!Leave(c),
           account' = account, locations' = locations,
           LET w == Reviews!WithClaim(c, Reviews!Released(Reviews!ClaimOf(c)))
           IN  \/ location' = w /\ reviews' = reviews
               \/ location' = [w EXCEPT !.cached = 0] /\ reviews' \in {{}, {0}},
           \/ outrun' = outrun
           \/ outrun' = outrun \cup Reviews!Others(reading[c].kind, c)
    PROVE  ReviewsInv'
<1> DEFINE claim == Reviews!Released(Reviews!ClaimOf(c))
<1>1. location # None /\ location.id = reading[c].id
  BY DEF Reviews!Owned, Reviews!Found
<1>2. claim \in Reviews!Claims /\ claim.token = None
  BY <1>1, ReviewsFacts, ClaimsAreClaims DEF Reviews!ClaimOf
<1>3. \/ location' = Reviews!WithClaim(c, claim)
      \/ location' = [Reviews!WithClaim(c, claim) EXCEPT !.cached = 0]
  OBVIOUS
<1>4. \/ location' = Reviews!WithClaim(c, claim) /\ reviews' = reviews
      \/ /\ location' = [Reviews!WithClaim(c, claim) EXCEPT !.cached = 0]
         /\ reviews' \in {{}, {0}}
  OBVIOUS
<1> HIDE DEF claim
<1>5. /\ location' \in Reviews!Locations
      /\ location'.id = location.id /\ location'.owner = location.owner
  BY <1>1, <1>2, <1>3, ClaimWritten
<1>6. /\ Reviews!Idle \in Reviews!CallStates
      /\ Reviews!Idle.id <= locations /\ Reviews!Idle.pc = "idle"
  BY ReviewsFacts
  DEF ReviewsAssumption, Reviews!Idle, Reviews!CallStates,
      Reviews!Points, Reviews!Kinds
<1>7. location' # None
  BY <1>5 DEF ReviewsAssumption
<1>8. /\ reviews' \subseteq 0..Reviews!MaxAge
      /\ \A age \in reviews' : location' # None /\ location'.cached = age
  <2>1. CASE location' = Reviews!WithClaim(c, claim) /\ reviews' = reviews
    <3>1. location'.cached = location.cached
      BY <1>1, <1>2, <2>1, ClaimWritten
    <3> QED
      BY <1>7, <2>1, <3>1, ReviewsFacts DEF ReviewsInv
  <2>2. CASE /\ location' = [Reviews!WithClaim(c, claim) EXCEPT !.cached = 0]
             /\ reviews' \in {{}, {0}}
    <3> DEFINE w == Reviews!WithClaim(c, claim)
    <3>1. w \in Reviews!Locations
      BY <1>1, <1>2, ClaimWritten
    <3> HIDE DEF w
    <3>2. location'.cached = 0
      BY <2>2, <3>1 DEF w, Reviews!Locations
    <3> QED
      BY <1>7, <2>2, <3>2, ReviewsFacts
  <2> QED
    BY <1>4, <2>1, <2>2
<1>9. \A d \in outrun' : d # c /\ reading[d].pc = "finish"
                                    => ~Reviews!Owned(d)'
  <2> SUFFICES ASSUME NEW d \in outrun', d # c, reading[d].pc = "finish",
                      Reviews!Owned(d)'
               PROVE  FALSE
    OBVIOUS
  <2>1. /\ d \in Calls /\ reading'[d] = reading[d]
        /\ d \in outrun \/ reading[d].kind = reading[c].kind
    BY ReviewsFacts DEF Reviews!Others, Reviews!Leave
  <2>2. Reviews!Owned(d) /\ reading[d].kind # reading[c].kind
    BY <1>1, <1>2, <1>3, <2>1, OthersGainNothing
  <2> QED
    BY <2>1, <2>2 DEF ReviewsInv, OvertakenInv
<1>10. outrun' \subseteq Calls
  BY ReviewsFacts DEF Reviews!Others
<1> QED
  BY <1>1, <1>5, <1>6, <1>7, <1>8, <1>9, <1>10, CallStep
  DEF Reviews!Leave, Late

(* A call whose claim is gone leaves everything as it is.                  *)
LEMMA DiscardingStep ==
    ASSUME ReviewsAssumption, ReviewsInv, NEW c \in Calls,
           \/ Reviews!Leave(c)
           \/ Reviews!Goto(c, "release") /\ reading[c].pc = "finish",
           account' = account, locations' = locations,
           location' = location, reviews' = reviews, outrun' = outrun
    PROVE  ReviewsInv'
<1>1. PICK r \in Reviews!CallStates :
        /\ reading' = [reading EXCEPT ![c] = r] /\ r.id <= locations
        /\ r.pc # "finish"
        /\ r.pc \in Late /\ location # None /\ location.id = r.id
             => r.account = location.owner
  <2>1. CASE Reviews!Leave(c)
    <3>1. /\ Reviews!Idle \in Reviews!CallStates
          /\ Reviews!Idle.id <= locations /\ Reviews!Idle.pc = "idle"
      BY ReviewsFacts
      DEF ReviewsAssumption, Reviews!Idle, Reviews!CallStates,
          Reviews!Points, Reviews!Kinds
    <3> QED
      BY <2>1, <3>1 DEF Reviews!Leave, Late
  <2>2. CASE Reviews!Goto(c, "release") /\ reading[c].pc = "finish"
    <3> DEFINE r == [reading[c] EXCEPT !.pc = "release"]
    <3>1. reading' = [reading EXCEPT ![c] = r]
      BY <2>2, ReviewsFacts DEF Reviews!Goto
    <3>2. /\ r \in Reviews!CallStates /\ r.id = reading[c].id
          /\ r.account = reading[c].account /\ r.pc = "release"
      BY ReviewsFacts DEF Reviews!CallStates, Reviews!Points
    <3>3. location # None /\ location.id = r.id => r.account = location.owner
      BY <2>2, <3>2 DEF ReviewsInv, OwnersInv, Reviews!Found, Late
    <3>4. r.id <= locations
      BY <3>2, ReviewsFacts
    <3> HIDE DEF r
    <3> QED
      BY <3>1, <3>2, <3>3, <3>4
  <2> QED
    BY <2>1, <2>2
<1>2. \A d \in outrun' : d # c /\ reading[d].pc = "finish"
                                    => ~Reviews!Owned(d)'
  <2> SUFFICES ASSUME NEW d \in outrun', d # c, reading[d].pc = "finish"
               PROVE  ~Reviews!Owned(d)'
    OBVIOUS
  <2>1. d \in Calls /\ reading'[d] = reading[d] /\ ~Reviews!Owned(d)
    BY <1>1, ReviewsFacts DEF ReviewsInv, OvertakenInv
  <2> QED
    BY <2>1 DEF Reviews!Owned, Reviews!Found, Reviews!ClaimOf
<1>3. \A age \in reviews' : location' # None /\ location'.cached = age
  BY DEF ReviewsInv
<1> QED
  BY <1>1, <1>2, <1>3, ReviewsFacts, CallStep

LEMMA WritersStep ==
    ASSUME ReviewsAssumption, ReviewsInv, NEW c \in Calls,
           \/ Reviews!CommitReviews(c)
           \/ Reviews!ReturnPerformance(c)
           \/ Reviews!ReleaseClaim(c)
    PROVE  ReviewsInv'
<1>1. CASE Reviews!CommitReviews(c)
  <2>1. CASE Reviews!Owned(c)
    BY <1>1, <2>1, ReleasingStep DEF Reviews!CommitReviews
  <2>2. CASE ~Reviews!Owned(c)
    BY <1>1, <2>2, DiscardingStep DEF Reviews!CommitReviews, Reviews!At
  <2> QED
    BY <2>1, <2>2
<1>2. CASE Reviews!ReturnPerformance(c)
  <2>1. CASE Reviews!Owned(c)
    BY <1>2, <2>1, ReleasingStep DEF Reviews!ReturnPerformance
  <2>2. CASE ~Reviews!Owned(c)
    BY <1>2, <2>2, DiscardingStep DEF Reviews!ReturnPerformance, Reviews!At
  <2> QED
    BY <2>1, <2>2
<1>3. CASE Reviews!ReleaseClaim(c)
  <2>1. CASE Reviews!Owned(c)
    BY <1>3, <2>1, ReleasingStep DEF Reviews!ReleaseClaim
  <2>2. CASE ~Reviews!Owned(c)
    BY <1>3, <2>2, DiscardingStep DEF Reviews!ReleaseClaim
  <2> QED
    BY <2>1, <2>2
<1> QED
  BY <1>1, <1>2, <1>3

(* The row is created, removed or grows older.                             *)
LEMMA RowStep ==
    ASSUME ReviewsAssumption, ReviewsInv,
           \/ Reviews!CreateLocation
           \/ Reviews!RemoveLocation
           \/ \E a \in Accounts \cup {None} : Reviews!Reconnect(a)
           \/ Reviews!PurgeExpiredReviews
    PROVE  ReviewsInv'
<1>1. reading' = reading /\ outrun' = outrun
  BY DEF Reviews!CreateLocation, Reviews!RemoveLocation, Reviews!Reconnect,
         Reviews!PurgeExpiredReviews
<1>2. CASE Reviews!CreateLocation
  <2>1. /\ location = None /\ account \in Accounts /\ account' = account
        /\ locations + 1 \in 1..MaxLocations /\ locations' = locations + 1
        /\ location' = [id |-> locations + 1, owner |-> account,
                        claims |-> [k \in Reviews!Kinds |-> Reviews!Unclaimed],
                        cached |-> Reviews!Never]
        /\ reviews' = reviews
    BY <1>2, ReviewsFacts DEF Reviews!CreateLocation, ReviewsAssumption
  <2>2. location' \in Reviews!Locations
    <3>1. Reviews!Never \in 0..Reviews!Never
      BY ReviewsFacts
    <3> QED
      BY <2>1, <3>1, ClaimsAreClaims DEF Reviews!Locations
  <2>3. reviews' = {}
    BY <2>1 DEF ReviewsInv
  <2>4. Reviews!TypeOK'
    BY <1>1, <2>1, <2>2, <2>3, ReviewsFacts DEF Reviews!TypeOK
  <2>5. \A c \in Calls : reading[c].id # locations + 1
                           /\ reading[c].id <= locations + 1
    BY ReviewsFacts DEF ReviewsAssumption
  <2>6. OwnersInv'
    <3>1. location'.id = locations + 1 /\ location'.owner = account
      BY <2>1
    <3>2. location'.id <= locations'
      BY <2>1, <3>1, ReviewsFacts
    <3> QED
      BY <1>1, <2>1, <2>5, <3>1, <3>2 DEF OwnersInv, Reviews!Found
  <2>7. OvertakenInv'
    <3> SUFFICES ASSUME NEW c \in Calls PROVE ~Reviews!Found(c)'
      BY <1>1, ReviewsFacts DEF OvertakenInv, Reviews!Owned
    <3> QED
      BY <1>1, <2>1, <2>5 DEF Reviews!Found
  <2> QED
    BY <2>3, <2>4, <2>6, <2>7 DEF ReviewsInv
<1>3. CASE \/ Reviews!RemoveLocation
           \/ \E a \in Accounts \cup {None} : Reviews!Reconnect(a)
  <2>1. /\ location' = None /\ reviews' = {} /\ locations' = locations
        /\ account' \in Accounts \cup {None}
    BY <1>3, ReviewsFacts DEF Reviews!RemoveLocation, Reviews!Reconnect
  <2> QED
    BY <1>1, <2>1, ReviewsFacts
    DEF ReviewsInv, OwnersInv, OvertakenInv, Reviews!TypeOK, Reviews!Found,
        Reviews!Owned
<1>4. CASE Reviews!PurgeExpiredReviews
  <2>1. /\ account' = account /\ location' = location
        /\ locations' = locations /\ reviews' \subseteq reviews
    BY <1>4 DEF Reviews!PurgeExpiredReviews, Reviews!ServedReviews
  <2> QED
    BY <1>1, <2>1
    DEF ReviewsInv, OwnersInv, OvertakenInv, Reviews!TypeOK, Reviews!Found,
        Reviews!Owned, Reviews!ClaimOf
<1> QED
  BY <1>2, <1>3, <1>4

LEMMA AgesStep ==
    ASSUME ReviewsAssumption, ReviewsInv, Reviews!Tick
    PROVE  ReviewsInv'
<1>1. /\ account' = account /\ reading' = reading /\ outrun' = outrun
      /\ locations' = locations
      /\ reviews' = {Reviews!Older(age) : age \in reviews}
  BY DEF Reviews!Tick
<1>2. \A age \in 0..Reviews!MaxAge : Reviews!Older(age) \in 0..Reviews!MaxAge
  BY ReviewsFacts DEF Reviews!Older
<1>3. reviews' \subseteq 0..Reviews!MaxAge
  BY <1>1, <1>2, ReviewsFacts
<1>4. CASE location = None
  <2>1. location' = None /\ reviews = {}
    BY <1>4 DEF Reviews!Tick, ReviewsInv
  <2> QED
    BY <1>1, <1>3, <1>4, <2>1
    DEF ReviewsInv, OwnersInv, OvertakenInv, Reviews!TypeOK, Reviews!Found,
        Reviews!Owned
<1>5. CASE location # None
  <2> DEFINE older == IF location.cached = Reviews!Never THEN Reviews!Never
                      ELSE Reviews!Older(location.cached)
             kinds == [k \in Reviews!Kinds |->
                         Reviews!Aged(location.claims[k])]
             one == [location EXCEPT !.claims = kinds]
  <2>1. location' = [one EXCEPT !.cached = older]
    BY <1>5 DEF Reviews!Tick
  <2>2. older \in 0..Reviews!Never
    BY <1>2, <1>5, ReviewsFacts
  <2>3. /\ kinds \in [Reviews!Kinds -> Reviews!Claims]
        /\ \A k \in Reviews!Kinds : kinds[k].token = location.claims[k].token
    BY <1>5, ReviewsFacts, ClaimsAreClaims
  <2>4. \A age \in reviews : older = Reviews!Older(age)
    BY ReviewsFacts DEF ReviewsInv
  <2> HIDE DEF older, kinds
  <2>5. /\ one \in Reviews!Locations /\ one.id = location.id
        /\ one.owner = location.owner /\ one.claims = kinds
    BY <1>5, <2>3, ReviewsFacts DEF Reviews!Locations
  <2> HIDE DEF one
  <2>6. /\ location' \in Reviews!Locations /\ location'.id = location.id
        /\ location'.owner = location.owner /\ location'.claims = kinds
        /\ location'.cached = older
    BY <2>1, <2>2, <2>5 DEF Reviews!Locations
  <2>7. location' # None
    BY <2>6 DEF ReviewsAssumption
  <2>8. Reviews!TypeOK'
    BY <1>1, <1>3, <2>6, ReviewsFacts DEF Reviews!TypeOK
  <2>9. OwnersInv'
    BY <1>1, <1>5, <2>6 DEF ReviewsInv, OwnersInv, Reviews!Found
  <2>10. OvertakenInv'
    <3> SUFFICES ASSUME NEW c \in Calls, Reviews!Owned(c)'
                 PROVE  Reviews!Owned(c)
      BY <1>1, ReviewsFacts DEF ReviewsInv, OvertakenInv
    <3> QED
      BY <1>1, <1>5, <2>3, <2>6, ReviewsFacts
      DEF Reviews!Owned, Reviews!Found, Reviews!ClaimOf
  <2>11. \A age \in reviews' : location'.cached = age
    BY <1>1, <2>4, <2>6
  <2> QED
    BY <2>7, <2>8, <2>9, <2>10, <2>11 DEF ReviewsInv
<1> QED
  BY <1>4, <1>5

LEMMA ReviewsStep ==
    ASSUME ReviewsAssumption, ReviewsInv, [Reviews!Next]_(Reviews!vars)
    PROVE  ReviewsInv'
<1>1. CASE UNCHANGED Reviews!vars
  BY <1>1
  DEF Reviews!vars, ReviewsInv, OwnersInv, OvertakenInv, Reviews!TypeOK,
      Reviews!Found, Reviews!Owned, Reviews!ClaimOf
<1> QED
  BY <1>1, ReadersStep, ClaimStep, WritersStep, RowStep, AgesStep
  DEF Reviews!Next

(* A call that leaves with a change of the row held its claim.             *)
LEMMA OutdatedIsDiscarded ==
    ASSUME ReviewsAssumption, ReviewsInv, Reviews!Next
    PROVE  ~Reviews!OutdatedResult
<1> SUFFICES ASSUME NEW c \in outrun, reading[c].pc = "finish",
                    reading'[c].pc = "idle", location' # location
             PROVE  FALSE
  BY DEF Reviews!OutdatedResult, Reviews!At
<1>1. c \in Calls /\ ~Reviews!Owned(c)
  BY ReviewsFacts DEF ReviewsInv, OvertakenInv
<1>2. reading' # reading
  OBVIOUS
<1>3. PICK d \in Calls : \/ Reviews!ClaimLocation(d)
                         \/ Reviews!CommitReviews(d)
                         \/ Reviews!ReturnPerformance(d)
                         \/ Reviews!ReleaseClaim(d)
  BY <1>2
  DEF Reviews!Next, Reviews!CreateLocation, Reviews!RemoveLocation,
      Reviews!Reconnect, Reviews!FindLocation, Reviews!FindConnection,
      Reviews!ReadGoogle, Reviews!Lose, Reviews!PurgeExpiredReviews,
      Reviews!Tick
<1>4. d # c => reading'[c] = reading[c]
  BY <1>1, <1>3, ReviewsFacts
  DEF Reviews!ClaimLocation, Reviews!CommitReviews,
      Reviews!ReturnPerformance, Reviews!ReleaseClaim, Reviews!Leave,
      Reviews!Goto
<1>5. d = c
  BY <1>4
<1> QED
  BY <1>1, <1>3, <1>5
  DEF Reviews!ClaimLocation, Reviews!CommitReviews,
      Reviews!ReturnPerformance, Reviews!ReleaseClaim, Reviews!At

(* Google is read with the access of the account the location belongs to,  *)
(* reviews come and go with their aggregate, and a result that another one *)
(* of its kind overtook is discarded.                                      *)
THEOREM ReviewsAreReadByTheirOwner ==
    ASSUME ReviewsAssumption
    PROVE  Reviews!Spec =>
             /\ [](/\ Reviews!TypeOK /\ Reviews!ReadByOwner
                   /\ Reviews!AggregateWithReviews)
             /\ Reviews!NothingOutdatedIsAccepted
<1>1. Reviews!Init => ReviewsInv
  BY ReviewsInit
<1>2. ReviewsInv /\ [Reviews!Next]_(Reviews!vars) => ReviewsInv'
  BY ReviewsStep
<1>3. ReviewsInv => /\ Reviews!TypeOK /\ Reviews!ReadByOwner
                    /\ Reviews!AggregateWithReviews
  <2> SUFFICES ASSUME ReviewsInv
               PROVE  Reviews!ReadByOwner /\ Reviews!AggregateWithReviews
    BY DEF ReviewsInv
  <2>1. Reviews!ReadByOwner
    BY DEF ReviewsInv, OwnersInv, Reviews!ReadByOwner, Reviews!Owned,
           Reviews!At, Late
  <2>2. Reviews!AggregateWithReviews
    BY DEF ReviewsInv, Reviews!AggregateWithReviews, Reviews!ServedReviews,
           Reviews!AggregateServed
  <2> QED
    BY <2>1, <2>2
<1>4. ReviewsInv /\ [Reviews!Next]_(Reviews!vars)
        => [~Reviews!OutdatedResult]_(Reviews!vars)
  BY OutdatedIsDiscarded
<1> QED
  BY <1>1, <1>2, <1>3, <1>4, PTL
  DEF Reviews!Spec, Reviews!NothingOutdatedIsAccepted
(***************************************************************************)
(* The connection of a Business Profile and the mirror of its locations    *)
(***************************************************************************)
ProfileAssumption ==
    /\ IsFiniteSet(Gbp!Callers) /\ None \notin Gbp!Callers
    /\ None \notin Gbp!Connections
    /\ MaxConnections \in Nat /\ MaxFaults \in Nat
    /\ StaleAfter \in Nat /\ Expiry \in Nat /\ StaleAfter < Expiry
    /\ MaxCallbacks = 1

SyncClaims ==
    [token : Gbp!Callers \cup {None}, claimed : 0..Gbp!MaxAge,
     attempted : 0..Gbp!MaxAge]

(* A callback, and a synchronization that asks Google, has its account.    *)
SyncCalls ==
    {r \in Gbp!CallStates :
       r.pc \in {"callback", "upsert", "google", "commit"}
         => r.account \in Accounts}

ProfileType == Gbp!TypeOK /\ syncing \in [Gbp!Callers -> SyncCalls]

(* The token and the rows are of the account shown, and the rows as old as *)
(* the synchronization reported; without a connection there is no row.     *)
MirrorInv ==
    /\ profile # None => profile.token = profile.subject
    /\ \A n \in Names :
         mirror[n] # None => /\ profile # None
                             /\ mirror[n].source = profile.subject
                             /\ mirror[n].synced = profile.synced

OneCallback == \A c, d \in Gbp!InCallback : c = d

(* A callback about to write knows whether it changes the account; a call  *)
(* that holds the claim asks for the account shown, and no other write has *)
(* overtaken it.                                                           *)
SyncInv(c) ==
    /\ syncing[c].pc = "upsert" /\ profile # None
         => (syncing[c].changed <=> profile.subject # syncing[c].account)
    /\ syncing[c].pc \in {"google", "commit"} /\ Gbp!Owned(c)
         => syncing[c].account = profile.subject
    /\ syncing[c].pc = "commit" /\ c \in overtaken => ~Gbp!Owned(c)

ProfileInv ==
    /\ ProfileType
    /\ MirrorInv
    /\ OneCallback
    /\ \A c \in Gbp!Callers : SyncInv(c)

LEMMA ProfileFacts ==
    ASSUME ProfileAssumption, ProfileInv
    PROVE  /\ Gbp!MaxAge \in Nat /\ Gbp!Never = Gbp!MaxAge + 1
           /\ Gbp!MaxAge = Expiry + 1
           /\ profile \in Gbp!Connections \cup {None}
           /\ mirror \in [Names -> Gbp!Rows \cup {None}]
           /\ profiles \in 0..MaxConnections /\ dropped \in 0..MaxFaults
           /\ overtaken \subseteq Gbp!Callers
           /\ syncing \in [Gbp!Callers -> SyncCalls]
           /\ \A c \in Gbp!Callers :
                /\ syncing[c] \in Gbp!CallStates /\ syncing[c] \in SyncCalls
                /\ syncing[c].id \in 0..MaxConnections
                /\ syncing[c].observed \subseteq Names
                /\ syncing[c].changed \in BOOLEAN
                /\ syncing[c].status \in Gbp!Statuses
                /\ syncing[c].pc \in {"callback", "upsert", "google", "commit"}
                     => syncing[c].account \in Accounts
           /\ profile # None =>
                /\ profile \in Gbp!Connections
                /\ profile.id \in 1..MaxConnections
                /\ profile.subject \in Accounts /\ profile.token \in Accounts
                /\ profile.token = profile.subject
                /\ profile.claim \in SyncClaims
                /\ profile.synced \in 0..Gbp!Never
                /\ profile.status \in Gbp!Statuses
           /\ \A n \in Names : mirror[n] # None =>
                /\ mirror[n] \in Gbp!Rows
                /\ mirror[n].source \in Accounts
                /\ mirror[n].synced \in 0..Gbp!MaxAge
                /\ mirror[n].linked \in BOOLEAN
BY DEF ProfileAssumption, ProfileInv, ProfileType, MirrorInv, SyncCalls,
       SyncClaims, Gbp!TypeOK, Gbp!Connections, Gbp!Rows, Gbp!CallStates,
       Gbp!MaxAge, Gbp!Never

LEMMA SyncClaimsAreClaims ==
    ASSUME ProfileAssumption
    PROVE  /\ Gbp!Unclaimed \in SyncClaims /\ Gbp!Unclaimed.token = None
           /\ \A c \in Gbp!Callers : /\ Gbp!Taken(c) \in SyncClaims
                                     /\ Gbp!Taken(c).token = c
           /\ \A claim \in SyncClaims :
                /\ Gbp!Released(claim) \in SyncClaims
                /\ Gbp!Released(claim).token = None
                /\ Gbp!Aged(claim) \in SyncClaims
                /\ Gbp!Aged(claim).token = claim.token
<1>1. Gbp!MaxAge \in Nat
  BY DEF ProfileAssumption, Gbp!MaxAge
<1>2. \A age \in 0..Gbp!MaxAge : Gbp!Older(age) \in 0..Gbp!MaxAge
  BY <1>1 DEF Gbp!Older
<1>3. 0 \in 0..Gbp!MaxAge /\ Gbp!MaxAge \in 0..Gbp!MaxAge
  BY <1>1
<1> QED
  BY <1>2, <1>3
  DEF SyncClaims, Gbp!Claim, Gbp!Unclaimed, Gbp!Taken, Gbp!Released, Gbp!Aged

(* A connection whose claim, date and status are written, and nothing else.*)
Written(p, claim, synced, state) ==
    [p EXCEPT !.claim = claim, !.synced = synced, !.status = state]

LEMMA ConnectionWritten ==
    ASSUME NEW p \in Gbp!Connections, NEW claim \in SyncClaims,
           NEW synced \in 0..Gbp!Never, NEW state \in Gbp!Statuses
    PROVE  /\ Written(p, claim, synced, state) \in Gbp!Connections
           /\ Written(p, claim, synced, state).id = p.id
           /\ Written(p, claim, synced, state).subject = p.subject
           /\ Written(p, claim, synced, state).token = p.token
           /\ Written(p, claim, synced, state).claim = claim
           /\ Written(p, claim, synced, state).synced = synced
           /\ Written(p, claim, synced, state).status = state
<1> DEFINE one == [p EXCEPT !.claim = claim]
           two == [one EXCEPT !.synced = synced]
           three == [two EXCEPT !.status = state]
<1>1. /\ one \in Gbp!Connections /\ one.id = p.id /\ one.token = p.token
      /\ one.subject = p.subject /\ one.claim = claim
  BY DEF Gbp!Connections, SyncClaims
<1> HIDE DEF one
<1>2. /\ two \in Gbp!Connections /\ two.id = p.id /\ two.token = p.token
      /\ two.subject = p.subject /\ two.claim = claim /\ two.synced = synced
  BY <1>1 DEF Gbp!Connections
<1> HIDE DEF two
<1>3. /\ three \in Gbp!Connections /\ three.id = p.id
      /\ three.token = p.token /\ three.subject = p.subject
      /\ three.claim = claim /\ three.synced = synced /\ three.status = state
  BY <1>2 DEF Gbp!Connections
<1> QED
  BY <1>3 DEF one, two, Written

LEMMA ConnectionUnchanged ==
    ASSUME NEW p \in Gbp!Connections, NEW claim, NEW state
    PROVE  /\ [p EXCEPT !.claim = claim, !.status = state]
                = Written(p, claim, p.synced, state)
           /\ \A synced : [p EXCEPT !.claim = claim, !.synced = synced]
                = Written(p, claim, synced, p.status)
BY DEF Gbp!Connections, Written

(* Every call is at one place, and one call moves at a time.               *)
LEMMA SyncMoves ==
    ASSUME ProfileAssumption, ProfileInv, NEW c \in Gbp!Callers,
           NEW r \in SyncCalls, syncing' = [syncing EXCEPT ![c] = r],
           r.pc \in {"callback", "upsert"}
             => c \in Gbp!InCallback \/ Gbp!InCallback = {}
    PROVE  /\ syncing' \in [Gbp!Callers -> SyncCalls]
           /\ syncing'[c] = r
           /\ \A d \in Gbp!Callers : d # c => syncing'[d] = syncing[d]
           /\ OneCallback'
<1>1. /\ syncing' \in [Gbp!Callers -> SyncCalls] /\ syncing'[c] = r
      /\ \A d \in Gbp!Callers : d # c => syncing'[d] = syncing[d]
  BY ProfileFacts
<1>2. OneCallback'
  <2> SUFFICES ASSUME NEW d \in Gbp!InCallback', NEW e \in Gbp!InCallback'
               PROVE  d = e
    BY DEF OneCallback
  <2>1. \A b \in Gbp!InCallback' :
          /\ b \in Gbp!Callers
          /\ b # c => b \in Gbp!InCallback
          /\ b = c => r.pc \in {"callback", "upsert"}
    BY <1>1 DEF Gbp!InCallback, Gbp!At
  <2> QED
    BY <2>1 DEF ProfileInv, OneCallback
<1> QED
  BY <1>1, <1>2

(* A call that does not move keeps what it knows, if the connection is of  *)
(* the same account and the call holds no claim it did not hold.           *)
LEMMA SyncKeeps ==
    ASSUME ProfileInv, NEW d \in Gbp!Callers, syncing'[d] = syncing[d],
           \/ syncing[d].pc # "upsert"
           \/ profile' # None => profile # None,
           profile' # None => \/ ~Gbp!Owned(d)' /\ syncing[d].pc # "upsert"
                              \/ /\ profile'.subject = profile.subject
                                 /\ Gbp!Owned(d)' => Gbp!Owned(d),
           overtaken' \subseteq overtaken \/ ~Gbp!Owned(d)'
    PROVE  SyncInv(d)'
<1>1. SyncInv(d)
  BY DEF ProfileInv
<1>2. Gbp!Owned(d)' => profile' # None
  BY DEF Gbp!Owned, Gbp!Holds, Gbp!Connected
<1> QED
  BY <1>1, <1>2 DEF SyncInv

LEMMA IdleSync ==
    ASSUME ProfileAssumption
    PROVE  /\ Gbp!Idle \in SyncCalls /\ Gbp!Idle \in Gbp!CallStates
           /\ Gbp!Idle.pc = "idle" /\ Gbp!Idle.changed = FALSE
BY DEF ProfileAssumption, SyncCalls, Gbp!CallStates, Gbp!Idle, Gbp!Points,
       Gbp!Statuses

LEMMA ProfileInit ==
    ASSUME ProfileAssumption, Gbp!Init
    PROVE  ProfileInv
<1>1. /\ profile = None /\ mirror = [n \in Names |-> None]
      /\ syncing = [c \in Gbp!Callers |-> Gbp!Idle]
      /\ profiles = 0 /\ dropped = 0 /\ overtaken = {}
  BY DEF Gbp!Init
<1>2. 0 \in 0..MaxConnections /\ 0 \in 0..MaxFaults
  BY DEF ProfileAssumption
<1>3. ProfileType
  BY <1>1, <1>2, IdleSync DEF ProfileType, Gbp!TypeOK
<1>4. \A c \in Gbp!Callers : syncing[c].pc = "idle"
  BY <1>1, IdleSync
<1> QED
  BY <1>1, <1>3, <1>4
  DEF ProfileInv, MirrorInv, OneCallback, SyncInv, Gbp!InCallback, Gbp!At
(* A step that reads: what the call knows must be true of what it read.    *)
LEMMA QuietStep ==
    ASSUME ProfileAssumption, ProfileInv, NEW c \in Gbp!Callers,
           NEW r \in SyncCalls, syncing' = [syncing EXCEPT ![c] = r],
           profile' = profile, mirror' = mirror, profiles' = profiles,
           dropped' \in 0..MaxFaults, overtaken' \subseteq overtaken,
           r.pc \in {"callback", "upsert"}
             => c \in Gbp!InCallback \/ Gbp!InCallback = {},
           r.pc = "upsert" /\ profile # None
             => (r.changed <=> profile.subject # r.account),
           r.pc \in {"google", "commit"} /\ profile # None
             /\ profile.id = r.id /\ profile.claim.token = c
             => r.account = profile.subject,
           r.pc = "commit" => c \notin overtaken'
    PROVE  ProfileInv'
<1>1. /\ syncing' \in [Gbp!Callers -> SyncCalls] /\ syncing'[c] = r
      /\ \A d \in Gbp!Callers : d # c => syncing'[d] = syncing[d]
      /\ OneCallback'
  BY SyncMoves
<1>2. ProfileType'
  <2>1. syncing' \in [Gbp!Callers -> Gbp!CallStates]
    BY <1>1 DEF SyncCalls
  <2> QED
    BY <1>1, <2>1, ProfileFacts DEF ProfileType, Gbp!TypeOK
<1>3. MirrorInv'
  BY DEF ProfileInv, MirrorInv
<1>4. SyncInv(c)'
  BY <1>1 DEF SyncInv, Gbp!Owned, Gbp!Holds, Gbp!Connected
<1>5. ASSUME NEW d \in Gbp!Callers, d # c
      PROVE  SyncInv(d)'
  <2>1. syncing'[d] = syncing[d]
    BY <1>1, <1>5
  <2>2. Gbp!Owned(d)' => Gbp!Owned(d)
    BY <2>1 DEF Gbp!Owned, Gbp!Holds, Gbp!Connected
  <2> QED
    BY <2>1, <2>2, SyncKeeps
<1> QED
  BY <1>1, <1>2, <1>3, <1>4, <1>5 DEF ProfileInv

LEMMA LeavingIsQuiet ==
    ASSUME ProfileAssumption, ProfileInv, NEW c \in Gbp!Callers,
           Gbp!Leave(c), profile' = profile, mirror' = mirror,
           profiles' = profiles, dropped' \in 0..MaxFaults,
           overtaken' \subseteq overtaken
    PROVE  ProfileInv'
BY IdleSync, QuietStep DEF Gbp!Leave

LEMMA CallbackStep ==
    ASSUME ProfileAssumption, ProfileInv, NEW c \in Gbp!Callers,
           \/ \E a \in Accounts : Gbp!ExchangeCode(c, a)
           \/ Gbp!ReadExisting(c)
    PROVE  ProfileInv'
<1>1. /\ profile' = profile /\ mirror' = mirror /\ profiles' = profiles
      /\ dropped' = dropped /\ overtaken' = overtaken
      /\ dropped' \in 0..MaxFaults
  BY ProfileFacts DEF Gbp!ExchangeCode, Gbp!ReadExisting
<1>2. ASSUME NEW a \in Accounts, Gbp!ExchangeCode(c, a)
      PROVE  ProfileInv'
  <2>1. Gbp!InCallback = {}
    <3>1. IsFiniteSet(Gbp!InCallback)
      <4>1. Gbp!InCallback \subseteq Gbp!Callers
        BY DEF Gbp!InCallback
      <4> QED
        BY <4>1, FS_Subset DEF ProfileAssumption
    <3>2. Cardinality(Gbp!InCallback) < 1
      <4>1. Gbp!Cardinality(Gbp!InCallback) = Cardinality(Gbp!InCallback)
        BY DEF Gbp!Cardinality, Cardinality
      <4> QED
        BY <1>2, <4>1 DEF Gbp!ExchangeCode, ProfileAssumption
    <3>3. Cardinality(Gbp!InCallback) \in Nat
      BY <3>1, FS_CardinalityType
    <3>4. Cardinality(Gbp!InCallback) = 0
      BY <3>2, <3>3
    <3> QED
      BY <3>1, <3>4, FS_EmptySet
  <2> DEFINE one == [Gbp!Idle EXCEPT !.pc = "callback"]
             two == [one EXCEPT !.account = a]
  <2>2. syncing' = [syncing EXCEPT ![c] = two]
    BY <1>2 DEF Gbp!ExchangeCode
  <2>3. one \in Gbp!CallStates /\ one.pc = "callback"
    BY IdleSync DEF Gbp!CallStates, Gbp!Points
  <2> HIDE DEF one
  <2>4. two \in SyncCalls /\ two.pc = "callback"
    BY <2>3 DEF Gbp!CallStates, SyncCalls
  <2> HIDE DEF two
  <2> QED
    BY <1>1, <2>1, <2>2, <2>4, QuietStep
<1>3. CASE Gbp!ReadExisting(c)
  <2>1. CASE Gbp!Leave(c)
    BY <1>1, <2>1, LeavingIsQuiet
  <2>2. CASE ~Gbp!Leave(c)
    <3> DEFINE changed == Gbp!Connected /\ ~Gbp!SameAccount(c)
               one == [Gbp!Idle EXCEPT !.pc = "upsert"]
               two == [one EXCEPT !.account = syncing[c].account]
               three == [two EXCEPT !.changed = changed]
    <3>1. syncing' = [syncing EXCEPT ![c] = three]
      BY <1>3, <2>2 DEF Gbp!ReadExisting
    <3>2. syncing[c].pc = "callback" /\ syncing[c].account \in Accounts
      BY <1>3, ProfileFacts DEF Gbp!ReadExisting, Gbp!At
    <3>3. one \in Gbp!CallStates /\ one.pc = "upsert"
      BY IdleSync DEF Gbp!CallStates, Gbp!Points
    <3> HIDE DEF one
    <3>4. /\ two \in Gbp!CallStates /\ two.pc = "upsert"
          /\ two.account = syncing[c].account
      BY <3>2, <3>3 DEF Gbp!CallStates
    <3>5. /\ changed \in BOOLEAN
          /\ profile # None =>
               (changed <=> profile.subject # syncing[c].account)
      BY DEF Gbp!Connected, Gbp!SameAccount
    <3> HIDE DEF two, changed
    <3>6. /\ three \in Gbp!CallStates /\ three.pc = "upsert"
          /\ three.account = syncing[c].account /\ three.changed = changed
      BY <3>4, <3>5 DEF Gbp!CallStates
    <3> HIDE DEF three
    <3>7. three \in SyncCalls
      BY <3>2, <3>6 DEF SyncCalls
    <3>8. c \in Gbp!InCallback
      BY <3>2 DEF Gbp!InCallback, Gbp!At
    <3> QED
      BY <1>1, <3>1, <3>5, <3>6, <3>7, <3>8, QuietStep
  <2> QED
    BY <2>1, <2>2
<1> QED
  BY <1>2, <1>3

(* The beginning of a synchronization or a disconnection, and its reads.   *)
LEMMA ReadingStep ==
    ASSUME ProfileAssumption, ProfileInv, NEW c \in Gbp!Callers,
           \/ Gbp!SyncLocations(c) \/ Gbp!RefreshStaleLocations(c)
           \/ Gbp!ReadConnection(c) \/ Gbp!FetchLocations(c)
           \/ Gbp!ReadForRevocation(c) \/ Gbp!Revoke(c)
           \/ Gbp!Lose(c)
    PROVE  ProfileInv'
<1>1. /\ profile' = profile /\ mirror' = mirror /\ profiles' = profiles
      /\ overtaken' \subseteq overtaken /\ dropped' \in 0..MaxFaults
  BY ProfileFacts
  DEF Gbp!SyncLocations, Gbp!RefreshStaleLocations, Gbp!BeginSync,
      Gbp!ReadConnection, Gbp!FetchLocations, Gbp!ReadForRevocation,
      Gbp!Revoke, Gbp!Lose, ProfileAssumption
<1>2. ASSUME NEW r \in Gbp!CallStates,
             syncing' = [syncing EXCEPT ![c] = r],
             r.pc \in {"claim", "release", "revoke", "delete"}
      PROVE  ProfileInv'
  BY <1>1, <1>2, QuietStep DEF SyncCalls
<1>3. CASE Gbp!BeginSync(c)
  <2> DEFINE one == [Gbp!Idle EXCEPT !.pc = "claim"]
             two == [one EXCEPT !.id = profile.id]
  <2>1. syncing' = [syncing EXCEPT ![c] = two]
    BY <1>3 DEF Gbp!BeginSync
  <2>2. one \in Gbp!CallStates /\ one.pc = "claim"
    BY IdleSync DEF Gbp!CallStates, Gbp!Points
  <2>3. profile.id \in 0..MaxConnections
    BY <1>3, ProfileFacts DEF Gbp!BeginSync, Gbp!Connected
  <2> HIDE DEF one
  <2>4. two \in Gbp!CallStates /\ two.pc = "claim"
    BY <2>2, <2>3 DEF Gbp!CallStates
  <2> HIDE DEF two
  <2> QED
    BY <1>2, <2>1, <2>4
<1>4. CASE Gbp!ReadConnection(c)
  <2>1. CASE Gbp!Holds(c)
    <3> DEFINE one == [syncing[c] EXCEPT !.pc = "google"]
               two == [one EXCEPT !.account = profile.token]
    <3>1. syncing' = [syncing EXCEPT ![c] = two]
      BY <1>4, <2>1, ProfileFacts DEF Gbp!ReadConnection
    <3>2. one \in Gbp!CallStates /\ one.pc = "google"
      BY ProfileFacts DEF Gbp!CallStates, Gbp!Points
    <3>3. /\ profile # None /\ profile.token \in Accounts
          /\ profile.token = profile.subject
      BY <2>1, ProfileFacts DEF Gbp!Holds, Gbp!Connected
    <3> HIDE DEF one
    <3>4. /\ two \in SyncCalls /\ two.pc = "google"
          /\ two.account = profile.subject
      BY <3>2, <3>3 DEF Gbp!CallStates, SyncCalls
    <3> HIDE DEF two
    <3> QED
      BY <1>1, <3>1, <3>4, QuietStep
  <2>2. CASE ~Gbp!Holds(c)
    <3> DEFINE one == [syncing[c] EXCEPT !.pc = "release"]
               two == [one EXCEPT !.status = "failed"]
    <3>1. syncing' = [syncing EXCEPT ![c] = two]
      BY <1>4, <2>2, ProfileFacts DEF Gbp!ReadConnection
    <3>2. one \in Gbp!CallStates /\ one.pc = "release"
      BY ProfileFacts DEF Gbp!CallStates, Gbp!Points
    <3> HIDE DEF one
    <3>3. two \in Gbp!CallStates /\ two.pc = "release"
      BY <3>2 DEF Gbp!CallStates, Gbp!Statuses
    <3> HIDE DEF two
    <3> QED
      BY <1>2, <3>1, <3>3
  <2> QED
    BY <2>1, <2>2
<1>5. CASE Gbp!FetchLocations(c)
  <2>1. /\ syncing[c].pc = "google" /\ overtaken' = overtaken \ {c}
        /\ syncing[c].account \in Accounts
    BY <1>5, ProfileFacts DEF Gbp!FetchLocations, Gbp!At
  <2>2. ASSUME NEW names \in SUBSET Names,
               syncing' = [syncing EXCEPT ![c].pc = "commit",
                                          ![c].observed = names]
        PROVE  ProfileInv'
    <3> DEFINE one == [syncing[c] EXCEPT !.pc = "commit"]
               two == [one EXCEPT !.observed = names]
    <3>1. syncing' = [syncing EXCEPT ![c] = two]
      BY <2>2, ProfileFacts
    <3>2. /\ one \in Gbp!CallStates /\ one.pc = "commit"
          /\ one.id = syncing[c].id /\ one.account = syncing[c].account
      BY ProfileFacts DEF Gbp!CallStates, Gbp!Points
    <3> HIDE DEF one
    <3>3. /\ two \in Gbp!CallStates /\ two.pc = "commit"
          /\ two.id = syncing[c].id /\ two.account = syncing[c].account
      BY <3>2 DEF Gbp!CallStates
    <3> HIDE DEF two
    <3>4. two \in SyncCalls
      BY <2>1, <3>3 DEF SyncCalls
    <3>5. profile # None /\ profile.id = two.id /\ profile.claim.token = c
            => two.account = profile.subject
      BY <2>1, <3>3
      DEF ProfileInv, SyncInv, Gbp!Owned, Gbp!Holds, Gbp!Connected
    <3> QED
      BY <1>1, <2>1, <3>1, <3>3, <3>4, <3>5, QuietStep
  <2>3. ASSUME NEW state \in {"partial", "failed"},
               syncing' = [syncing EXCEPT ![c].pc = "release",
                                          ![c].status = state]
        PROVE  ProfileInv'
    <3> DEFINE one == [syncing[c] EXCEPT !.pc = "release"]
               two == [one EXCEPT !.status = state]
    <3>1. syncing' = [syncing EXCEPT ![c] = two]
      BY <2>3, ProfileFacts
    <3>2. one \in Gbp!CallStates /\ one.pc = "release"
      BY ProfileFacts DEF Gbp!CallStates, Gbp!Points
    <3> HIDE DEF one
    <3>3. two \in Gbp!CallStates /\ two.pc = "release"
      BY <3>2 DEF Gbp!CallStates, Gbp!Statuses
    <3> HIDE DEF two
    <3> QED
      BY <1>2, <3>1, <3>3
  <2> QED
    BY <1>5, <2>2, <2>3 DEF Gbp!FetchLocations
<1>6. CASE Gbp!ReadForRevocation(c)
  <2> DEFINE one == [Gbp!Idle EXCEPT !.pc = "revoke"]
             two == [one EXCEPT !.id = profile.id]
             three == [two EXCEPT !.account = profile.token]
  <2>1. syncing' = [syncing EXCEPT ![c] = three]
    BY <1>6 DEF Gbp!ReadForRevocation
  <2>2. one \in Gbp!CallStates /\ one.pc = "revoke"
    BY IdleSync DEF Gbp!CallStates, Gbp!Points
  <2>3. profile.id \in 0..MaxConnections /\ profile.token \in Accounts
    BY <1>6, ProfileFacts DEF Gbp!ReadForRevocation, Gbp!Connected
  <2> HIDE DEF one
  <2>4. two \in Gbp!CallStates /\ two.pc = "revoke"
    BY <2>2, <2>3 DEF Gbp!CallStates
  <2> HIDE DEF two
  <2>5. three \in Gbp!CallStates /\ three.pc = "revoke"
    BY <2>3, <2>4 DEF Gbp!CallStates
  <2> HIDE DEF three
  <2> QED
    BY <1>2, <2>1, <2>5
<1>7. CASE Gbp!Revoke(c) /\ Gbp!Goto(c, "delete")
  <2> DEFINE one == [syncing[c] EXCEPT !.pc = "delete"]
  <2>1. syncing' = [syncing EXCEPT ![c] = one]
    BY <1>7, ProfileFacts DEF Gbp!Goto
  <2>2. one \in Gbp!CallStates /\ one.pc = "delete"
    BY ProfileFacts DEF Gbp!CallStates, Gbp!Points
  <2> HIDE DEF one
  <2> QED
    BY <1>2, <2>1, <2>2
<1>8. CASE Gbp!Leave(c)
  BY <1>1, <1>8, LeavingIsQuiet
<1> QED
  BY <1>3, <1>4, <1>5, <1>6, <1>7, <1>8
  DEF Gbp!SyncLocations, Gbp!RefreshStaleLocations, Gbp!Revoke, Gbp!Lose
(* A step that writes: the mirror must stay true, and the others ignorant. *)
LEMMA WritingStep ==
    ASSUME ProfileAssumption, ProfileInv, NEW c \in Gbp!Callers,
           NEW r \in Gbp!CallStates, syncing' = [syncing EXCEPT ![c] = r],
           r.pc \in {"idle", "read", "release"},
           profile' \in Gbp!Connections \cup {None},
           mirror' \in [Names -> Gbp!Rows \cup {None}],
           profiles' \in 0..MaxConnections, dropped' = dropped,
           overtaken' \subseteq Gbp!Callers,
           MirrorInv',
           \A d \in Gbp!Callers :
             d # c /\ syncing'[d] = syncing[d] => SyncInv(d)'
    PROVE  ProfileInv'
<1>1. /\ syncing' \in [Gbp!Callers -> SyncCalls] /\ syncing'[c] = r
      /\ \A d \in Gbp!Callers : d # c => syncing'[d] = syncing[d]
      /\ OneCallback'
  <2>1. r \in SyncCalls
    BY DEF SyncCalls
  <2> QED
    BY <2>1, SyncMoves
<1>2. ProfileType'
  <2>1. syncing' \in [Gbp!Callers -> Gbp!CallStates]
    BY <1>1 DEF SyncCalls
  <2> QED
    BY <1>1, <2>1, ProfileFacts DEF ProfileType, Gbp!TypeOK
<1>3. SyncInv(c)'
  BY <1>1 DEF SyncInv
<1> QED
  BY <1>1, <1>2, <1>3 DEF ProfileInv

LEMMA UpsertStep ==
    ASSUME ProfileAssumption, ProfileInv, NEW c \in Gbp!Callers,
           Gbp!UpsertConnection(c)
    PROVE  ProfileInv'
<1> DEFINE fresh(id) ==
             [id |-> id, subject |-> syncing[c].account,
              token |-> syncing[c].account, claim |-> Gbp!Unclaimed,
              synced |-> Gbp!Never, status |-> "never"]
<1>1. /\ syncing[c].pc = "upsert" /\ syncing[c].account \in Accounts
      /\ syncing' = [syncing EXCEPT ![c] = Gbp!Idle] /\ dropped' = dropped
      /\ mirror' = IF syncing[c].changed THEN [n \in Names |-> None]
                   ELSE mirror
      /\ overtaken' = IF syncing[c].changed THEN Gbp!Callers ELSE overtaken
  BY ProfileFacts
  DEF Gbp!UpsertConnection, Gbp!Emptied, Gbp!Leave, Gbp!At
<1>2. ASSUME NEW id \in 1..MaxConnections
      PROVE  /\ fresh(id) \in Gbp!Connections
             /\ fresh(id).token = fresh(id).subject
             /\ fresh(id).claim.token = None
  <2>1. Gbp!Never \in 0..Gbp!Never
    BY ProfileFacts
  <2>2. Gbp!Unclaimed \in [token : Gbp!Callers \cup {None},
                           claimed : 0..Gbp!MaxAge,
                           attempted : 0..Gbp!MaxAge]
    BY SyncClaimsAreClaims DEF SyncClaims
  <2>3. fresh(id) \in Gbp!Connections
    BY <1>1, <1>2, <2>1, <2>2 DEF Gbp!Connections, Gbp!Statuses
  <2> QED
    BY <2>3, SyncClaimsAreClaims
<1>3. \A d \in Gbp!Callers : d # c => syncing[d].pc # "upsert"
  BY <1>1 DEF ProfileInv, OneCallback, Gbp!InCallback, Gbp!At
<1>4. /\ mirror' \in [Names -> Gbp!Rows \cup {None}]
      /\ overtaken' \subseteq Gbp!Callers
  BY <1>1, ProfileFacts
<1>5. ASSUME \/ profile = None \/ syncing[c].changed,
             NEW id \in 1..MaxConnections, profile' = fresh(id),
             profiles' \in 0..MaxConnections
      PROVE  ProfileInv'
  <2>1. \A n \in Names : mirror'[n] = None
    BY <1>1, <1>5 DEF ProfileInv, MirrorInv
  <2>2. /\ profile' \in Gbp!Connections /\ profile'.token = profile'.subject
        /\ profile'.claim.token = None
    BY <1>2, <1>5
  <2>3. MirrorInv'
    BY <2>1, <2>2 DEF MirrorInv
  <2>4. ASSUME NEW d \in Gbp!Callers, d # c, syncing'[d] = syncing[d]
        PROVE  SyncInv(d)'
    <3>1. ~Gbp!Owned(d)'
      BY <2>2 DEF Gbp!Owned, ProfileAssumption
    <3>2. syncing'[d].pc # "upsert"
      BY <1>3, <2>4
    <3> QED
      BY <3>1, <3>2 DEF SyncInv
  <2> HIDE DEF fresh
  <2> QED
    BY <1>1, <1>4, <1>5, <2>2, <2>3, <2>4, IdleSync, WritingStep
<1>6. CASE profile = None
  <2>1. /\ profiles < MaxConnections /\ profiles' = profiles + 1
        /\ profile' = fresh(profiles + 1)
    BY <1>6 DEF Gbp!UpsertConnection, Gbp!Connected
  <2>2. /\ profiles + 1 \in 1..MaxConnections
        /\ profiles' \in 0..MaxConnections
    BY <2>1, ProfileFacts DEF ProfileAssumption
  <2> HIDE DEF fresh
  <2> QED
    BY <1>5, <1>6, <2>1, <2>2
<1>7. CASE profile # None /\ syncing[c].changed
  <2>1. profile' = fresh(profile.id) /\ profiles' = profiles
    BY <1>7 DEF Gbp!UpsertConnection, Gbp!Connected
  <2>2. profile.id \in 1..MaxConnections /\ profiles' \in 0..MaxConnections
    BY <1>7, <2>1, ProfileFacts
  <2> HIDE DEF fresh
  <2> QED
    BY <1>5, <1>7, <2>1, <2>2
<1>8. CASE profile # None /\ ~syncing[c].changed
  <2>1. /\ profile' = [profile EXCEPT !.subject = syncing[c].account,
                                      !.token = syncing[c].account]
        /\ profiles' = profiles /\ mirror' = mirror /\ overtaken' = overtaken
    BY <1>1, <1>8 DEF Gbp!UpsertConnection, Gbp!Connected
  <2>2. /\ profile.subject = syncing[c].account
        /\ profile.token = syncing[c].account
    BY <1>1, <1>8, ProfileFacts DEF ProfileInv, SyncInv
  <2>3. profile' = profile
    BY <1>8, <2>1, <2>2, ProfileFacts DEF Gbp!Connections
  <2>4. MirrorInv'
    BY <2>1, <2>3 DEF ProfileInv, MirrorInv
  <2>5. ASSUME NEW d \in Gbp!Callers, d # c, syncing'[d] = syncing[d]
        PROVE  SyncInv(d)'
    <3>1. Gbp!Owned(d)' => Gbp!Owned(d)
      BY <2>3, <2>5 DEF Gbp!Owned, Gbp!Holds, Gbp!Connected
    <3> QED
      BY <1>8, <2>1, <2>3, <2>5, <3>1, SyncKeeps
  <2> QED
    BY <1>1, <1>4, <2>1, <2>3, <2>4, <2>5, IdleSync, ProfileFacts,
       WritingStep
<1> QED
  BY <1>6, <1>7, <1>8

(* The claim goes to one call; the others do not hold it any more.         *)
LEMMA SyncClaimStep ==
    ASSUME ProfileAssumption, ProfileInv, NEW c \in Gbp!Callers,
           Gbp!ClaimSync(c)
    PROVE  ProfileInv'
<1>1. /\ mirror' = mirror /\ profiles' = profiles /\ dropped' = dropped
  BY DEF Gbp!ClaimSync
<1>2. CASE Gbp!Holds(c) /\ Gbp!Claimable(profile.claim)
  <2> DEFINE r == [syncing[c] EXCEPT !.pc = "read"]
  <2>1. /\ profile # None
        /\ profile' = [profile EXCEPT !.claim = Gbp!Taken(c),
                                      !.status = "running"]
        /\ syncing' = [syncing EXCEPT ![c] = r]
        /\ overtaken' = overtaken \ {c}
    BY <1>2, ProfileFacts
    DEF Gbp!ClaimSync, Gbp!Holds, Gbp!Connected, Gbp!Goto
  <2>2. r \in Gbp!CallStates /\ r.pc = "read"
    BY ProfileFacts DEF Gbp!CallStates, Gbp!Points
  <2>3. /\ Gbp!Taken(c) \in SyncClaims /\ Gbp!Taken(c).token = c
        /\ "running" \in Gbp!Statuses
    BY SyncClaimsAreClaims DEF Gbp!Statuses
  <2>4. /\ profile' \in Gbp!Connections /\ profile'.id = profile.id
        /\ profile'.subject = profile.subject
        /\ profile'.token = profile.token
        /\ profile'.synced = profile.synced /\ profile'.claim.token = c
    <3>1. profile \in Gbp!Connections /\ profile.synced \in 0..Gbp!Never
      BY <2>1, ProfileFacts
    <3>2. profile' = Written(profile, Gbp!Taken(c), profile.synced, "running")
      BY <2>1, <3>1 DEF Written, Gbp!Connections
    <3> QED
      BY <2>3, <3>1, <3>2, ConnectionWritten
  <2>5. MirrorInv'
    BY <1>1, <2>1, <2>4 DEF ProfileInv, MirrorInv, ProfileAssumption
  <2>6. ASSUME NEW d \in Gbp!Callers, d # c, syncing'[d] = syncing[d]
        PROVE  SyncInv(d)'
    <3>1. ~Gbp!Owned(d)'
      BY <2>4, <2>6 DEF Gbp!Owned
    <3> QED
      BY <2>1, <2>4, <2>6, <3>1, SyncKeeps
  <2> HIDE DEF r
  <2> QED
    BY <1>1, <2>1, <2>2, <2>4, <2>5, <2>6, ProfileFacts, WritingStep
<1>3. CASE ~(Gbp!Holds(c) /\ Gbp!Claimable(profile.claim))
  BY <1>1, <1>3, ProfileFacts, LeavingIsQuiet DEF Gbp!ClaimSync
<1> QED
  BY <1>2, <1>3

(* The row that is written under its claim, which is given back.           *)
LEMMA ReleasedWritten ==
    ASSUME ProfileAssumption, ProfileInv, profile # None,
           NEW synced \in 0..Gbp!Never, NEW state \in Gbp!Statuses,
           profile' = [profile EXCEPT !.claim = Gbp!Released(profile.claim),
                                      !.synced = synced, !.status = state]
    PROVE  /\ profile' \in Gbp!Connections /\ profile' # None
           /\ profile'.subject = profile.subject
           /\ profile'.token = profile.token /\ profile'.synced = synced
           /\ \A d \in Gbp!Callers : ~Gbp!Owned(d)'
<1>1. /\ Gbp!Released(profile.claim) \in SyncClaims
      /\ Gbp!Released(profile.claim).token = None
  BY ProfileFacts, SyncClaimsAreClaims
<1>2. /\ profile' \in Gbp!Connections
      /\ profile'.subject = profile.subject
      /\ profile'.token = profile.token /\ profile'.synced = synced
      /\ profile'.claim.token = None
  <2>1. /\ profile \in Gbp!Connections
        /\ profile' = Written(profile, Gbp!Released(profile.claim), synced,
                              state)
    BY ProfileFacts DEF Written
  <2> QED
    BY <1>1, <2>1, ConnectionWritten
<1> QED
  BY <1>2 DEF Gbp!Owned, ProfileAssumption

LEMMA CommitStep ==
    ASSUME ProfileAssumption, ProfileInv, NEW c \in Gbp!Callers,
           Gbp!CommitSync(c)
    PROVE  ProfileInv'
<1>1. /\ profiles' = profiles /\ dropped' = dropped
      /\ syncing[c].pc = "commit" /\ syncing[c].account \in Accounts
  BY ProfileFacts DEF Gbp!CommitSync, Gbp!At
<1>2. CASE Gbp!Owned(c)
  <2>1. /\ profile # None /\ syncing[c].account = profile.subject
        /\ profile' = [profile EXCEPT !.claim = Gbp!Released(profile.claim),
                                      !.synced = 0, !.status = "success"]
        /\ syncing' = [syncing EXCEPT ![c] = Gbp!Idle]
        /\ overtaken' = Gbp!Callers
    BY <1>1, <1>2
    DEF Gbp!CommitSync, Gbp!Owned, Gbp!Holds, Gbp!Connected, Gbp!Leave,
        ProfileInv, SyncInv
  <2>2. 0 \in 0..Gbp!Never /\ "success" \in Gbp!Statuses
    BY ProfileFacts DEF Gbp!Statuses
  <2>3. /\ profile' \in Gbp!Connections /\ profile' # None
        /\ profile'.subject = profile.subject
        /\ profile'.token = profile.token /\ profile'.synced = 0
        /\ \A d \in Gbp!Callers : ~Gbp!Owned(d)'
    BY <2>1, <2>2, ReleasedWritten
  <2> DEFINE seen(n) ==
               [source |-> syncing[c].account, synced |-> 0,
                linked |-> mirror[n] # None /\ mirror[n].linked]
  <2>4. mirror' = [n \in Names |->
                     IF n \notin syncing[c].observed THEN None ELSE seen(n)]
    BY <1>2 DEF Gbp!CommitSync
  <2>5. ASSUME NEW n \in Names
        PROVE  /\ seen(n) \in Gbp!Rows
               /\ seen(n).source = profile.subject /\ seen(n).synced = 0
    <3>1. (mirror[n] # None /\ mirror[n].linked) \in BOOLEAN
      BY ProfileFacts
    <3>2. 0 \in 0..Gbp!MaxAge
      BY ProfileFacts
    <3> QED
      BY <1>1, <2>1, <3>1, <3>2 DEF Gbp!Rows
  <2> HIDE DEF seen
  <2>6. /\ mirror' \in [Names -> Gbp!Rows \cup {None}]
        /\ \A n \in Names : mirror'[n] # None =>
             mirror'[n].source = profile.subject /\ mirror'[n].synced = 0
    BY <2>4, <2>5
  <2>7. MirrorInv'
    BY <2>1, <2>3, <2>6, ProfileFacts DEF MirrorInv
  <2>8. ASSUME NEW d \in Gbp!Callers, d # c, syncing'[d] = syncing[d]
        PROVE  SyncInv(d)'
    BY <2>1, <2>3, <2>8, SyncKeeps
  <2> QED
    BY <1>1, <2>1, <2>3, <2>6, <2>7, <2>8, IdleSync, ProfileFacts,
       WritingStep
<1>3. CASE ~Gbp!Owned(c)
  <2> DEFINE one == [syncing[c] EXCEPT !.pc = "release"]
             two == [one EXCEPT !.status = "failed"]
  <2>1. /\ syncing' = [syncing EXCEPT ![c] = two]
        /\ profile' = profile /\ mirror' = mirror /\ overtaken' = overtaken
    BY <1>3, ProfileFacts DEF Gbp!CommitSync
  <2>2. one \in Gbp!CallStates /\ one.pc = "release"
    BY ProfileFacts DEF Gbp!CallStates, Gbp!Points
  <2> HIDE DEF one
  <2>3. two \in SyncCalls /\ two.pc = "release"
    BY <2>2 DEF Gbp!CallStates, Gbp!Statuses, SyncCalls
  <2> HIDE DEF two
  <2> QED
    BY <1>1, <2>1, <2>3, ProfileFacts, QuietStep
<1> QED
  BY <1>2, <1>3

LEMMA ReleaseStep ==
    ASSUME ProfileAssumption, ProfileInv, NEW c \in Gbp!Callers,
           Gbp!ReleaseSyncClaim(c)
    PROVE  ProfileInv'
<1>1. /\ mirror' = mirror /\ profiles' = profiles /\ dropped' = dropped
      /\ overtaken' = overtaken /\ Gbp!Leave(c)
  BY DEF Gbp!ReleaseSyncClaim
<1>2. CASE Gbp!Owned(c)
  <2>1. /\ profile # None
        /\ profile' = [profile EXCEPT !.claim = Gbp!Released(profile.claim),
                                      !.status = syncing[c].status]
    BY <1>2 DEF Gbp!ReleaseSyncClaim, Gbp!Owned, Gbp!Holds, Gbp!Connected
  <2>2. profile' = [profile EXCEPT !.claim = Gbp!Released(profile.claim),
                                   !.synced = profile.synced,
                                   !.status = syncing[c].status]
    BY <2>1, ProfileFacts, ConnectionUnchanged
  <2>3. /\ profile' \in Gbp!Connections /\ profile' # None
        /\ profile'.subject = profile.subject
        /\ profile'.token = profile.token
        /\ profile'.synced = profile.synced
        /\ \A d \in Gbp!Callers : ~Gbp!Owned(d)'
    BY <2>1, <2>2, ProfileFacts, ReleasedWritten
  <2>4. MirrorInv'
    BY <1>1, <2>1, <2>3 DEF ProfileInv, MirrorInv
  <2>5. ASSUME NEW d \in Gbp!Callers, d # c, syncing'[d] = syncing[d]
        PROVE  SyncInv(d)'
    BY <2>1, <2>3, <2>5, SyncKeeps
  <2> QED
    BY <1>1, <2>3, <2>4, <2>5, IdleSync, ProfileFacts, WritingStep
    DEF Gbp!Leave
<1>3. CASE ~Gbp!Owned(c)
  BY <1>1, <1>3, ProfileFacts, LeavingIsQuiet DEF Gbp!ReleaseSyncClaim
<1> QED
  BY <1>2, <1>3

LEMMA DeleteStep ==
    ASSUME ProfileAssumption, ProfileInv, NEW c \in Gbp!Callers,
           Gbp!DeleteConnection(c)
    PROVE  ProfileInv'
<1>1. profiles' = profiles /\ dropped' = dropped /\ Gbp!Leave(c)
  BY DEF Gbp!DeleteConnection
<1>2. CASE Gbp!Holds(c)
  <2>1. /\ profile' = None /\ mirror' = [n \in Names |-> None]
        /\ overtaken' = Gbp!Callers
    BY <1>2 DEF Gbp!DeleteConnection
  <2>2. MirrorInv'
    BY <2>1 DEF MirrorInv
  <2>3. ASSUME NEW d \in Gbp!Callers
        PROVE  SyncInv(d)'
    BY <2>1 DEF SyncInv, Gbp!Owned, Gbp!Holds, Gbp!Connected
  <2> QED
    BY <1>1, <2>1, <2>2, <2>3, IdleSync, ProfileFacts, WritingStep
    DEF Gbp!Leave
<1>3. CASE ~Gbp!Holds(c)
  BY <1>1, <1>3, ProfileFacts, LeavingIsQuiet DEF Gbp!DeleteConnection
<1> QED
  BY <1>2, <1>3

(* The steps in which no call moves: links, the purge and time.            *)
LEMMA UnattendedStep ==
    ASSUME ProfileAssumption, ProfileInv,
           syncing' = syncing, profiles' = profiles, overtaken' = overtaken,
           dropped' \in 0..MaxFaults,
           profile' \in Gbp!Connections \cup {None},
           mirror' \in [Names -> Gbp!Rows \cup {None}],
           MirrorInv',
           \/ profile' = profile
           \/ /\ profile # None /\ profile'.id = profile.id
              /\ profile'.subject = profile.subject
              /\ profile'.claim.token = profile.claim.token
    PROVE  ProfileInv'
<1>1. ProfileType'
  BY ProfileFacts DEF ProfileInv, ProfileType, Gbp!TypeOK
<1>2. OneCallback'
  BY DEF ProfileInv, OneCallback, Gbp!InCallback, Gbp!At
<1>3. ASSUME NEW d \in Gbp!Callers
      PROVE  SyncInv(d)'
  <2>1. Gbp!Owned(d)' => Gbp!Owned(d)
    BY DEF Gbp!Owned, Gbp!Holds, Gbp!Connected
  <2> QED
    BY <2>1, SyncKeeps
<1> QED
  BY <1>1, <1>2, <1>3 DEF ProfileInv

LEMMA TimeStep ==
    ASSUME ProfileAssumption, ProfileInv,
           \/ \E n \in Names, linked \in BOOLEAN : Gbp!LinkLocation(n, linked)
           \/ Gbp!PurgeExpiredLocations
           \/ Gbp!Tick
    PROVE  ProfileInv'
<1>1. ASSUME NEW n \in Names, NEW linked \in BOOLEAN,
             Gbp!LinkLocation(n, linked)
      PROVE  ProfileInv'
  <2> DEFINE new == [mirror[n] EXCEPT !.linked = linked]
  <2>1. /\ mirror[n] # None /\ mirror' = [mirror EXCEPT ![n] = new]
        /\ UNCHANGED <<profile, syncing, profiles, dropped, overtaken>>
    BY <1>1, ProfileFacts DEF Gbp!LinkLocation, Gbp!Served
  <2>2. /\ new \in Gbp!Rows /\ new.source = mirror[n].source
        /\ new.synced = mirror[n].synced
    BY <2>1, ProfileFacts DEF Gbp!Rows
  <2> HIDE DEF new
  <2>3. /\ mirror' \in [Names -> Gbp!Rows \cup {None}]
        /\ \A m \in Names : mirror'[m] # None =>
             /\ mirror[m] # None /\ mirror'[m].source = mirror[m].source
             /\ mirror'[m].synced = mirror[m].synced
    BY <2>1, <2>2, ProfileFacts
  <2>4. MirrorInv'
    BY <2>1, <2>3 DEF ProfileInv, MirrorInv
  <2> QED
    BY <2>1, <2>3, <2>4, ProfileFacts, UnattendedStep
<1>2. CASE Gbp!PurgeExpiredLocations
  <2>1. /\ mirror' = [n \in Names |-> IF Gbp!Served(n) THEN mirror[n]
                                      ELSE None]
        /\ UNCHANGED <<profile, syncing, profiles, dropped, overtaken>>
    BY <1>2 DEF Gbp!PurgeExpiredLocations, Gbp!Purged
  <2>2. /\ mirror' \in [Names -> Gbp!Rows \cup {None}]
        /\ \A n \in Names : mirror'[n] # None => mirror'[n] = mirror[n]
    BY <2>1, ProfileFacts
  <2>3. MirrorInv'
    BY <2>1, <2>2 DEF ProfileInv, MirrorInv
  <2> QED
    BY <2>1, <2>2, <2>3, ProfileFacts, UnattendedStep
<1>3. CASE Gbp!Tick
  <2>1. /\ UNCHANGED <<syncing, profiles, overtaken>>
        /\ dropped' \in 0..MaxFaults
    BY <1>3, ProfileFacts DEF Gbp!Tick, ProfileAssumption
  <2> DEFINE older(n) == [mirror[n] EXCEPT
                            !.synced = Gbp!Older(mirror[n].synced)]
  <2>2. mirror' = [n \in Names |-> IF mirror[n] = None THEN None
                                   ELSE older(n)]
    BY <1>3 DEF Gbp!Tick
  <2>3. \A age \in 0..Gbp!MaxAge : Gbp!Older(age) \in 0..Gbp!MaxAge
    BY ProfileFacts DEF Gbp!Older
  <2>4. \A n \in Names : mirror[n] # None =>
          /\ older(n) \in Gbp!Rows /\ older(n).source = mirror[n].source
          /\ older(n).synced = Gbp!Older(mirror[n].synced)
    BY <2>3, ProfileFacts DEF Gbp!Rows
  <2> HIDE DEF older
  <2>5. /\ mirror' \in [Names -> Gbp!Rows \cup {None}]
        /\ \A n \in Names : mirror'[n] # None =>
             /\ mirror[n] # None /\ mirror'[n].source = mirror[n].source
             /\ mirror'[n].synced = Gbp!Older(mirror[n].synced)
    BY <2>2, <2>4
  <2>6. CASE profile = None
    <3>1. profile' = profile
      BY <1>3, <2>6 DEF Gbp!Tick, Gbp!Connected
    <3>2. MirrorInv'
      BY <2>5, <2>6, <3>1 DEF ProfileInv, MirrorInv
    <3> QED
      BY <2>1, <2>5, <3>1, <3>2, ProfileFacts, UnattendedStep
  <2>7. CASE profile # None
    <3> DEFINE age == IF profile.synced = Gbp!Never THEN Gbp!Never
                      ELSE Gbp!Older(profile.synced)
    <3>1. profile' = [profile EXCEPT !.claim = Gbp!Aged(profile.claim),
                                     !.synced = age]
      BY <1>3, <2>7 DEF Gbp!Tick, Gbp!Connected
    <3>2. age \in 0..Gbp!Never
      BY <2>3, <2>7, ProfileFacts
    <3>3. \A n \in Names : mirror[n] # None
                             => age = Gbp!Older(mirror[n].synced)
      BY ProfileFacts DEF ProfileInv, MirrorInv
    <3> HIDE DEF age
    <3>4. /\ Gbp!Aged(profile.claim) \in SyncClaims
          /\ Gbp!Aged(profile.claim).token = profile.claim.token
      BY <2>7, ProfileFacts, SyncClaimsAreClaims
    <3>5. profile' = Written(profile, Gbp!Aged(profile.claim), age,
                             profile.status)
      BY <2>7, <3>1, ProfileFacts, ConnectionUnchanged
    <3>6. /\ profile' \in Gbp!Connections /\ profile'.id = profile.id
          /\ profile'.subject = profile.subject
          /\ profile'.token = profile.token
          /\ profile'.claim.token = profile.claim.token
          /\ profile'.synced = age
      <4>1. profile \in Gbp!Connections /\ profile.status \in Gbp!Statuses
        BY <2>7, ProfileFacts
      <4> QED
        BY <3>2, <3>4, <3>5, <4>1, ConnectionWritten
    <3>7. MirrorInv'
      BY <2>5, <2>7, <3>3, <3>6 DEF ProfileInv, MirrorInv, ProfileAssumption
    <3> QED
      BY <2>1, <2>5, <2>7, <3>6, <3>7, UnattendedStep
  <2> QED
    BY <2>6, <2>7
<1> QED
  BY <1>1, <1>2, <1>3

LEMMA ProfileStep ==
    ASSUME ProfileAssumption, ProfileInv, [Gbp!Next]_(Gbp!vars)
    PROVE  ProfileInv'
<1>1. CASE UNCHANGED Gbp!vars
  <2>1. UNCHANGED <<profile, mirror, syncing, profiles, dropped, overtaken>>
    BY <1>1 DEF Gbp!vars
  <2>2. MirrorInv'
    BY <2>1 DEF ProfileInv, MirrorInv
  <2> QED
    BY <2>1, <2>2, ProfileFacts, UnattendedStep
<1> QED
  BY <1>1, CallbackStep, UpsertStep, ReadingStep, SyncClaimStep, CommitStep,
     ReleaseStep, DeleteStep, TimeStep
  DEF Gbp!Next, Gbp!Callback, Gbp!RunLocationsSync, Gbp!Disconnect

(* A commit that ends its call held the claim.                             *)
LEMMA OutdatedIsNotCommitted ==
    ASSUME ProfileAssumption, ProfileInv, Gbp!Next
    PROVE  ~Gbp!OutdatedCommit
<1> SUFFICES ASSUME NEW c \in overtaken, syncing[c].pc = "commit",
                    syncing'[c] = Gbp!Idle, dropped' = dropped
             PROVE  FALSE
  BY DEF Gbp!OutdatedCommit, Gbp!At
<1>1. c \in Gbp!Callers /\ ~Gbp!Owned(c)
  BY ProfileFacts DEF ProfileInv, SyncInv
<1>2. syncing'[c] # syncing[c]
  BY IdleSync
<1>3. PICK d \in Gbp!Callers :
        \/ Gbp!Callback(d) \/ Gbp!SyncLocations(d)
        \/ Gbp!RefreshStaleLocations(d) \/ Gbp!RunLocationsSync(d)
        \/ Gbp!Disconnect(d) \/ Gbp!Lose(d)
  BY <1>2 DEF Gbp!Next, Gbp!LinkLocation, Gbp!PurgeExpiredLocations, Gbp!Tick
<1>4. \E r : syncing' = [syncing EXCEPT ![d] = r]
  <2>1. ASSUME NEW a \in Accounts, Gbp!ExchangeCode(d, a)
        PROVE  \E r : syncing' = [syncing EXCEPT ![d] = r]
    BY <2>1 DEF Gbp!ExchangeCode
  <2>2. ASSUME \/ Gbp!ReadExisting(d) \/ Gbp!UpsertConnection(d)
               \/ Gbp!SyncLocations(d) \/ Gbp!RefreshStaleLocations(d)
        PROVE  \E r : syncing' = [syncing EXCEPT ![d] = r]
    BY <2>2
    DEF Gbp!ReadExisting, Gbp!UpsertConnection, Gbp!SyncLocations,
        Gbp!RefreshStaleLocations, Gbp!BeginSync, Gbp!Leave
  <2>3. ASSUME Gbp!RunLocationsSync(d)
        PROVE  \E r : syncing' = [syncing EXCEPT ![d] = r]
    BY <2>3, ProfileFacts
    DEF Gbp!RunLocationsSync, Gbp!ClaimSync, Gbp!ReadConnection,
        Gbp!FetchLocations, Gbp!CommitSync, Gbp!ReleaseSyncClaim,
        Gbp!Goto, Gbp!Leave
  <2>4. ASSUME Gbp!Disconnect(d) \/ Gbp!Lose(d)
        PROVE  \E r : syncing' = [syncing EXCEPT ![d] = r]
    BY <2>4
    DEF Gbp!Disconnect, Gbp!ReadForRevocation, Gbp!Revoke,
        Gbp!DeleteConnection, Gbp!Lose, Gbp!Goto, Gbp!Leave
  <2> QED
    BY <1>3, <2>1, <2>2, <2>3, <2>4 DEF Gbp!Callback
<1>5. d = c
  BY <1>1, <1>2, <1>4, ProfileFacts
<1>6. Gbp!CommitSync(c) \/ Gbp!Lose(c)
  BY <1>3, <1>5
  DEF Gbp!Callback, Gbp!ExchangeCode, Gbp!ReadExisting, Gbp!UpsertConnection,
      Gbp!SyncLocations, Gbp!RefreshStaleLocations, Gbp!BeginSync,
      Gbp!RunLocationsSync, Gbp!ClaimSync, Gbp!ReadConnection,
      Gbp!FetchLocations, Gbp!ReleaseSyncClaim, Gbp!Disconnect,
      Gbp!ReadForRevocation, Gbp!Revoke, Gbp!DeleteConnection, Gbp!At
<1>7. ~Gbp!Lose(c)
  BY ProfileFacts DEF Gbp!Lose
<1>8. syncing' = [syncing EXCEPT ![c].pc = "release", ![c].status = "failed"]
  BY <1>1, <1>6, <1>7 DEF Gbp!CommitSync
<1>9. syncing'[c].pc = "release"
  <2> DEFINE one == [syncing[c] EXCEPT !.pc = "release"]
             two == [one EXCEPT !.status = "failed"]
  <2>1. syncing'[c] = two
    BY <1>1, <1>8, ProfileFacts
  <2>2. one \in Gbp!CallStates /\ one.pc = "release"
    BY <1>1, ProfileFacts DEF Gbp!CallStates, Gbp!Points
  <2> HIDE DEF one
  <2> QED
    BY <2>1, <2>2 DEF Gbp!CallStates
<1> QED
  BY <1>9, IdleSync

(* What is shown is of one account and as old as the signal says, and what *)
(* another write overtook never reaches the mirror.                        *)
THEOREM TheMirrorIsOfTheAccount ==
    ASSUME ProfileAssumption
    PROVE  Gbp!Init /\ [][Gbp!Next]_(Gbp!vars) =>
             /\ [](Gbp!TypeOK /\ Gbp!OneAccount /\ Gbp!SignalIsTrue)
             /\ Gbp!NothingOutdatedCommits
<1>1. Gbp!Init => ProfileInv
  BY ProfileInit
<1>2. ProfileInv /\ [Gbp!Next]_(Gbp!vars) => ProfileInv'
  BY ProfileStep
<1>3. ProfileInv => Gbp!TypeOK /\ Gbp!OneAccount /\ Gbp!SignalIsTrue
  <2> SUFFICES ASSUME ProfileInv
               PROVE  Gbp!TypeOK /\ Gbp!OneAccount /\ Gbp!SignalIsTrue
    OBVIOUS
  <2>1. Gbp!OneAccount
    BY DEF ProfileInv, MirrorInv, Gbp!OneAccount, Gbp!Connected
  <2>2. Gbp!SignalIsTrue
    <3> SUFFICES ASSUME NEW n \in Names, mirror[n] # None
                 PROVE  /\ profile # None
                        /\ mirror[n].synced = profile.synced
                        /\ Gbp!IntelligenceSignal = "ok" => Gbp!Served(n)
      BY DEF Gbp!SignalIsTrue, Gbp!Connected
    <3>1. profile # None /\ mirror[n].synced = profile.synced
      BY DEF ProfileInv, MirrorInv
    <3>2. Gbp!IntelligenceSignal = "ok" => ~(profile.synced > StaleAfter)
      BY <3>1 DEF Gbp!IntelligenceSignal, Gbp!Connected
    <3> QED
      BY <3>1, <3>2, ProfileFacts DEF Gbp!Served, ProfileAssumption
  <2> QED
    BY <2>1, <2>2 DEF ProfileInv, ProfileType
<1>4. ProfileInv /\ [Gbp!Next]_(Gbp!vars)
        => [~Gbp!OutdatedCommit]_(Gbp!vars)
  BY OutdatedIsNotCommitted
<1> QED
  BY <1>1, <1>2, <1>3, <1>4, PTL DEF Gbp!NothingOutdatedCommits

(***************************************************************************)
(* Composition                                                             *)
(***************************************************************************)
Intact ==
    /\ UNCHANGED <<gbpVars, reviewsVars, gscVars, metaVars>>
    /\ UNCHANGED <<applicationsVars, scoresVars, documentsVars, outreachVars>>
    /\ UNCHANGED <<executionVars, auditsVars, subscriptionVars, passwordVars>>
    /\ UNCHANGED <<opsVars, crawlVars>>

LEMMA StutterOfAll == UNCHANGED services => Intact
BY DEF services, Intact

(* The variables of the whole are those of the services' own modules.      *)
LEMMA VariablesOfEach ==
    /\ gbpVars = Gbp!vars /\ reviewsVars = Reviews!vars
    /\ gscVars = Gsc!vars /\ metaVars = Meta!vars
    /\ applicationsVars = Applications!vars /\ scoresVars = Scores!vars
    /\ documentsVars = Documents!vars /\ outreachVars = Outreach!vars
    /\ executionVars = Execution!vars /\ auditsVars = Audits!vars
    /\ subscriptionVars = Subscription!vars /\ passwordVars = Password!vars
    /\ opsVars = Ops!vars /\ crawlVars = Crawl!vars
BY DEF gbpVars, reviewsVars, gscVars, metaVars, applicationsVars, scoresVars,
       documentsVars, outreachVars, executionVars, auditsVars,
       subscriptionVars, passwordVars, opsVars, crawlVars, Gbp!vars, Reviews!vars,
       Gsc!vars, Meta!vars, Applications!vars, Scores!vars, Documents!vars,
       Outreach!vars, Execution!vars, Audits!vars, Subscription!vars,
       Password!vars, Ops!vars, Crawl!vars

LEMMA StepOfIntegrations ==
    ASSUME [Next]_services
    PROVE  /\ [Gbp!Next]_(Gbp!vars) /\ [Reviews!Next]_(Reviews!vars)
           /\ [Gsc!Next]_(Gsc!vars) /\ [Meta!Next]_(Meta!vars)
<1> SUFFICES /\ Gbp!Next \/ UNCHANGED gbpVars
             /\ Reviews!Next \/ UNCHANGED reviewsVars
             /\ Gsc!Next \/ UNCHANGED gscVars
             /\ Meta!Next \/ UNCHANGED metaVars
  BY DEF gbpVars, reviewsVars, gscVars, metaVars,
         Gbp!vars, Reviews!vars, Gsc!vars, Meta!vars
<1>1. CASE UNCHANGED services
  BY <1>1, StutterOfAll DEF Intact
<1>2. ASSUME NEW service \in Components, Step(service)
      PROVE  /\ Gbp!Next \/ UNCHANGED gbpVars
             /\ Reviews!Next \/ UNCHANGED reviewsVars
             /\ Gsc!Next \/ UNCHANGED gscVars
             /\ Meta!Next \/ UNCHANGED metaVars
  BY <1>2 DEF Step
<1> QED
  BY <1>1, <1>2 DEF Next

LEMMA StepOfOdc ==
    ASSUME [Next]_services
    PROVE  /\ [Applications!Next]_(Applications!vars)
           /\ [Scores!Next]_(Scores!vars)
           /\ [Documents!Next]_(Documents!vars)
           /\ [Outreach!Next]_(Outreach!vars)
<1> SUFFICES /\ Applications!Next \/ UNCHANGED applicationsVars
             /\ Scores!Next \/ UNCHANGED scoresVars
             /\ Documents!Next \/ UNCHANGED documentsVars
             /\ Outreach!Next \/ UNCHANGED outreachVars
  BY DEF applicationsVars, scoresVars, documentsVars, outreachVars,
         Applications!vars, Scores!vars, Documents!vars, Outreach!vars
<1>1. CASE UNCHANGED services
  BY <1>1, StutterOfAll DEF Intact
<1>2. ASSUME NEW service \in Components, Step(service)
      PROVE  /\ Applications!Next \/ UNCHANGED applicationsVars
             /\ Scores!Next \/ UNCHANGED scoresVars
             /\ Documents!Next \/ UNCHANGED documentsVars
             /\ Outreach!Next \/ UNCHANGED outreachVars
  BY <1>2 DEF Step
<1> QED
  BY <1>1, <1>2 DEF Next

LEMMA StepOfPlatform ==
    ASSUME [Next]_services
    PROVE  /\ [Execution!Next]_(Execution!vars)
           /\ [Audits!Next]_(Audits!vars)
           /\ [Subscription!Next]_(Subscription!vars)
           /\ [Password!Next]_(Password!vars)
           /\ [Ops!Next]_(Ops!vars) /\ [Crawl!Next]_(Crawl!vars)
<1> SUFFICES /\ Execution!Next \/ UNCHANGED executionVars
             /\ Audits!Next \/ UNCHANGED auditsVars
             /\ Subscription!Next \/ UNCHANGED subscriptionVars
             /\ Password!Next \/ UNCHANGED passwordVars
             /\ Ops!Next \/ UNCHANGED opsVars
             /\ Crawl!Next \/ UNCHANGED crawlVars
  BY DEF executionVars, auditsVars, subscriptionVars, passwordVars, opsVars,
         crawlVars, Execution!vars, Audits!vars, Subscription!vars,
         Password!vars, Ops!vars, Crawl!vars
<1>1. CASE UNCHANGED services
  BY <1>1, StutterOfAll DEF Intact
<1>2. ASSUME NEW service \in Components, Step(service)
      PROVE  /\ Execution!Next \/ UNCHANGED executionVars
             /\ Audits!Next \/ UNCHANGED auditsVars
             /\ Subscription!Next \/ UNCHANGED subscriptionVars
             /\ Password!Next \/ UNCHANGED passwordVars
             /\ Ops!Next \/ UNCHANGED opsVars
             /\ Crawl!Next \/ UNCHANGED crawlVars
  BY <1>2 DEF Step
<1> QED
  BY <1>1, <1>2 DEF Next

(* A behaviour of the whole is one of each service.                        *)
LEMMA BehavesAsIntegrations ==
    Spec => /\ Gbp!Init /\ [][Gbp!Next]_(Gbp!vars)
            /\ Reviews!Spec /\ Gsc!Spec /\ Meta!Spec
<1>1. Init => Gbp!Init /\ Reviews!Init /\ Gsc!Init /\ Meta!Init
  BY DEF Init
<1>2. [Next]_services => /\ [Gbp!Next]_(Gbp!vars)
                         /\ [Reviews!Next]_(Reviews!vars)
                         /\ [Gsc!Next]_(Gsc!vars) /\ [Meta!Next]_(Meta!vars)
  BY StepOfIntegrations
<1> QED
  BY <1>1, <1>2, PTL DEF Spec, Reviews!Spec, Gsc!Spec, Meta!Spec

LEMMA BehavesAsOdc ==
    Spec => /\ Applications!Spec /\ Scores!Spec
            /\ Documents!Spec /\ Outreach!Spec
<1>1. Init => /\ Applications!Init /\ Scores!Init
              /\ Documents!Init /\ Outreach!Init
  BY DEF Init
<1>2. [Next]_services => /\ [Applications!Next]_(Applications!vars)
                         /\ [Scores!Next]_(Scores!vars)
                         /\ [Documents!Next]_(Documents!vars)
                         /\ [Outreach!Next]_(Outreach!vars)
  BY StepOfOdc
<1> QED
  BY <1>1, <1>2, PTL
  DEF Spec, Applications!Spec, Scores!Spec, Documents!Spec, Outreach!Spec

LEMMA BehavesAsPlatform ==
    Spec => /\ Execution!Spec /\ Audits!Spec /\ Subscription!Spec
            /\ Password!Spec /\ Ops!Spec /\ Crawl!Spec
<1>1. Init => /\ Execution!Init /\ Audits!Init /\ Subscription!Init
              /\ Password!Init /\ Ops!Init /\ Crawl!Init
  BY DEF Init
<1>2. [Next]_services => /\ [Execution!Next]_(Execution!vars)
                         /\ [Audits!Next]_(Audits!vars)
                         /\ [Subscription!Next]_(Subscription!vars)
                         /\ [Password!Next]_(Password!vars)
                         /\ [Ops!Next]_(Ops!vars)
                         /\ [Crawl!Next]_(Crawl!vars)
  BY StepOfPlatform
<1> QED
  BY <1>1, <1>2, PTL
  DEF Spec, Execution!Spec, Audits!Spec, Subscription!Spec, Password!Spec,
      Ops!Spec, Crawl!Spec

(***************************************************************************)
(* What the assumption on the constants says of each service               *)
(***************************************************************************)
LEMMA OdcAssumptions ==
    /\ NoneIsNoStatus /\ ScoresAssumption /\ DocumentsAssumption
    /\ OutreachAssumption
BY ServicesAssumption
DEF NoneIsNoStatus, ScoresAssumption, DocumentsAssumption, OutreachAssumption

LEMMA PlatformAssumptions ==
    /\ KeysAssumption /\ AuditsAssumption /\ CrawlAssumption
    /\ TokensAssumption /\ OpsAssumption
BY ServicesAssumption
DEF KeysAssumption, AuditsAssumption, CrawlAssumption, TokensAssumption,
    OpsAssumption

LEMMA IntegrationAssumptions ==
    ConsoleAssumption /\ ReviewsAssumption /\ ProfileAssumption
BY ServicesAssumption
DEF ConsoleAssumption, ReviewsAssumption, ProfileAssumption, Gbp!Callers

(***************************************************************************)
(* The properties of the whole                                             *)
(***************************************************************************)
(* A candidature that is reviewed or decided has every required document,  *)
(* its history explains its status, and its totals are never partial.      *)
THEOREM CandidaturesAreExplained == Spec => []CandidatureIsExplained
<1>1. Applications!Spec => [](/\ Applications!ReviewedHasDocuments
                              /\ Applications!HistoryExplainsStatus)
  BY OdcAssumptions, ReviewedIsComplete, HistoryExplains, PTL
<1>2. Scores!Spec => []Scores!TotalIsNeverPartial
  BY OdcAssumptions, TotalsAreWhole, PTL
<1> QED
  BY <1>1, <1>2, BehavesAsOdc, PTL DEF CandidatureIsExplained

(* A received document has its file, and a candidate his one mail in turn, *)
(* whatever fails between the two writes that each takes.                  *)
THEOREM FilesAndMailsMatch == Spec => []OneFileOneMail
<1>1. Documents!Spec => []Documents!FilesMatchRows
  BY OdcAssumptions, FilesHaveRows, PTL
<1>2. Outreach!Spec => []Outreach!OneByOne
  BY OdcAssumptions, InvitationsGoInOrder, PTL
<1> QED
  BY <1>1, <1>2, BehavesAsOdc, PTL DEF OneFileOneMail

(* Reports under one key, audits that are announced and steps that are     *)
(* retried have their effect once, and a page takes of the budget once,    *)
(* the nearest first.                                                      *)
THEOREM RepetitionsCountOnce == Spec => []CountedOnce
<1>1. Execution!Spec => []Execution!ReportsCountOnce
  BY PlatformAssumptions, ReportsAreCountedOnce, PTL
<1>2. Audits!Spec => [](Audits!AnnouncedIsCompleted /\ Audits!GeneratedOnce)
  BY PlatformAssumptions, OpportunitiesAreGeneratedOnce, PTL
<1>3. Ops!Spec => []Ops!ReplayIsHarmless
  BY PlatformAssumptions, ReplaysAreHarmless, PTL
<1>4. Crawl!Spec => []Crawl!NearestFirst
  BY PlatformAssumptions, NearestAreFirst, PTL
<1> QED
  BY <1>1, <1>2, <1>3, <1>4, BehavesAsPlatform, PTL DEF CountedOnce

(* Paid access follows a report of Stripe's, and no session outlives the   *)
(* reset of the password it was opened with.                               *)
THEOREM AccessStaysJustified == Spec => []AccessIsJustified
<1>1. Subscription!Spec => []Subscription!PaidAccessWasReported
  BY PaidAccessIsReported, PTL
<1>2. Password!Spec => []Password!ResetEndsSessions
  BY PlatformAssumptions, ResetsEndSessions, PTL
<1> QED
  BY <1>1, <1>2, BehavesAsPlatform, PTL DEF AccessIsJustified

(* The locations shown of a Business Profile are of one account and as     *)
(* fresh as the audits are told, and a synchronization that another write  *)
(* overtook commits nothing.                                               *)
THEOREM MirrorStaysOfAccount == Spec => MirrorOfAccount
<1>1. Gbp!Init /\ [][Gbp!Next]_(Gbp!vars)
        => /\ [](Gbp!OneAccount /\ Gbp!SignalIsTrue)
           /\ Gbp!NothingOutdatedCommits
  BY IntegrationAssumptions, TheMirrorIsOfTheAccount, PTL
<1> QED
  BY <1>1, BehavesAsIntegrations, PTL DEF MirrorOfAccount

(* Reviews, metrics and Pages are of the account they are shown under, and *)
(* reviews read before another write are never kept over it.               *)
THEOREM DataStayOfTheirOwner == Spec => ReadForItsOwner
<1>1. Reviews!Spec => /\ [](Reviews!ReadByOwner /\ Reviews!AggregateWithReviews)
                      /\ Reviews!NothingOutdatedIsAccepted
  BY IntegrationAssumptions, ReviewsAreReadByTheirOwner, PTL
<1>2. Gsc!Spec => []Gsc!MetricsOfConnection
  BY IntegrationAssumptions, MetricsAreOfTheConnection, PTL
<1>3. Meta!Spec => []Meta!OnePage
  BY ThePageIsOne, PTL
<1> QED
  BY <1>1, <1>2, <1>3, BehavesAsIntegrations, PTL DEF ReadForItsOwner

(* Every variable of every service stays of its type.                      *)
THEOREM ServicesTypeCorrect == Spec => []TypeOK
<1>1. Gbp!Init /\ [][Gbp!Next]_(Gbp!vars) => []Gbp!TypeOK
  BY IntegrationAssumptions, TheMirrorIsOfTheAccount, PTL
<1>2. Reviews!Spec => []Reviews!TypeOK
  BY IntegrationAssumptions, ReviewsAreReadByTheirOwner, PTL
<1>3. Gsc!Spec => []Gsc!TypeOK
  BY IntegrationAssumptions, MetricsAreOfTheConnection, PTL
<1>4. Meta!Spec => []Meta!TypeOK
  BY ThePageIsOne, PTL
<1>5. Spec => [](Gbp!TypeOK /\ Reviews!TypeOK /\ Gsc!TypeOK /\ Meta!TypeOK)
  BY <1>1, <1>2, <1>3, <1>4, BehavesAsIntegrations, PTL
<1>6. Applications!Spec => []Applications!TypeOK
  BY OdcAssumptions, ReviewedIsComplete, PTL
<1>7. Scores!Spec => []Scores!TypeOK
  BY OdcAssumptions, TotalsAreWhole, PTL
<1>8. Documents!Spec => []Documents!TypeOK
  BY OdcAssumptions, FilesHaveRows, PTL
<1>9. Outreach!Spec => []Outreach!TypeOK
  BY OdcAssumptions, InvitationsGoInOrder, PTL
<1>10. Spec => [](/\ Applications!TypeOK /\ Scores!TypeOK
                  /\ Documents!TypeOK /\ Outreach!TypeOK)
  BY <1>6, <1>7, <1>8, <1>9, BehavesAsOdc, PTL
<1>11. Execution!Spec => []Execution!TypeOK
  BY PlatformAssumptions, ReportsAreCountedOnce, PTL
<1>12. Audits!Spec => []Audits!TypeOK
  BY PlatformAssumptions, OpportunitiesAreGeneratedOnce, PTL
<1>13. Subscription!Spec => []Subscription!TypeOK
  BY PaidAccessIsReported, PTL
<1>14. Password!Spec => []Password!TypeOK
  BY PlatformAssumptions, ResetsEndSessions, PTL
<1>15. Ops!Spec => []Ops!TypeOK
  BY PlatformAssumptions, ReplaysAreHarmless, PTL
<1>16. Crawl!Spec => []Crawl!TypeOK
  BY PlatformAssumptions, NearestAreFirst, PTL
<1>17. Spec => [](/\ Execution!TypeOK /\ Audits!TypeOK /\ Crawl!TypeOK
                  /\ Subscription!TypeOK /\ Password!TypeOK /\ Ops!TypeOK)
  BY <1>11, <1>12, <1>13, <1>14, <1>15, <1>16, BehavesAsPlatform, PTL
<1> QED
  BY <1>5, <1>10, <1>17, PTL DEF TypeOK

=============================================================================
