------------------------------ MODULE MetaPages ------------------------------
(***************************************************************************)
(* The Meta connection of one organization (MetaService): the OAuth        *)
(* callback, the selection of a Page, and the reads of its performance.    *)
(* What is selected is a Page, its token and its Instagram account, which  *)
(* the reads use together; every write is by organization.                 *)
(***************************************************************************)
CONSTANTS
    Calls,              \* requests in progress at a time
    Users, PagesOf,     \* Meta users, and the Pages each one manages
    Pages,              \* Facebook Pages
    WithInstagram,      \* those linked to an Instagram account
    None                \* null

VARIABLES
    conn,               \* the MetaConnection row
    call                \* what each call is doing

vars == <<conn, call>>

(* token and instagram stand for the Page they belong to.                  *)
Connections ==
    [user : Users, page : Pages \cup {None}, token : Pages \cup {None},
     instagram : WithInstagram \cup {None}, synced : BOOLEAN]

CallStates == [pc : {"idle", "upsert", "select", "store"},
               user : Users \cup {None}, page : Pages \cup {None}]

Idle == [pc |-> "idle", user |-> None, page |-> None]

At(c, point) == call[c].pc = point
Leave(c) == call' = [call EXCEPT ![c] = Idle]
Connected == conn # None

InstagramOf(page) == IF page \in WithInstagram THEN page ELSE None

Init ==
    /\ conn = None
    /\ call = [c \in Calls |-> Idle]

(* The Page selected before, or the only one there is.                     *)
Selection(user, previous) ==
    IF previous \in PagesOf[user] THEN previous
    ELSE IF \E p \in Pages : PagesOf[user] = {p}
    THEN CHOOSE p \in Pages : PagesOf[user] = {p}
    ELSE None

(* completeAuthorization: `existing` is read beside the user's Pages.      *)
Authorize(c, user) ==
    /\ At(c, "idle")
    /\ call' = [call EXCEPT ![c] =
         [pc |-> "upsert", user |-> user,
          page |-> Selection(user, IF Connected THEN conn.page ELSE None)]]
    /\ UNCHANGED conn

UpsertConnection(c) ==
    /\ At(c, "upsert")
    /\ LET page == call[c].page IN
       conn' = [user |-> call[c].user, page |-> page, token |-> page,
                instagram |-> InstagramOf(page),
                synced |-> Connected /\ conn.synced]
    /\ Leave(c)

(* authorizedConnection, then the Pages of the user it names.              *)
ReadForSelection(c, page) ==
    /\ At(c, "idle")
    /\ Connected
    /\ page \in PagesOf[conn.user]
    /\ call' = [call EXCEPT ![c] =
         [pc |-> "select", user |-> conn.user, page |-> page]]
    /\ UNCHANGED conn

(* Mutant: a Page without Instagram keeps the account selected before.     *)
SelectedKeeping(page) ==
    [conn EXCEPT !.page = page, !.token = page,
       !.instagram = IF page \in WithInstagram THEN page ELSE conn.instagram]

Selected(page) ==
    [conn EXCEPT !.page = page, !.token = page,
                 !.instagram = InstagramOf(page)]

SelectPage(c) ==
    /\ At(c, "select")
    /\ conn' = IF Connected THEN Selected(call[c].page) ELSE conn
    /\ Leave(c)

(* getPerformance asks for the Page of the row it read, with its token.    *)
ReadForPerformance(c) ==
    /\ At(c, "idle")
    /\ Connected
    /\ conn.page # None /\ conn.token # None
    /\ call' = [call EXCEPT ![c] =
         [pc |-> "store", user |-> conn.user, page |-> conn.page]]
    /\ UNCHANGED conn

StoreSync(c) ==
    /\ At(c, "store")
    /\ conn' = IF Connected THEN [conn EXCEPT !.synced = TRUE] ELSE conn
    /\ Leave(c)

(* Meta refuses or does not answer, or the call is lost.                   *)
Fail(c) ==
    /\ ~At(c, "idle")
    /\ Leave(c)
    /\ UNCHANGED conn

Disconnect ==
    /\ Connected
    /\ conn' = None
    /\ UNCHANGED call

Next ==
    \/ \E c \in Calls :
         \/ \E user \in Users : Authorize(c, user)
         \/ UpsertConnection(c)
         \/ \E page \in Pages : ReadForSelection(c, page)
         \/ SelectPage(c)
         \/ ReadForPerformance(c)
         \/ StoreSync(c)
         \/ Fail(c)
    \/ Disconnect

Spec == Init /\ [][Next]_vars

TypeOK ==
    /\ conn \in Connections \cup {None}
    /\ call \in [Calls -> CallStates]

(* The Page, the token that reads it and the Instagram account shown beside*)
(* it are always of one Page, whatever selections and callbacks overlap:   *)
(* the insights never show one Page's figures under another's name.        *)
OnePage ==
    Connected =>
      /\ conn.token = conn.page
      /\ conn.instagram = InstagramOf(conn.page)

=============================================================================
