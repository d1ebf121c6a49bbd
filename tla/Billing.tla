--------------------------------- MODULE Billing ---------------------------------
(***************************************************************************)
(* The subscription row of one organization beside Stripe (BillingService):*)
(* checkouts are opened and paid, Stripe changes the subscriptions, and    *)
(* its webhooks arrive late, in any order and more than once.              *)
(***************************************************************************)
EXTENDS Naturals, FiniteSets

CONSTANTS
    Calls,              \* checkouts being opened at a time
    Subscriptions,      \* subscriptions Stripe may create
    None                \* null

VARIABLES
    row,                \* the StripeSubscription row
    stripe,             \* status of each subscription at Stripe
    sessions,           \* subscriptions with an open checkout session
    webhooks,           \* events Stripe has sent and may deliver again
    call

vars == <<row, stripe, sessions, webhooks, call>>

(* The statuses the code tells apart.                                      *)
Paid == {"active", "past_due"}
StripeStatuses == Paid \cup {"incomplete", "canceled"}
Rows == [subscription : Subscriptions,
         status : StripeStatuses \cup {"pending"}]
Checkouts == [type : {"checkout"}, of : Subscriptions]
Updates == [type : {"subscription"}, of : Subscriptions, status : StripeStatuses]

Init ==
    /\ row = None
    /\ stripe = [s \in Subscriptions |-> None]
    /\ sessions = {}
    /\ webhooks = {}
    /\ call = [c \in Calls |-> "idle"]

(***************************************************************************)
(* getSubscription: the plan the organization is given.                    *)
(***************************************************************************)
HasPaidAccess == row # None /\ row.status \in Paid

(***************************************************************************)
(* createCheckoutSession: the row is checked, then Stripe opens a session. *)
(***************************************************************************)
CheckSubscription(c) ==
    /\ call[c] = "idle"
    /\ row # None => row.status \notin Paid \cup {"incomplete"}
    /\ call' = [call EXCEPT ![c] = "open"]
    /\ UNCHANGED <<row, stripe, sessions, webhooks>>

OpenSession(c, s) ==
    /\ call[c] = "open"
    /\ stripe[s] = None /\ s \notin sessions
    /\ sessions' = sessions \cup {s}
    /\ call' = [call EXCEPT ![c] = "idle"]
    /\ UNCHANGED <<row, stripe, webhooks>>

Refused(c) ==
    /\ call[c] = "open"
    /\ call' = [call EXCEPT ![c] = "idle"]
    /\ UNCHANGED <<row, stripe, sessions, webhooks>>

(***************************************************************************)
(* Stripe: a session is paid, a subscription changes.                      *)
(***************************************************************************)
Becomes(s, status) ==
    /\ stripe' = [stripe EXCEPT ![s] = status]
    /\ webhooks' = webhooks
         \cup {[type |-> "subscription", of |-> s, status |-> status]}

Pay(s, status) ==
    /\ s \in sessions
    /\ sessions' = sessions \ {s}
    /\ stripe' = [stripe EXCEPT ![s] = status]
    /\ webhooks' = webhooks
         \cup {[type |-> "checkout", of |-> s],
               [type |-> "subscription", of |-> s, status |-> status]}
    /\ UNCHANGED <<row, call>>

Change(s, status) ==
    /\ stripe[s] \notin {None, "canceled", status}
    /\ Becomes(s, status)
    /\ UNCHANGED <<row, sessions, call>>

(***************************************************************************)
(* handleWebhook                                                           *)
(***************************************************************************)
(* handleCheckoutCompleted knows the subscription, not its status.  Mutant:*)
(* what was paid for is active.                                            *)
CheckoutActive(s) == [subscription |-> s, status |-> "active"]

CheckoutRow(s) ==
    [subscription |-> s, status |-> IF row = None THEN "pending" ELSE row.status]

Deliver(event) ==
    /\ event \in webhooks
    /\ row' = IF event.type = "checkout"
              THEN CheckoutRow(event.of)
              ELSE [subscription |-> event.of, status |-> event.status]
    /\ UNCHANGED <<stripe, sessions, webhooks, call>>

Next ==
    \/ \E c \in Calls : CheckSubscription(c) \/ Refused(c)
    \/ \E c \in Calls, s \in Subscriptions : OpenSession(c, s)
    \/ \E s \in Subscriptions :
         \/ \E status \in {"active", "incomplete"} : Pay(s, status)
         \/ \E status \in StripeStatuses \ {"incomplete"} : Change(s, status)
    \/ \E event \in webhooks : Deliver(event)

Spec == Init /\ [][Next]_vars

(***************************************************************************)
(* Properties                                                              *)
(***************************************************************************)
TypeOK ==
    /\ row \in Rows \cup {None}
    /\ stripe \in [Subscriptions -> StripeStatuses \cup {None}]
    /\ sessions \subseteq Subscriptions
    /\ webhooks \subseteq Checkouts \cup Updates
    /\ call \in [Calls -> {"idle", "open"}]

(* Paid access is given for what Stripe once reported as paid, in whatever *)
(* order the webhooks of several checkouts arrive.                         *)
PaidAccessWasReported ==
    HasPaidAccess =>
      \E s \in Subscriptions, status \in Paid :
        [type |-> "subscription", of |-> s, status |-> status] \in webhooks

=============================================================================
