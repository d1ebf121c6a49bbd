------------------------------ MODULE Delivery ------------------------------
(***************************************************************************)
(* What a NotificationDelivery promises, seen from outside the dispatcher: *)
(* every attempt is charged before anything is sent, the attempts of a     *)
(* whole life are bounded, a sent delivery is final, and a dead letter     *)
(* comes back only by hand and within what is left of the budget.          *)
(***************************************************************************)
EXTENDS Naturals

CONSTANT MaxAttempts

VARIABLES status, attempts

Init == status = "none" /\ attempts = 0

Queue ==
    /\ status = "none"
    /\ status' = "pending"
    /\ UNCHANGED attempts

(* A processing delivery is attempted again once its attempt is given up.  *)
Attempt ==
    /\ status \in {"pending", "retry_scheduled", "processing"}
    /\ attempts < MaxAttempts
    /\ status' = "processing"
    /\ attempts' = attempts + 1

Conclude ==
    /\ status = "processing"
    /\ \/ status' \in {"sent", "dead_letter"}
       \/ status' = "retry_scheduled" /\ attempts < MaxAttempts
    /\ UNCHANGED attempts

Requeue ==
    /\ status = "dead_letter"
    /\ attempts < MaxAttempts
    /\ status' = "pending"
    /\ UNCHANGED attempts

Next == Queue \/ Attempt \/ Conclude \/ Requeue

Spec == Init /\ [][Next]_<<status, attempts>>
=============================================================================
