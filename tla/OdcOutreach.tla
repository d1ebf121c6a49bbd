------------------------------ MODULE OdcOutreach ------------------------------
(***************************************************************************)
(* The invitations of a program's candidates (OdcOutreachService): queued  *)
(* in an order, then sent or skipped one by one by members who click.  No  *)
(* operation claims the row it read: ghosts say where two of them crossed. *)
(***************************************************************************)
EXTENDS Naturals, FiniteSets

CONSTANTS
    Calls,              \* members' requests in progress at a time
    Candidates,         \* eligible applications of the program
    MaxMails,           \* bound: mails of one candidate
    MaxFaults           \* bound: calls lost

VARIABLES
    order,              \* sortOrder, 0: no OdcOutreach row
    status,             \* OdcOutreach.status
    mails,              \* mails the transport has accepted, by candidate
    crossed,            \* candidates that two operations had in hand at once
    call, faults

vars == <<order, status, mails, crossed, call, faults>>

Statuses == {"none", "queued", "sent", "failed", "skipped"}
Idle == [pc |-> "idle", who |-> {}, count |-> 0]
CallStates ==
    [pc : {"idle", "queue", "send", "sent", "skip"},
     who : SUBSET Candidates, count : 0..Cardinality(Candidates)]

At(c, point) == call[c].pc = point
Leave(c) == call' = [call EXCEPT ![c] = Idle]
Queued == {a \in Candidates : order[a] # 0}
InHand(a) == \E c \in Calls : a \in call[c].who

Init ==
    /\ order = [a \in Candidates |-> 0]
    /\ status = [a \in Candidates |-> "none"]
    /\ mails = [a \in Candidates |-> 0]
    /\ crossed = {}
    /\ call = [c \in Calls |-> Idle]
    /\ faults = 0

Take(c, point, some) ==
    /\ At(c, "idle")
    /\ call' = [call EXCEPT ![c] =
         [pc |-> point, who |-> some, count |-> Cardinality(Queued)]]
    /\ crossed' = crossed \cup {a \in some : InHand(a)}
    /\ UNCHANGED <<order, status, mails, faults>>

(***************************************************************************)
(* queue: the rows there are counted, then the new ones follow in order;   *)
(* a candidate already queued refuses them all, by the unique index.       *)
(***************************************************************************)
CountRows(c, some) == some # {} /\ Take(c, "queue", some)

Queue(c) ==
    LET some == call[c].who IN
    /\ At(c, "queue")
    /\ IF some \cap Queued # {}
       THEN UNCHANGED <<order, status, crossed>>
       ELSE /\ order' \in {f \in [Candidates -> 0..2 * Cardinality(Candidates)] :
                 /\ \A a \in Candidates \ some : f[a] = order[a]
                 /\ {f[a] : a \in some} =
                      (call[c].count + 1)..(call[c].count + Cardinality(some))}
            /\ status' = [a \in Candidates |->
                            IF a \in some THEN "queued" ELSE status[a]]
            /\ crossed' = IF call[c].count = Cardinality(Queued)
                          THEN crossed ELSE crossed \cup some
    /\ Leave(c)
    /\ UNCHANGED <<mails, faults>>

(***************************************************************************)
(* nextSendableId: the first, in order, that is queued or failed.  Mutant: *)
(* a failed one no longer holds up the next.                               *)
(***************************************************************************)
FirstOf(pending, a) ==
    /\ a \in pending
    /\ \A b \in pending : order[a] <= order[b]

NextQueued(a) == FirstOf({b \in Queued : status[b] = "queued"}, a)

NextSendable(a) == FirstOf({b \in Queued : status[b] \in {"queued", "failed"}}, a)

(***************************************************************************)
(* send: the check, the mail, the update                                   *)
(***************************************************************************)
BeginSend(c, a) == NextSendable(a) /\ Take(c, "send", {a})

SendEmail(c, a) ==
    /\ At(c, "send")
    /\ a \in call[c].who
    /\ mails[a] < MaxMails
    /\ mails' = [mails EXCEPT ![a] = @ + 1]
    /\ call' = [call EXCEPT ![c].pc = "sent"]
    /\ UNCHANGED <<order, status, crossed, faults>>

SendFails(c, a) ==
    /\ At(c, "send")
    /\ a \in call[c].who
    /\ status' = [status EXCEPT ![a] = "failed"]
    /\ Leave(c)
    /\ UNCHANGED <<order, mails, crossed, faults>>

RecordSent(c, a) ==
    /\ At(c, "sent")
    /\ a \in call[c].who
    /\ status' = [status EXCEPT ![a] = "sent"]
    /\ Leave(c)
    /\ UNCHANGED <<order, mails, crossed, faults>>

(***************************************************************************)
(* skip: any row that is not sent                                          *)
(***************************************************************************)
BeginSkip(c, a) ==
    /\ a \in Queued
    /\ status[a] # "sent"
    /\ Take(c, "skip", {a})

Skip(c, a) ==
    /\ At(c, "skip")
    /\ a \in call[c].who
    /\ status' = [status EXCEPT ![a] = "skipped"]
    /\ Leave(c)
    /\ UNCHANGED <<order, mails, crossed, faults>>

(* The process ends; what the call had in hand may have been mailed.       *)
Lose(c) ==
    /\ ~At(c, "idle")
    /\ faults < MaxFaults
    /\ faults' = faults + 1
    /\ Leave(c)
    /\ UNCHANGED <<order, status, mails, crossed>>

Next ==
    \E c \in Calls :
      \/ \E some \in SUBSET Candidates : CountRows(c, some)
      \/ Queue(c)
      \/ Lose(c)
      \/ \E a \in Candidates :
           \/ BeginSend(c, a) \/ SendEmail(c, a) \/ SendFails(c, a)
           \/ RecordSent(c, a)
           \/ BeginSkip(c, a) \/ Skip(c, a)

Spec == Init /\ [][Next]_vars

(***************************************************************************)
(* Properties                                                              *)
(***************************************************************************)
TypeOK ==
    /\ order \in [Candidates -> 0..2 * Cardinality(Candidates)]
    /\ status \in [Candidates -> Statuses]
    /\ mails \in [Candidates -> 0..MaxMails]
    /\ crossed \subseteq Candidates
    /\ call \in [Calls -> CallStates]
    /\ faults \in 0..MaxFaults

(* "Emails must be sent one by one, in queue order": unless two members had*)
(* it in hand at once, a candidate gets one mail (two if a call was lost)  *)
(* and nobody queued after him gets one before he is sent or skipped.      *)
OneByOne ==
    \A a \in Candidates \ crossed :
      /\ mails[a] <= 1 + faults
      /\ \A b \in Candidates \ crossed :
           order[a] # 0 /\ order[a] < order[b] /\ mails[b] > 0 =>
             status[a] \in {"sent", "skipped"}

=============================================================================
