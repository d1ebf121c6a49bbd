---------------------------- MODULE OdcApplications ----------------------------
(***************************************************************************)
(* One candidature of the Orange Digital Center (OdcApplicationsService):  *)
(* answers, document slots, submission with its screening, the re-check an *)
(* automation asks for, the decision and the withdrawal.  Every operation  *)
(* reads the whole application, checks what it read and then writes without*)
(* a condition, so that any two of them interleave.                        *)
(***************************************************************************)
EXTENDS FiniteSets

CONSTANTS
    Calls,              \* requests and automation steps in progress at a time
    Fields,             \* required fields of the program
    DocTypes,           \* required document types of the program
    None

VARIABLES
    status,             \* OdcApplication.status, None before it is created
    answers,            \* fields with an answer
    documents,          \* the slot of each document type
    missing,            \* OdcApplication.missing, {} for null
    decided,            \* decidedAt, decidedById and decisionReason are set
    history,            \* toStatus of the OdcHistoryEvent rows
    call                \* what each call is doing, with what it read

vars == <<status, answers, documents, missing, decided, history, call>>

TERMINAL_STATUSES == {"accepted", "rejected", "withdrawn"}
DECIDABLE_STATUSES == {"in_review", "waitlisted"}
Decisions == {"accepted", "rejected", "waitlisted"}
Statuses == TERMINAL_STATUSES \cup DECIDABLE_STATUSES
            \cup {"draft", "submitted", "screening", "incomplete"}
Slots == {"empty", "pending_upload", "received"}
Missing == Fields \cup DocTypes

Points == {"idle", "answers", "placeholder", "upload", "submit", "screening",
           "screen", "decide", "withdraw", "record"}

CallStates ==
    [pc : Points, status : Statuses \cup {None}, answers : SUBSET Fields,
     documents : [DocTypes -> Slots], to : Statuses \cup {None}]

Idle == [pc |-> "idle", status |-> None, answers |-> {},
         documents |-> [d \in DocTypes |-> "empty"], to |-> None]

At(c, point) == call[c].pc = point
Leave(c) == call' = [call EXCEPT ![c] = Idle]
Keep(c, point) == call' = [call EXCEPT ![c].pc = point]

(* recordHistory follows the update, as a statement of its own.  Mutant:   *)
(* the operation ends without it.                                          *)
LeaveUnrecorded(c, to) == Leave(c)

LeaveRecording(c, to) ==
    call' = [call EXCEPT ![c] = [Idle EXCEPT !.pc = "record", !.to = to]]

(***************************************************************************)
(* checkCompleteness: what is still missing, of what was read.             *)
(***************************************************************************)
MissingOf(given, slots) ==
    (Fields \ given) \cup {d \in DocTypes : slots[d] # "received"}

Init ==
    /\ status = None
    /\ answers = {}
    /\ documents = [d \in DocTypes |-> "empty"]
    /\ missing = {}
    /\ decided = FALSE
    /\ history = {}
    /\ call = [c \in Calls |-> Idle]

(* createApplication, while the program is open; the unique index refuses  *)
(* a second application of the applicant.                                  *)
CreateApplication ==
    /\ status = None
    /\ status' = "draft"
    /\ UNCHANGED <<answers, documents, missing, decided, history, call>>

(***************************************************************************)
(* What each operation checks of what getApplication returns.              *)
(***************************************************************************)
Accepts(op, read) ==
    CASE op = "answers" -> read \in {"draft", "incomplete"}
      [] op \in {"placeholder", "upload"} ->
           read \in {"draft", "incomplete", "in_review"}
      [] op = "submit" -> read = "draft"
      [] op = "screen" -> read = "incomplete"
      [] op = "decide" -> read \in DECIDABLE_STATUSES
      [] op = "withdraw" -> read \notin TERMINAL_STATUSES

Operations == {"answers", "placeholder", "upload", "submit", "screen",
               "decide", "withdraw"}

(* "screen" begun here is recomputeMissingDocuments, an automation's step. *)
Begin(c, op) ==
    /\ At(c, "idle")
    /\ status # None
    /\ Accepts(op, status)
    /\ call' = [call EXCEPT ![c] =
         [pc |-> op, status |-> status, answers |-> answers,
          documents |-> documents, to |-> None]]
    /\ UNCHANGED <<status, answers, documents, missing, decided, history>>

(* updateAnswers merges the fields given into the answers it read.         *)
UpdateAnswers(c, given) ==
    /\ At(c, "answers")
    /\ answers' = call[c].answers \cup given
    /\ Leave(c)
    /\ UNCHANGED <<status, documents, missing, decided, history>>

(* addDocument registers a placeholder: assertSlotFree, or the unique index*)
(* of the slot, refuses an occupied one.  Mutant: the slot is replaced, as *)
(* an upload replaces it.                                                  *)
PlaceholderReplaces(c, d) ==
    /\ At(c, "placeholder")
    /\ documents' = [documents EXCEPT ![d] = "pending_upload"]
    /\ Leave(c)
    /\ UNCHANGED <<status, answers, missing, decided, history>>

AddDocument(c, d) ==
    /\ At(c, "placeholder")
    /\ documents' = IF documents[d] = "empty"
                    THEN [documents EXCEPT ![d] = "pending_upload"]
                    ELSE documents
    /\ Leave(c)
    /\ UNCHANGED <<status, answers, missing, decided, history>>

(* addUploadedDocument: the transaction deletes the occupant and creates   *)
(* the received row; two at once end with the first one's.                 *)
AddUploadedDocument(c, d) ==
    /\ At(c, "upload")
    /\ documents' = [documents EXCEPT ![d] = "received"]
    /\ Leave(c)
    /\ UNCHANGED <<status, answers, missing, decided, history>>

(***************************************************************************)
(* submit: three updates, each followed by its history                     *)
(***************************************************************************)
Submit(c) ==
    /\ At(c, "submit")
    /\ status' = "submitted"
    /\ Keep(c, "screening")
    /\ UNCHANGED <<answers, documents, missing, decided, history>>

StartScreening(c) ==
    /\ At(c, "screening")
    /\ status' = "screening"
    /\ history' = history \cup {"submitted"}
    /\ Keep(c, "screen")
    /\ UNCHANGED <<answers, documents, missing, decided>>

(* runScreening judges the application its caller read.                    *)
RunScreening(c) ==
    /\ At(c, "screen")
    /\ missing' = MissingOf(call[c].answers, call[c].documents)
    /\ status' = IF missing' = {} THEN "in_review" ELSE "incomplete"
    /\ history' = IF call[c].status = "draft"
                  THEN history \cup {"screening"} ELSE history
    /\ LeaveRecording(c, status')
    /\ UNCHANGED <<answers, documents, decided>>

(***************************************************************************)
(* decide, withdraw                                                        *)
(***************************************************************************)
Decide(c, decision) ==
    /\ At(c, "decide")
    /\ status' = decision
    /\ decided' = TRUE
    /\ LeaveRecording(c, decision)
    /\ UNCHANGED <<answers, documents, missing, history>>

Withdraw(c) ==
    /\ At(c, "withdraw")
    /\ status' = "withdrawn"
    /\ LeaveRecording(c, "withdrawn")
    /\ UNCHANGED <<answers, documents, missing, decided, history>>

RecordHistory(c) ==
    /\ At(c, "record")
    /\ history' = history \cup {call[c].to}
    /\ Leave(c)
    /\ UNCHANGED <<status, answers, documents, missing, decided>>

Next ==
    \/ CreateApplication
    \/ \E c \in Calls :
         \/ \E op \in Operations : Begin(c, op)
         \/ \E given \in SUBSET Fields : UpdateAnswers(c, given)
         \/ \E d \in DocTypes : AddDocument(c, d) \/ AddUploadedDocument(c, d)
         \/ Submit(c) \/ StartScreening(c) \/ RunScreening(c)
         \/ \E decision \in Decisions : Decide(c, decision)
         \/ Withdraw(c) \/ RecordHistory(c)

Spec == Init /\ [][Next]_vars

(***************************************************************************)
(* Properties                                                              *)
(***************************************************************************)
TypeOK ==
    /\ status \in Statuses \cup {None}
    /\ answers \subseteq Fields
    /\ documents \in [DocTypes -> Slots]
    /\ missing \subseteq Missing
    /\ decided \in BOOLEAN
    /\ history \subseteq Statuses
    /\ call \in [Calls -> CallStates]

(* A reviewer never has in front of him, and nobody ever decides, a        *)
(* candidature that lacks a required document, whatever interleaves: no    *)
(* document is ever taken out of a slot, so what a screening read stays.   *)
ReviewedHasDocuments ==
    status \in DECIDABLE_STATUSES \cup {"accepted", "rejected"} =>
      \A d \in DocTypes : documents[d] = "received"

(* Once no call is in progress, the history holds how the present status   *)
(* was reached, and a decided candidature has been in review.              *)
HistoryExplainsStatus ==
    (\A c \in Calls : At(c, "idle")) =>
      /\ status \notin {None, "draft"} => status \in history
      /\ decided => "in_review" \in history

=============================================================================
