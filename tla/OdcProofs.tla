------------------------------ MODULE OdcProofs ------------------------------
(***************************************************************************)
(* Proofs about the Orange Digital Center components: the candidature      *)
(* (OdcApplications), its scores (OdcScores), its files (OdcDocuments) and *)
(* the invitations (OdcOutreach), each over variables of its own, for any  *)
(* number of requests, fields, document types, criteria and candidates.    *)
(***************************************************************************)
EXTENDS Services, FiniteSetTheorems, TLAPS

(***************************************************************************)
(* The candidature: type correctness                                       *)
(***************************************************************************)

(* null is not a status (it is the absence of an application).             *)
NoneIsNoStatus == None \notin Applications!Statuses

(* A call about to record the history knows a status to record.            *)
RecordingCalls ==
    {c \in Applications!CallStates :
       c.pc = "record" => c.to \in Applications!Statuses}

ApplicationType ==
    Applications!TypeOK /\ deciding \in [Calls -> RecordingCalls]

LEMMA ApplicationTypeInit == Applications!Init => ApplicationType
<1> SUFFICES ASSUME Applications!Init PROVE ApplicationType
  OBVIOUS
<1>1. Applications!Idle \in RecordingCalls
  BY DEF Applications!Idle, Applications!CallStates, Applications!Points,
         Applications!Slots, RecordingCalls
<1>2. deciding \in [Calls -> RecordingCalls]
  BY <1>1 DEF Applications!Init
<1>3. deciding \in [Calls -> Applications!CallStates]
  BY <1>2 DEF RecordingCalls
<1> QED
  BY <1>2, <1>3
  DEF Applications!Init, Applications!TypeOK, Applications!Slots,
      ApplicationType

LEMMA ApplicationTypeStep ==
    ApplicationType /\ [Applications!Next]_(Applications!vars)
      => ApplicationType'
<1> SUFFICES ASSUME ApplicationType,
                    [Applications!Next]_(Applications!vars)
             PROVE  ApplicationType'
  OBVIOUS
<1> SUFFICES /\ status' \in Applications!Statuses \cup {None}
             /\ answers' \subseteq FormFields
             /\ documents' \in [DocTypes -> Applications!Slots]
             /\ missing' \subseteq Applications!Missing
             /\ decided' \in BOOLEAN
             /\ history' \subseteq Applications!Statuses
             /\ deciding' \in [Calls -> RecordingCalls]
  <2>1. ASSUME deciding' \in [Calls -> RecordingCalls]
        PROVE  deciding' \in [Calls -> Applications!CallStates]
    BY <2>1 DEF RecordingCalls
  <2> QED
    BY <2>1 DEF ApplicationType, Applications!TypeOK
<1> DEFINE Typed == /\ status' \in Applications!Statuses \cup {None}
                    /\ answers' \subseteq FormFields
                    /\ documents' \in [DocTypes -> Applications!Slots]
                    /\ missing' \subseteq Applications!Missing
                    /\ decided' \in BOOLEAN
                    /\ history' \subseteq Applications!Statuses
                    /\ deciding' \in [Calls -> RecordingCalls]
<1>a. /\ status \in Applications!Statuses \cup {None}
      /\ answers \subseteq FormFields
      /\ documents \in [DocTypes -> Applications!Slots]
      /\ missing \subseteq Applications!Missing
      /\ decided \in BOOLEAN
      /\ history \subseteq Applications!Statuses
      /\ deciding \in [Calls -> RecordingCalls]
  BY DEF ApplicationType, Applications!TypeOK
<1>b. ASSUME NEW c \in Calls
      PROVE  /\ deciding[c] \in Applications!CallStates
             /\ deciding[c].pc = "record" => deciding[c].to \in Applications!Statuses
             /\ deciding[c].answers \subseteq FormFields
             /\ deciding[c].documents \in [DocTypes -> Applications!Slots]
  BY <1>a DEF Applications!CallStates, RecordingCalls
<1>c. ASSUME NEW c \in Calls, Applications!Leave(c)
      PROVE  deciding' \in [Calls -> RecordingCalls]
  <2>1. Applications!Idle \in RecordingCalls
    BY DEF Applications!Idle, Applications!CallStates, Applications!Points,
           Applications!Slots, RecordingCalls
  <2> QED
    BY <1>a, <1>c, <2>1 DEF Applications!Leave
<1>d. ASSUME NEW c \in Calls,
             NEW point \in Applications!Points \ {"record"},
             Applications!Keep(c, point)
      PROVE  deciding' \in [Calls -> RecordingCalls]
  <2>1. [deciding[c] EXCEPT !.pc = point] \in RecordingCalls
    BY <1>b, <1>d DEF RecordingCalls, Applications!CallStates
  <2>2. deciding' = [deciding EXCEPT ![c] = [deciding[c] EXCEPT !.pc = point]]
    BY <1>a, <1>d DEF Applications!Keep
  <2> QED
    BY <1>a, <2>1, <2>2
<1>e. ASSUME NEW c \in Calls, NEW to \in Applications!Statuses,
             Applications!LeaveRecording(c, to)
      PROVE  deciding' \in [Calls -> RecordingCalls]
  <2>1. [Applications!Idle EXCEPT !.pc = "record", !.to = to]
          \in RecordingCalls
    BY DEF Applications!Idle, Applications!CallStates, Applications!Points,
           Applications!Slots, RecordingCalls
  <2> QED
    BY <1>a, <1>e, <2>1 DEF Applications!LeaveRecording
<1> USE DEF Applications!Statuses, Applications!TERMINAL_STATUSES,
            Applications!DECIDABLE_STATUSES
<1>1. CASE UNCHANGED Applications!vars
  BY <1>1, <1>a DEF Applications!vars
<1>2. CASE Applications!CreateApplication
  BY <1>2, <1>a DEF Applications!CreateApplication
<1>3. ASSUME NEW c \in Calls, NEW op \in Applications!Operations,
             Applications!Begin(c, op)
      PROVE  Typed
  <2>1. [pc |-> op, status |-> status, answers |-> answers,
         documents |-> documents, to |-> None] \in RecordingCalls
    BY <1>a DEF RecordingCalls, Applications!CallStates, Applications!Points,
                Applications!Operations
  <2> QED
    BY <1>a, <1>3, <2>1 DEF Applications!Begin
<1>4. ASSUME NEW c \in Calls, NEW given \in SUBSET FormFields,
             Applications!UpdateAnswers(c, given)
      PROVE  Typed
  BY <1>a, <1>b, <1>c, <1>4 DEF Applications!UpdateAnswers
<1>5. ASSUME NEW c \in Calls, NEW d \in DocTypes,
             Applications!AddDocument(c, d)
               \/ Applications!AddUploadedDocument(c, d)
      PROVE  Typed
  <2>1. documents' \in [DocTypes -> Applications!Slots]
    BY <1>a, <1>5 DEF Applications!AddDocument,
                      Applications!AddUploadedDocument, Applications!Slots
  <2> QED
    BY <1>a, <1>c, <1>5, <2>1
    DEF Applications!AddDocument, Applications!AddUploadedDocument
<1>6. ASSUME NEW c \in Calls,
             Applications!Submit(c) \/ Applications!StartScreening(c)
      PROVE  Typed
  BY <1>a, <1>d, <1>6
  DEF Applications!Submit, Applications!StartScreening, Applications!Points
<1>7. ASSUME NEW c \in Calls, Applications!RunScreening(c)
      PROVE  Typed
  <2>1. missing' \subseteq Applications!Missing
    BY <1>7 DEF Applications!RunScreening, Applications!MissingOf,
                Applications!Missing
  <2>2. status' \in {"in_review", "incomplete"}
    BY <1>7 DEF Applications!RunScreening
  <2>3. deciding' \in [Calls -> RecordingCalls]
    BY <1>e, <1>7, <2>2 DEF Applications!RunScreening
  <2>4. history' \subseteq Applications!Statuses
    BY <1>a, <1>7 DEF Applications!RunScreening
  <2> QED
    BY <1>a, <1>7, <2>1, <2>2, <2>3, <2>4
    DEF Applications!RunScreening
<1>8. ASSUME NEW c \in Calls, NEW decision \in Applications!Decisions,
             Applications!Decide(c, decision)
      PROVE  Typed
  BY <1>a, <1>e, <1>8
  DEF Applications!Decide, Applications!Decisions
<1>9. ASSUME NEW c \in Calls, Applications!Withdraw(c)
      PROVE  Typed
  BY <1>a, <1>e, <1>9 DEF Applications!Withdraw
<1>10. ASSUME NEW c \in Calls, Applications!RecordHistory(c)
       PROVE  Typed
  BY <1>a, <1>b, <1>c, <1>10
  DEF Applications!RecordHistory, Applications!At
<1> QED
  BY <1>1, <1>2, <1>3, <1>4, <1>5, <1>6, <1>7, <1>8, <1>9, <1>10
  DEF Applications!Next

(***************************************************************************)
(* The candidature: what is reviewed is complete                           *)
(***************************************************************************)
Complete == \A d \in DocTypes : documents[d] = "received"

(* ReviewedHasDocuments made inductive: no document is ever taken out of   *)
(* its slot, so what a submission or a screening has read is still there,  *)
(* and whoever decides read a candidature under review.                    *)
DocumentsInv ==
    /\ Applications!ReviewedHasDocuments
    /\ \A c \in Calls :
         /\ deciding[c].pc \in {"submit", "screening", "screen"} =>
              \A d \in DocTypes : deciding[c].documents[d] = "received"
                                    => documents[d] = "received"
         /\ deciding[c].pc = "decide" => Complete

(* What a step does to the documents and to what calls have read of them.  *)
LEMMA DocumentsStay ==
    ApplicationType /\ [Applications!Next]_(Applications!vars)
      => \A d \in DocTypes : documents[d] = "received"
                               => documents'[d] = "received"
<1> SUFFICES ASSUME ApplicationType,
                    [Applications!Next]_(Applications!vars),
                    NEW d \in DocTypes, documents[d] = "received"
             PROVE  documents'[d] = "received"
  OBVIOUS
<1>a. documents \in [DocTypes -> Applications!Slots]
  BY DEF ApplicationType, Applications!TypeOK
<1>1. CASE UNCHANGED documents
  BY <1>1
<1>2. ASSUME NEW c \in Calls, NEW e \in DocTypes,
             Applications!AddDocument(c, e)
               \/ Applications!AddUploadedDocument(c, e)
      PROVE  documents'[d] = "received"
  BY <1>a, <1>2
  DEF Applications!AddDocument, Applications!AddUploadedDocument
<1> QED
  BY <1>1, <1>2
  DEF Applications!Next, Applications!vars, Applications!CreateApplication,
      Applications!Begin, Applications!UpdateAnswers, Applications!Submit,
      Applications!StartScreening, Applications!RunScreening,
      Applications!Decide, Applications!Withdraw, Applications!RecordHistory

LEMMA DocumentsInit == NoneIsNoStatus /\ Applications!Init => DocumentsInv
<1> SUFFICES ASSUME NoneIsNoStatus, Applications!Init PROVE DocumentsInv
  OBVIOUS
<1>1. \A c \in Calls : deciding[c].pc = "idle"
  BY DEF Applications!Init, Applications!Idle
<1>2. status \notin Applications!Statuses
  BY DEF Applications!Init, NoneIsNoStatus
<1> QED
  BY <1>1, <1>2
  DEF DocumentsInv, Applications!ReviewedHasDocuments, Applications!Statuses,
      Applications!DECIDABLE_STATUSES, Applications!TERMINAL_STATUSES

LEMMA DocumentsStep ==
    /\ ApplicationType /\ DocumentsInv
    /\ [Applications!Next]_(Applications!vars)
    => DocumentsInv'
<1> SUFFICES ASSUME ApplicationType, DocumentsInv,
                    [Applications!Next]_(Applications!vars)
             PROVE  DocumentsInv'
  OBVIOUS
<1> DEFINE Reviewed == Applications!DECIDABLE_STATUSES
                       \cup {"accepted", "rejected"}
           Read(c) == \A d \in DocTypes : deciding[c].documents[d] = "received"
                                            => documents[d] = "received"
<1>a. deciding \in [Calls -> RecordingCalls]
      /\ \A c \in Calls : deciding[c] \in Applications!CallStates
  BY DEF ApplicationType, Applications!TypeOK
<1>b. \A d \in DocTypes : documents[d] = "received"
                            => documents'[d] = "received"
  BY DocumentsStay
<1>c. /\ status \in Reviewed => Complete
      /\ \A c \in Calls :
           /\ deciding[c].pc \in {"submit", "screening", "screen"} => Read(c)
           /\ deciding[c].pc = "decide" => Complete
  BY DEF DocumentsInv, Applications!ReviewedHasDocuments, Complete
(* A step whose call begins nothing, or goes on with what it has read.     *)
<1>d. ASSUME NEW c \in Calls,
             status' \in Reviewed => \A d \in DocTypes : documents'[d] = "received",
             \A v \in Calls : v # c => deciding'[v] = deciding[v],
             \/ deciding'[c].pc \in {"idle", "record"}
             \/ /\ deciding'[c].pc \in {"screening", "screen"}
                /\ deciding[c].pc \in {"submit", "screening"}
                /\ deciding'[c].documents = deciding[c].documents
      PROVE  DocumentsInv'
  <2>1. ASSUME NEW v \in Calls
        PROVE  /\ deciding'[v].pc \in {"submit", "screening", "screen"} =>
                    \A d \in DocTypes : deciding'[v].documents[d] = "received"
                                          => documents'[d] = "received"
               /\ deciding'[v].pc = "decide"
                    => \A d \in DocTypes : documents'[d] = "received"
    BY <1>b, <1>c, <1>d DEF Complete
  <2> QED
    BY <1>d, <2>1
    DEF DocumentsInv, Applications!ReviewedHasDocuments, Complete
<1>e. ASSUME status' \in Reviewed => status \in Reviewed
      PROVE  status' \in Reviewed
               => \A d \in DocTypes : documents'[d] = "received"
  BY <1>b, <1>c, <1>e DEF Complete
<1>f. ASSUME NEW c \in Calls, Applications!Leave(c)
      PROVE  /\ \A v \in Calls : v # c => deciding'[v] = deciding[v]
             /\ deciding'[c].pc = "idle"
  BY <1>a, <1>f DEF Applications!Leave, Applications!Idle
<1>g. ASSUME NEW c \in Calls, NEW to, Applications!LeaveRecording(c, to)
      PROVE  /\ \A v \in Calls : v # c => deciding'[v] = deciding[v]
             /\ deciding'[c].pc = "record"
  BY <1>a, <1>g DEF Applications!LeaveRecording, Applications!Idle
<1>h. ASSUME NEW c \in Calls, NEW point, Applications!Keep(c, point)
      PROVE  /\ \A v \in Calls : v # c => deciding'[v] = deciding[v]
             /\ deciding'[c].pc = point
             /\ deciding'[c].documents = deciding[c].documents
  BY <1>a, <1>h DEF Applications!Keep, Applications!CallStates
<1>1. CASE UNCHANGED Applications!vars
  BY <1>1, <1>c
  DEF Applications!vars, DocumentsInv, Complete,
      Applications!ReviewedHasDocuments
<1>2. CASE Applications!CreateApplication
  <2>1. status' \notin Reviewed /\ documents' = documents /\ deciding' = deciding
    BY <1>2 DEF Applications!CreateApplication, Applications!DECIDABLE_STATUSES
  <2> QED
    BY <2>1, <1>c
    DEF DocumentsInv, Complete, Applications!ReviewedHasDocuments
<1>3. ASSUME NEW c \in Calls, NEW op \in Applications!Operations,
             Applications!Begin(c, op)
      PROVE  DocumentsInv'
  <2>1. /\ \A v \in Calls : v # c => deciding'[v] = deciding[v]
        /\ deciding'[c].pc = op /\ deciding'[c].documents = documents
        /\ UNCHANGED <<status, documents>>
        /\ op = "decide" => status \in Applications!DECIDABLE_STATUSES
    BY <1>a, <1>3 DEF Applications!Begin, Applications!Accepts
  <2>2. op = "decide" => Complete
    BY <2>1, <1>c
  <2>3. ASSUME NEW v \in Calls
        PROVE  /\ deciding'[v].pc \in {"submit", "screening", "screen"} =>
                    \A d \in DocTypes : deciding'[v].documents[d] = "received"
                                          => documents'[d] = "received"
               /\ deciding'[v].pc = "decide" => Complete
    BY <1>c, <2>1, <2>2
  <2> QED
    BY <1>c, <2>1, <2>3
    DEF DocumentsInv, Complete, Applications!ReviewedHasDocuments
<1>4. ASSUME NEW c \in Calls, NEW given \in SUBSET FormFields,
             Applications!UpdateAnswers(c, given)
      PROVE  DocumentsInv'
  BY <1>4, <1>d, <1>e, <1>f DEF Applications!UpdateAnswers
<1>5. ASSUME NEW c \in Calls, NEW d \in DocTypes,
             Applications!AddDocument(c, d)
               \/ Applications!AddUploadedDocument(c, d)
      PROVE  DocumentsInv'
  BY <1>5, <1>d, <1>e, <1>f
  DEF Applications!AddDocument, Applications!AddUploadedDocument
<1>6. ASSUME NEW c \in Calls,
             Applications!Submit(c) \/ Applications!StartScreening(c)
      PROVE  DocumentsInv'
  <2>1. /\ status' \notin Reviewed
        /\ deciding[c].pc \in {"submit", "screening"}
        /\ Applications!Keep(c, "screening") \/ Applications!Keep(c, "screen")
    BY <1>6 DEF Applications!Submit, Applications!StartScreening,
                Applications!At, Applications!DECIDABLE_STATUSES
  <2> QED
    BY <2>1, <1>d, <1>h
<1>7. ASSUME NEW c \in Calls, Applications!RunScreening(c)
      PROVE  DocumentsInv'
  <2>1. deciding[c].pc = "screen"
        /\ missing' = Applications!MissingOf(deciding[c].answers, deciding[c].documents)
        /\ status' = IF missing' = {} THEN "in_review" ELSE "incomplete"
    BY <1>7 DEF Applications!RunScreening, Applications!At
  <2>3. PICK to : to = status' /\ Applications!LeaveRecording(c, to)
    BY <1>7 DEF Applications!RunScreening
  <2>2. ASSUME status' \in Reviewed, NEW d \in DocTypes
        PROVE  documents'[d] = "received"
    <3>1. missing' = {}
      BY <2>1, <2>2, "incomplete" \notin Reviewed
      DEF Applications!DECIDABLE_STATUSES
    <3>2. deciding[c].documents[d] = "received"
      BY <2>1, <3>1 DEF Applications!MissingOf
    <3> QED
      BY <1>b, <1>c, <2>1, <3>2
  <2> QED
    BY <2>2, <2>3, <1>d, <1>g
<1>8. ASSUME NEW c \in Calls, NEW decision \in Applications!Decisions,
             Applications!Decide(c, decision)
      PROVE  DocumentsInv'
  <2>1. deciding[c].pc = "decide" /\ Applications!LeaveRecording(c, decision)
    BY <1>8 DEF Applications!Decide, Applications!At
  <2>2. \A d \in DocTypes : documents'[d] = "received"
    BY <2>1, <1>b, <1>c DEF Complete
  <2> QED
    BY <2>1, <2>2, <1>d, <1>g
<1>9. ASSUME NEW c \in Calls, Applications!Withdraw(c)
      PROVE  DocumentsInv'
  <2>1. status' \notin Reviewed /\ Applications!LeaveRecording(c, "withdrawn")
    BY <1>9 DEF Applications!Withdraw, Applications!DECIDABLE_STATUSES
  <2> QED
    BY <2>1, <1>d, <1>g
<1>10. ASSUME NEW c \in Calls, Applications!RecordHistory(c)
       PROVE  DocumentsInv'
  BY <1>10, <1>d, <1>e, <1>f DEF Applications!RecordHistory
<1> QED
  BY <1>1, <1>2, <1>3, <1>4, <1>5, <1>6, <1>7, <1>8, <1>9, <1>10
  DEF Applications!Next

(***************************************************************************)
(* The candidature: its history explains it                                *)
(***************************************************************************)

(* A status has its history event, or a call is about to write it: alone,  *)
(* with the next update of the submission, or with its screening.          *)
Recording(s) == \E c \in Calls : deciding[c].pc = "record" /\ deciding[c].to = s
Noted(s) == s \in history \/ Recording(s)
ToRecord(s) ==
    \/ Noted(s)
    \/ s = "submitted" /\ \E c \in Calls : deciding[c].pc = "screening"
    \/ /\ s = "screening"
       /\ \E c \in Calls : deciding[c].pc = "screen" /\ deciding[c].status = "draft"

HistoryInv ==
    /\ status \notin {None, "draft"} => ToRecord(status)
    /\ status \in Applications!DECIDABLE_STATUSES => Noted("in_review")
    /\ decided => Noted("in_review")
    /\ \A c \in Calls :
         /\ deciding[c].pc = "decide" => Noted("in_review")
         /\ deciding[c].pc \in {"submit", "screening"} => deciding[c].status = "draft"

LEMMA HistoryInit == NoneIsNoStatus /\ Applications!Init => HistoryInv
<1> SUFFICES ASSUME NoneIsNoStatus, Applications!Init PROVE HistoryInv
  OBVIOUS
<1>1. \A c \in Calls : deciding[c].pc = "idle"
  BY DEF Applications!Init, Applications!Idle
<1>2. status = None /\ None \notin Applications!DECIDABLE_STATUSES /\ ~decided
  BY DEF Applications!Init, NoneIsNoStatus, Applications!Statuses
<1> QED
  BY <1>1, <1>2 DEF HistoryInv

LEMMA HistoryStep ==
    /\ ApplicationType /\ HistoryInv
    /\ [Applications!Next]_(Applications!vars)
    => HistoryInv'
<1> SUFFICES ASSUME ApplicationType, HistoryInv,
                    [Applications!Next]_(Applications!vars)
             PROVE  HistoryInv'
  OBVIOUS
<1>a. deciding \in [Calls -> RecordingCalls]
      /\ \A c \in Calls : deciding[c] \in Applications!CallStates
  BY DEF ApplicationType, Applications!TypeOK
<1>c. /\ status \notin {None, "draft"} => ToRecord(status)
      /\ status \in Applications!DECIDABLE_STATUSES => Noted("in_review")
      /\ decided => Noted("in_review")
      /\ \A c \in Calls :
           /\ deciding[c].pc = "decide" => Noted("in_review")
           /\ deciding[c].pc \in {"submit", "screening"} => deciding[c].status = "draft"
  BY DEF HistoryInv
(* The step of a call that is not recording: nothing noted is forgotten.   *)
<1>d. ASSUME NEW c \in Calls, deciding[c].pc # "record", history \subseteq history',
             \A v \in Calls : v # c => deciding'[v] = deciding[v]
      PROVE  \A s : Noted(s) => Noted(s)'
  BY <1>d DEF Noted, Recording
<1>e. ASSUME NEW c \in Calls, \A s : Noted(s) => Noted(s)',
             \A v \in Calls : v # c => deciding'[v] = deciding[v],
             deciding'[c].pc \notin {"decide", "submit"},
             deciding'[c].pc = "screening" => deciding'[c].status = "draft",
             status' \notin {None, "draft"} => ToRecord(status)',
             status' \in Applications!DECIDABLE_STATUSES => Noted("in_review")',
             decided' => Noted("in_review")'
      PROVE  HistoryInv'
  BY <1>c, <1>e DEF HistoryInv
(* A step of a call at no point of the submission.                         *)
<1>w. ASSUME NEW c \in Calls, \A s : Noted(s) => Noted(s)',
             \A v \in Calls : v # c => deciding'[v] = deciding[v],
             deciding[c].pc \notin {"screening", "screen"}
      PROVE  \A s : ToRecord(s) => ToRecord(s)'
  BY <1>w DEF ToRecord
<1>f. ASSUME NEW c \in Calls, Applications!Leave(c)
      PROVE  /\ \A v \in Calls : v # c => deciding'[v] = deciding[v]
             /\ deciding'[c].pc = "idle"
  BY <1>a, <1>f DEF Applications!Leave, Applications!Idle
<1>g. ASSUME NEW c \in Calls, NEW to, Applications!LeaveRecording(c, to)
      PROVE  /\ \A v \in Calls : v # c => deciding'[v] = deciding[v]
             /\ deciding'[c].pc = "record" /\ deciding'[c].to = to
  BY <1>a, <1>g DEF Applications!LeaveRecording, Applications!Idle
<1>h. ASSUME NEW c \in Calls, NEW point, Applications!Keep(c, point)
      PROVE  /\ \A v \in Calls : v # c => deciding'[v] = deciding[v]
             /\ deciding'[c].pc = point
             /\ deciding'[c].status = deciding[c].status
  BY <1>a, <1>h DEF Applications!Keep, Applications!CallStates
<1>1. CASE UNCHANGED Applications!vars
  BY <1>1, <1>c DEF Applications!vars, HistoryInv, Noted, ToRecord, Recording
<1>2. CASE Applications!CreateApplication
  BY <1>2, <1>c
  DEF Applications!CreateApplication, HistoryInv, Noted, ToRecord, Recording,
      Applications!DECIDABLE_STATUSES
<1>3. ASSUME NEW c \in Calls, NEW op \in Applications!Operations,
             Applications!Begin(c, op)
      PROVE  HistoryInv'
  <2>1. /\ \A v \in Calls : v # c => deciding'[v] = deciding[v]
        /\ deciding[c].pc = "idle"
        /\ deciding'[c].pc = op /\ deciding'[c].status = status
        /\ UNCHANGED <<status, history, decided>>
        /\ op = "decide" => status \in Applications!DECIDABLE_STATUSES
        /\ op = "submit" => status = "draft"
        /\ op # "screening"
    BY <1>a, <1>3 DEF Applications!Begin, Applications!Accepts,
                      Applications!At, Applications!Operations
  <2>2. \A s : Noted(s) => Noted(s)'
    BY <1>d, <2>1
  <2>3. \A s : ToRecord(s) => ToRecord(s)'
    BY <1>w, <2>1, <2>2
  <2> QED
    BY <1>c, <2>1, <2>2, <2>3 DEF HistoryInv
<1>4. ASSUME NEW c \in Calls,
             deciding[c].pc \in {"answers", "placeholder", "upload"},
             Applications!Leave(c), UNCHANGED <<status, history, decided>>
      PROVE  HistoryInv'
  <2>1. \A s : Noted(s) => Noted(s)'
    BY <1>d, <1>f, <1>4
  <2>2. \A s : ToRecord(s) => ToRecord(s)'
    BY <1>w, <1>f, <1>4, <2>1
  <2> QED
    BY <1>c, <1>e, <1>f, <1>4, <2>1, <2>2
<1>5. ASSUME NEW c \in Calls, NEW given \in SUBSET FormFields,
             Applications!UpdateAnswers(c, given)
      PROVE  HistoryInv'
  BY <1>4, <1>5 DEF Applications!UpdateAnswers, Applications!At
<1>6. ASSUME NEW c \in Calls, NEW d \in DocTypes,
             Applications!AddDocument(c, d)
               \/ Applications!AddUploadedDocument(c, d)
      PROVE  HistoryInv'
  BY <1>4, <1>6
  DEF Applications!AddDocument, Applications!AddUploadedDocument,
      Applications!At
<1>7. ASSUME NEW c \in Calls, Applications!Submit(c)
      PROVE  HistoryInv'
  <2>1. /\ deciding[c].pc = "submit" /\ status' = "submitted"
        /\ Applications!Keep(c, "screening")
        /\ UNCHANGED <<history, decided>>
    BY <1>7 DEF Applications!Submit, Applications!At
  <2>2. \A s : Noted(s) => Noted(s)'
    BY <1>d, <1>h, <2>1
  <2>3. ToRecord("submitted")'
    BY <1>h, <2>1 DEF ToRecord
  <2> QED
    BY <1>c, <1>e, <1>h, <2>1, <2>2, <2>3 DEF Applications!DECIDABLE_STATUSES
<1>8. ASSUME NEW c \in Calls, Applications!StartScreening(c)
      PROVE  HistoryInv'
  <2>1. /\ deciding[c].pc = "screening" /\ status' = "screening"
        /\ Applications!Keep(c, "screen")
        /\ history \subseteq history' /\ decided' = decided
    BY <1>8 DEF Applications!StartScreening, Applications!At
  <2>2. \A s : Noted(s) => Noted(s)'
    BY <1>d, <1>h, <2>1
  <2>3. ToRecord("screening")'
    BY <1>c, <1>h, <2>1 DEF ToRecord
  <2> QED
    BY <1>c, <1>e, <1>h, <2>1, <2>2, <2>3 DEF Applications!DECIDABLE_STATUSES
(* An operation that ends by recording the status it has written.          *)
<1>9. ASSUME NEW c \in Calls, deciding[c].pc # "record", NEW to,
             status' = to, Applications!LeaveRecording(c, to),
             history \subseteq history',
             to = "waitlisted" \/ decided' # decided => Noted("in_review")
      PROVE  HistoryInv'
  <2>1. \A s : Noted(s) => Noted(s)'
    BY <1>d, <1>g, <1>9
  <2>2. Noted(to)'
    BY <1>g, <1>9 DEF Noted, Recording
  <2>3. status' \notin {None, "draft"} => ToRecord(status)'
    BY <1>9, <2>2 DEF ToRecord, Noted, Recording
  <2>4. decided' => Noted("in_review")'
    BY <1>c, <1>9, <2>1
  <2>5. status' \in Applications!DECIDABLE_STATUSES => Noted("in_review")'
    <3>1. ASSUME to \in Applications!DECIDABLE_STATUSES
          PROVE  to = "in_review" \/ to = "waitlisted"
      BY <3>1 DEF Applications!DECIDABLE_STATUSES
    <3> QED
      BY <1>9, <2>1, <2>2, <3>1
  <2> QED
    BY <1>e, <1>g, <1>9, <2>1, <2>3, <2>4, <2>5
<1>10. ASSUME NEW c \in Calls, Applications!RunScreening(c)
       PROVE  HistoryInv'
  <2>1. deciding[c].pc = "screen" /\ history \subseteq history'
        /\ decided' = decided /\ status' # "waitlisted"
    BY <1>10 DEF Applications!RunScreening, Applications!At
  <2>2. PICK to : to = status' /\ Applications!LeaveRecording(c, to)
    BY <1>10 DEF Applications!RunScreening
  <2> QED
    BY <1>9, <2>1, <2>2
<1>11. ASSUME NEW c \in Calls, NEW decision \in Applications!Decisions,
              Applications!Decide(c, decision)
       PROVE  HistoryInv'
  BY <1>c, <1>9, <1>11 DEF Applications!Decide, Applications!At
<1>12. ASSUME NEW c \in Calls, Applications!Withdraw(c)
       PROVE  HistoryInv'
  BY <1>9, <1>12 DEF Applications!Withdraw, Applications!At
<1>13. ASSUME NEW c \in Calls, Applications!RecordHistory(c)
       PROVE  HistoryInv'
  <2>1. /\ deciding[c].pc = "record" /\ history' = history \cup {deciding[c].to}
        /\ Applications!Leave(c)
        /\ UNCHANGED <<status, decided>>
    BY <1>13 DEF Applications!RecordHistory, Applications!At
  <2>2. \A s : Noted(s) => Noted(s)'
    BY <1>f, <2>1 DEF Noted, Recording
  <2>3. \A s : ToRecord(s) => ToRecord(s)'
    BY <1>f, <1>w, <2>1, <2>2
  <2> QED
    BY <1>c, <1>e, <1>f, <2>1, <2>2, <2>3
<1> QED
  BY <1>1, <1>2, <1>3, <1>5, <1>6, <1>7, <1>8, <1>10, <1>11, <1>12, <1>13
  DEF Applications!Next

(* Nobody ever decides, or has for review, a candidature that lacks a      *)
(* required document, however submissions, uploads, re-checks and          *)
(* decisions interleave (OdcApplicationsService).                          *)
THEOREM ReviewedIsComplete ==
    ASSUME NoneIsNoStatus
    PROVE  Applications!Spec => [](/\ Applications!TypeOK
                                    /\ Applications!ReviewedHasDocuments)
<1>1. Applications!Init => ApplicationType /\ DocumentsInv
  BY ApplicationTypeInit, DocumentsInit
<1>2. /\ ApplicationType /\ DocumentsInv
      /\ [Applications!Next]_(Applications!vars)
      => (ApplicationType /\ DocumentsInv)'
  BY ApplicationTypeStep, DocumentsStep
<1>3. DocumentsInv => Applications!ReviewedHasDocuments
  BY DEF DocumentsInv
<1>4. ApplicationType => Applications!TypeOK
  BY DEF ApplicationType
<1> QED
  BY <1>1, <1>2, <1>3, <1>4, PTL DEF Applications!Spec

(* Once no operation is in progress the history holds how the candidature  *)
(* came to its status, and a decided one has been in review, although each *)
(* event is written by a statement of its own after the update.            *)
THEOREM HistoryExplains ==
    ASSUME NoneIsNoStatus
    PROVE  Applications!Spec => []Applications!HistoryExplainsStatus
<1>1. Applications!Init => ApplicationType /\ HistoryInv
  BY ApplicationTypeInit, HistoryInit
<1>2. /\ ApplicationType /\ HistoryInv
      /\ [Applications!Next]_(Applications!vars)
      => (ApplicationType /\ HistoryInv)'
  BY ApplicationTypeStep, HistoryStep
<1>3. HistoryInv => Applications!HistoryExplainsStatus
  <2> SUFFICES ASSUME HistoryInv, \A c \in Calls : deciding[c].pc = "idle"
               PROVE  /\ status \notin {None, "draft"} => status \in history
                      /\ decided => "in_review" \in history
    BY DEF Applications!HistoryExplainsStatus, Applications!At
  <2> QED
    BY DEF HistoryInv, Noted, ToRecord, Recording
<1> QED
  BY <1>1, <1>2, <1>3, PTL DEF Applications!Spec

(***************************************************************************)
(* The scores: type correctness                                            *)
(***************************************************************************)
LEMMA ScoresTypeInit == Scores!Init => Scores!TypeOK
<1> SUFFICES ASSUME Scores!Init PROVE Scores!TypeOK
  OBVIOUS
<1>1. None \in Scores!Totals /\ None \in Scores!Score
  BY DEF Scores!Totals, Scores!Score
<1>2. Scores!Idle \in Scores!CallStates
  BY <1>1 DEF Scores!Idle, Scores!CallStates
<1> QED
  BY <1>1, <1>2 DEF Scores!Init, Scores!TypeOK

LEMMA TotalsAreTotals ==
    ASSUME lines \in [Criteria -> [Scores!Kinds -> Scores!Score]],
           NEW kind \in Scores!Kinds
    PROVE  Scores!TotalOf(kind) \in Scores!Totals
<1>1. [k \in Criteria |-> lines[k][kind]] \in [Criteria -> Scores!Score]
  OBVIOUS
<1> QED
  BY <1>1 DEF Scores!TotalOf, Scores!ComputeWeightedTotal, Scores!Totals

LEMMA ScoresTypeStep ==
    Scores!TypeOK /\ [Scores!Next]_(Scores!vars) => Scores!TypeOK'
<1> SUFFICES ASSUME Scores!TypeOK, [Scores!Next]_(Scores!vars)
             PROVE  Scores!TypeOK'
  OBVIOUS
<1>a. /\ lines \in [Criteria -> [Scores!Kinds -> Scores!Score]]
      /\ totals \in [Scores!Kinds -> Scores!Totals]
      /\ summary \in BOOLEAN /\ terminal \in BOOLEAN
      /\ scoring \in [Calls -> Scores!CallStates]
  BY DEF Scores!TypeOK
<1>b. ASSUME NEW c \in Calls, NEW call \in Scores!CallStates,
             scoring' = [scoring EXCEPT ![c] = call]
      PROVE  scoring' \in [Calls -> Scores!CallStates]
  BY <1>a, <1>b
<1>c. ASSUME NEW c \in Calls,
             NEW point \in {"propose", "score", "summarize", "read"},
             Scores!Move(c, point)
      PROVE  scoring' \in [Calls -> Scores!CallStates]
  <2>1. [scoring[c] EXCEPT !.pc = point] \in Scores!CallStates
    BY <1>a DEF Scores!CallStates
  <2>2. scoring' = [scoring EXCEPT ![c] = [scoring[c] EXCEPT !.pc = point]]
    BY <1>a, <1>c DEF Scores!Move
  <2> QED
    BY <1>b, <2>1, <2>2
<1>d. Scores!Idle \in Scores!CallStates
  BY DEF Scores!Idle, Scores!CallStates, Scores!Totals
<1>1. CASE UNCHANGED Scores!vars
  BY <1>1, <1>a DEF Scores!vars, Scores!TypeOK
<1>2. CASE Scores!Close
  BY <1>2, <1>a DEF Scores!Close, Scores!TypeOK
<1>3. ASSUME NEW c \in Calls, NEW op \in {"propose", "score", "summarize"},
             Scores!Begin(c, op)
      PROVE  Scores!TypeOK'
  BY <1>3, <1>a, <1>c DEF Scores!Begin, Scores!TypeOK
<1>4. ASSUME NEW c \in Calls, NEW kind \in Scores!Kinds,
             NEW given \in Scores!Scorings, Scores!Upsert(c, kind, given)
      PROVE  Scores!TypeOK'
  <2>1. PICK some \in SUBSET Criteria : given \in [some -> ScorePoints]
    BY <1>4 DEF Scores!Scorings
  <2>2. \A k \in Criteria :
          lines'[k] = IF k \in some THEN [lines[k] EXCEPT ![kind] = given[k]]
                      ELSE lines[k]
    BY <1>4, <2>1 DEF Scores!Upsert
  <2>3. \A k \in Criteria : lines'[k] \in [Scores!Kinds -> Scores!Score]
    BY <1>a, <2>1, <2>2 DEF Scores!Score
  <2>4. /\ lines' \in [Criteria -> [Scores!Kinds -> Scores!Score]]
        /\ Scores!Move(c, "read") /\ UNCHANGED <<totals, summary, terminal>>
    BY <1>4, <2>3 DEF Scores!Upsert
  <2> QED
    BY <1>a, <1>c, <2>4 DEF Scores!TypeOK
<1>5. ASSUME NEW c \in Calls, Scores!ReadLines(c) PROVE Scores!TypeOK'
  <2> DEFINE sums == [kind \in Scores!Kinds |-> Scores!TotalOf(kind)]
  <2>1. sums \in [Scores!Kinds -> Scores!Totals]
    BY <1>a, TotalsAreTotals
  <2>2. /\ scoring' = [scoring EXCEPT
                         ![c] = [pc |-> "write", totals |-> sums]]
        /\ UNCHANGED <<lines, totals, summary, terminal>>
    BY <1>5 DEF Scores!ReadLines
  <2> HIDE DEF sums
  <2>3. [pc |-> "write", totals |-> sums] \in Scores!CallStates
    BY <2>1 DEF Scores!CallStates
  <2> QED
    BY <1>a, <1>b, <2>2, <2>3 DEF Scores!TypeOK
<1>6. ASSUME NEW c \in Calls, Scores!WriteTotals(c) PROVE Scores!TypeOK'
  <2>1. scoring[c].totals \in [Scores!Kinds -> Scores!Totals]
    BY <1>a DEF Scores!CallStates
  <2> QED
    BY <1>6, <1>a, <1>b, <1>d, <2>1 DEF Scores!WriteTotals, Scores!TypeOK
<1>7. ASSUME NEW c \in Calls, Scores!WriteSummary(c) PROVE Scores!TypeOK'
  BY <1>7, <1>a, <1>b, <1>d DEF Scores!WriteSummary, Scores!TypeOK
<1>8. ASSUME NEW c \in Calls,
             Scores!ProposeScores(c) \/ Scores!UpdateFinalScores(c)
      PROVE  Scores!TypeOK'
  BY <1>4, <1>8
  DEF Scores!ProposeScores, Scores!UpdateFinalScores, Scores!Kinds
<1> QED
  BY <1>1, <1>2, <1>3, <1>5, <1>6, <1>7, <1>8 DEF Scores!Next

(***************************************************************************)
(* The scores: totals                                                      *)
(***************************************************************************)

(* A score is not null, and the criteria a program requires are its own.   *)
ScoresAssumption == None \notin ScorePoints /\ Required \subseteq Criteria

(* Every required criterion has points of this kind.                       *)
Scored(kind) == \A k \in Required : lines[k][kind] # None

(* TotalIsNeverPartial made inductive: points are never taken back, so     *)
(* what a recomputation has read stays scored until it writes.  What a     *)
(* weighted sum is does not matter, only when there is one.                *)
ScoresInv ==
    /\ lines \in [Criteria -> [Scores!Kinds -> Scores!Score]]
    /\ scoring = [c \in Calls |-> [pc |-> scoring[c].pc,
                                   totals |-> scoring[c].totals]]
    /\ \A kind \in Scores!Kinds : totals[kind] # None => Scored(kind)
    /\ \A c \in Calls, kind \in Scores!Kinds :
         scoring[c].pc = "write" /\ scoring[c].totals[kind] # None
           => Scored(kind)

LEMMA ScoresInit == Scores!Init => ScoresInv
<1> SUFFICES ASSUME Scores!Init PROVE ScoresInv
  OBVIOUS
<1>1. \A c \in Calls : scoring[c] = Scores!Idle
  BY DEF Scores!Init
<1>2. scoring = [c \in Calls |-> [pc |-> scoring[c].pc,
                                  totals |-> scoring[c].totals]]
  <2>1. scoring = [c \in Calls |-> Scores!Idle]
    BY DEF Scores!Init
  <2>2. Scores!Idle = [pc |-> Scores!Idle.pc, totals |-> Scores!Idle.totals]
    BY DEF Scores!Idle
  <2> QED
    BY <1>1, <2>1, <2>2
<1>3. /\ lines \in [Criteria -> [Scores!Kinds -> Scores!Score]]
      /\ \A kind \in Scores!Kinds : totals[kind] = None
  BY DEF Scores!Init, Scores!Score
<1>4. \A c \in Calls : scoring[c].pc # "write"
  BY <1>1 DEF Scores!Idle
<1> QED
  BY <1>2, <1>3, <1>4 DEF ScoresInv

LEMMA ScoresStep ==
    ASSUME ScoresAssumption, ScoresInv, [Scores!Next]_(Scores!vars)
    PROVE  ScoresInv'
<1>a. /\ lines \in [Criteria -> [Scores!Kinds -> Scores!Score]]
      /\ \A kind \in Scores!Kinds : totals[kind] # None => Scored(kind)
      /\ \A c \in Calls, kind \in Scores!Kinds :
           scoring[c].pc = "write" /\ scoring[c].totals[kind] # None
             => Scored(kind)
  BY DEF ScoresInv
<1>b. scoring = [c \in Calls |-> [pc |-> scoring[c].pc,
                                  totals |-> scoring[c].totals]]
  BY DEF ScoresInv
(* A call is replaced by another one, scored when it is about to write.    *)
<1>c. ASSUME NEW c \in Calls, NEW point, NEW sums,
             scoring' = [scoring EXCEPT
                           ![c] = [pc |-> point, totals |-> sums]],
             lines' \in [Criteria -> [Scores!Kinds -> Scores!Score]],
             \A kind \in Scores!Kinds : Scored(kind) => Scored(kind)',
             \A kind \in Scores!Kinds :
               point = "write" /\ sums[kind] # None => Scored(kind),
             \A kind \in Scores!Kinds : totals'[kind] # None => Scored(kind)
      PROVE  ScoresInv'
  <2>1. /\ scoring'[c] = [pc |-> point, totals |-> sums]
        /\ \A v \in Calls : v # c => scoring'[v] = scoring[v]
        /\ scoring' = [v \in Calls |-> scoring'[v]]
    BY <1>b, <1>c
  <2>2. \A v \in Calls : scoring'[v] = [pc |-> scoring'[v].pc,
                                        totals |-> scoring'[v].totals]
    <3>1. \A v \in Calls : scoring[v] = [pc |-> scoring[v].pc,
                                         totals |-> scoring[v].totals]
      BY <1>b
    <3> QED
      BY <2>1, <3>1
  <2>3. scoring' = [v \in Calls |-> [pc |-> scoring'[v].pc,
                                     totals |-> scoring'[v].totals]]
    BY <2>1, <2>2
  <2>4. \A v \in Calls, kind \in Scores!Kinds :
          scoring'[v].pc = "write" /\ scoring'[v].totals[kind] # None
            => Scored(kind)'
    BY <1>a, <1>c, <2>1
  <2> QED
    BY <1>c, <2>3, <2>4 DEF ScoresInv
<1>d. ASSUME NEW c \in Calls, NEW point, Scores!Move(c, point)
      PROVE  scoring' = [scoring EXCEPT
                           ![c] = [pc |-> point, totals |-> scoring[c].totals]]
  <2>1. scoring[c] = [pc |-> scoring[c].pc, totals |-> scoring[c].totals]
    BY <1>b
  <2>2. [scoring[c] EXCEPT !.pc = point]
          = [pc |-> point, totals |-> scoring[c].totals]
    BY <2>1
  <2> QED
    BY <1>b, <1>d, <2>2 DEF Scores!Move
<1>e. ASSUME UNCHANGED lines PROVE \A kind : Scored(kind)' = Scored(kind)
  BY <1>e DEF Scored
<1>f. ASSUME NEW c \in Calls, scoring' = [scoring EXCEPT ![c] = Scores!Idle],
             UNCHANGED lines,
             \A kind \in Scores!Kinds : totals'[kind] # None => Scored(kind)
      PROVE  ScoresInv'
  <2> DEFINE sums == [kind \in Scores!Kinds |-> None]
  <2>1. scoring' = [scoring EXCEPT ![c] = [pc |-> "idle", totals |-> sums]]
    BY <1>f DEF Scores!Idle
  <2>2. \A kind \in Scores!Kinds :
          "idle" = "write" /\ sums[kind] # None => Scored(kind)
    OBVIOUS
  <2>3. /\ lines' \in [Criteria -> [Scores!Kinds -> Scores!Score]]
        /\ \A kind \in Scores!Kinds : Scored(kind) => Scored(kind)'
    BY <1>a, <1>e, <1>f
  <2> HIDE DEF sums
  <2> QED
    BY <1>c, <1>f, <2>1, <2>2, <2>3
<1>1. CASE UNCHANGED Scores!vars
  BY <1>1, <1>a, <1>b, <1>e DEF Scores!vars, ScoresInv
<1>2. CASE Scores!Close
  BY <1>2, <1>a, <1>b, <1>e DEF Scores!Close, ScoresInv
<1>3. ASSUME NEW c \in Calls, NEW op \in {"propose", "score", "summarize"},
             Scores!Begin(c, op)
      PROVE  ScoresInv'
  <2> DEFINE sums == scoring[c].totals
  <2>1. /\ scoring' = [scoring EXCEPT ![c] = [pc |-> op, totals |-> sums]]
        /\ UNCHANGED <<lines, totals>> /\ op # "write"
    BY <1>3, <1>d DEF Scores!Begin
  <2>2. \A kind \in Scores!Kinds : totals'[kind] # None => Scored(kind)
    BY <1>a, <2>1
  <2> HIDE DEF sums
  <2> QED
    BY <1>a, <1>c, <1>e, <2>1, <2>2
<1>4. ASSUME NEW c \in Calls, NEW kind \in Scores!Kinds,
             NEW given \in Scores!Scorings, Scores!Upsert(c, kind, given)
      PROVE  ScoresInv'
  <2>1. PICK some \in SUBSET Criteria : given \in [some -> ScorePoints]
    BY <1>4 DEF Scores!Scorings
  <2>2. \A k \in Criteria :
          lines'[k] = IF k \in some THEN [lines[k] EXCEPT ![kind] = given[k]]
                      ELSE lines[k]
    BY <1>4, <2>1 DEF Scores!Upsert
  <2>3. ASSUME NEW k \in Criteria
        PROVE  /\ lines'[k] \in [Scores!Kinds -> Scores!Score]
               /\ \A other \in Scores!Kinds :
                    lines[k][other] # None => lines'[k][other] # None
    <3>1. lines[k] \in [Scores!Kinds -> Scores!Score]
      BY <1>a
    <3>2. k \in some => given[k] \in Scores!Score /\ given[k] # None
      BY <2>1 DEF Scores!Score, ScoresAssumption
    <3> QED
      BY <2>2, <3>1, <3>2
  <2>4. lines' \in [Criteria -> [Scores!Kinds -> Scores!Score]]
    BY <1>4, <2>3 DEF Scores!Upsert
  <2>5. \A other \in Scores!Kinds : Scored(other) => Scored(other)'
    BY <2>3 DEF Scored, ScoresAssumption
  <2>6. /\ Scores!Move(c, "read") /\ totals' = totals
    BY <1>4 DEF Scores!Upsert
  <2>7. scoring' = [scoring EXCEPT
                      ![c] = [pc |-> "read", totals |-> scoring[c].totals]]
    BY <1>d, <2>6
  <2> DEFINE sums == scoring[c].totals
  <2>8. \A other \in Scores!Kinds :
          "read" = "write" /\ sums[other] # None => Scored(other)
    OBVIOUS
  <2>9. \A other \in Scores!Kinds : totals'[other] # None => Scored(other)
    BY <1>a, <2>6
  <2>10. scoring' = [scoring EXCEPT ![c] = [pc |-> "read", totals |-> sums]]
    BY <2>7
  <2> HIDE DEF sums
  <2> QED
    BY <1>c, <2>4, <2>5, <2>8, <2>9, <2>10
<1>5. ASSUME NEW c \in Calls, Scores!ReadLines(c) PROVE ScoresInv'
  <2> DEFINE sums == [kind \in Scores!Kinds |-> Scores!TotalOf(kind)]
  <2>1. /\ scoring' = [scoring EXCEPT
                         ![c] = [pc |-> "write", totals |-> sums]]
        /\ UNCHANGED <<lines, totals>>
    BY <1>5 DEF Scores!ReadLines
  <2>2. ASSUME NEW kind \in Scores!Kinds, sums[kind] # None
        PROVE  Scored(kind)
    <3>1. Scores!TotalOf(kind) # None
      BY <2>2
    <3> QED
      BY <3>1
      DEF Scores!TotalOf, Scores!ComputeWeightedTotal, Scored,
          ScoresAssumption
  <2> HIDE DEF sums
  <2> QED
    BY <1>a, <1>c, <1>e, <2>1, <2>2
<1>6. ASSUME NEW c \in Calls, Scores!WriteTotals(c) PROVE ScoresInv'
  <2>1. /\ scoring[c].pc = "write"
        /\ totals' = scoring[c].totals /\ UNCHANGED lines
        /\ scoring' = [scoring EXCEPT ![c] = Scores!Idle]
    BY <1>6 DEF Scores!WriteTotals, Scores!At
  <2>2. \A kind \in Scores!Kinds : totals'[kind] # None => Scored(kind)
    BY <1>a, <2>1
  <2> QED
    BY <1>f, <2>1, <2>2
<1>7. ASSUME NEW c \in Calls, Scores!WriteSummary(c) PROVE ScoresInv'
  <2>1. /\ scoring' = [scoring EXCEPT ![c] = Scores!Idle]
        /\ UNCHANGED <<lines, totals>>
    BY <1>7 DEF Scores!WriteSummary
  <2>2. \A kind \in Scores!Kinds : totals'[kind] # None => Scored(kind)
    BY <1>a, <2>1
  <2> QED
    BY <1>f, <2>1, <2>2
<1>8. ASSUME NEW c \in Calls,
             Scores!ProposeScores(c) \/ Scores!UpdateFinalScores(c)
      PROVE  ScoresInv'
  BY <1>4, <1>8
  DEF Scores!ProposeScores, Scores!UpdateFinalScores, Scores!Kinds
<1> QED
  BY <1>1, <1>2, <1>3, <1>5, <1>6, <1>7, <1>8 DEF Scores!Next

(* A total is never a partial sum, whoever recomputes it and whatever is   *)
(* written between the read of the lines and the write of the totals.      *)
THEOREM TotalsAreWhole ==
    ASSUME ScoresAssumption
    PROVE  Scores!Spec
             => [](Scores!TypeOK /\ Scores!TotalIsNeverPartial)
<1>1. ScoresInv /\ [Scores!Next]_(Scores!vars) => ScoresInv'
  BY ScoresStep
<1>2. ScoresInv => Scores!TotalIsNeverPartial
  BY DEF ScoresInv, Scores!TotalIsNeverPartial, Scored
<1> QED
  BY <1>1, <1>2, ScoresInit, ScoresTypeInit, ScoresTypeStep, PTL
  DEF Scores!Spec

(***************************************************************************)
(* The files: type correctness                                             *)
(***************************************************************************)
DocumentsAssumption == MaxFiles \in Nat /\ MaxFaults \in Nat

(* An upload has a file from its Put to its end, and the file it replaced  *)
(* until it is deleted.                                                    *)
HoldsFile == {"confirm", "persist", "rollback"}
UploadStates ==
    {u \in Documents!CallStates :
       /\ u.file # 0 <=> u.pc \in HoldsFile
       /\ u.replaced # 0 <=> u.pc = "replace"}

UploadType ==
    /\ Documents!TypeOK
    /\ upload \in [Calls -> UploadStates]
    /\ sweep \in [pc : {"idle", "list", "delete"}, files : SUBSET (0..MaxFiles)]

LEMMA UploadTypeInit ==
    ASSUME DocumentsAssumption, Documents!Init PROVE UploadType
<1>1. Documents!Idle \in UploadStates
  BY DEF DocumentsAssumption, Documents!Idle, Documents!CallStates,
         UploadStates, HoldsFile
<1>2. upload \in [Calls -> UploadStates]
  BY <1>1 DEF Documents!Init
<1>3. upload \in [Calls -> Documents!CallStates]
  BY <1>2 DEF UploadStates
<1> QED
  BY <1>2, <1>3
  DEF DocumentsAssumption, Documents!Init, Documents!TypeOK,
      Documents!NoSweep, UploadType

LEMMA UploadTypeStep ==
    ASSUME DocumentsAssumption, UploadType,
           [Documents!Next]_(Documents!vars)
    PROVE  UploadType'
<1>a. /\ slots \in [DocTypes -> 0..MaxFiles]
      /\ stored \subseteq Documents!Files
      /\ written \in 0..MaxFiles
      /\ upload \in [Calls -> UploadStates]
      /\ sweep \in [pc : {"idle", "list", "delete"},
                    files : SUBSET (0..MaxFiles)]
      /\ exposed \subseteq Documents!Files
      /\ faults \in 0..MaxFaults
      /\ MaxFiles \in Nat /\ MaxFaults \in Nat
  BY DEF UploadType, Documents!TypeOK, DocumentsAssumption
<1>b. Documents!Idle \in UploadStates
  BY <1>a DEF Documents!Idle, Documents!CallStates, UploadStates, HoldsFile
(* Whatever a call does, it is left in one of its states.                  *)
<1>c. ASSUME NEW c \in Calls, NEW point \in {"persist", "rollback"},
             upload[c].pc \in {"confirm", "persist"}
      PROVE  [upload EXCEPT ![c].pc = point] \in [Calls -> UploadStates]
  <2>1. upload[c] \in UploadStates
    BY <1>a
  <2>2. [upload[c] EXCEPT !.pc = point] \in UploadStates
    BY <1>c, <2>1 DEF Documents!CallStates, UploadStates, HoldsFile
  <2> QED
    BY <1>a, <2>2
<1>d. ASSUME NEW c \in Calls, Documents!Leave(c)
      PROVE  upload' \in [Calls -> UploadStates]
  BY <1>a, <1>b, <1>d DEF Documents!Leave
<1>e. ASSUME slots' \in [DocTypes -> 0..MaxFiles],
             stored' \subseteq Documents!Files,
             written' \in 0..MaxFiles,
             upload' \in [Calls -> UploadStates],
             sweep' \in [pc : {"idle", "list", "delete"},
                         files : SUBSET (0..MaxFiles)],
             exposed' \subseteq Documents!Files,
             faults' \in 0..MaxFaults
      PROVE  UploadType'
  <2>1. upload' \in [Calls -> Documents!CallStates]
    BY <1>e DEF UploadStates
  <2> QED
    BY <1>e, <2>1 DEF UploadType, Documents!TypeOK
<1>f. faults < MaxFaults => faults + 1 \in 0..MaxFaults
  BY <1>a
<1>1. CASE UNCHANGED Documents!vars
  BY <1>1, <1>a, <1>e DEF Documents!vars
<1>2. ASSUME NEW c \in Calls, Documents!Put(c) PROVE UploadType'
  <2>1. /\ written' \in 0..MaxFiles /\ written' \in Documents!Files
        /\ written' # 0
    BY <1>2, <1>a DEF Documents!Put, Documents!Files
  <2>2. [pc |-> "confirm", file |-> written', replaced |-> 0]
          \in UploadStates
    BY <1>a, <2>1 DEF Documents!CallStates, UploadStates, HoldsFile
  <2>3. upload' \in [Calls -> UploadStates]
    BY <1>2, <1>a, <2>2 DEF Documents!Put
  <2> QED
    BY <1>2, <1>a, <1>e, <2>1, <2>3 DEF Documents!Put
<1>3. ASSUME NEW c \in Calls, Documents!Confirm(c) PROVE UploadType'
  <2>1. upload' \in [Calls -> UploadStates]
    BY <1>3, <1>c, <1>d DEF Documents!Confirm, Documents!At
  <2> QED
    BY <1>3, <1>a, <1>e, <2>1 DEF Documents!Confirm
<1>4. ASSUME NEW c \in Calls, NEW d \in DocTypes, Documents!Persist(c, d)
      PROVE  UploadType'
  <2>1. upload[c].file \in 0..MaxFiles /\ slots[d] \in 0..MaxFiles
    BY <1>a DEF Documents!CallStates, UploadStates
  <2>2. slots[d] # 0 => [pc |-> "replace", file |-> 0, replaced |-> slots[d]]
                          \in UploadStates
    BY <1>a, <2>1 DEF Documents!CallStates, UploadStates, HoldsFile
  <2>3. upload' \in [Calls -> UploadStates]
    BY <1>4, <1>a, <1>b, <2>2 DEF Documents!Persist
  <2>4. slots' \in [DocTypes -> 0..MaxFiles]
    BY <1>4, <1>a, <2>1 DEF Documents!Persist
  <2> QED
    BY <1>4, <1>a, <1>e, <2>3, <2>4 DEF Documents!Persist
<1>5. ASSUME NEW c \in Calls, NEW d \in DocTypes,
             Documents!PersistThenFail(c, d)
      PROVE  UploadType'
  <2>1. upload[c].file \in 0..MaxFiles /\ upload[c].file \in Documents!Files
    BY <1>5, <1>a
    DEF Documents!PersistThenFail, Documents!At, Documents!CallStates,
        Documents!Files, UploadStates, HoldsFile
  <2>2. upload' \in [Calls -> UploadStates]
    BY <1>5, <1>c DEF Documents!PersistThenFail, Documents!At
  <2>3. slots' \in [DocTypes -> 0..MaxFiles]
    BY <1>5, <1>a, <2>1 DEF Documents!PersistThenFail
  <2> QED
    BY <1>5, <1>a, <1>e, <1>f, <2>1, <2>2, <2>3
    DEF Documents!PersistThenFail
<1>6. ASSUME NEW c \in Calls, Documents!Refuse(c) PROVE UploadType'
  <2>1. upload' \in [Calls -> UploadStates]
    BY <1>6, <1>c DEF Documents!Refuse, Documents!At
  <2> QED
    BY <1>6, <1>a, <1>e, <2>1 DEF Documents!Refuse
<1>7. ASSUME NEW c \in Calls, NEW f, Documents!Remove(c, f)
      PROVE  UploadType'
  BY <1>7, <1>a, <1>d, <1>e, <1>f DEF Documents!Remove
<1>8. ASSUME NEW c \in Calls, Documents!Lose(c) PROVE UploadType'
  BY <1>8, <1>a, <1>d, <1>e, <1>f DEF Documents!Lose
<1>9. CASE Documents!SweepRows
  <2>1. Documents!Referenced \subseteq 0..MaxFiles
    BY <1>a DEF Documents!Referenced
  <2>2. sweep' \in [pc : {"idle", "list", "delete"},
                    files : SUBSET (0..MaxFiles)]
    BY <1>9, <2>1 DEF Documents!SweepRows
  <2>3. \A c \in Calls : upload[c].file \in 0..MaxFiles
    BY <1>a DEF Documents!CallStates, UploadStates
  <2>4. ({upload[c].file : c \in Calls} \ {0}) \subseteq Documents!Files
    BY <1>a, <2>3 DEF Documents!Files
  <2> QED
    BY <1>9, <1>a, <1>e, <2>2, <2>4 DEF Documents!SweepRows
<1>10. CASE Documents!SweepFiles
  <2>1. \A f \in Documents!Files : f \in 0..MaxFiles
    BY <1>a DEF Documents!Files
  <2>2. (stored \ sweep.files) \subseteq 0..MaxFiles
    BY <1>a, <2>1
  <2> QED
    BY <1>10, <1>a, <1>e, <2>2 DEF Documents!SweepFiles
<1>11. CASE Documents!SweepDelete
  BY <1>11, <1>a, <1>e DEF Documents!SweepDelete, Documents!NoSweep
<1> QED
  BY <1>1, <1>2, <1>3, <1>4, <1>5, <1>6, <1>7, <1>8, <1>9, <1>10, <1>11
  DEF Documents!Next, Documents!Rollback, Documents!DeleteReplaced

(***************************************************************************)
(* The files: every row finds its file                                     *)
(***************************************************************************)

(* No two rows name one file; a row's file is stored, or it was exposed.   *)
SlotsInv ==
    /\ \A d \in DocTypes :
         slots[d] <= written /\ slots[d] \in stored \cup exposed \cup {0}
    /\ \A d, e \in DocTypes : d # e /\ slots[d] # 0 => slots[d] # slots[e]
    /\ stored \subseteq 1..written

(* The file an upload is about to name is its own, and there.  The one it  *)
(* rolls back has no row unless its upload failed after the transaction;   *)
(* the one it has replaced has none.                                       *)
UploadsInv ==
    /\ \A c \in Calls :
         /\ upload[c].file <= written /\ upload[c].replaced <= written
         /\ upload[c].pc = "persist" => upload[c].file \in stored \cup exposed
         /\ \A d \in DocTypes :
              /\ upload[c].replaced # 0 => slots[d] # upload[c].replaced
              /\ upload[c].file # 0 /\ slots[d] = upload[c].file =>
                   upload[c].pc = "rollback" /\ upload[c].file \in exposed
    /\ \A c, v \in Calls : upload[c].file # 0 =>
         /\ c # v => upload[c].file # upload[v].file
         /\ upload[c].file = upload[v].replaced => upload[c].pc = "rollback"

(* What a sweep will delete has neither row nor upload, or it was exposed. *)
SweepInv ==
    /\ sweep.pc = "list" =>
         /\ \A d \in DocTypes : slots[d] \in sweep.files \cup exposed \cup {0}
         /\ \A c \in Calls : upload[c].file \in exposed \cup {0}
    /\ sweep.pc = "delete" =>
         /\ sweep.files \subseteq 1..written
         /\ \A d \in DocTypes : slots[d] \in sweep.files => slots[d] \in exposed
         /\ \A c \in Calls :
              upload[c].file \in sweep.files => upload[c].file \in exposed

(* Without a fault, somebody knows every file.                             *)
StoredInv ==
    faults = 0 =>
      \A f \in stored :
        \/ \E d \in DocTypes : slots[d] = f
        \/ \E c \in Calls : upload[c].file = f \/ upload[c].replaced = f

UploadInv == SlotsInv /\ UploadsInv /\ SweepInv /\ StoredInv

LEMMA UploadInvInit == Documents!Init => UploadInv
<1> SUFFICES ASSUME Documents!Init PROVE UploadInv
  OBVIOUS
<1>1. /\ \A d \in DocTypes : slots[d] = 0
      /\ \A c \in Calls : upload[c].pc = "idle" /\ upload[c].file = 0
                          /\ upload[c].replaced = 0
      /\ stored = {} /\ written = 0 /\ sweep.pc = "idle"
  BY DEF Documents!Init, Documents!Idle, Documents!NoSweep
<1> QED
  BY <1>1 DEF UploadInv, SlotsInv, UploadsInv, SweepInv, StoredInv

(* The numbers an upload holds.                                            *)
LEMMA UploadFacts ==
    ASSUME DocumentsAssumption, UploadType
    PROVE  /\ \A d \in DocTypes : slots[d] \in Nat
           /\ written \in Nat /\ faults \in Nat
           /\ slots = [d \in DocTypes |-> slots[d]]
           /\ upload = [c \in Calls |-> upload[c]]
           /\ \A c \in Calls :
                /\ upload[c] \in UploadStates
                /\ upload[c].file \in Nat /\ upload[c].replaced \in Nat
                /\ upload[c].file # 0 <=> upload[c].pc \in HoldsFile
                /\ upload[c].replaced # 0 <=> upload[c].pc = "replace"
<1>1. upload \in [Calls -> UploadStates] /\ slots \in [DocTypes -> 0..MaxFiles]
  BY DEF UploadType, Documents!TypeOK
<1>2. \A c \in Calls : upload[c] \in UploadStates
  BY <1>1
<1>3. \A u \in UploadStates :
        /\ u.file \in Nat /\ u.replaced \in Nat
        /\ u.file # 0 <=> u.pc \in HoldsFile
        /\ u.replaced # 0 <=> u.pc = "replace"
  BY DEF UploadStates, Documents!CallStates, DocumentsAssumption
<1>4. \A d \in DocTypes : slots[d] \in 0..MaxFiles
  BY <1>1
<1> QED
  BY <1>1, <1>2, <1>3, <1>4
  DEF UploadType, Documents!TypeOK, DocumentsAssumption

(* An upload ends: nothing but its own file and the one it replaced is     *)
(* forgotten.                                                              *)
LEMMA UploadEnds ==
    ASSUME DocumentsAssumption, UploadType, UploadInv, NEW c \in Calls,
           Documents!Leave(c), UNCHANGED <<slots, written, sweep, exposed>>,
           stored' \subseteq stored,
           \A f \in stored \ stored' :
             \/ f = upload[c].replaced
             \/ f = upload[c].file /\ upload[c].pc = "rollback",
           \/ faults' # 0
           \/ /\ faults' = faults
              /\ upload[c].file \notin stored'
              /\ upload[c].replaced \notin stored'
    PROVE  UploadInv'
<1>1. /\ upload'[c].pc = "idle" /\ upload'[c].file = 0
      /\ upload'[c].replaced = 0
      /\ \A v \in Calls : v # c => upload'[v] = upload[v]
  BY UploadFacts DEF Documents!Leave, Documents!Idle
<1>2. SlotsInv'
  BY UploadFacts DEF UploadInv, SlotsInv, UploadsInv
<1>3. UploadsInv'
  BY <1>1, UploadFacts DEF UploadInv, UploadsInv, HoldsFile
<1>4. SweepInv'
  BY <1>1, UploadFacts DEF UploadInv, SweepInv
<1>5. StoredInv'
  BY <1>1, UploadFacts DEF UploadInv, StoredInv
<1> QED
  BY <1>2, <1>3, <1>4, <1>5 DEF UploadInv

(* An upload moves on with its file.                                       *)
LEMMA UploadMoves ==
    ASSUME DocumentsAssumption, UploadType, UploadInv, NEW c \in Calls,
           NEW point \in {"persist", "rollback"},
           upload[c].pc \in {"confirm", "persist"},
           point = "persist" => upload[c].file \in stored,
           upload' = [upload EXCEPT ![c].pc = point],
           UNCHANGED <<slots, stored, written, sweep, exposed, faults>>
    PROVE  UploadInv'
<1>1. /\ upload'[c].pc = point /\ upload'[c].file = upload[c].file
      /\ upload'[c].replaced = upload[c].replaced
      /\ \A v \in Calls : v # c => upload'[v] = upload[v]
  <2>1. upload'[c] = [upload[c] EXCEPT !.pc = point]
    BY UploadFacts
  <2>2. \A u \in UploadStates :
          LET w == [u EXCEPT !.pc = point]
          IN  w.pc = point /\ w.file = u.file /\ w.replaced = u.replaced
    BY DEF UploadStates, Documents!CallStates
  <2> QED
    BY <2>1, <2>2, UploadFacts
<1>2. SlotsInv'
  BY DEF UploadInv, SlotsInv
<1>3. UploadsInv'
  BY <1>1, UploadFacts DEF UploadInv, UploadsInv, HoldsFile
<1>4. SweepInv'
  BY <1>1, UploadFacts DEF UploadInv, SweepInv
<1>5. StoredInv'
  BY <1>1, UploadFacts DEF UploadInv, StoredInv
<1> QED
  BY <1>2, <1>3, <1>4, <1>5 DEF UploadInv

LEMMA UploadPuts ==
    ASSUME DocumentsAssumption, UploadType, UploadInv, NEW c \in Calls,
           Documents!Put(c)
    PROVE  UploadInv'
<1>1. /\ written' = written + 1 /\ written' \in Nat
      /\ stored' = stored \cup {written'}
      /\ exposed \subseteq exposed'
      /\ sweep.pc = "list" => written' \in exposed'
      /\ UNCHANGED <<slots, sweep, faults>>
  BY UploadFacts DEF Documents!Put
<1>2. /\ upload'[c].pc = "confirm" /\ upload'[c].file = written'
      /\ upload'[c].replaced = 0
      /\ \A v \in Calls : v # c => upload'[v] = upload[v]
  BY UploadFacts DEF Documents!Put
<1>3. upload[c].file = 0 /\ upload[c].replaced = 0
  BY UploadFacts DEF Documents!Put, Documents!At, HoldsFile
<1>4. /\ \A d \in DocTypes : slots[d] < written'
      /\ \A v \in Calls : upload[v].file < written'
                          /\ upload[v].replaced < written'
      /\ written' \notin sweep.files \/ sweep.pc # "delete"
  BY <1>1, UploadFacts DEF UploadInv, SlotsInv, UploadsInv, SweepInv
<1>5. SlotsInv'
  BY <1>1, <1>4, UploadFacts DEF UploadInv, SlotsInv
<1>6. UploadsInv'
  BY <1>1, <1>2, <1>4, UploadFacts DEF UploadInv, UploadsInv
<1>7. SweepInv'
  BY <1>1, <1>2, <1>4, UploadFacts DEF UploadInv, SweepInv
<1>8. StoredInv'
  BY <1>1, <1>2, <1>3, <1>4, UploadFacts DEF UploadInv, StoredInv
<1> QED
  BY <1>5, <1>6, <1>7, <1>8 DEF UploadInv

(* The slot is taken, by an upload that ends, goes on to the file it       *)
(* replaced, or rolls back what it has just committed.                     *)
LEMMA UploadPersists ==
    ASSUME DocumentsAssumption, UploadType, UploadInv, NEW c \in Calls,
           NEW d \in DocTypes,
           Documents!Persist(c, d) \/ Documents!PersistThenFail(c, d)
    PROVE  UploadInv'
<1> DEFINE file == upload[c].file
           held == slots[d]
<1>1. /\ slots'[d] = file
      /\ \A e \in DocTypes : e # d => slots'[e] = slots[e]
      /\ exposed \subseteq exposed'
      /\ UNCHANGED <<stored, written, sweep>>
  BY UploadFacts DEF Documents!Persist, Documents!PersistThenFail
<1>2. /\ upload[c].pc = "persist" /\ file # 0 /\ upload[c].replaced = 0
      /\ file \in Nat /\ held \in Nat
  BY UploadFacts
  DEF Documents!Persist, Documents!PersistThenFail, Documents!At, HoldsFile
<1>3. \A v \in Calls : v # c => upload'[v] = upload[v]
  BY UploadFacts DEF Documents!Persist, Documents!PersistThenFail
<1>4. \/ /\ upload'[c].file = 0 /\ upload'[c].replaced = held
         /\ upload'[c].pc \in {"idle", "replace"} /\ faults' = faults
      \/ /\ upload'[c].file = file /\ upload'[c].replaced = 0
         /\ upload'[c].pc = "rollback" /\ file \in exposed'
         /\ faults' # 0
  <2>1. CASE Documents!Persist(c, d)
    BY <2>1, UploadFacts DEF Documents!Persist, Documents!Idle
  <2>2. CASE Documents!PersistThenFail(c, d)
    <3>1. upload'[c] = [upload[c] EXCEPT !.pc = "rollback"]
      BY <2>2, UploadFacts DEF Documents!PersistThenFail
    <3>2. \A u \in UploadStates :
            LET w == [u EXCEPT !.pc = "rollback"] IN
            w.pc = "rollback" /\ w.file = u.file /\ w.replaced = u.replaced
      BY DEF UploadStates, Documents!CallStates
    <3> QED
      BY <1>2, <2>2, <3>1, <3>2, UploadFacts DEF Documents!PersistThenFail
  <2> QED
    BY <2>1, <2>2
<1>5. /\ file <= written /\ file \in stored \cup exposed
      /\ \A e \in DocTypes : slots[e] # file
      /\ \A v \in Calls : v # c => upload[v].file # file
      /\ \A v \in Calls : upload[v].replaced # file
  BY <1>2, UploadFacts DEF UploadInv, UploadsInv
<1>6. held # 0 =>
        /\ \A e \in DocTypes : e # d => slots[e] # held
        /\ \A v \in Calls : upload[v].replaced # held
        /\ \A v \in Calls : upload[v].file = held =>
             upload[v].pc = "rollback" /\ held \in exposed
  BY <1>2, UploadFacts DEF UploadInv, SlotsInv, UploadsInv
<1>7. SlotsInv'
  BY <1>1, <1>2, <1>5, UploadFacts DEF UploadInv, SlotsInv
<1>8. UploadsInv'
  <2>1. ASSUME NEW v \in Calls
        PROVE  /\ upload'[v].file <= written
               /\ upload'[v].replaced <= written
               /\ upload'[v].pc = "persist" =>
                    upload'[v].file \in stored \cup exposed'
    BY <1>1, <1>2, <1>3, <1>4, <1>5, UploadFacts
    DEF UploadInv, SlotsInv, UploadsInv
  <2>2. ASSUME NEW v \in Calls, NEW e \in DocTypes
        PROVE  /\ upload'[v].replaced # 0 => slots'[e] # upload'[v].replaced
               /\ upload'[v].file # 0 /\ slots'[e] = upload'[v].file =>
                    upload'[v].pc = "rollback" /\ upload'[v].file \in exposed'
    <3>1. CASE v = c
      BY <1>1, <1>2, <1>4, <1>5, <1>6, <3>1
    <3>2. CASE v # c
      BY <1>1, <1>2, <1>3, <1>5, <3>2, UploadFacts DEF UploadInv, UploadsInv
    <3> QED
      BY <3>1, <3>2
  <2>3. ASSUME NEW u \in Calls, NEW v \in Calls, upload'[u].file # 0
        PROVE  /\ u # v => upload'[u].file # upload'[v].file
               /\ upload'[u].file = upload'[v].replaced =>
                    upload'[u].pc = "rollback"
    BY <1>2, <1>3, <1>4, <1>5, <1>6, <2>3, UploadFacts
    DEF UploadInv, UploadsInv
  <2> QED
    BY <1>1, <2>1, <2>2, <2>3 DEF UploadsInv
<1>9. SweepInv'
  BY <1>1, <1>2, <1>3, <1>4, UploadFacts DEF UploadInv, SweepInv
<1>10. StoredInv'
  <2>1. SUFFICES ASSUME faults' = 0, NEW f \in stored
                 PROVE  \/ \E e \in DocTypes : slots'[e] = f
                        \/ \E v \in Calls : \/ upload'[v].file = f
                                            \/ upload'[v].replaced = f
    BY <1>1 DEF StoredInv
  <2>2. \/ \E e \in DocTypes : slots[e] = f
        \/ \E v \in Calls : upload[v].file = f \/ upload[v].replaced = f
    BY <1>4, <2>1 DEF UploadInv, StoredInv
  <2>3. f # 0
    BY UploadFacts DEF UploadInv, SlotsInv
  <2> QED
    BY <1>1, <1>2, <1>3, <1>4, <2>1, <2>2, <2>3
<1> QED
  BY <1>7, <1>8, <1>9, <1>10 DEF UploadInv

LEMMA UploadSweeps ==
    ASSUME DocumentsAssumption, UploadType, UploadInv,
           \/ Documents!SweepRows \/ Documents!SweepFiles
           \/ Documents!SweepDelete
    PROVE  UploadInv'
<1>1. UNCHANGED <<slots, written, upload, faults>> /\ exposed \subseteq exposed'
  BY DEF Documents!SweepRows, Documents!SweepFiles, Documents!SweepDelete
<1>2. CASE Documents!SweepRows
  <2>1. /\ sweep'.pc = "list" /\ sweep'.files = Documents!Referenced
        /\ \A c \in Calls : upload[c].file \in exposed' \cup {0}
        /\ stored' = stored
    BY <1>2 DEF Documents!SweepRows
  <2>2. \A d \in DocTypes : slots[d] \in Documents!Referenced
    BY DEF Documents!Referenced
  <2> QED
    BY <1>1, <2>1, <2>2
    DEF UploadInv, SlotsInv, UploadsInv, SweepInv, StoredInv
<1>3. CASE Documents!SweepFiles
  <2>1. /\ sweep.pc = "list" /\ sweep'.pc = "delete"
        /\ sweep'.files = stored \ sweep.files
        /\ exposed' = exposed /\ stored' = stored
    BY <1>3 DEF Documents!SweepFiles
  <2>2. SweepInv'
    BY <1>1, <2>1, UploadFacts DEF UploadInv, SlotsInv, SweepInv
  <2> QED
    BY <1>1, <2>1, <2>2 DEF UploadInv, SlotsInv, UploadsInv, StoredInv
<1>4. CASE Documents!SweepDelete
  <2>1. CASE sweep.files = {}
    BY <1>1, <1>4, <2>1
    DEF Documents!SweepDelete, Documents!NoSweep, UploadInv, SlotsInv,
        UploadsInv, SweepInv, StoredInv
  <2>2. CASE sweep.files # {}
    <3>1. PICK f \in sweep.files :
            /\ stored' = stored \ {f}
            /\ sweep' = [sweep EXCEPT !.files = @ \ {f}]
      BY <1>4, <2>2 DEF Documents!SweepDelete
    <3>2. sweep.pc = "delete" /\ exposed' = exposed
      BY <1>4 DEF Documents!SweepDelete
    <3>3. sweep'.pc = "delete" /\ sweep'.files = sweep.files \ {f}
      BY <3>1, <3>2 DEF UploadType
    <3>4. /\ \A d \in DocTypes : slots[d] = f => slots[d] \in exposed
          /\ \A c \in Calls : upload[c].file = f => f \in exposed
      BY <3>2 DEF UploadInv, SweepInv
    <3>5. SlotsInv' /\ UploadsInv'
      BY <1>1, <3>1, <3>2, <3>4 DEF UploadInv, SlotsInv, UploadsInv
    <3>6. SweepInv' /\ StoredInv'
      BY <1>1, <3>1, <3>2, <3>3 DEF UploadInv, SweepInv, StoredInv
    <3> QED
      BY <3>5, <3>6 DEF UploadInv
  <2> QED
    BY <2>1, <2>2
<1> QED
  BY <1>2, <1>3, <1>4

LEMMA UploadInvStep ==
    ASSUME DocumentsAssumption, UploadType, UploadInv,
           [Documents!Next]_(Documents!vars)
    PROVE  UploadInv'
<1>1. CASE UNCHANGED Documents!vars
  BY <1>1
  DEF Documents!vars, UploadInv, SlotsInv, UploadsInv, SweepInv, StoredInv
<1>2. ASSUME NEW c \in Calls, Documents!Confirm(c) PROVE UploadInv'
  <2>1. CASE upload[c].file \in stored
    BY <1>2, <2>1, UploadMoves DEF Documents!Confirm, Documents!At
  <2>2. CASE upload[c].file \notin stored
    <3>1. upload[c].replaced = 0 /\ 0 \notin stored
      BY <1>2, UploadFacts
      DEF Documents!Confirm, Documents!At, UploadInv, SlotsInv
    <3> QED
      BY <1>2, <2>2, <3>1, UploadEnds DEF Documents!Confirm
  <2> QED
    BY <2>1, <2>2
<1>3. ASSUME NEW c \in Calls, Documents!Refuse(c) PROVE UploadInv'
  BY <1>3, UploadMoves DEF Documents!Refuse, Documents!At
<1>4. ASSUME NEW c \in Calls,
             Documents!Rollback(c) \/ Documents!DeleteReplaced(c)
      PROVE  UploadInv'
  <2>1. PICK f : /\ Documents!Remove(c, f)
                 /\ \/ /\ upload[c].pc = "rollback" /\ f = upload[c].file
                       /\ upload[c].replaced = 0
                    \/ /\ upload[c].pc = "replace" /\ f = upload[c].replaced
                       /\ upload[c].file = 0
    BY <1>4, UploadFacts
    DEF Documents!Rollback, Documents!DeleteReplaced, Documents!At, HoldsFile
  <2>2. 0 \notin stored
    BY DEF UploadInv, SlotsInv
  <2>3. CASE stored' = stored \ {f} /\ UNCHANGED faults
    BY <2>1, <2>2, <2>3, UploadEnds DEF Documents!Remove
  <2>4. CASE UNCHANGED stored /\ faults' = faults + 1
    <3>1. faults' # 0
      BY <2>4, UploadFacts
    <3> QED
      BY <2>1, <2>4, <3>1, UploadEnds DEF Documents!Remove
  <2> QED
    BY <2>1, <2>3, <2>4 DEF Documents!Remove
<1>5. ASSUME NEW c \in Calls, Documents!Lose(c) PROVE UploadInv'
  <2>1. faults' # 0
    BY <1>5, UploadFacts DEF Documents!Lose
  <2> QED
    BY <1>5, <2>1, UploadEnds DEF Documents!Lose
<1> QED
  BY <1>1, <1>2, <1>3, <1>4, <1>5, UploadPuts, UploadPersists, UploadSweeps
  DEF Documents!Next

(* A received document can be downloaded whatever uploads and sweeps       *)
(* cross, unless it was uploaded during a sweep or its upload failed after *)
(* its transaction; and without a fault every file left has its row.       *)
THEOREM FilesHaveRows ==
    ASSUME DocumentsAssumption
    PROVE  Documents!Spec => [](Documents!TypeOK /\ Documents!FilesMatchRows)
<1> DEFINE Inv == UploadType /\ UploadInv
<1>1. Documents!Init => Inv
  BY UploadTypeInit, UploadInvInit
<1>2. Inv /\ [Documents!Next]_(Documents!vars) => Inv'
  BY UploadTypeStep, UploadInvStep
<1>3. Inv => Documents!TypeOK
  BY DEF UploadType
<1>4. Inv => Documents!FilesMatchRows
  <2> SUFFICES ASSUME UploadType, UploadInv PROVE Documents!FilesMatchRows
    OBVIOUS
  <2>1. \A d \in DocTypes : slots[d] \in stored \cup exposed \cup {0}
    BY DEF UploadInv, SlotsInv
  <2>2. ASSUME faults = 0, \A c \in Calls : Documents!At(c, "idle"),
               NEW f \in stored
        PROVE  f \in Documents!Referenced
    <3>1. \A c \in Calls : upload[c].file = 0 /\ upload[c].replaced = 0
      BY <2>2, UploadFacts DEF Documents!At, HoldsFile
    <3>2. f # 0
      BY DEF UploadInv, SlotsInv
    <3>3. PICK d \in DocTypes : slots[d] = f
      BY <2>2, <3>1, <3>2 DEF UploadInv, StoredInv
    <3> QED
      BY <3>3 DEF Documents!Referenced
  <2> QED
    BY <2>1, <2>2 DEF Documents!FilesMatchRows
<1> HIDE DEF Inv
<1> QED
  BY <1>1, <1>2, <1>3, <1>4, PTL DEF Documents!Spec

(***************************************************************************)
(* The invitations: type correctness                                       *)
(***************************************************************************)
OutreachAssumption ==
    IsFiniteSet(Candidates) /\ MaxMails \in Nat /\ MaxFaults \in Nat

(* The instance names the operator of its own FiniteSets.                  *)
LEMMA OutreachCardinality == \A S : Outreach!Cardinality(S) = Cardinality(S)
BY DEF Outreach!Cardinality, Cardinality

LEMMA QueuedIsCounted ==
    ASSUME OutreachAssumption
    PROVE  /\ Cardinality(Candidates) \in Nat
           /\ Cardinality(Outreach!Queued) \in 0..Cardinality(Candidates)
<1>1. Outreach!Queued \in SUBSET Candidates
  BY DEF Outreach!Queued
<1>2. /\ Cardinality(Candidates) \in Nat
      /\ IsFiniteSet(Outreach!Queued)
      /\ Cardinality(Outreach!Queued) <= Cardinality(Candidates)
  BY <1>1, FS_Subset, FS_CardinalityType DEF OutreachAssumption
<1>3. Cardinality(Outreach!Queued) \in Nat
  BY <1>2, FS_CardinalityType
<1> QED
  BY <1>2, <1>3

LEMMA OutreachTypeInit ==
    ASSUME OutreachAssumption, Outreach!Init PROVE Outreach!TypeOK
<1>1. Outreach!Idle \in Outreach!CallStates
  BY QueuedIsCounted, OutreachCardinality DEF Outreach!Idle, Outreach!CallStates
<1>2. Cardinality(Candidates) \in Nat
  BY QueuedIsCounted
<1> QED
  BY <1>1, <1>2, OutreachCardinality
  DEF Outreach!Init, Outreach!TypeOK, Outreach!Statuses, OutreachAssumption

LEMMA OutreachTypeStep ==
    ASSUME OutreachAssumption, Outreach!TypeOK,
           [Outreach!Next]_(Outreach!vars)
    PROVE  Outreach!TypeOK'
<1>a. /\ order \in [Candidates -> 0..2 * Cardinality(Candidates)]
      /\ invitation \in [Candidates -> Outreach!Statuses]
      /\ mails \in [Candidates -> 0..MaxMails]
      /\ crossed \subseteq Candidates
      /\ sending \in [Calls -> Outreach!CallStates]
      /\ lost \in 0..MaxFaults
      /\ MaxMails \in Nat /\ MaxFaults \in Nat
      /\ Cardinality(Candidates) \in Nat
  BY QueuedIsCounted, OutreachCardinality
  DEF Outreach!TypeOK, OutreachAssumption
<1>b. ASSUME NEW c \in Calls, Outreach!Leave(c)
      PROVE  sending' \in [Calls -> Outreach!CallStates]
  <2>1. Outreach!Idle \in Outreach!CallStates
    BY <1>a, OutreachCardinality DEF Outreach!Idle, Outreach!CallStates
  <2> QED
    BY <1>a, <1>b, <2>1 DEF Outreach!Leave
<1>c. ASSUME NEW c \in Calls, NEW point \in {"queue", "send", "skip"},
             NEW some \in SUBSET Candidates, Outreach!Take(c, point, some)
      PROVE  Outreach!TypeOK'
  <2>1. [pc |-> point, who |-> some,
         count |-> Cardinality(Outreach!Queued)]
          \in Outreach!CallStates
    BY QueuedIsCounted, OutreachCardinality DEF Outreach!CallStates
  <2>2. sending' \in [Calls -> Outreach!CallStates]
    BY <1>a, <1>c, <2>1, OutreachCardinality DEF Outreach!Take
  <2> QED
    BY <1>a, <1>c, <2>2 DEF Outreach!Take, Outreach!TypeOK
<1>1. CASE UNCHANGED Outreach!vars
  BY <1>1, <1>a DEF Outreach!vars, Outreach!TypeOK
<1>2. ASSUME NEW c \in Calls, NEW some \in SUBSET Candidates,
             Outreach!CountRows(c, some)
      PROVE  Outreach!TypeOK'
  BY <1>2, <1>c DEF Outreach!CountRows
<1>3. ASSUME NEW c \in Calls, Outreach!Queue(c) PROVE Outreach!TypeOK'
  <2>1. sending[c].who \subseteq Candidates
    BY <1>a DEF Outreach!CallStates
  <2>2. order' \in [Candidates -> 0..2 * Cardinality(Candidates)]
    BY <1>3, <1>a, OutreachCardinality DEF Outreach!Queue
  <2>3. invitation' \in [Candidates -> Outreach!Statuses]
    BY <1>3, <1>a DEF Outreach!Queue, Outreach!Statuses
  <2>4. crossed' \subseteq Candidates
    BY <1>3, <1>a, <2>1 DEF Outreach!Queue
  <2> QED
    BY <1>3, <1>a, <1>b, <2>2, <2>3, <2>4
    DEF Outreach!Queue, Outreach!TypeOK
<1>4. ASSUME NEW c \in Calls, NEW a \in Candidates,
             Outreach!BeginSend(c, a) \/ Outreach!BeginSkip(c, a)
      PROVE  Outreach!TypeOK'
  BY <1>4, <1>c DEF Outreach!BeginSend, Outreach!BeginSkip
<1>5. ASSUME NEW c \in Calls, NEW a \in Candidates, Outreach!SendEmail(c, a)
      PROVE  Outreach!TypeOK'
  <2>1. mails' \in [Candidates -> 0..MaxMails]
    BY <1>5, <1>a DEF Outreach!SendEmail
  <2>2. [sending[c] EXCEPT !.pc = "sent"] \in Outreach!CallStates
    BY <1>a DEF Outreach!CallStates
  <2>3. sending' \in [Calls -> Outreach!CallStates]
    BY <1>5, <1>a, <2>2 DEF Outreach!SendEmail
  <2> QED
    BY <1>5, <1>a, <2>1, <2>3 DEF Outreach!SendEmail, Outreach!TypeOK
<1>6. ASSUME NEW c \in Calls, NEW a \in Candidates,
             \/ Outreach!SendFails(c, a) \/ Outreach!RecordSent(c, a)
             \/ Outreach!Skip(c, a)
      PROVE  Outreach!TypeOK'
  <2>1. PICK to \in {"failed", "sent", "skipped"} :
          invitation' = [invitation EXCEPT ![a] = to]
    BY <1>6 DEF Outreach!SendFails, Outreach!RecordSent, Outreach!Skip
  <2>2. invitation' \in [Candidates -> Outreach!Statuses]
    BY <1>a, <2>1 DEF Outreach!Statuses
  <2> QED
    BY <1>6, <1>a, <1>b, <2>2
    DEF Outreach!SendFails, Outreach!RecordSent, Outreach!Skip,
        Outreach!TypeOK
<1>7. ASSUME NEW c \in Calls, Outreach!Lose(c) PROVE Outreach!TypeOK'
  BY <1>7, <1>a, <1>b DEF Outreach!Lose, Outreach!TypeOK
<1> QED
  BY <1>1, <1>2, <1>3, <1>4, <1>5, <1>6, <1>7 DEF Outreach!Next

(***************************************************************************)
(* The invitations: one mail each, in queue order                          *)
(***************************************************************************)
Rows == Cardinality(Outreach!Queued)
Sending(c, a) == sending[c].pc \in {"send", "sent"} /\ a \in sending[c].who

(* The rows are numbered up to their count, and what precedes its row does *)
(* not exist.                                                              *)
RowsInv ==
    \A a \in Candidates :
      /\ order[a] <= Rows
      /\ order[a] = 0 <=> invitation[a] = "none"
      /\ order[a] = 0 => mails[a] = 0

(* A request has counted no more rows than there are; one about a candidate*)
(* is about one, who has a row.                                            *)
RequestsInv ==
    \A c \in Calls :
      /\ sending[c].count <= Rows
      /\ sending[c].pc = "idle" => sending[c].who = {}
      /\ sending[c].pc \in {"send", "sent", "skip"} =>
           /\ \A a, b \in sending[c].who : a = b
           /\ \A a \in sending[c].who : order[a] # 0

(* A candidate nobody crossed: one request has him, his row is what that   *)
(* request read, and his mails are accounted for.                          *)
AloneInv ==
    \A a \in Candidates \ crossed :
      /\ \A c, v \in Calls :
           a \in sending[c].who /\ a \in sending[v].who => c = v
      /\ \A c \in Calls : Sending(c, a) => invitation[a] \in {"queued", "failed"}
      /\ mails[a] <= 1 + lost
      /\ /\ invitation[a] \in {"queued", "failed"}
         /\ \A c \in Calls : sending[c].pc = "sent" => a \notin sending[c].who
         => mails[a] <= lost

(* Whoever is mailed, or about to be, those before him are done.           *)
OrderInv ==
    \A a, b \in Candidates \ crossed :
      /\ order[a] # 0 /\ order[a] < order[b]
      /\ mails[b] > 0 \/ \E c \in Calls : Sending(c, b)
      => invitation[a] \in {"sent", "skipped"}

OutreachInv == RowsInv /\ RequestsInv /\ AloneInv /\ OrderInv

LEMMA OutreachInvInit ==
    ASSUME OutreachAssumption, Outreach!Init PROVE OutreachInv
<1>1. /\ \A a \in Candidates :
           order[a] = 0 /\ invitation[a] = "none" /\ mails[a] = 0
      /\ \A c \in Calls : sending[c].pc = "idle" /\ sending[c].who = {}
                          /\ sending[c].count = 0
      /\ lost = 0
  BY DEF Outreach!Init, Outreach!Idle
<1>2. Rows \in Nat
  BY QueuedIsCounted DEF Rows
<1> QED
  BY <1>1, <1>2
  DEF OutreachInv, RowsInv, RequestsInv, AloneInv, OrderInv, Sending

LEMMA OutreachFacts ==
    ASSUME OutreachAssumption, Outreach!TypeOK
    PROVE  /\ Rows \in Nat /\ lost \in Nat
           /\ order = [a \in Candidates |-> order[a]]
           /\ invitation = [a \in Candidates |-> invitation[a]]
           /\ mails = [a \in Candidates |-> mails[a]]
           /\ sending = [c \in Calls |-> sending[c]]
           /\ \A a \in Candidates : order[a] \in Nat /\ mails[a] \in Nat
           /\ \A a \in Candidates : invitation[a] \in Outreach!Statuses
           /\ \A c \in Calls : /\ sending[c] \in Outreach!CallStates
                               /\ sending[c].who \subseteq Candidates
                               /\ sending[c].count \in Nat
<1>1. Cardinality(Candidates) \in Nat /\ Rows \in Nat
  BY QueuedIsCounted DEF Rows
<1>2. \A c \in Calls : sending[c] \in Outreach!CallStates
  BY DEF Outreach!TypeOK
<1>3. \A s \in Outreach!CallStates : s.who \subseteq Candidates /\ s.count \in Nat
  BY <1>1 DEF Outreach!CallStates
<1>4. \A a \in Candidates : order[a] \in Nat /\ mails[a] \in Nat
  BY <1>1 DEF Outreach!TypeOK, OutreachAssumption
<1> QED
  BY <1>1, <1>2, <1>3, <1>4 DEF Outreach!TypeOK, OutreachAssumption

(* A request takes candidates in hand; for a mail, the first not done.     *)
LEMMA OutreachTakes ==
    ASSUME OutreachAssumption, Outreach!TypeOK, OutreachInv,
           NEW c \in Calls, NEW point \in {"queue", "send", "skip"},
           NEW some \in SUBSET Candidates, Outreach!Take(c, point, some),
           point # "queue" => \E a \in Outreach!Queued : some = {a},
           point = "send" => \A a \in some : Outreach!NextSendable(a)
    PROVE  OutreachInv'
<1>1. /\ sending'[c].pc = point /\ sending'[c].who = some
      /\ sending'[c].count = Rows
      /\ \A v \in Calls : v # c => sending'[v] = sending[v]
      /\ sending[c].pc = "idle" /\ sending[c].who = {}
      /\ UNCHANGED <<order, invitation, mails, lost>>
  BY OutreachFacts, OutreachCardinality
  DEF Outreach!Take, Outreach!At, Rows, OutreachInv, RequestsInv
<1>2. Rows' = Rows
  BY <1>1 DEF Rows, Outreach!Queued
<1>3. /\ crossed \subseteq crossed'
      /\ \A a \in some \ crossed', v \in Calls : a \notin sending[v].who
  BY DEF Outreach!Take, Outreach!InHand
<1>4. RowsInv'
  BY <1>1, <1>2 DEF OutreachInv, RowsInv
<1>5. RequestsInv'
  <2>1. ASSUME NEW v \in Calls
        PROVE  /\ sending'[v].count <= Rows
               /\ sending'[v].pc = "idle" => sending'[v].who = {}
               /\ sending'[v].pc \in {"send", "sent", "skip"} =>
                    /\ \A a, b \in sending'[v].who : a = b
                    /\ \A a \in sending'[v].who : order[a] # 0
    <3>1. CASE v = c
      <4>1. point # "queue" =>
              (\A a, b \in some : a = b) /\ (\A a \in some : order[a] # 0)
        BY DEF Outreach!Queued
      <4> QED
        BY <1>1, <3>1, <4>1, OutreachFacts
    <3>2. CASE v # c
      BY <1>1, <3>2 DEF OutreachInv, RequestsInv
    <3> QED
      BY <3>1, <3>2
  <2> QED
    BY <1>1, <1>2, <2>1 DEF RequestsInv
<1>6. ASSUME NEW a \in Candidates \ crossed', Sending(c, a)'
      PROVE  /\ a \in Outreach!Queued /\ invitation[a] \in {"queued", "failed"}
             /\ \A b \in Outreach!Queued :
                  invitation[b] \in {"queued", "failed"} => order[a] <= order[b]
  <2>1. point = "send" /\ a \in some
    BY <1>1, <1>6 DEF Sending
  <2> QED
    BY <2>1 DEF Outreach!NextSendable, Outreach!FirstOf
<1>7. AloneInv'
  <2>1. ASSUME NEW a \in Candidates \ crossed'
        PROVE  /\ \A u, v \in Calls :
                    a \in sending'[u].who /\ a \in sending'[v].who => u = v
               /\ \A v \in Calls :
                    Sending(v, a)' => invitation[a] \in {"queued", "failed"}
               /\ mails[a] <= 1 + lost
               /\ /\ invitation[a] \in {"queued", "failed"}
                  /\ \A v \in Calls :
                       sending'[v].pc = "sent" => a \notin sending'[v].who
                  => mails[a] <= lost
    <3>1. a \in Candidates \ crossed
      BY <1>3
    <3>2. \A u, v \in Calls :
            a \in sending'[u].who /\ a \in sending'[v].who => u = v
      BY <1>1, <1>3, <3>1 DEF OutreachInv, AloneInv
    <3>3. ASSUME NEW v \in Calls, Sending(v, a)'
          PROVE  invitation[a] \in {"queued", "failed"}
      <4>1. CASE v = c
        BY <1>6, <3>3, <4>1
      <4>2. CASE v # c
        BY <1>1, <3>1, <3>3, <4>2 DEF OutreachInv, AloneInv, Sending
      <4> QED
        BY <4>1, <4>2
    <3>4. ASSUME invitation[a] \in {"queued", "failed"},
                 \A v \in Calls :
                   sending'[v].pc = "sent" => a \notin sending'[v].who
          PROVE  mails[a] <= lost
      <4>1. \A v \in Calls : sending[v].pc = "sent" => a \notin sending[v].who
        BY <1>1, <3>4
      <4> QED
        BY <3>1, <3>4, <4>1 DEF OutreachInv, AloneInv
    <3> QED
      BY <3>1, <3>2, <3>3, <3>4 DEF OutreachInv, AloneInv
  <2> QED
    BY <1>1, <2>1 DEF AloneInv
<1>8. OrderInv'
  <2>1. ASSUME NEW a \in Candidates \ crossed', NEW b \in Candidates \ crossed',
               order[a] # 0, order[a] < order[b],
               mails[b] > 0 \/ \E v \in Calls : Sending(v, b)'
        PROVE  invitation[a] \in {"sent", "skipped"}
    <3>1. a \in Candidates \ crossed /\ b \in Candidates \ crossed
      BY <1>3
    <3>2. CASE Sending(c, b)'
      <4>1. invitation[a] \notin {"queued", "failed"}
        BY <1>6, <2>1, <3>2, OutreachFacts DEF Outreach!Queued
      <4>2. invitation[a] # "none"
        BY <2>1 DEF OutreachInv, RowsInv
      <4> QED
        BY <4>1, <4>2, OutreachFacts DEF Outreach!Statuses
    <3>3. CASE ~Sending(c, b)'
      <4>1. mails[b] > 0 \/ \E v \in Calls : Sending(v, b)
        BY <1>1, <2>1, <3>3 DEF Sending
      <4> QED
        BY <2>1, <3>1, <4>1 DEF OutreachInv, OrderInv
    <3> QED
      BY <3>2, <3>3
  <2> QED
    BY <1>1, <2>1 DEF OrderInv
<1> QED
  BY <1>4, <1>5, <1>7, <1>8 DEF OutreachInv

(* A request lets go, the row of its candidate settled or a call lost.     *)
LEMMA OutreachLeaves ==
    ASSUME OutreachAssumption, Outreach!TypeOK, OutreachInv,
           NEW c \in Calls, Outreach!Leave(c),
           UNCHANGED <<order, mails, crossed>>,
           \/ lost' = lost + 1 /\ UNCHANGED invitation
           \/ /\ lost' = lost /\ UNCHANGED invitation
              /\ sending[c].pc \in {"queue", "send", "skip"}
           \/ /\ lost' = lost
              /\ sending[c].pc \in {"send", "sent", "skip"}
              /\ \E a \in sending[c].who, to \in {"failed", "sent", "skipped"} :
                   /\ invitation' = [invitation EXCEPT ![a] = to]
                   /\ to = "failed" => sending[c].pc = "send"
    PROVE  OutreachInv'
<1>1. /\ sending'[c].pc = "idle" /\ sending'[c].who = {}
      /\ sending'[c].count = 0
      /\ \A v \in Calls : v # c => sending'[v] = sending[v]
  BY OutreachFacts DEF Outreach!Leave, Outreach!Idle
<1>2. Rows' = Rows
  BY DEF Rows, Outreach!Queued
<1>3. ASSUME NEW a \in Candidates, invitation'[a] # invitation[a]
      PROVE  /\ a \in sending[c].who /\ order[a] # 0 /\ lost' = lost
             /\ sending[c].pc \in {"send", "sent", "skip"}
             /\ \A b \in sending[c].who : b = a
             /\ \/ invitation'[a] \in {"sent", "skipped"}
                \/ invitation'[a] = "failed" /\ sending[c].pc = "send"
  <2>1. PICK b \in sending[c].who, to \in {"failed", "sent", "skipped"} :
          /\ invitation' = [invitation EXCEPT ![b] = to]
          /\ to = "failed" => sending[c].pc = "send"
          /\ lost' = lost /\ sending[c].pc \in {"send", "sent", "skip"}
    BY <1>3
  <2>2. a = b /\ invitation'[a] = to
    BY <1>3, <2>1, OutreachFacts
  <2> QED
    BY <2>1, <2>2 DEF OutreachInv, RequestsInv
<1>4. RowsInv'
  BY <1>2, <1>3 DEF OutreachInv, RowsInv
<1>5. RequestsInv'
  BY <1>1, <1>2, OutreachFacts DEF OutreachInv, RequestsInv
<1>6. lost' \in Nat /\ lost <= lost'
  BY OutreachFacts
<1>7. ASSUME NEW a \in Candidates \ crossed, NEW v \in Calls, Sending(v, a)'
      PROVE  /\ v # c /\ Sending(v, a) /\ invitation'[a] = invitation[a]
             /\ invitation[a] \in {"queued", "failed"}
  <2>1. v # c /\ Sending(v, a)
    BY <1>1, <1>7 DEF Sending
  <2>2. a \notin sending[c].who
    BY <2>1 DEF OutreachInv, AloneInv, Sending
  <2> QED
    BY <1>3, <2>1, <2>2 DEF OutreachInv, AloneInv
<1>8. AloneInv'
  <2>1. ASSUME NEW a \in Candidates \ crossed
        PROVE  /\ \A u, v \in Calls :
                    a \in sending'[u].who /\ a \in sending'[v].who => u = v
               /\ mails[a] <= 1 + lost'
    BY <1>1, <1>6, OutreachFacts DEF OutreachInv, AloneInv
  <2>2. ASSUME NEW a \in Candidates \ crossed,
               invitation'[a] \in {"queued", "failed"},
               \A v \in Calls :
                 sending'[v].pc = "sent" => a \notin sending'[v].who
        PROVE  mails[a] <= lost'
    <3>1. CASE lost' = lost + 1
      BY <3>1, OutreachFacts DEF OutreachInv, AloneInv
    <3>2. CASE lost' = lost
      <4>1. ASSUME NEW v \in Calls, sending[v].pc = "sent",
                   a \in sending[v].who
            PROVE  FALSE
        <5>1. v = c
          BY <1>1, <2>2, <4>1
        <5>2. PICK b \in sending[c].who, to \in {"sent", "skipped"} :
                invitation' = [invitation EXCEPT ![b] = to]
          BY <3>2, <4>1, <5>1, OutreachFacts
        <5>3. b = a
          BY <4>1, <5>1 DEF OutreachInv, RequestsInv
        <5> QED
          BY <2>2, <5>2, <5>3, OutreachFacts
      <4>2. invitation[a] \in {"queued", "failed"}
        <5>1. CASE invitation'[a] = invitation[a]
          BY <2>2, <5>1
        <5>2. CASE invitation'[a] # invitation[a]
          BY <1>3, <2>2, <5>2 DEF OutreachInv, AloneInv, Sending
        <5> QED
          BY <5>1, <5>2
      <4> QED
        BY <3>2, <4>1, <4>2 DEF OutreachInv, AloneInv
    <3> QED
      BY <3>1, <3>2
  <2>3. ASSUME NEW a \in Candidates \ crossed, NEW v \in Calls, Sending(v, a)'
        PROVE  invitation'[a] \in {"queued", "failed"}
    BY <1>7, <2>3
  <2> QED
    BY <2>1, <2>2, <2>3 DEF AloneInv
<1>9. OrderInv'
  <2>1. ASSUME NEW a \in Candidates \ crossed, NEW b \in Candidates \ crossed,
               order[a] # 0, order[a] < order[b],
               mails[b] > 0 \/ \E v \in Calls : Sending(v, b)'
        PROVE  invitation'[a] \in {"sent", "skipped"}
    <3>1. invitation[a] \in {"sent", "skipped"}
      BY <1>7, <2>1 DEF OutreachInv, OrderInv
    <3>2. CASE invitation'[a] # invitation[a]
      BY <1>3, <3>1, <3>2 DEF OutreachInv, AloneInv, Sending
    <3> QED
      BY <3>1, <3>2
  <2> QED
    BY <2>1 DEF OrderInv
<1> QED
  BY <1>4, <1>5, <1>8, <1>9 DEF OutreachInv

(* The mail is accepted: its candidate, if nobody crossed him, had not yet *)
(* been mailed but for a lost call.                                        *)
LEMMA OutreachMails ==
    ASSUME OutreachAssumption, Outreach!TypeOK, OutreachInv,
           NEW c \in Calls, NEW a \in Candidates, Outreach!SendEmail(c, a)
    PROVE  OutreachInv'
<1>1. /\ sending[c].pc = "send" /\ a \in sending[c].who
      /\ mails'[a] = mails[a] + 1
      /\ \A b \in Candidates : b # a => mails'[b] = mails[b]
      /\ UNCHANGED <<order, invitation, crossed, lost>>
  BY OutreachFacts DEF Outreach!SendEmail, Outreach!At
<1>2. /\ sending'[c].pc = "sent" /\ sending'[c].who = sending[c].who
      /\ sending'[c].count = sending[c].count
      /\ \A v \in Calls : v # c => sending'[v] = sending[v]
  <2>1. sending'[c] = [sending[c] EXCEPT !.pc = "sent"]
    BY OutreachFacts DEF Outreach!SendEmail
  <2>2. \A s \in Outreach!CallStates :
          LET t == [s EXCEPT !.pc = "sent"]
          IN  t.pc = "sent" /\ t.who = s.who /\ t.count = s.count
    BY DEF Outreach!CallStates
  <2> QED
    BY <2>1, <2>2, OutreachFacts DEF Outreach!SendEmail
<1>3. Rows' = Rows
  BY <1>1 DEF Rows, Outreach!Queued
<1>4. /\ \A b \in sending[c].who : b = a
      /\ order[a] # 0
  BY <1>1 DEF OutreachInv, RequestsInv
<1>5. \A v \in Calls, b \in Candidates : Sending(v, b)' <=> Sending(v, b)
  BY <1>1, <1>2 DEF Sending
<1>6. RowsInv' /\ RequestsInv'
  BY <1>1, <1>2, <1>3, <1>4 DEF OutreachInv, RowsInv, RequestsInv
<1>7. AloneInv'
  <2>1. ASSUME NEW b \in Candidates \ crossed
        PROVE  \A u, v \in Calls :
                 b \in sending'[u].who /\ b \in sending'[v].who => u = v
    BY <1>2 DEF OutreachInv, AloneInv
  <2>2. ASSUME a \in Candidates \ crossed PROVE mails[a] <= lost
    <3>1. invitation[a] \in {"queued", "failed"}
      BY <1>1, <2>2 DEF OutreachInv, AloneInv, Sending
    <3>2. \A v \in Calls : sending[v].pc = "sent" => a \notin sending[v].who
      BY <1>1, <2>2 DEF OutreachInv, AloneInv
    <3> QED
      BY <2>2, <3>1, <3>2 DEF OutreachInv, AloneInv
  <2>3. ASSUME NEW b \in Candidates \ crossed
        PROVE  /\ mails'[b] <= 1 + lost
               /\ /\ invitation[b] \in {"queued", "failed"}
                  /\ \A v \in Calls :
                       sending'[v].pc = "sent" => b \notin sending'[v].who
                  => mails'[b] <= lost
    <3>1. CASE b = a
      BY <1>1, <1>2, <2>2, <3>1, OutreachFacts
    <3>2. CASE b # a
      <4>1. b \notin sending[c].who
        BY <1>4, <3>2
      <4> QED
        BY <1>1, <1>2, <3>2, <4>1 DEF OutreachInv, AloneInv
    <3> QED
      BY <3>1, <3>2
  <2>4. \A b \in Candidates \ crossed, v \in Calls :
          Sending(v, b)' => invitation[b] \in {"queued", "failed"}
    BY <1>5 DEF OutreachInv, AloneInv
  <2> QED
    BY <1>1, <2>1, <2>3, <2>4 DEF AloneInv
<1>8. OrderInv'
  <2>1. Sending(c, a)
    BY <1>1 DEF Sending
  <2>2. \A b \in Candidates \ crossed :
          mails'[b] > 0 \/ (\E v \in Calls : Sending(v, b)') =>
            mails[b] > 0 \/ (\E v \in Calls : Sending(v, b))
    BY <1>1, <1>5, <2>1
  <2> QED
    BY <1>1, <2>2 DEF OutreachInv, OrderInv
<1> QED
  BY <1>6, <1>7, <1>8 DEF OutreachInv

(* The new rows follow those there are, or their candidates are crossed.   *)
LEMMA OutreachQueues ==
    ASSUME OutreachAssumption, Outreach!TypeOK, OutreachInv,
           NEW c \in Calls, Outreach!Queue(c),
           sending[c].who \cap Outreach!Queued = {}
    PROVE  OutreachInv'
<1> DEFINE some == sending[c].who
           size == Cardinality(some)
<1>1. /\ \A a \in Candidates \ some : order'[a] = order[a]
      /\ {order'[a] : a \in some}
           = (sending[c].count + 1)..(sending[c].count + size)
      /\ \A a \in some : invitation'[a] = "queued"
      /\ \A a \in Candidates \ some : invitation'[a] = invitation[a]
      /\ crossed' = IF sending[c].count = Rows
                    THEN crossed ELSE crossed \cup some
      /\ UNCHANGED <<mails, lost>>
      /\ sending[c].pc = "queue"
  BY OutreachFacts, OutreachCardinality DEF Outreach!Queue, Outreach!At, Rows
<1>2. /\ sending'[c].pc = "idle" /\ sending'[c].who = {}
      /\ sending'[c].count = 0
      /\ \A v \in Calls : v # c => sending'[v] = sending[v]
  BY OutreachFacts DEF Outreach!Queue, Outreach!Leave, Outreach!Idle
<1>3. some \subseteq Candidates /\ size \in Nat /\ IsFiniteSet(some)
  <2>1. some \in SUBSET Candidates
    BY OutreachFacts
  <2>2. IsFiniteSet(some)
    BY <2>1, FS_Subset DEF OutreachAssumption
  <2> QED
    BY <2>1, <2>2, FS_CardinalityType
<1>4. \A a \in some : /\ order[a] = 0 /\ mails[a] = 0
                      /\ order'[a] \in Nat
                      /\ sending[c].count < order'[a]
                      /\ order'[a] <= sending[c].count + size
  <2>1. \A a \in some : order[a] = 0 /\ mails[a] = 0
    BY <1>3 DEF Outreach!Queued, OutreachInv, RowsInv
  <2>2. \A a \in some :
          order'[a] \in (sending[c].count + 1)..(sending[c].count + size)
    BY <1>1
  <2>3. sending[c].count \in Nat
    BY OutreachFacts
  <2> QED
    BY <1>3, <2>1, <2>2, <2>3
<1>5. Rows' = Rows + size
  <2>1. Outreach!Queued' = Outreach!Queued \cup some
    <3>1. \A a \in Candidates :
            order'[a] # 0 <=> order[a] # 0 \/ a \in some
      BY <1>1, <1>3, <1>4, OutreachFacts
    <3> QED
      BY <1>3, <3>1 DEF Outreach!Queued
  <2>2. IsFiniteSet(Outreach!Queued)
    <3>1. Outreach!Queued \in SUBSET Candidates
      BY DEF Outreach!Queued
    <3> QED
      BY <3>1, FS_Subset DEF OutreachAssumption
  <2>3. Cardinality(Outreach!Queued \cup some)
          = Rows + size - Cardinality(Outreach!Queued \cap some)
    BY <1>3, <2>2, FS_Union DEF Rows
  <2>4. Cardinality(Outreach!Queued \cap some) = 0
    <3>1. Outreach!Queued \cap some = {}
      OBVIOUS
    <3> QED
      BY <3>1, FS_EmptySet
  <2>5. Rows' = Cardinality(Outreach!Queued')
    BY DEF Rows
  <2> QED
    BY <1>3, <2>1, <2>3, <2>4, <2>5, OutreachFacts
<1>6. sending[c].count <= Rows
  BY DEF OutreachInv, RequestsInv
<1> HIDE DEF some, size
<1>7. RowsInv'
  <2>1. ASSUME NEW a \in Candidates
        PROVE  /\ order'[a] <= Rows + size
               /\ order'[a] = 0 <=> invitation'[a] = "none"
               /\ order'[a] = 0 => mails[a] = 0
    <3>1. CASE a \in some
      BY <1>1, <1>3, <1>4, <1>6, <3>1, OutreachFacts
    <3>2. CASE a \notin some
      BY <1>1, <1>3, <3>2, OutreachFacts DEF OutreachInv, RowsInv
    <3> QED
      BY <3>1, <3>2
  <2> QED
    BY <1>1, <1>5, <2>1 DEF RowsInv
<1>8. RequestsInv'
  <2>1. ASSUME NEW v \in Calls
        PROVE  /\ sending'[v].count <= Rows + size
               /\ sending'[v].pc = "idle" => sending'[v].who = {}
               /\ sending'[v].pc \in {"send", "sent", "skip"} =>
                    \A a, b \in sending'[v].who : a = b
    BY <1>2, <1>3, OutreachFacts DEF OutreachInv, RequestsInv
  <2>2. ASSUME NEW v \in Calls,
               sending'[v].pc \in {"send", "sent", "skip"},
               NEW a \in sending'[v].who
        PROVE  order'[a] # 0
    <3>1. v # c /\ a \in Candidates /\ order[a] # 0
      BY <1>2, <2>2, OutreachFacts DEF OutreachInv, RequestsInv
    <3> QED
      BY <1>1, <1>4, <3>1
  <2> QED
    BY <1>5, <2>1, <2>2 DEF RequestsInv
<1>9. ASSUME NEW a \in Candidates, NEW v \in Calls, Sending(v, a)'
      PROVE  Sending(v, a) /\ v # c /\ a \notin some
  <2>1. Sending(v, a) /\ v # c
    BY <1>2, <1>9 DEF Sending
  <2> QED
    BY <1>4, <2>1 DEF OutreachInv, RequestsInv, Sending
<1>10. AloneInv'
  <2>1. ASSUME NEW a \in Candidates \ crossed'
        PROVE  /\ \A u, v \in Calls :
                    a \in sending'[u].who /\ a \in sending'[v].who => u = v
               /\ \A v \in Calls :
                    Sending(v, a)' => invitation'[a] \in {"queued", "failed"}
    BY <1>1, <1>2, <1>9 DEF OutreachInv, AloneInv
  <2>2. ASSUME NEW a \in Candidates \ crossed'
        PROVE  /\ mails[a] <= 1 + lost
               /\ /\ invitation'[a] \in {"queued", "failed"}
                  /\ \A v \in Calls :
                       sending'[v].pc = "sent" => a \notin sending'[v].who
                  => mails[a] <= lost
    <3>1. CASE a \in some
      BY <1>4, <3>1, OutreachFacts
    <3>2. CASE a \notin some
      <4>1. a \in Candidates \ crossed
        BY <1>1
      <4>2. \A v \in Calls :
              sending[v].pc = "sent" => v # c
        BY <1>1
      <4> QED
        BY <1>1, <1>2, <3>2, <4>1, <4>2 DEF OutreachInv, AloneInv
    <3> QED
      BY <3>1, <3>2
  <2> QED
    BY <1>1, <2>1, <2>2 DEF AloneInv
<1>11. OrderInv'
  <2>1. ASSUME NEW a \in Candidates \ crossed', NEW b \in Candidates \ crossed',
               order'[a] # 0, order'[a] < order'[b],
               mails[b] > 0 \/ \E v \in Calls : Sending(v, b)'
        PROVE  invitation'[a] \in {"sent", "skipped"}
    <3>1. a \in Candidates \ crossed /\ b \in Candidates \ crossed
      BY <1>1
    <3>2. b \notin some
      BY <1>4, <1>9, <2>1, OutreachFacts
    <3>3. a \notin some
      <4>1. SUFFICES ASSUME a \in some PROVE FALSE
        OBVIOUS
      <4>2. sending[c].count = Rows
        BY <1>1, <2>1, <4>1
      <4>3. order[b] <= Rows /\ order'[b] = order[b]
        BY <1>1, <3>2 DEF OutreachInv, RowsInv
      <4> QED
        BY <1>4, <2>1, <4>1, <4>2, <4>3, OutreachFacts
    <3>4. mails[b] > 0 \/ \E v \in Calls : Sending(v, b)
      BY <1>9, <2>1
    <3> QED
      BY <1>1, <2>1, <3>1, <3>2, <3>3, <3>4 DEF OutreachInv, OrderInv
  <2> QED
    BY <1>1, <2>1 DEF OrderInv
<1> QED
  BY <1>7, <1>8, <1>10, <1>11 DEF OutreachInv

LEMMA OutreachInvStep ==
    ASSUME OutreachAssumption, Outreach!TypeOK, OutreachInv,
           [Outreach!Next]_(Outreach!vars)
    PROVE  OutreachInv'
<1>1. CASE UNCHANGED Outreach!vars
  BY <1>1
  DEF Outreach!vars, OutreachInv, RowsInv, RequestsInv, AloneInv, OrderInv,
      Rows, Outreach!Queued, Sending
<1>2. ASSUME NEW c \in Calls, NEW some \in SUBSET Candidates,
             Outreach!CountRows(c, some)
      PROVE  OutreachInv'
  BY <1>2, OutreachTakes DEF Outreach!CountRows
<1>3. ASSUME NEW c \in Calls, Outreach!Queue(c) PROVE OutreachInv'
  <2>1. CASE sending[c].who \cap Outreach!Queued # {}
    BY <1>3, <2>1, OutreachLeaves DEF Outreach!Queue, Outreach!At
  <2>2. CASE sending[c].who \cap Outreach!Queued = {}
    BY <1>3, <2>2, OutreachQueues
  <2> QED
    BY <2>1, <2>2
<1>4. ASSUME NEW c \in Calls, NEW a \in Candidates, Outreach!BeginSend(c, a)
      PROVE  OutreachInv'
  <2>1. a \in Outreach!Queued
    BY <1>4
    DEF Outreach!BeginSend, Outreach!NextSendable, Outreach!FirstOf
  <2> QED
    BY <1>4, <2>1, OutreachTakes DEF Outreach!BeginSend
<1>5. ASSUME NEW c \in Calls, NEW a \in Candidates, Outreach!BeginSkip(c, a)
      PROVE  OutreachInv'
  BY <1>5, OutreachTakes DEF Outreach!BeginSkip
<1>6. ASSUME NEW c \in Calls, NEW a \in Candidates, Outreach!SendFails(c, a)
      PROVE  OutreachInv'
  BY <1>6, OutreachLeaves DEF Outreach!SendFails, Outreach!At
<1>7. ASSUME NEW c \in Calls, NEW a \in Candidates, Outreach!RecordSent(c, a)
      PROVE  OutreachInv'
  BY <1>7, OutreachLeaves DEF Outreach!RecordSent, Outreach!At
<1>8. ASSUME NEW c \in Calls, NEW a \in Candidates, Outreach!Skip(c, a)
      PROVE  OutreachInv'
  BY <1>8, OutreachLeaves DEF Outreach!Skip, Outreach!At
<1>9. ASSUME NEW c \in Calls, Outreach!Lose(c) PROVE OutreachInv'
  BY <1>9, OutreachLeaves DEF Outreach!Lose
<1> QED
  BY <1>1, <1>2, <1>3, <1>4, <1>5, <1>6, <1>7, <1>8, <1>9, OutreachMails
  DEF Outreach!Next

(* Unless two members had him in hand at once, a candidate gets one mail   *)
(* (one more for each call lost), after those queued before him are done.  *)
THEOREM InvitationsGoInOrder ==
    ASSUME OutreachAssumption
    PROVE  Outreach!Spec => [](Outreach!TypeOK /\ Outreach!OneByOne)
<1> DEFINE Inv == Outreach!TypeOK /\ OutreachInv
<1>1. Outreach!Init => Inv
  BY OutreachTypeInit, OutreachInvInit
<1>2. Inv /\ [Outreach!Next]_(Outreach!vars) => Inv'
  BY OutreachTypeStep, OutreachInvStep
<1>3. Inv => Outreach!TypeOK /\ Outreach!OneByOne
  BY DEF OutreachInv, AloneInv, OrderInv, Outreach!OneByOne
<1> HIDE DEF Inv
<1> QED
  BY <1>1, <1>2, <1>3, PTL DEF Outreach!Spec

=============================================================================
