------------------------------- MODULE OdcScores -------------------------------
(***************************************************************************)
(* The scores and the summary of one candidature (OdcApplicationsService): *)
(* proposeScores and updateFinalScores upsert their lines in a transaction *)
(* and then recompute both totals from a read of all the lines; both, and  *)
(* the summaries, refuse a candidature they read in a terminal status.     *)
(***************************************************************************)
EXTENDS Integers, FiniteSetsExt

CONSTANTS
    Calls,              \* requests in progress at a time
    Criteria, Required, \* the program's criteria, and the required ones
    Weight,             \* of each criterion
    Points,             \* values of a score
    None                \* null

VARIABLES
    lines,              \* the OdcScoreLine rows, by criterion
    totals,             \* proposedTotal and finalTotal
    summary,            \* summaryDraft: the scores it was written beside
    terminal,           \* the application is accepted, rejected or withdrawn
    call                \* what each call is doing

vars == <<lines, totals, summary, terminal, call>>

Kinds == {"proposed", "final"}
Score == Points \cup {None}

(***************************************************************************)
(* computeWeightedTotal: null while a required criterion has no points, an *)
(* optional one without points adds nothing.  Mutant: missing points count *)
(* as zero, whatever they are of.                                          *)
(***************************************************************************)
PointsOf(scores, k) == IF scores[k] = None THEN 0 ELSE scores[k]

SumOfScored(scores) ==
    MapThenSumSet(LAMBDA k : PointsOf(scores, k) * Weight[k], Criteria)

ComputeWeightedTotal(scores) ==
    IF \E k \in Required : scores[k] = None
    THEN None
    ELSE SumOfScored(scores)

TotalOf(kind) ==
    ComputeWeightedTotal([k \in Criteria |-> lines[k][kind]])

(* A total is a sum of what the criteria may score, or null.               *)
Totals == {SumOfScored(scores) : scores \in [Criteria -> Score]} \cup {None}

Idle == [pc |-> "idle", totals |-> [k \in Kinds |-> None]]
CallStates == [pc : {"idle", "propose", "score", "summarize", "read", "write"},
               totals : [Kinds -> Totals]]

At(c, point) == call[c].pc = point
Move(c, point) == call' = [call EXCEPT ![c].pc = point]

Init ==
    /\ lines = [k \in Criteria |-> [kind \in Kinds |-> None]]
    /\ totals = [kind \in Kinds |-> None]
    /\ summary = FALSE
    /\ terminal = FALSE
    /\ call = [c \in Calls |-> Idle]

(* getApplication, and assertNotTerminal.                                  *)
Begin(c, op) ==
    /\ At(c, "idle")
    /\ ~terminal
    /\ Move(c, op)
    /\ UNCHANGED <<lines, totals, summary, terminal>>

(* The transaction of upserts: a line's other points are left alone.       *)
Upsert(c, kind, given) ==
    /\ lines' = [k \in Criteria |->
                   IF k \in DOMAIN given
                   THEN [lines[k] EXCEPT ![kind] = given[k]] ELSE lines[k]]
    /\ Move(c, "read")
    /\ UNCHANGED <<totals, summary, terminal>>

Scorings == UNION {[some -> Points] : some \in SUBSET Criteria}

ProposeScores(c) ==
    /\ At(c, "propose")
    /\ \E given \in Scorings : Upsert(c, "proposed", given)

UpdateFinalScores(c) ==
    /\ At(c, "score")
    /\ \E given \in Scorings : Upsert(c, "final", given)

(* recomputeTotals: the lines are read, both totals are written.           *)
ReadLines(c) ==
    /\ At(c, "read")
    /\ call' = [call EXCEPT ![c] =
         [pc |-> "write", totals |-> [kind \in Kinds |-> TotalOf(kind)]]]
    /\ UNCHANGED <<lines, totals, summary, terminal>>

WriteTotals(c) ==
    /\ At(c, "write")
    /\ totals' = call[c].totals
    /\ call' = [call EXCEPT ![c] = Idle]
    /\ UNCHANGED <<lines, summary, terminal>>

(* proposeSummary, prepareApplicationSummary.                              *)
WriteSummary(c) ==
    /\ At(c, "summarize")
    /\ summary' = TRUE
    /\ call' = [call EXCEPT ![c] = Idle]
    /\ UNCHANGED <<lines, totals, terminal>>

(* decide or withdraw.                                                     *)
Close ==
    /\ ~terminal
    /\ terminal' = TRUE
    /\ UNCHANGED <<lines, totals, summary, call>>

Next ==
    \/ Close
    \/ \E c \in Calls :
         \/ \E op \in {"propose", "score", "summarize"} : Begin(c, op)
         \/ ProposeScores(c) \/ UpdateFinalScores(c)
         \/ ReadLines(c) \/ WriteTotals(c) \/ WriteSummary(c)

Spec == Init /\ [][Next]_vars

(***************************************************************************)
(* Properties                                                              *)
(***************************************************************************)
TypeOK ==
    /\ lines \in [Criteria -> [Kinds -> Score]]
    /\ totals \in [Kinds -> Totals]
    /\ summary \in BOOLEAN
    /\ terminal \in BOOLEAN
    /\ call \in [Calls -> CallStates]

(* A total is never a partial sum: whoever recomputed it, and whatever was *)
(* written since, every required criterion has points when it is not null. *)
TotalIsNeverPartial ==
    \A kind \in Kinds : totals[kind] # None =>
      \A k \in Required : lines[k][kind] # None

=============================================================================
