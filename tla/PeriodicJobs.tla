---------------------------- MODULE PeriodicJobs ----------------------------
(***************************************************************************)
(* The periodic jobs, which promise that something happens in the end:     *)
(* the schedule of an automation, the refresh of a Business Profile        *)
(* connection, and the batches both are taken from.  They share no state:  *)
(* `part` is the one that moves, x1..x8 are its variables in the order of  *)
(* its module, and a behaviour of this module is a behaviour of one of     *)
(* them.                                                                   *)
(***************************************************************************)
EXTENDS Integers, FiniteSets

CONSTANTS
    Workers,            \* dispatcher slots
    r1, h1,             \* a request, and the hourly refresh of an instance
    Accounts,           \* Google accounts
    Names,              \* locations
    Refreshed,          \* connections to refresh
    Failing,            \* those Google refuses
    Planned,            \* automations of a batch
    BatchSize, BlockedRows, Faulty,
    ClaimTicks, CronTicks, BackoffTicks, StaleTicks,
    Null

ASSUME PeriodicJobsAssumption ==
    /\ IsFiniteSet(Refreshed) /\ IsFiniteSet(Planned)
    /\ BatchSize \in Nat \ {0} /\ CronTicks \in Nat \ {0}
    /\ BlockedRows \in Nat /\ Faulty \in Nat /\ ClaimTicks \in Nat
    /\ BackoffTicks \in Nat /\ StaleTicks \in Nat

VARIABLES part, x1, x2, x3, x4, x5, x6, x7, x8

jobs == <<part, x1, x2, x3, x4, x5, x6, x7, x8>>

(* No edits and a lag of one unit, as the runs of Scheduler have them.     *)
Schedule == INSTANCE Scheduler WITH
    clock <- x1, row <- x2, ran <- x3, worker <- x4, editor <- x5, holder <- x6,
    edits <- x7, faults <- x8,
    Editors <- {}, Crons <- {2, 3}, Lease <- 1, MaxTime <- 9, MaxLag <- 1,
    SharedInstants <- TRUE, Prompt <- TRUE, MaxEdits <- 0, MaxFaults <- 1
Gbp == INSTANCE GbpConnection WITH
    conn <- x1, mirror <- x2, call <- x3, created <- x4, faults <- x5, outdated <- x6,
    None <- Null, Requests <- {r1}, Crons <- {h1}, Lease <- 1, Cooldown <- 1, Backoff <- 1,
    StaleAfter <- 1, Expiry <- 2, MaxCallbacks <- 1, MaxConnections <- 1,
    MaxFaults <- 1
Refresh == INSTANCE RefreshBatch WITH
    later <- x1, attempted <- x2, synced <- x3, status <- x4, waited <- x5,
    delays <- x6,
    Connections <- Refreshed, Batch <- BatchSize, Backoff <- BackoffTicks,
    StaleAfter <- StaleTicks, MaxDelays <- Faulty
Batch == INSTANCE SchedulerBatch WITH
    later <- x1, wait <- x2, claimed <- x3, active <- x4, waited <- x5,
    faults <- x6,
    Automations <- Planned, Batch <- BatchSize, Lease <- ClaimTicks,
    Period <- CronTicks, MaxBlocked <- BlockedRows, MaxFaults <- Faulty

Init ==
    \/ part = "schedule" /\ Schedule!Init
    \/ part = "gbp" /\ Gbp!Init /\ x7 = 0 /\ x8 = 0
    \/ part = "refresh" /\ Refresh!Init /\ x7 = 0 /\ x8 = 0
    \/ part = "batch" /\ Batch!Init /\ x7 = 0 /\ x8 = 0

Moves(name, action) == part = name /\ action /\ UNCHANGED part
ScheduleMoves(action) == Moves("schedule", action)
GbpMoves(action) == Moves("gbp", action) /\ UNCHANGED <<x7, x8>>

Next ==
    \/ ScheduleMoves(Schedule!Next)
    \/ GbpMoves(Gbp!Next)
    \/ Moves("refresh", Refresh!Next) /\ UNCHANGED <<x7, x8>>
    \/ Moves("batch", Batch!Next) /\ UNCHANGED <<x7, x8>>

(* The fairness of the two modules that state one.                         *)
Fairness ==
    /\ WF_jobs(ScheduleMoves(Schedule!Tick))
    /\ \A w \in Workers : WF_jobs(ScheduleMoves(Schedule!Dispatch(w)))
    /\ WF_jobs(GbpMoves(Gbp!Tick))
    /\ WF_jobs(GbpMoves(Gbp!PurgeExpiredLocations))
    /\ WF_jobs(GbpMoves(Gbp!RefreshStaleLocations(h1)))
    /\ \A c \in {r1, h1} : WF_jobs(GbpMoves(Gbp!Continue(c)))

Spec == Init /\ [][Next]_jobs /\ Fairness

(***************************************************************************)
(* Properties: those of the modules, explained there.                      *)
(***************************************************************************)
(* Every variable of the job that moves is of its type.                    *)
TypeOK ==
    /\ part = "schedule" => Schedule!TypeOK
    /\ part = "gbp" => Gbp!TypeOK
    /\ part = "refresh" => Refresh!TypeOK
    /\ part = "batch" => Batch!TypeOK

(* An occurrence that comes due on an unedited automation gets its run,    *)
(* although a slot is lost or a run cannot be created at first.            *)
EveryOccurrenceRuns ==
    \A t \in Schedule!Times :
      t <= Schedule!Horizon =>
        ((part = "schedule" /\ x2.nextRunAt = t)
           ~> (part = "schedule" /\ t \in x3))

(* A synchronization whose call is lost does not stay `running`.           *)
RunningSettles ==
    (part = "gbp" /\ Gbp!Running) ~> (part = "gbp" /\ ~Gbp!Running)

(* A batch starves neither a connection to refresh nor a due automation,   *)
(* whatever fails or blocks at the head of its queue.                      *)
NobodyStarves ==
    /\ part = "refresh" => Refresh!NobodyStarves
    /\ part = "batch" => Batch!OnlyDelayed

=============================================================================
