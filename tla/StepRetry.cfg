\* Two steps, three calls, every crash point, a lagging tick.
CONSTANTS
    Workers = {w1, w2, w3}
    NumSteps = 2
    MaxAttempts = 3
    Lease = 1
    Backoff <- MCBackoff3
    MaxLag = 2
    MaxAge = 4
    MaxCrashes = 1
    CrashPoints <- AllPoints
SPECIFICATION Spec
SYMMETRY WorkerSymmetry
INVARIANTS TypeOK SingleDriver StepsInOrder RunMatchesSteps UnsafeStartsOnce AttemptBudget
PROPERTIES SettledStays TakeoverAfterLease
