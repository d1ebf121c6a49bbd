\* A call lost between two statements, at any point.
CONSTANTS
    Workers = {w1, w2}
    NumSteps = 2
    MaxAttempts = 3
    Lease = 1
    Backoff <- MCBackoff3
    MaxLag = 1
    MaxAge = 3
    MaxCrashes = 1
    CrashPoints <- AllPoints
SPECIFICATION Spec
INVARIANT Recoverable
