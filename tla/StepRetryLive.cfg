\* Liveness and the abstract run, the full attempt budget, crashes that leave a claim behind.
CONSTANTS
    Workers = {w1, w2}
    NumSteps = 2
    MaxAttempts = 3
    Lease = 1
    Backoff <- MCBackoff3
    MaxLag = 1
    MaxAge = 3
    MaxCrashes = 1
    CrashPoints <- ClaimedPoints
SPECIFICATION FairSpec
INVARIANT Recoverable
PROPERTIES EventuallySettled ImplementsProgress
