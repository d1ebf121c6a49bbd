\* Two slots that may fall behind by more than two leases, two manual retries, and a fault in every attempt.
CONSTANTS
    Workers = {w1, w2}
    Requests = {r1, r2}
    MaxAttempts = 2
    Backoff <- MCBackoff
    Lease = 1
    MaxLag = 4
    MaxFaults = 2
SPECIFICATION FairSpec
INVARIANTS TypeOK EveryMailIsCharged NoNeedlessDuplicate
PROPERTIES OutcomeByHolder ImplementsDelivery EventuallySettled
