\* Each periodic job on its own: two slots and one lost; a request and a refresh; batches of one over three or four rows.
CONSTANTS
    Workers = {w1, w2}
    r1 = r1
    h1 = h1
    Accounts = {a1, a2}
    Names = {n1}
    Refreshed = {c1, c2, c3}
    Failing = {c1, c2}
    Planned = {c1, c2, c3, c4}
    BatchSize = 1
    BlockedRows = 1
    Faulty = 1
    ClaimTicks = 1
    CronTicks = 2
    BackoffTicks = 1
    StaleTicks = 2
    Null = Null
SPECIFICATION Spec
INVARIANTS TypeOK NobodyStarves
PROPERTIES EveryOccurrenceRuns RunningSettles
