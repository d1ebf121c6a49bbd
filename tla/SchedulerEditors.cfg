\* Two edits at once.
CONSTANTS
    Workers = {w1}
    Editors = {e1, e2}
    Crons = {2, 3}
    Lease = 1
    MaxTime = 4
    MaxLag = 1
    SharedInstants = FALSE
    Prompt = FALSE
    MaxEdits = 2
    MaxFaults = 0
SPECIFICATION Spec
INVARIANT NextRunFollowsTrigger
