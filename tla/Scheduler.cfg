\* Two slots and one editor, any lag.
CONSTANTS
    Workers = {w1, w2}
    Editors = {e1}
    Crons = {2, 3}
    Lease = 1
    MaxTime = 5
    MaxLag = 4
    SharedInstants = FALSE
    Prompt = FALSE
    MaxEdits = 2
    MaxFaults = 1
SPECIFICATION Spec
SYMMETRY WorkerSymmetry
INVARIANTS TypeOK NextRunFollowsTrigger
PROPERTIES NoOccurrenceSkipped ClaimStands
