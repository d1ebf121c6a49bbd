\* Any edit between any two statements, no duplicate triggers.
CONSTANTS
    Automations = {a1}
    Events = {}
    Occurrences = {}
    Calls = {c1, c2, c3}
    Edits <- AnyEdit
    Payloads = {}
    MaxCrashes = 1
    NoPlan = NoPlan
SPECIFICATION Spec
SYMMETRY Symmetry
CHECK_DEADLOCK FALSE
INVARIANTS NothingRunsUnapproved
PROPERTIES ImplementsLifecycle
