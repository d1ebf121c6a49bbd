\* An event and a scheduled occurrence, emitted and triggered concurrently over two automations, with decisions.
CONSTANTS
    Automations = {a1, a2}
    Events = {e1}
    Occurrences = {o1}
    Calls = {c1, c2, c3}
    Edits = {}
    Payloads = {"full", "bare"}
    MaxCrashes = 0
    NoPlan = NoPlan
SPECIFICATION Spec
SYMMETRY Symmetry
CHECK_DEADLOCK FALSE
INVARIANTS TypeOK OneActiveRun EachMatchHasItsRun NothingRunsUnapproved
PROPERTIES ImplementsLifecycle
