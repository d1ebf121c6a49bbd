\* A duplicate of an event, with requiresApproval edited in between.
CONSTANTS
    Automations = {a1}
    Events = {e1}
    Occurrences = {}
    Calls = {c1, c2, c3}
    Edits = {"requiresApproval"}
    Payloads = {"full"}
    MaxCrashes = 0
    NoPlan = NoPlan
SPECIFICATION Spec
CHECK_DEADLOCK FALSE
INVARIANT NothingRunsUnapproved
