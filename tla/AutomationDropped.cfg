\* A conflict in the middle of emitEvent's loop.
CONSTANTS
    Automations = {a1, a2}
    Events = {e1}
    Occurrences = {}
    Calls = {c1, c2, c3}
    Edits = {}
    Payloads = {"full"}
    MaxCrashes = 0
    NoPlan = NoPlan
SPECIFICATION Spec
CHECK_DEADLOCK FALSE
INVARIANT NoMatchIsDropped
