CONSTANTS
    Labels = {"render"}
    Actors = {"shell"}
    MaxRuns = 2
    Uses = {"kill", "run", "carry"}
    Faults = {"crash", "interrupt", "pane", "queue", "register", "survivor"}
SPECIFICATION Spec
INVARIANTS TypeOK OnePayload ReportedOnce CompletionKept
CHECK_DEADLOCK FALSE
