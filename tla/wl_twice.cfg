CONSTANTS
    Labels = {"render"}
    Actors = {"shell"}
    MaxRuns = 1
    Uses = {"kill", "run"}
    Faults = {}
SPECIFICATION Spec
INVARIANTS AtMostOnce
CHECK_DEADLOCK FALSE
