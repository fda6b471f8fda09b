CONSTANTS
    Labels = {"render"}
    Actors = {"shell"}
    MaxRuns = 2
    Uses = {"kill", "run"}
    Faults = {"crash", "interrupt", "pane", "queue", "register", "survivor"}
SPECIFICATION FairSpec
PROPERTIES ItemsSettle
CHECK_DEADLOCK FALSE
