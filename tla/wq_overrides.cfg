CONSTANTS
    MaxItems = 3
    Tokens = {"path_a", "path_b"}
    Star = "*"
    Overlaps <- MCOverlaps
    ScopeChoices <- Paths
    Priorities = {1}
    PriorityFloor = 0
    MaxDeps = 0
    Verbs <- OverrideVerbs
SPECIFICATION Spec
INVARIANTS ScopeExclusion
PROPERTIES ImplementsScopeLock
CHECK_DEADLOCK FALSE
