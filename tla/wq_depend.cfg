CONSTANTS
    MaxItems = 3
    Tokens = {"path_a", "path_b"}
    Star = "*"
    Overlaps <- MCOverlaps
    ScopeChoices <- Paths
    Priorities = {1}
    PriorityFloor = 0
    MaxDeps = 1
    Verbs <- DependVerbs
SPECIFICATION Spec
INVARIANTS DepsAcyclic NoHiddenBlocker
CHECK_DEADLOCK FALSE
