CONSTANTS
    MaxItems = 3
    Tokens <- RepoTokens
    Star = "*"
    Overlaps <- MCOverlaps
    ScopeChoices <- NarrowOrBroad
    Priorities = {1, 2}
    PriorityFloor = 0
    MaxDeps = 0
    Verbs <- GateVerbs
SPECIFICATION Spec
INVARIANTS TypeOK ReadyIsClaimable ReadyDisjoint
CHECK_DEADLOCK FALSE
PROPERTIES PeersInOrder
