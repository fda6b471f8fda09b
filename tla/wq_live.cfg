CONSTANTS
    MaxItems = 3
    Tokens <- RepoTokens
    Star = "*"
    Overlaps <- MCOverlaps
    ScopeChoices <- NarrowOrBroad
    Priorities = {1, 2}
    PriorityFloor = 0
    MaxDeps = 0
    Verbs <- LiveVerbs
SPECIFICATION FairSpec
PROPERTIES EventuallyClaimed
CHECK_DEADLOCK FALSE
