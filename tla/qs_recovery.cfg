CONSTANTS
    h1 = h1
    h2 = h2
    c1 = c1
    c2 = c2
    Procs = {h1, h2, c1}
    Domain <- OneDomain
    MaxUpdates = 2
    MaxCorruptions = 2
    Faults = {"crash", "tail", "broken"}
SPECIFICATION Spec
INVARIANTS TypeOK AckedSurvive
PROPERTIES ImplementsDurableSet
CHECK_DEADLOCK FALSE
