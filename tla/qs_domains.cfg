CONSTANTS
    h1 = h1
    h2 = h2
    c1 = c1
    c2 = c2
    Procs = {h1, h2, c1, c2}
    Domain <- HostAndContainer
    MaxUpdates = 1
    MaxCorruptions = 0
    Faults = {"crash", "snapshot"}
SPECIFICATION Spec
PROPERTIES LostOnlyAcross
CHECK_DEADLOCK FALSE
