SPECIFICATION Spec
CONSTANTS
    g1 = g1
    g2 = g2
    g3 = g3
    u1 = u1
    Work = {g1, g2, g3}
    Probes = {u1}
    None = None
    Commands <- Ending
    MaxSpawns = 1
    MaxQueue = 2
    MaxFeed = 2
INVARIANTS ParkedWaits
PROPERTIES SuccessorRuns
CHECK_DEADLOCK FALSE
