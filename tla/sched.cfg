SPECIFICATION Spec
CONSTANTS
    g1 = g1
    g2 = g2
    g3 = g3
    u1 = u1
    Work = {g1, g2, g3}
    Probes = {u1}
    None = None
    Commands <- Scheduling
    MaxSpawns = 1
    MaxQueue = 3
    MaxFeed = 2
SYMMETRY Symmetry
INVARIANTS NothingLost RunsOnce
CHECK_DEADLOCK FALSE
