SPECIFICATION Spec
CONSTANTS
    p1 = p1
    p2 = p2
    s1 = s1
    s2 = s2
    Procs = {p1, p2}
    Callers = {s1}
    Escapees = {p2}
    MaxTasks = 2
    MaxLives = 3
    MayReuse = TRUE
    MayFail = TRUE
INVARIANTS TypeOK SettledIsGone FoundAgain
PROPERTY StopReturns
CHECK_DEADLOCK FALSE
