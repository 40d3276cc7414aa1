SPECIFICATION Spec
CONSTANTS
    c1 = c1
    c2 = c2
    c3 = c3
    c4 = c4
    fast = fast
    slow = slow
    Callers = {c1, c2, c3, c4}
    Models = {fast, slow}
    ModelOf <- TwoModels
    TotalCap = 2
    ModelCap <- SlowIsCapped
INVARIANTS CountsExact QueueSound
PROPERTIES KeepsTheCaps
