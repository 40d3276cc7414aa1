SPECIFICATION Spec
CONSTANTS
    N = 4
    file = file
    NoCategory = NoCategory
    Batches <- AnyBatch
    MaxPar = 2
    Hanging = {1, 3}
INVARIANTS NobodyForgotten
PROPERTIES CollectReturns FailsFast
CHECK_DEADLOCK FALSE
