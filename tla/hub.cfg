SPECIFICATION Spec
CONSTANTS
    Orch = Orch
    d1 = d1
    d2 = d2
    d3 = d3
    fast = fast
    slow = slow
    Delegations = {d1, d2, d3}
    Reworks = {d2}
    Models = {fast, slow}
    ModelOf <- ModelsOfRoles
    TotalCap = 3
    ModelCap <- SlowIsCapped
    Answers = {a1}
    MaxTurns = 2
INVARIANTS AgentsAreReturned LoopFindsASlot PausedIsResumable AwaitedWillSignal PausedAnswerArrives
PROPERTIES SynthesisSeesAll CancelEndsTheRun AwaitEnds
