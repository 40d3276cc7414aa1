SPECIFICATION Spec
CONSTANTS
    c1 = c1
    c2 = c2
    Calls = {c1, c2}
    Guarded = {c2}
    MaxRetries = 2
    MaxRounds = 2
    MaxAuto = 1
    MaxRecovery = 2
    MaxSilent = 2
    MaxStrikes = 2
    ResetAfter = 2
    OmitsTerminator = TRUE
    Preserve = 3
    MaxTurns = 1
    Pasts <- OnePast
    MaxNotices = 0
    MaxSteers = 0
CHECK_DEADLOCK FALSE
INVARIANT CompletedRoundsSurvive
