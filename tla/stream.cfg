SPECIFICATION Spec
CONSTANTS
    c1 = c1
    c2 = c2
    Calls = {c1, c2}
    Guarded = {c2}
    MaxRetries = 2
    MaxRounds = 0
    MaxAuto = 1
    MaxRecovery = 2
    MaxSilent = 2
    MaxStrikes = 2
    ResetAfter = 2
    OmitsTerminator = TRUE
    Preserve = 3
    MaxTurns = 1
    Pasts <- OnePast
    MaxNotices = 1
    MaxSteers = 1
INVARIANTS EveryCallAnswered NothingLeaks SilenceEndsWholeAnswers OverflowEnds
PROPERTIES EarlierTurnsKept OnlyCallsProlong
CHECK_DEADLOCK FALSE
