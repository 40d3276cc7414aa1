SPECIFICATION FairSpec
CONSTANTS
    Inputs = {i1}
    Turns = {t1, t2}
    Drivers = {d1}
    Ui = Ui
    Continue = Continue
    NoTurn = NoTurn
    MaxQueue = 1
    MayPanic = FALSE
PROPERTIES
    StopEndsTheLoop
