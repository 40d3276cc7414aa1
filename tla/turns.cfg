SPECIFICATION Spec
CONSTANTS
    Inputs = {i1, i2}
    Turns = {t1, t2}
    Drivers = {d1}
    Ui = Ui
    Continue = Continue
    NoTurn = NoTurn
    MaxQueue = 2
    MayPanic = TRUE
SYMMETRY Symmetry
INVARIANTS
    OneTurnInTheAgent
    EachInputOnce
    NewestIsCancellable
    BusyHasAnOwner
    OneDriveLoop
