SPECIFICATION Spec
CONSTANTS
  Goals = {g1, g2}
  Requests = {r1}
  NoGoal = NoGoal
  NoLimit = NoLimit
  Inputs <- GatedAndPlain
  DoneGate = "verify"
  Verifier = TRUE
  Judge = TRUE
  MaxVerifyFailures = 2
  DefaultTurnBudget = 3
  Budgets <- OneBudget
  MaxEdits = 1
  MaxTodos = 1
  MaxStale = 1
SYMMETRY Symmetry
INVARIANTS TypeOK CrashSafe AnnouncedIsFinal GateMemory FeedFresh
PROPERTIES LogIsLegal
