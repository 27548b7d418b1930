SPECIFICATION Spec
CONSTANTS
    w1 = w1
    w2 = w2
    Writers <- Writers_MC
    il_capacity = 3
    Calls = {"apply", "clear", "replay"}
    MaxTxn = 3
    MaxIntents = 2
SYMMETRY Interchangeable
CHECK_DEADLOCK FALSE
INVARIANTS
    TypeOK
    OpenIntentsKept
    ClearIsExact
PROPERTY StatesAdvance
