SPECIFICATION Spec
CONSTANTS
    c1 = c1
    c2 = c2
    Callers = {c1}
    PerGroup = 3
    DataStart = 2
    BlocksCount = 4
    RootIno = 0
    FreeCounts = {3}
    W = 8
    IntMax = 2
    il_capacity = 1
    MaxCalls = 3
CHECK_DEADLOCK FALSE
INVARIANT NoLeakedBlock
