SPECIFICATION Spec
CONSTANTS
    c1 = c1
    c2 = c2
    Callers <- Callers_MC
    PerGroup = 3
    DataStart = 2
    BlocksCount = 4
    RootIno = 0
    FreeCounts = {0, 1, 2, 3}
    W = 8
    IntMax = 2
    il_capacity = 1
    MaxCalls = 3
CHECK_DEADLOCK FALSE
INVARIANTS
    TypeOK
    SpaceAccounted
    NumbersDistinct
    IntentsHoldBlocks
