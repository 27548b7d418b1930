SPECIFICATION Spec
CONSTANTS
    W = 6
    DataStart = 1
    Sizes <- Sizes_MC
    Counts <- Counts_MC
    MaxUsed = 2
    MaxFree = 2
INVARIANTS
    TypeOK
    AcceptedTiles
    AcceptedFreeCount
PROPERTY NoFalseAlarm
