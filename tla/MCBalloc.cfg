SPECIFICATION Spec
CONSTANTS
    c1 = c1
    c2 = c2
    Callers <- Callers_MC
    Groups = 2
    Bits = 4
    PerGroup = 5
    DataStart = 7
    W = 16
    FreeCounts = {2}
    Requests = {1, 2}
    MaxGrants = 4
SYMMETRY Interchangeable
CHECK_DEADLOCK FALSE
INVARIANTS
    TypeOK
    GrantsInGroup
    FreeCountExact
    LossOnlyAtFirstBit
    SinglesDisjoint
    CountSettles
