SPECIFICATION Spec
CONSTANTS
    c1 = c1
    c2 = c2
    Callers = {c1}
    Groups = 1
    Bits = 4
    PerGroup = 5
    DataStart = 7
    W = 16
    FreeCounts = {2}
    Requests = {1, 2}
    MaxGrants = 4

CHECK_DEADLOCK FALSE
INVARIANT NoDoubleAllocation
