SPECIFICATION Spec
CONSTANTS
    t1 = t1
    t2 = t2
    t3 = t3
    Threads <- Threads_MC
    nr_lanes = 2
    MaxOps = 4
SYMMETRY Interchangeable
CHECK_DEADLOCK FALSE
INVARIANTS
    QuietLaneOpen
    CommitExact
