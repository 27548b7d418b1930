SPECIFICATION Spec
CONSTANTS
    Labels <- Labels_MC
    Foreign = Foreign
    Written <- Written_MC
    MaxWrites = 4
    MaxOpens = 3
CHECK_DEADLOCK FALSE
INVARIANTS
    TypeOK
    ReadsExplained
    RewriteHealsReplicas
    ParityRecovers
    ScrubJudgesRedundancy
