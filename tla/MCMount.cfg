SPECIFICATION Spec
CONSTANTS
    MaxInode = 1
    SumsPerBlock = 1
    Images <- Images_MC
    MaxDamages = 2
    MaxMounts = 2
INVARIANTS
    TypeOK
    WritableIsClean
    AdviceIsUsable
    EvidenceMatchesReport
CHECK_DEADLOCK FALSE
