SPECIFICATION Spec
CONSTANTS
    MaxInode = 1
    SumsPerBlock = 1
    Targets <- Targets_MC
    BlockArgs = {0, 7, 10}
    MaxRuns = 2
    MaxCrashes = 1
CHECK_DEADLOCK FALSE
INVARIANTS
    TypeOK
    OldFilesOrNone
    FormatSurvives
    UnforcedKeepsImage
