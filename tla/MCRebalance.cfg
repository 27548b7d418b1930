SPECIFICATION Spec
CONSTANTS
    MaxInode = 3
    SumsPerBlock = 2
    Sources <- Sources_MC
INVARIANTS
    TypeOK
    FileModeKeepsFiles
    DoneCompacts
    EveryFileFits
    OnlyEmptyFilesFail
