CONSTANTS
    Length = 6
    PauseThreshold = 3
    ResumeThreshold = 2
    Fault = {"http", "target", "cancel"}
SPECIFICATION FairSpec
INVARIANTS
    PipeInv
    SuccessMeansComplete
    BlameIsDeserved
PROPERTIES
    NothingGoesOnAfterwards
    DownloadEnds
CHECK_DEADLOCK FALSE
