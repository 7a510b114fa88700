SPECIFICATION Spec
CONSTANTS
    NumBuffers = 2
    Items = {"uniform", "lights"}
    Late = {"lights"}
    Static = {"uniform"}
    MaxCount <- MCMaxCount
    MaxFailures = 1
INVARIANTS
    StagingIsStable
    SemaphoresAlternate
    FrameSeesItsData
    NoModificationLost
    NothingWaitsInVain
CHECK_DEADLOCK FALSE
