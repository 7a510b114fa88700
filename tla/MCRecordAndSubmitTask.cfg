SPECIFICATION FairSpec
CONSTANTS
    NumBuffers = 3
    Graphs = {g1, g2}
    MaxFrame = 6
    MaxFailures = 1
INVARIANTS
    RecordingIsPrivate
    FenceIsFresh
    IndicesAreHistory
    PoolIsBounded
PROPERTIES
    ImplementsFramesInFlight
    FrameIsFinished
CHECK_DEADLOCK FALSE
