SPECIFICATION SystemSpec
CONSTANTS
    o1 = o1
    o2 = o2
    cacheA = cacheA
    Objects = {o1, o2}
    SharedOf <- MCSharedOf
    RetainForFrameCount = 3
    NumBuffers = 3
    MaxFrame = 6
SYMMETRY Symmetry
INVARIANTS
    OneOwner
    GpuUsesNothingDeleted
PROPERTIES
    TakeMissesNothing
CHECK_DEADLOCK FALSE
