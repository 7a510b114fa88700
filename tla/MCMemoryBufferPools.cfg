SPECIFICATION Spec
CONSTANTS
    Threads = {t1, t2}
    Buffers = {b1, b2, b3}
    Memories = {m1, m2}
    Usages = {u1, u2}
    Requests <- MCRequests
    minimumBufferSize = 4
    minimumDeviceMemorySize = 8
    memoryAlignment = 2
    MaxFailures = 1
SYMMETRY Symmetry
INVARIANTS
    SlotsAreSound
    ReservedIsOwned
    InfosAreDisjoint
CHECK_DEADLOCK FALSE
