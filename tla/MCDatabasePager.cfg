SPECIFICATION Spec
CONSTANTS
    PagedLODs = {a, b}
    Readers = {r1, r2}
    Recorders = {c1}
    InactiveAge = 1
    NoPagedLOD = none
    ContainerSize = 1
    TargetMax = 1
    MaxLeaked = 2
SYMMETRY Symmetry
INVARIANTS
    InFlightOnce
    CountedUntilDone
    ContainerIsSound
    LoadedIsTracked
PROPERTIES
    ExpireOnlyUnused
    ExpiryReachesTarget
