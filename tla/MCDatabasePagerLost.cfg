SPECIFICATION Spec
CONSTANTS
    PagedLODs = {a}
    Readers = {r1}
    Recorders = {c1}
    InactiveAge = 1
    NoPagedLOD = none
    ContainerSize = 1
    TargetMax = 1
    MaxLeaked = 2
INVARIANTS
    NoLostRequest
