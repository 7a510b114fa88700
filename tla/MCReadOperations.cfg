SPECIFICATION Spec
CONSTANTS
    w1 = w1
    w2 = w2
    c1 = c1
    c2 = c2
    Workers = {w1}
    Callers = {c1, c2}
    Requested <- MCRequested
    Contents <- MCContents
INVARIANTS
    EntriesAreComplete
    EveryOperationOnce
PROPERTIES
    ReadReturns
    StopReturns
CHECK_DEADLOCK FALSE
