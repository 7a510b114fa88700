SPECIFICATION Spec
CONSTANTS
    w1 = w1
    w2 = w2
    c1 = c1
    c2 = c2
    Workers = {w1}
    Callers = {c1, c2}
    Requested <- MCRepeated
    Contents <- MCContents
PROPERTIES
    ReadReturns
CHECK_DEADLOCK FALSE
