SPECIFICATION Spec
CONSTANTS
    t1 = t1
    t2 = t2
    r1 = r1
    r2 = r2
    Threads = {t1, t2}
    References = {r1, r2}
    NoThread = NoThread
INVARIANTS
    DeletedByOne
SYMMETRY Symmetry
CHECK_DEADLOCK FALSE
