SPECIFICATION FairSpec
CONSTANTS
    w1 = w1
    w2 = w2
    w3 = w3
    d1 = d1
    Waiters <- MCWaiters
    Droppers <- MCDroppers
    PhaseModulus = 3
INVARIANTS
    CountIsExact
    NoLostWakeup
PROPERTIES
    EveryWaiterReturns
    ImplementsAbstractBarrier
