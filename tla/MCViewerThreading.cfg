SPECIFICATION FairSpec
CONSTANTS
    Main = main
    t1 = t1
    t2 = t2
    p1 = p1
    s1 = s1
    x1 = x1
    r2 = r2
    win = win
    Tasks = {t1, t2}
    Workers = {p1, s1, x1, r2}
    TaskOf <- MCTaskOf
    Role <- MCRole
    Executor <- MCExecutor
    Windows = {win}
    WindowOf <- MCWindowOf
    MaxFrame = 3
INVARIANTS
    TypeOK
    UpdateExcludesRecording
    FrameIsComplete
    SecondariesFirst
    TaskIsExclusive
    SemaphoreOfThisFrame
    ExitLeavesNobodyBehind
PROPERTIES
    MainAlwaysReturns
