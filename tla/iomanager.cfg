CONSTANTS
    t1 = t1
    t2 = t2
    k1 = k1
    k2 = k2
    k3 = k3
    Main = main
    AnyThread = any
    Threads <- TwoThreads
    Tasks <- TwoTasks
    PinnedTo <- PinFirst
    FarTimers = {}
SPECIFICATION FairSpec
INVARIANT NoTaskLeftBehind
PROPERTIES EverythingRuns StopReturns
