CONSTANTS
    t1 = t1
    t2 = t2
    k1 = k1
    k2 = k2
    k3 = k3
    Main = main
    AnyThread = any
    Threads <- OneThread
    Tasks <- TwoTasks
    PinnedTo <- PinFirst
    FarTimers = {}
SPECIFICATION Spec
INVARIANTS NothingLeftBehind
