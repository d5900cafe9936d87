CONSTANTS
    Workers = {w1, w2}
    Caller = caller
    UseCaller = TRUE
    Fibers = {f1, f2}
    AnyThread = anythread
    NoFiber = nofiber
    MaxYields = 2
SPECIFICATION FairSpec
INVARIANTS
    TypeOK
    CountersExact
    ResumeSafe
    NoTaskLost
    StopWaitsForAll
    StoppingIsFinal
PROPERTIES
    PoolSpec
    StopReturns
    PinnedTaskRuns
