CONSTANTS
    Workers = {w1, w2}
    Caller = caller
    UseCaller = FALSE
    Fibers = {f1}
    AnyThread = anythread
    NoFiber = nofiber
    MaxYields = 1
SPECIFICATION Spec
INVARIANT FiberOnOneCpu
