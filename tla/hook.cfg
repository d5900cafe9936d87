CONSTANTS
    f1 = f1
    f2 = f2
    None = None
    Fibers = {f1, f2}
    Ops <- MCOps
    MaxCalls <- MCMaxCalls
    MaxSockets = 2
    MaxSets = 1
SPECIFICATION FairSpec
INVARIANTS TimeoutIsOwn ThreadNeverBlocks
PROPERTIES TimedCallReturns
CHECK_DEADLOCK FALSE
