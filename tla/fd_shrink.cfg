CONSTANTS
    u1 = u1
    u2 = u2
    p1 = p1
    NoThread = NoThread
    Users <- MCUsers
    Pollers <- MCPollers
    Fds <- MCFds
    Signals <- MCSignals
    InitSize = 32
    MaxAdds = 3
    MaxGen = 2
SPECIFICATION Spec
CHECK_DEADLOCK FALSE
INVARIANTS ContextFound
