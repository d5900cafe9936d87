CONSTANTS
    u1 = u1
    u2 = u2
    p1 = p1
    NoThread = NoThread
    Users <- MCUsers
    Pollers <- MCPollers
    Fds <- MCOneFd
    Signals <- MCOneFdSignals
    InitSize = 32
    MaxAdds = 2
    MaxGen = 1
SPECIFICATION Spec
CHECK_DEADLOCK FALSE
INVARIANTS TriggersRegistered
