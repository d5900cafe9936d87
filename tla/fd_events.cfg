CONSTANTS
    u1 = u1
    u2 = u2
    p1 = p1
    NoThread = NoThread
    Users <- MCUsers
    Pollers <- MCPollers
    Fds <- MCFds
    Signals <- MCSignals
    InitSize = 32
    MaxAdds = 2
    MaxGen = 1
SPECIFICATION FairSpec
CHECK_DEADLOCK FALSE
INVARIANTS TypeOK PendingExact WaiterInOnePlace EpollMatches AddNeverAborts
PROPERTIES EventDelivered
