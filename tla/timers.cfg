CONSTANTS
    Timers = {1, 2}
    Users = {u1}
    Pollers = {p1, p2}
    Periods = {1, 2}
    Hour = 6
    Word = 64
    StartTime = 6
    MaxTime = 7
SPECIFICATION FairSpec
INVARIANTS
    TypeOK
    CallbackIffQueued
    NeverEarly
    OneShotOnce
    HorizonSound
PROPERTY DueTimerFires
CHECK_DEADLOCK FALSE
