CONSTANTS
    Timers = {1}
    Users = {u1}
    Pollers = {p1, p2}
    Periods = {1, 2}
    Hour = 6
    Word = 64
    StartTime = 0
    MaxTime = 3
SPECIFICATION Spec
INVARIANT NeverEarly
CHECK_DEADLOCK FALSE
