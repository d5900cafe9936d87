CONSTANTS
    Callers = {a, b}
    Conns = {c1, c2, c3}
    None = None
    m_maxAliveTime = 1
    Now = 5
    m_maxRequest = 3
    MaxCalls = 3
    MaxMessages = 2
    MaxHeaders = 2
    MaxUrl = 1
    MaxBody = 2
    UMax = 21
    Addrs = {a1, a2}
    Clients = {x}
    Uris <- MCUris
    Patterns <- MCPatterns
    Matches <- MCMatches
    Servlets = {s1, s2}
    NotFound = NotFound
    MaxStarts = 2
    MaxAdds = 2
    u1 = u1
    p1 = p1
    p2 = p2
SPECIFICATION MCSpec
INVARIANTS AnswersMatch TotalExact BodyWhole HeadersWhole StopWakesLoops DispatchCurrent
CHECK_DEADLOCK FALSE
