CONSTANTS
    Byte = {0, 2}
    Junk = Junk
    BaseSize = 2
    LenSpan = 2
    MaxBlocks = 3
    MaxWrite = 3
    WordBits = 8
    GroupBits = 3
    AddrBits = 8
    Groups = 8
    Thread = {t1, t2}
    Files <- MCFiles
    Contents <- MCContents
    Name <- MCName
    MaxListeners = 2
    MaxEdits = 1
    Sock = {s1, s2}
    Fd = {0, 1, 2}
    MaxOpens = 3
    MaxUrl = 4
    MaxText = 4
SPECIFICATION MCSpec
INVARIANTS CursorFollows RoundTrips ListenersInformed FileNotSkipped  FdsOwned
PROPERTY IsFile
CHECK_DEADLOCK FALSE
