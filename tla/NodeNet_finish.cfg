SPECIFICATION Spec
CONSTANTS
    Kinds <- SomeKinds
    MaxWrites = 2
    MaxAnswers = 0
    Room = 1
    Pausing = {"server"}
    MaxFds = 4
    Client = {u1, u2}
    MaxListens = 2
    RejectLimit = 1
    TlsMaxWrites = 2
    Conn = {c1}
    MaxCRLs = 1
    HttpConn = {"chunked", "piped", "c1", "c2"}
    Requests <- SomeRequests
    Repeatable <- SomeRepeatable
    Together <- SomeTogether
    HttpParser = {p1, p2}
    FreeMax = 1
    MaxCuts <- SomeCuts
    NoParser = NoParser
    Dgram = {s1, s2}
    PoolSize = 1
    MaxSends = 2
    MaxOptions = 1
    Req = {r1, r2}
    Tries = 2
    Zone = {"EST", "PST", "CET"}
    Known = {"EST", "PST"}
    Offset <- Offsets
    Time = {0, 59, 60, 540, 719, 720, 779, 780, 1439}
    Duration = {45, 380, 1500}
    Delay = {0, 61}
INVARIANTS
    FinishedIsFirst
CHECK_DEADLOCK FALSE
