SPECIFICATION Spec
CONSTANTS
    N = 5
    Size <- TwoParts
    Wrapped = {}
    Missing = {4}
    MaxLen = 2
    MaxBodies = 3
    Call = {d1, d2}
    MaxRedirects = 3
    MaxSearches = 3
    TlsMaxWrites = 1
    MaxTicks = 2
    MaxReqs = 2
    MaxPoll = 1
    MaxArgs = 0
    MaxMessages = 2
    MaxExports = 0
    Kinds <- TcpSocket
    MaxWrites = 1
    MaxAnswers = 0
    Room = 1
    Pausing = {}
    MaxFds = 3
    Client = {u1, u2}
    MaxListens = 1
    RejectLimit = 0
    Req = {r1}
    Tries = 2
    Child = {k1, k2}
    Customs <- OnlyStdout
    Execs = {}
    MaxOutput = 0
    MaxBuffer = 0
    Width = 1
    ShortMax = 1
    MaxEvents = 1
    MaxRepeat = 1
    MaxTurns = 2
INVARIANTS
    BodySafe
    LoginSafe
    ReservationSafe
PROPERTIES
    AppIsLive
    
CHECK_DEADLOCK FALSE
