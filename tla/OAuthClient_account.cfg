SPECIFICATION Spec
CONSTANTS
    Req = {c1, c2}
    Auth = {a1, a2}
    None = None
    MaxRetries = 4
    MaxToken = 2
    Relogin = FALSE
    Assertions = TRUE
    AuthReplies <- ProtocolReplies
    IssuedExpiry <- OnlyFresh
SYMMETRY SafetySymmetry
INVARIANTS
    TypeOK
    NothingForgotten
    WaitingHasServer
    OneTokenExchange
CHECK_DEADLOCK FALSE
