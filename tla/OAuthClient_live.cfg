SPECIFICATION FairSpec
CONSTANTS
    Req = {c1, c2}
    Auth = {a1, a2}
    None = None
    MaxRetries = 1
    MaxToken = 2
    Relogin = FALSE
    Assertions = FALSE
    AuthReplies <- ProtocolReplies
    IssuedExpiry <- OnlyFresh
PROPERTIES
    WaitingIsServed
CHECK_DEADLOCK FALSE
