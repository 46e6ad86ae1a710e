SPECIFICATION Spec
CONSTANTS
    Req = {c1}
    Auth = {a1, a2}
    None = None
    MaxRetries = 1
    MaxToken = 2
    Relogin = FALSE
    Assertions = TRUE
    AuthReplies <- ProtocolReplies
    IssuedExpiry <- OnlyFresh
PROPERTIES
    DropsOnlyRefusedToken
CHECK_DEADLOCK FALSE
