SPECIFICATION Spec
CONSTANTS
    Req = {c1, c2}
    Auth = {a1, a2}
    None = None
    MaxRetries = 1
    MaxToken = 2
    Relogin = TRUE
    Assertions = FALSE
    AuthReplies <- AnyReply
    IssuedExpiry <- FreshOrExpired
SYMMETRY SafetySymmetry
INVARIANTS
    CompletesOnce
    QueuedIsStopped
    AuthenticatingIsAccurate
PROPERTIES
    RetriedWithNewToken
CHECK_DEADLOCK FALSE
