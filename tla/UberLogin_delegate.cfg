SPECIFICATION LoginSpec
CONSTANTS
    Call = {c1}
    MaxRedirects = 1
INVARIANT DelegateHearsOfToken
CHECK_DEADLOCK FALSE
