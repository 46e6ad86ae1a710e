SPECIFICATION Spec
CONSTANTS
    Type = {t1}
    Account = {a1}
    Data = {d1}
    NoData = NoData
    Redirects = {}
    MaxToken = 3
    Relogin = FALSE
    AddFails = FALSE

INVARIANT StoreHearsOnlyPending
