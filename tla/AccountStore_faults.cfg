SPECIFICATION Spec
CONSTANTS
    Type = {t1, t2}
    Account = {a1, a2}
    Data = {d1}
    NoData = NoData
    Redirects <- SharedRedirect
    MaxToken = 4
    Relogin = FALSE
    AddFails = TRUE
SYMMETRY StoreSymmetry
INVARIANT SavedAllOrNothing
PROPERTY RemovedStaysRemoved
