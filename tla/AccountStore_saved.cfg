SPECIFICATION Spec
CONSTANTS
    Type = {t1, t2}
    Account = {a1, a2}
    Data = {d1, d2}
    NoData = NoData
    Redirects <- SharedRedirect
    MaxToken = 4
    Relogin = TRUE
    AddFails = FALSE
SYMMETRY StoreSymmetry
INVARIANTS TypeOK SavedIsStored OwnTokenSaved
PROPERTY ImplementsVault
