SPECIFICATION FairSpec
CONSTANTS
    w1 = w1
    w2 = w2
    w3 = w3
    a = a
    b = b
    c = c
    d = d
    A = A
    B = B
    RowLocks = TRUE
    Workers = {w1, w2}
    Invoices = {a, b, c, d}
    SeriesIds = {A, B}
    SeriesOf <- MCSeriesOf
    Complete = {a, b, c}
    MaxRetries = 2
    MaxDay = 2
    MaxErrors = 1
    MaxAborts = 1
    Free = Free
    NoInvoice = NoInvoice
INVARIANTS NoLostUpdate DatesFollowNumbers
PROPERTIES IdentityFixed EveryCallReturns CompleteDraftIsIssued
