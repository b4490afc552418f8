SPECIFICATION Spec
CONSTANTS
    w1 = w1
    w2 = w2
    w3 = w3
    a = a
    b = b
    c = c
    d = d
    A = A
    B = B
    RowLocks = FALSE
    Workers = {w1, w2, w3}
    Invoices = {a, b, c, d}
    SeriesIds = {A, B}
    SeriesOf <- MCSeriesOf
    Complete = {a, b, c}
    MaxRetries = 2
    MaxDay = 1
    MaxErrors = 1
    MaxAborts = 0
    Free = Free
    NoInvoice = NoInvoice
SYMMETRY MCSymmetry
INVARIANTS TypeOK GapFree
PROPERTIES KeepsTheBooks
