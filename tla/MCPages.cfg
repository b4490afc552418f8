SPECIFICATION Spec
CONSTANTS
    Quantities = {1000, 333}
    Prices = {1, 50, 1995}
    IrpfRates = {0, 725, 10000}
    MaxLines = 3
    Sevens <- MCSevens
    Leads <- MCLeads
    Users = {u1, u2}
    Browsers = {b1, b2}
    Bills = {i1, i2}
    Issuers = {n1, n2}
    Old = {i1}
    Senders = {w1, w2}
    MaxDay = 1
    MaxSends = 2
    Nothing = Nothing
SYMMETRY MCSymmetry
INVARIANTS RoundingIsBounded RecordAddsUp SingleErrorsAreCaught SentAtTellsTheTruth OwnIssuerOnly
CHECK_DEADLOCK FALSE
