SPECIFICATION Spec
CONSTANTS
    Users = {u1, u2}
    Invoices = {i1, i2, i3}
    Clients = {c1}
    Legacy = {i1, i2}
    Window = 2
    Grace = 1
    MaxNow = 4
    None = None
SYMMETRY MCSymmetry
INVARIANT ExpiredInvoicesAreDeleted
