SPECIFICATION Spec
CONSTANTS
    Workers = {w1}
    Invoices = {i1}
    Rects = {}
    Legacy = {}
    MaxTries = 1
    MaxRequests = 2
    MaxCrashes = 0
    None = None
PROPERTIES CancelledNotRegistered
CHECK_DEADLOCK FALSE
