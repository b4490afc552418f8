SPECIFICATION FairSpec
CONSTANTS
    Workers = {w1, w2}
    Invoices = {i1}
    Rects = {r1, r2}
    Legacy = {i1}
    MaxTries = 2
    MaxRequests = 3
    MaxCrashes = 1
    None = None
INVARIANTS OneRecordEach AnnulledForReason CorrectedForReason AcceptedMeansRegistered
PROPERTIES HistoryIsKept EveryRequestEnds
CHECK_DEADLOCK FALSE
