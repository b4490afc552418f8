SPECIFICATION MCSpec
CONSTANTS
    Workers = {w1, w2, w3}
    Nifs = {n1, n2}
    Nums = {F1}
    MaxId = 3
    Free = Free
    NoJob = NoJob
    Lanes = {l1, l2}
    MaxExplicit = 1
    MaxCommands = 3
    None = None
INVARIANTS ChainIsLinear HeadMirrorsTail DistinctIds
PROPERTIES AppendsToChain EveryGenerationEnds NewNumberIsFresh AllocationEnds
CHECK_DEADLOCK FALSE
