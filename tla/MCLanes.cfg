SPECIFICATION MCSpec
CONSTANTS
    Sessions = {s1, s2}
    t1 = t1
    t2 = t2
    Order <- MCOrder
    MayDepend <- MCMayDepend
    MayTouch <- MCMayTouch
    Files <- MCFiles
    Shared = {}
    Views = {}
    Quick = {t2}
    Askers = {t1}
    MaxDiff = 1
    MaxEdits = 1
    MaxClaims = 2
    None = None
    Corrupt = Corrupt
SYMMETRY MCSymmetry
INVARIANTS BoardIsRight ClaimedLanesAreDisjoint FencedLanesAreDisjoint
PROPERTIES BatchCanStart
CHECK_DEADLOCK FALSE
