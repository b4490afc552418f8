SPECIFICATION Spec
CONSTANTS
    Tasks = {t1, t2}
    Tracks <- MCTracks
    SkillGates <- MCSkillGates
    Threshold = 1
    MaxBegun = 2
    MaxCount = 1
    MaxDays = 2
    MaxKills = 1
    Missing = Missing
    Empty = Empty
INVARIANTS DueFollowsTheCounter ViewsAgree SyncIsIdempotent
PROPERTIES RemovedOnlyWhenArchived
SYMMETRY MCSymmetry
