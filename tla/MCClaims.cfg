SPECIFICATION MCSpec
CONSTANTS
    a = a
    b = b
    m = m
    Sessions = {a, b, m}
    Clones <- MCClones
    CloneOf <- MCCloneOf
    Tasks = {t1}
    Touches <- MCTouches
    HasRemote = TRUE
    StaleAfter = 0
    MaxClock = 2
    MaxFailures = 1
    MaxCommands = 4
    NoFile = NoFile
    Corrupt = Corrupt
    NoRef = NoRef
    Files = {f1, f2}
    Names = {n1, n2}
    Kinds = {"requirement", "work-item", "test-case"}
    Stages = {"draft", "approved"}
    Targets = {f1, f2}
    MaxRefs = 2
    NoName = NoName
    Absent = Absent
SYMMETRY MCSymmetry
INVARIANTS OneOwnerAcrossClones OwnerKeepsItsClaim DocsAreTraceable
