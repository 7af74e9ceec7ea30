SPECIFICATION SceneSpec
CONSTANTS
    Assets = {a1}
    Callers = {c1, c2}
    Insiders = {c1, c2}
    NoAsset = NoAsset
    Ops <- AllOps
    MaxFaults = 1
    Works = {w1}
    Editors = {c1, c2}
    Slugs = {x1, x2}
    Engines = {e1, e2}
    Semvers = {v1, v2}
    Same = Same
    MaxDeaths = 1
    Leaves <- SomeLeaves
    Paths <- SomePaths
    MaxBytes = 8
    MaxFiles = 3
SYMMETRY Symmetry
INVARIANTS
    TypeOK
    ClockHonest
    HistoryHasSubject
    EditsExplained
    ContentsKept
PROPERTIES
    ReportActionCompletes
CHECK_DEADLOCK FALSE
