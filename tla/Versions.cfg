SPECIFICATION SceneSpec
CONSTANTS
    Semvers = {v1, v2}
    First = v1
    Files = {f1, f2}
    Home <- Spread
    Requests = {r1, r2}
    Ops <- AllOps
    None = None
    MaxCrashes = 1
    Matrices = {u1, u2, u3}
    FirstMatrix = FirstMatrix
    PartCount = 2
    Callers = {1, 2}
    Releases = 2
    S3Prefixes = {p1, p2}
    Paths = {q1}
    Puts = {w1, w2}
    Tidiers = {t1}
    NoKey = NoKey
    Arrivals = {u1, u2, u3}
    Sorters = {s1}
    MaxListed = 2
    NotCounted = NotCounted
SYMMETRY SceneSymmetry
INVARIANTS
    OneLatest
    TotalsExplained
    FilesExplained
    PartsExplained
    AppendsExplained
    MatrixExplained
CHECK_DEADLOCK FALSE
