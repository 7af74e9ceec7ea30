SPECIFICATION SceneSpec
CONSTANTS
    Users = {u1, u2}
    Requests = {r1, r2}
    None = None
    MaxFaults = 1
    Callers = {r1, r2}
    Tokens = {t1}
    Bodies = {u1, u2}
    Nil = Nil
    Limit = 2
    MaxWindow = 2
    MaxCount = 3
    MaxMade = 2
    MaxGateFaults = 1
    Rows = {x1}
    Fields = {"isActive", "sortOrder"}
    Goods = {g1, g2}
    Clerks = {r1, r2}
    Fillers = {l1}
    Locales = {u1, u2}
    NoRow = NoRow
    ReindexLimit = 1
    MaxLapses = 1
SYMMETRY Symmetry
INVARIANTS
    TypeOK
    PrincipalExplained
    EntryHolds
    OneEffectPerKey
    CatalogueExplained
PROPERTIES
    AdminsRemain
CHECK_DEADLOCK FALSE
