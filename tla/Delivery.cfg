SPECIFICATION SceneSpec
CONSTANTS
    Events = {e1}
    Channels <- AllChannels
    Replicas = {p1}
    Sockets = {s1}
    Home <- Spread
    HasUrl = TRUE
    MaxAttempts = 2
    MaxStalls = 1
    MaxCrashes = 1
    Threads = {t1, t2}
    Grounds = {a1}
    People = {owner, admin}
    Owner = owner
    Admin = admin
    Rows = {c1, c2}
    MaxDepth = 2
    NoOne = NoOne
    MaxDeaths = 1
    Entries = {x1, x2, x3}
    PageSize = 1
    MaxPlace = 4
    NoEntry = NoEntry
SYMMETRY Symmetry
INVARIANTS
    InboxExplained
    LogTellsTruth
    GoneSoon
    ThreadsComplete
    NoticesExplained
    WalkExplained
CHECK_DEADLOCK FALSE
