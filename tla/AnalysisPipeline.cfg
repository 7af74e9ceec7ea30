SPECIFICATION SceneSpec
CONSTANTS
    Files = {f1}
    NoFile = NoFile
    Calls = {c1, c2}
    MaxAttempts = 2
    MaxStalls = 1
    MaxReanalyses = 1
    MaxCrashes = 1
    Models = {"small", "large", "huge"}
    Weight <- Heavy
    Huge = {"huge"}
    Uploads = {c1, c2}
    Sizes = 2
    Nothing = Nothing
    MaxAnalyses <- Often
    MaxCompletions = 3
    Goods = {c1, c2}
    Owners = {"u1"}
    Owner <- Mine
    Retention = 2
    NoRow = NoRow
    LastDay = 3
    MaxDownloads = 3
    MaxObjects = 2
    MaxWalks = 2
    Admins = {c1, c2}
    RetentionDays = 1
    LastTrailDay = 2
SYMMETRY Symmetry
INVARIANTS
    TypeOK
    OutcomeRecorded
    PreviewsExplained
    BooksExplained
    TrailExplained
CHECK_DEADLOCK FALSE
