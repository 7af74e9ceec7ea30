SPECIFICATION FairUploadSpec
CONSTANTS
    Files = {f1, f2}
    NoFile = NoFile
    Calls = {c1, c2}
    MaxAttempts = 2
    MaxStalls = 1
    MaxReanalyses = 0
    MaxCrashes = 2
INVARIANTS
    FanInCovered
PROPERTIES
    LeavesPending
CHECK_DEADLOCK FALSE
