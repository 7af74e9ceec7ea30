SPECIFICATION PurgeSpec
CONSTANTS
    Assets = {a1, a2}
    Callers = {c1, g1}
    Insiders = {c1}
    NoAsset = NoAsset
    Ops = {"archive", "restore", "download", "report"}
    MaxFaults = 1
PROPERTIES
    PurgeProceeds
CHECK_DEADLOCK FALSE
