SPECIFICATION Spec
CONSTANTS
    Assets = {a1}
    Callers = {c1}
    Insiders = {c1}
    NoAsset = NoAsset
    Ops = {"archive", "download"}
    MaxFaults = 0
PROPERTIES
    PurgeDeletesRow
CHECK_DEADLOCK FALSE
