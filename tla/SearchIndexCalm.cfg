SPECIFICATION CalmSpec
CONSTANTS
    Assets = {a1, a2}
    Reasons = {"asset.publish", "asset.archive", "asset.update"}
    Workers = {w1, w2}
    MaxEdits = 2
PROPERTIES
    MirrorsCatalogue
CHECK_DEADLOCK FALSE
