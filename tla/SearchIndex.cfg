SPECIFICATION SceneSpec
CONSTANTS
    Assets = {a1, a2}
    Reasons = {"asset.publish", "asset.archive"}
    Workers = {k1, k2}
    MaxEdits = 2
    Curators = {k1, k2}
    Tagged = {a1, a2}
    Labels = {l1, l2}
    NoLabel = NoLabel
    MaxAborts = 1
    Pipelines = {"URP"}
    Targets = {"PC"}
    Kinds = {"FBX"}
    Tags = {"prop"}
    Facets = {"Unity"}
    None = "none"
    MaxRows = 2
    ShelfCount = 2
    Works = {1, 2, 3}
    AssetsPerRow = 2
SYMMETRY SceneSymmetry
INVARIANTS
    StaleIsExplained
    TagsExplained
    AnswersAgree
    RowsExplained
CHECK_DEADLOCK FALSE
