SPECIFICATION Spec
CONSTANTS
    Slots = {s1, s2, s3}
    Subject <- Apart
    Requests = {r1, r2}
    Visitors = {v1}
    None = None
    Cap = 1
    Shown = 1
    Typed = {0}
    MaxFaults = 1
SYMMETRY Symmetry
INVARIANTS
    ActiveBounded
    PageExplained
PROPERTIES
    FullReorderLands
CHECK_DEADLOCK FALSE
