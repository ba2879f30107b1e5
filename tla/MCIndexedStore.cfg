SPECIFICATION Spec
CONSTANTS
    Process = {p1, p2}
    Digest = {d1, d2}
    Sizes = {1, 2}
    None = None
    Limits <- SomeLimits
    MaxCalls = 4
    MaxStops = 1
SYMMETRY Interchangeable
INVARIANTS
    IndexTypeOK
PROPERTIES
    PutIsRecorded
    PruneMeetsItsLimits
    PruneRemovesNoMore
CHECK_DEADLOCK FALSE
