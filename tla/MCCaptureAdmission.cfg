SPECIFICATION MCSpec
CONSTANTS
    Job = {j1, j2, j3}
    Model = {m1, m2}
    Prefix = {p1, p2}
    NoArtifact = NoArtifact
    Keep = 1
    MaxBusy = 2
SYMMETRY Symmetry
INVARIANTS
    TypeOK
    StoreBounded
    EvictedWereOld
    PinnedIsHeld
    OnePerPrefix
PROPERTIES
    DiscardedWasHeld
CHECK_DEADLOCK FALSE
