SPECIFICATION SidecarSpec
CONSTANTS
    Client = {c1, c2}
    Slot = {0}
    Artifact = {a1}
    Conversation = {a1}
    NoOne = NoOne
    NoSlot = NoSlot
    Size <- OneEach
    MaxTurns = 0
    MaxUnloads = 0
    MaxCalls = 1
INVARIANTS
    YieldedSeedStops
CHECK_DEADLOCK FALSE
