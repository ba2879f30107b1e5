SPECIFICATION Spec
CONSTANTS
    Client = {c1, c2}
    Slot = {s1}
    Artifact = {a1}
    Conversation = {a1}
    NoOne = NoOne
    Size <- OneEach
    MaxTurns = 1
    MaxUnloads = 0
INVARIANTS
    OkIsVerified
    RefusedIsErased
PROPERTIES
    EveryRestoreReturns
CHECK_DEADLOCK FALSE
