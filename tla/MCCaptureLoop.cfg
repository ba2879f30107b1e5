SPECIFICATION LoopSpec
CONSTANTS
    Client = {loop}
    Loop = loop
    Slot = {0}
    Artifact = {a1}
    Conversation = {a1}
    NoOne = NoOne
    Size <- Growing
    MinTokens = 2
    MaxTurns = 2
    MaxUnloads = 1
    MaxRestarts = 1
INVARIANTS
    LoopTypeOK
PROPERTIES
    RestoredNotRecaptured
    EveryTickEnds
CHECK_DEADLOCK FALSE
