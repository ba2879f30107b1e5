SPECIFICATION Spec
CONSTANTS
    Job = {j1, j2, j3}
    Short = short
    Long = long
    Published <- Two
    Tokens <- Grown
    Key <- Keys
    LineageOf <- OneLineage
    Unknown = Unknown
    NoFile = NoFile
    Raised = Raised
    Calls <- SomeCalls
    MaxDisturbs = 1
SYMMETRY Interchangeable
INVARIANTS
    DriveTypeOK
    OfferedIsOwn
    StagedIsWhole
    BestIsLongest
CHECK_DEADLOCK FALSE
