SPECIFICATION AloneSpec
CONSTANTS
    Job = {j1, j2, j3}
    Digest = {d1}
    Reader = {r1}
    Process = {daemon}
    MaxStamp = 1
    MaxBusy = 2
    NoFile = NoFile
    Garbage = Garbage
    Empty = Empty
    Torn = Torn
SYMMETRY JobSymmetry
INVARIANTS
    TypeOK
    ResolveServesAdmittedBytes
    ResolvableWasVerified
PROPERTIES
    AdmittedAloneIsResolvable
    KeepsItsPromise
