SPECIFICATION AloneSpec
CONSTANTS
    Job = {j1, j2}
    Digest = {d1}
    Reader = {r1}
    Process = {daemon, prewarm}
    MaxStamp = 1
    MaxBusy = 2
    NoFile = NoFile
    Garbage = Garbage
    Empty = Empty
    Torn = Torn
INVARIANTS
    AdmissionsSettleResolvable
