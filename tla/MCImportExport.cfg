SPECIFICATION MCSpec
CONSTANTS
    Process = {p1, p2}
    a1 = a1
    a2 = a2
    t1 = t1
    t2 = t2
    Path = {a1, a2}
    Slot = {s1}
    Tokens = {t1, t2}
    None = None
    Stem <- MCStem
    Runtimes <- MCRuntimes
    Foreign <- MCForeign
    MaxJobs = 2
    MaxTurns = 1
    MaxFailures = 1
INVARIANTS
    ImportLeavesVerified
    ExportTakesBack
CHECK_DEADLOCK FALSE
