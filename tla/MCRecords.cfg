SPECIFICATION Spec
CONSTANTS
    t1 = t1
    t2 = t2
    i1 = i1
    r1 = r1
    r2 = r2
    None = None
    Threads <- MCThreads
    Ids <- MCIds
    RunIds <- MCRunIds
    MaxTurns = 4
SYMMETRY MCSymmetry
INVARIANTS
    TypeOK
    LogFollowsEngine
    LogTellsTenants
    WorkIsCharged
    FreshStart
    ReportNeverAhead
PROPERTIES
    ImplementsRegistry
