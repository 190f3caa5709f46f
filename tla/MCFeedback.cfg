SPECIFICATION Spec
CONSTANTS
    t1 = t1
    t2 = t2
    None = None
    Threads <- MCThreads
    Latencies <- MCLatencies
    WindowSecs = 0
    RateDegraded = 30
    RateReadOnly = 50
    RateEmergency = 60
    LatencyDegraded = 1
    LatencyReadOnly = 2
    OperatorModes <- MCModes
    MaxObs = 2
SYMMETRY MCSymmetry
INVARIANTS
    TypeOK
    OrderlyModeFollowsWindow
PROPERTIES
    LatchedForGood
    RecoveredStays
