SPECIFICATION FairSpec
CONSTANTS
    t1 = t1
    t2 = t2
    None = None
    Threads <- MCThreads
    Latencies <- MCZeroLatency
    WindowSecs = 0
    RateDegraded = 30
    RateReadOnly = 50
    RateEmergency = 60
    LatencyDegraded = 1
    LatencyReadOnly = 2
    OperatorModes = {}
    MaxObs = 2
PROPERTIES
    RecoversBelowEmergency
