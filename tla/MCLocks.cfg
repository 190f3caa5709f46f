SPECIFICATION Spec
CONSTANTS
    t1 = t1
    t2 = t2
    Threads <- MCThreads
INVARIANTS
    TypeOK
    NoStandstill
    SomebodyGoesOn
    OnlyEngineIsLost
PROPERTIES
    SlowCallersAlone
CHECK_DEADLOCK FALSE
