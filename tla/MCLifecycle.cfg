SPECIFICATION Spec
CONSTANTS
    c1 = c1
    c2 = c2
    c3 = c3
    Conns <- MCConns
    Wrap <- MCWrap
INVARIANTS
    TypeOK
    CountExact
    LateArrivalsNeverRun
PROPERTIES
    DrainedMeansQuiet
    OnlyHeldUpHoldDrain
    ImplementsService
CHECK_DEADLOCK FALSE
