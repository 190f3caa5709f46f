SPECIFICATION Spec
CONSTANTS
    c1 = c1
    c2 = c2
    c3 = c3
    Conns <- MCConns
    Wrap <- MCWrap
INVARIANT
    DrainedStaysQuiet
CHECK_DEADLOCK FALSE
