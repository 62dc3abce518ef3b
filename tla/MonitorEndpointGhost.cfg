CONSTANTS
    c1 = c1
    c2 = c2
    c3 = c3
    Conns <- MCConns
    HasNext = TRUE
    Cancel = TRUE
SPECIFICATION Spec
INVARIANT MonitorShowsOnlyLive
SYMMETRY MCSymmetry
CHECK_DEADLOCK FALSE
