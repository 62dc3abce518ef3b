CONSTANTS
    c1 = c1
    c2 = c2
    c3 = c3
    Conns <- MCConns
    HasNext = TRUE
    Cancel = TRUE
SPECIFICATION Spec
INVARIANT GhostOnlyClosed
CHECK_DEADLOCK FALSE
