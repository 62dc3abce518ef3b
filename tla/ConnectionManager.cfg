CONSTANTS
    c1 = c1
    c2 = c2
    eL = eL
    eR1 = eR1
    eR2 = eR2
    Conns <- MCConns
    Eps <- MCEps
    LocalEps <- MCLocalEps
    VNIs <- MCVNIs
    MaxDst <- MCMaxDst
    MaxEnv <- MCMaxEnv
SPECIFICATION Spec
INVARIANTS
    ReadyConnectionInstalled
    NoOrphanRemoteHalf
    VniUnique
PROPERTIES
    LifecycleRefined
    HealEnds
CHECK_DEADLOCK FALSE
