CONSTANTS
    Ifaces <- MCIfaces
    Ips <- MCIps
    Hws <- MCHws
    MaxRoutes <- MCMaxRoutes
    MaxArp <- MCMaxArp
SPECIFICATION Spec
INVARIANT EgressMatchesKernel
CHECK_DEADLOCK FALSE
