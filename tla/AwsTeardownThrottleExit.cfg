CONSTANT Throttle = TRUE
SPECIFICATION Spec
INVARIANT ExitZeroMeansClean
CHECK_DEADLOCK FALSE
