CONSTANT Throttle = FALSE
SPECIFICATION Spec
INVARIANT ExitZeroMeansClean
PROPERTY ScriptEnds
CHECK_DEADLOCK FALSE
