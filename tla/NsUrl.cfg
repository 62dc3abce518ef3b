CONSTANTS
    Names <- MCNames
    Intfs <- MCIntfs
    Keys <- MCKeys
    Values <- MCValues
    MinPairs <- MCMinPairs
    MaxPairs <- MCMaxPairs
    MaxUrls <- MCMaxUrls
    Confs <- MCConfs
    Envs <- MCEnvs
SPECIFICATION Spec
INVARIANT AnnotationRoundTrip
INVARIANT LabelsRoundTrip
CHECK_DEADLOCK FALSE
