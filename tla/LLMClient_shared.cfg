SPECIFICATION FairSpec
CONSTANTS
    Callers = {c1, c2, c3}
    FailureThreshold = 2
    RecoveryTimeout = 2
    CountCap = 4
INVARIANTS
    TypeOK
    ClosedIffBelowThreshold
    HalfOpenMeansCooledDown
PROPERTIES
    PrimaryOnlyWhenAllowed
    FailedProbeReopens
    Recovers
