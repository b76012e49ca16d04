SPECIFICATION RequestSpec
CONSTANTS
    MaxIterations = 3
    MaxToolCalls = 1
    Retries = 1
    History <- ShortHistory
    FailureThreshold = 3
    RecoveryTimeout = 2
PROPERTY AllTrafficToFallback
CHECK_DEADLOCK FALSE
