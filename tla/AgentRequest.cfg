SPECIFICATION RequestFairSpec
CONSTANTS
    MaxIterations = 5
    MaxToolCalls = 2
    Retries = 3
    History <- ShortHistory
    FailureThreshold = 3
    RecoveryTimeout = 2
INVARIANTS
    RequestTypeOK
    RequestsWellFormed
    LLMBudget
    ReportsOneRun
PROPERTIES
    RunsAreTurns
    ClientsKeepContract
    RetriesKeepCooldown
    Answered
CHECK_DEADLOCK FALSE
