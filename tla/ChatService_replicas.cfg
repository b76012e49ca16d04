SPECIFICATION Spec
CONSTANTS
    Sends = {1, 2}
    Sessions = {s1}
    Replicas = {r1, r2}
    AgentIds = {"demo", "created"}
    Types = {"QUIZ", "WEATHER"}
    AgentTypes <- Demo
    DefaultType = "QUIZ"
    NoType = "none"
    MaxRestarts = 0
PROPERTY ContextIsComplete
CHECK_DEADLOCK FALSE
