SPECIFICATION PageSpec
CONSTANTS
    Sends = {m1, m2, m3}
    Sessions = {s1, s2, s3}
    Replicas = {r1, r2}
    AgentIds = {"demo", "created"}
    Types = {"QUIZ"}
    AgentTypes <- Demo
    DefaultType = "QUIZ"
    NoType = "none"
    MaxRestarts = 1
    Pages = {p1}
INVARIANTS
    Exchanges
    HistoryIsPrefix
    PageAlternates
    PageFollowsSession
PROPERTIES
    ReplicaRemembers
SYMMETRY MCSymmetry
CHECK_DEADLOCK FALSE
