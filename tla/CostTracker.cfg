SPECIFICATION Spec
CONSTANTS
    Pods = {p1, gw, alien}
    InNamespace = {p1, gw}
    LLMPods = {p1, alien}
    Windows = {w1, w2}
    Costs = {5}
    Models = {m1, m2}
    Periods <- MCPeriods
    MaxServed = 2
INVARIANTS
    MoneyAddsUp
    TokensCoverCounts
SYMMETRY MCSymmetry
CHECK_DEADLOCK FALSE
