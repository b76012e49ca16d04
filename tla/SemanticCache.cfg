SPECIFICATION Spec
CONSTANTS
    rain = rain
    rainfall = rainfall
    tax = tax
    Stores = {s1, s2}
    Lookups = {l1, l2}
    Clears = {x1}
    Timed = {s1}
    Queries <- MCQueries
    Near <- MCNear
SYMMETRY MCSymmetry
INVARIANTS
    InvalidatedIsGone
    OnlyUnfinishedAreImmortal
    StatsCountAnswers
