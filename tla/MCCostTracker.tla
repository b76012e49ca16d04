---------------------------- MODULE MCCostTracker ----------------------------
EXTENDS CostTracker, TLC

MCSymmetry == Permutations(Models)

\* No time at all, the shortest minute period and a window OpenCost knows by name.
MCPeriods == {[n |-> 0, unit |-> "h"], [n |-> 1, unit |-> "m"], [n |-> 7, unit |-> "week"]}
=============================================================================
