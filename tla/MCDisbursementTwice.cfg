SPECIFICATION Spec
CONSTANTS
    i1 = i1
    i2 = i2
    c1 = c1
    c2 = c2
    d1 = d1
    u1 = u1
    u2 = u2
    Requests = {i1}
    Jobs = {j1, j2}
    FirstPhases = {"PLANNING"}
    MaxFlows = 2
    MaxMoves = 0
    MaxFaults = 0
    Kind <- KindOf
    User <- Users
    Cost <- Costs
    Budget <- BudgetOfTwo
CHECK_DEADLOCK FALSE
INVARIANTS
    OneActiveDisbursement
