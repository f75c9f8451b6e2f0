SPECIFICATION Spec
CONSTANTS
    i1 = i1
    i2 = i2
    c1 = c1
    c2 = c2
    d1 = d1
    u1 = u1
    u2 = u2
    Requests = {i1, i2, c1, c2, d1}
    Jobs = {j1, j2}
    FirstPhases = {"PLANNING", "INGREDIENT_PURCHASE"}
    MaxFlows = 2
    MaxMoves = 1
    MaxFaults = 1
    Kind <- KindOf
    User <- Users
    Cost <- Costs
    Budget <- BudgetOfTwo
SYMMETRY Symmetry
CONSTRAINT OneTrouble
CHECK_DEADLOCK FALSE
INVARIANTS
    TypeOK
    OneLiveFlow
    FundsWithinBudget
PROPERTIES
    PhaseMovesForward
