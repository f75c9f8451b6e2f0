SPECIFICATION Spec
CONSTANTS
    c1 = c1
    c2 = c2
    p1 = p1
    p2 = p2
    Calls = {c1, c2}
    Phases = {p1, p2}
    None = None
    Scenarios <- AllScenarios
    Target = 1
    Savings = 2
    Start = 1
    End = 2
    Window = 1
    Extra = 1
    MaxDay = 3
SYMMETRY Symmetry
CHECK_DEADLOCK FALSE
INVARIANTS
    TypeOK
    CopyIsCurrent
    PhasesMoveWithEnd
    WalletMoneyArrives
    FinishedIsCompleted
PROPERTIES
    FinalStays
