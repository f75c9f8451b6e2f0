SPECIFICATION FairSpec
CONSTANTS
    d1 = d1
    d2 = d2
    Admin = Admin
    Fundraiser = Fundraiser
    Settled = Settled
    NoRef = NoRef
    None = None
    Donations = {d1, d2}
    Amount <- ThirdAndMore
    Target = 3
    Calls = {c1, c2}
    MaxRows = 8
    BatchSize = 2
    MaxAttempts = 2
    MaxNights = 1
    FaultBudget = 1
    MaxFaults <- OneEach
CHECK_DEADLOCK FALSE
PROPERTIES
    SurplusIsSettled
