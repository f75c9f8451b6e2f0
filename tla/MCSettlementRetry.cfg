SPECIFICATION FairSpec
CONSTANTS
    d1 = d1
    d2 = d2
    Admin = Admin
    Fundraiser = Fundraiser
    Settled = Settled
    NoRef = NoRef
    None = None
    Donations = {d2}
    Amount <- ThirdAndMore
    Target = 2
    Calls = {c1}
    MaxRows = 8
    BatchSize = 1
    MaxAttempts = 1
    MaxNights = 0
    FaultBudget = 1
    MaxFaults <- OneWalletError
CHECK_DEADLOCK FALSE
PROPERTIES
    FailedEventRetried
