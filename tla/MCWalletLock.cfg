SPECIFICATION Spec
CONSTANTS
    admin = admin
    fundraiser = fundraiser
    payment = payment
    transferOut = transferOut
    NoRef = NoRef
    Wallets = {fundraiser}
    Calls = {c1, c2}
    MaxRows = 2
    Opening <- OpeningTwo
    Requests <- Debits
CHECK_DEADLOCK FALSE
PROPERTIES
    DebitHoldsLock
