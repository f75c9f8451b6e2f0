SPECIFICATION Spec
CONSTANTS
    admin = admin
    fundraiser = fundraiser
    payment = payment
    transferOut = transferOut
    NoRef = NoRef
    Wallets = {admin, fundraiser}
    Calls = {c1, c2}
    MaxRows = 3
    Opening <- OpeningOne
    Requests <- AllRequests
SYMMETRY CallSymmetry
CHECK_DEADLOCK FALSE
INVARIANTS
    TypeOK
    BalanceMatchesRows
    OneRowPerReference
PROPERTIES
    PostsLikeLedger
