SPECIFICATION Spec
CONSTANTS
    o1 = o1
    t1 = t1
    t2 = t2
    t3 = t3
    NoOrder = NoOrder
    StrayOrder = StrayOrder
    None = None
    Orders = {o1}
    Transfers = {t1, t2}
    Slots = {s1, s2}
    Admins = {a1}
    Price <- OnePrice
    Amount <- FullAndHalf
    OrderOf <- BothForOrder
    MaxDeliveries <- TwiceEach
    MaxFaults <- OneFaultEach
SYMMETRY SlotSymmetry
CONSTRAINT SplitOrTroubled
CHECK_DEADLOCK FALSE
INVARIANTS
    TypeOK
    CampaignCoversPayments
    ReceiptsAnnounced
    TransferCreditedOnce
    DonationCountedOnce
    SplitPaymentAddsUp
PROPERTIES
    ReceiptNeverShrinksAlone
