SPECIFICATION FairSpec
CONSTANTS
    o1 = o1
    t1 = t1
    t2 = t2
    t3 = t3
    NoOrder = NoOrder
    StrayOrder = StrayOrder
    None = None
    Orders = {o1}
    Transfers = {t1, t2, t3}
    Slots = {s1, s2}
    Admins = {}
    Price <- OnePrice
    Amount <- FullAndStray
    OrderOf <- FirstForOrder
    MaxDeliveries <- OnceEach
    MaxFaults <- OneFaultEach
CHECK_DEADLOCK FALSE
PROPERTIES
    EveryTransferAccounted
