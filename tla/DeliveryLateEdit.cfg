SPECIFICATION Spec
CONSTANTS
    delivery = delivery
    d1 = d1
    d2 = d2
    t1 = t1
    t2 = t2
    t3 = t3
    None = None
    Deliveries <- OneDelivery
    Drivers <- OneDriver
    Tasks <- TwoTasks
    Methods <- OnAccount
    Fares <- TwoFares
    Limit = 2
    Admin = FALSE
    Faults = FALSE
PROPERTY FareFixedAtClaim
CHECK_DEADLOCK FALSE
