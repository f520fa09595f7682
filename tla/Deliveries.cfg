SPECIFICATION Spec
CONSTANTS
    delivery = delivery
    d1 = d1
    d2 = d2
    t1 = t1
    t2 = t2
    t3 = t3
    None = None
    Deliveries <- OneDelivery
    Drivers <- OneDriver
    Tasks <- TwoTasks
    Methods <- AllMethods
    Fares <- TwoFares
    Limit = 2
    Admin = TRUE
    Faults = TRUE
INVARIANTS
    CompletedIsBilled
    RoundIsFresh
PROPERTIES
    BillSpec
SYMMETRY Symmetry
CHECK_DEADLOCK FALSE
