SPECIFICATION FairSpec
CONSTANTS
    delivery = delivery
    d1 = d1
    d2 = d2
    t1 = t1
    t2 = t2
    t3 = t3
    None = None
    Deliveries <- OneDelivery
    Drivers <- TwoDrivers
    Tasks <- TwoTasks
    Methods <- AllMethods
    Fares <- OneFare
    Limit = 2
    Admin = FALSE
    Faults = FALSE
PROPERTIES
    AwardSpec
    SearchEnds
CHECK_DEADLOCK FALSE
