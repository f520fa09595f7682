CONSTANTS
    ride = ride
    d1 = d1
    d2 = d2
    t1 = t1
    t2 = t2
    t3 = t3
    None = None
    Rides <- OneRide
    Drivers <- TwoDrivers
    Tasks <- TwoTasks
    Switches <- NoSwitch
    ManualStart = FALSE
    Faults = FALSE
SPECIFICATION FairSpec
CHECK_DEADLOCK FALSE
INVARIANTS
    DispatchIsDriven
    NoDriversIsFinal
PROPERTIES
    SearchEnds
    OffersClose
