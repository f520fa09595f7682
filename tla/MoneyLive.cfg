CONSTANTS
    driver = driver
    rider = rider
    dpay = dpay
    rpay = rpay
    payout = payout
    trip = trip
    t1 = t1
    t2 = t2
    Null = Null
    Owners <- MCOwners
    BaseRefs <- MCBaseRefs
    Amounts <- MCAmounts
    Opening <- OwingOpening
    Drivers <- MCDrivers
    OwnerOf <- MCOwnerOf
    AmountOf <- MCAmountOf
    Payments <- DriverPayment
    Withdrawals <- OneWithdrawal
    Trips <- NoTrip
    Tasks <- TwoTasks
    Faults = FALSE
SPECIFICATION MoneyFairSpec
PROPERTIES
    ChargeIsCredited
    FailureIsUndone
CHECK_DEADLOCK FALSE
