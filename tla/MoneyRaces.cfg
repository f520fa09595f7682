CONSTANTS
    driver = driver
    rider = rider
    dpay = dpay
    rpay = rpay
    payout = payout
    trip = trip
    t1 = t1
    t2 = t2
    Null = Null
    Owners <- MCOwners
    BaseRefs <- MCBaseRefs
    Amounts <- MCAmounts
    Opening <- MCOpening
    Drivers <- MCDrivers
    OwnerOf <- MCOwnerOf
    AmountOf <- MCAmountOf
    Payments <- RiderPayment
    Withdrawals <- OneWithdrawal
    Trips <- OneTrip
    Tasks <- TwoTasks
    Faults = TRUE
SPECIFICATION MoneySpec
SYMMETRY TaskSymmetry
INVARIANTS
    RiderCreditedExactly
    CreditedIsCharged
    FailedIsRefunded
CHECK_DEADLOCK FALSE
