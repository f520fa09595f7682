CONSTANTS
    driver = driver
    rider = rider
    dpay = dpay
    rpay = rpay
    payout = payout
    trip = trip
    t1 = t1
    t2 = t2
    Null = Null
    Owners <- MCOwners
    BaseRefs <- MCBaseRefs
    Amounts <- MCAmounts
    Opening <- MCOpening
    Drivers <- MCDrivers
    OwnerOf <- MCOwnerOf
    AmountOf <- MCAmountOf
    Payments <- BothPayments
    Withdrawals <- OneWithdrawal
    Trips <- OneTrip
    Tasks <- OneTask
    Faults = FALSE
SPECIFICATION MoneySpec
INVARIANTS
    CreditedExactly
    GatewayReconciles
CHECK_DEADLOCK FALSE
