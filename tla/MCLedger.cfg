CONSTANTS
    rider = rider
    driver = driver
    r1 = r1
    r2 = r2
    r3 = r3
    Null = Null
    Owners <- MCOwners
    BaseRefs <- MCBaseRefs
    Amounts <- MCAmounts
    Opening <- MCOpening
SPECIFICATION LedgerSpec
SYMMETRY RefSymmetry
INVARIANTS
    NoOverdraft
    RunningBalance
    PostedOnce
    RefundMatches
    Conservation
    InvoiceIsWhole
CHECK_DEADLOCK FALSE
