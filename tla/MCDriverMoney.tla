--------------------------- MODULE MCDriverMoney ----------------------------
(* DriverMoney on one driver and one rider.                                 *)
EXTENDS DriverMoney, TLC

CONSTANTS driver, rider, dpay, rpay, payout, trip, t1, t2

MCOwners == {driver, rider}
MCDrivers == {driver}
MCBaseRefs == Things \cup {SettleRef(r) : r \in Things} \cup {CreditRef(r) : r \in Things}
MCAmounts == {1, 2}

\* The driver's trips by wallet paid for one withdrawal; with Owing, there is
\* also the commission of a cash trip to settle.
MCOpening == [a \in Accounts |-> IF a = DriverWallet(driver) THEN 2 ELSE 0]
OwingOpening == [MCOpening EXCEPT ![CommissionPayable(driver)] = 1]

DriverPayment == {dpay}
RiderPayment  == {rpay}
BothPayments  == {dpay, rpay}
NoPayment     == {}
OneWithdrawal == {payout}
NoWithdrawal  == {}
OneTrip       == {trip}
NoTrip        == {}

\* A top-up and a withdrawal larger than the commission of the trip.
MCOwnerOf  == [r \in Things |-> IF r = rpay THEN rider ELSE driver]
MCAmountOf == [r \in Things |-> IF r = trip THEN 1 ELSE 2]

OneTask  == {t1}
TwoTasks == {t1, t2}
TaskSymmetry == Permutations(TwoTasks)
=============================================================================
