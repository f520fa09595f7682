----------------------------- MODULE MCDelivery -----------------------------
(* Delivery on one delivery, which shares nothing with others but its      *)
(* drivers' availability and the business's credit.                        *)
EXTENDS Delivery, TLC

CONSTANTS delivery, d1, d2, t1, t2, t3

OneDelivery == {delivery}
OneDriver   == {d1}
TwoDrivers  == {d1, d2}
TwoTasks    == {t1, t2}
ThreeTasks  == {t1, t2, t3}
AllMethods  == {"WALLET", "CASH", "INVOICE"}
OnAccount   == {"INVOICE"}
FromWallet  == {"WALLET"}
OneFare     == {1}
TwoFares    == {1, 2}

Symmetry == Permutations(TwoTasks)
=============================================================================
