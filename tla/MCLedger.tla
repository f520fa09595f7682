------------------------------ MODULE MCLedger ------------------------------
(* Ledger on a rider who owns a business, a driver and three references.    *)
EXTENDS Ledger, TLC

CONSTANTS rider, driver, r1, r2, r3

MCOwners   == {rider, driver}
MCBaseRefs == {r1, r2, r3}
MCAmounts  == {1, 2}

\* The business wallet was funded by hand before the first posting.
MCOpening == [a \in Accounts |-> IF a = BusinessWallet(rider) THEN 2 ELSE 0]

RefSymmetry == Permutations(MCBaseRefs)
=============================================================================
