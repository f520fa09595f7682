------------------------------ MODULE MCOffice ------------------------------
(* Office with one rider, two drivers and a company.                       *)
EXTENDS Office, TLC

CONSTANTS rider, driver1, driver2, company, sedan, bike

Fare(total, commission, tax) == [total |-> total, commission |-> commission, tax |-> tax]
MCFareOf == [RIDE |-> Fare(6, 2, 1), DELIVERY |-> Fare(5, 1, 0)]
MCFee == [total |-> 2, commission |-> 1]

Tariff(base, perMinute, minimum, fee) ==
    [base |-> base, perKm |-> 1, perMinute |-> perMinute, minimum |-> minimum, fee |-> fee]
MCTariffs == {Tariff(1, 0, 3, 1), Tariff(5, 1, 0, 2)}
MCRoutes == {[km |-> 15, minutes |-> 1], [km |-> 4, minutes |-> 0]}
MCPromos == {[type |-> "FIXED", value |-> 4, max |-> 0],
             [type |-> "PERCENTAGE", value |-> 50, max |-> 2]}

\* 2024-02-28 and 2024-12-30.
MCStarts == {788, 1094}

Symmetry == Permutations({driver1, driver2})
=============================================================================
