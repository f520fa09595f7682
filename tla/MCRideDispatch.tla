--------------------------- MODULE MCRideDispatch ---------------------------
(* RideDispatch on one ride.  Rides share nothing but their drivers'        *)
(* availability, which drivers may also set at will.                        *)
EXTENDS RideDispatch, TLC

CONSTANTS ride, d1, d2, t1, t2, t3

OneRide    == {ride}
TwoDrivers == {d1, d2}
OneDriver  == {d1}
TwoTasks   == {t1, t2}
ThreeTasks == {t1, t2, t3}
Going      == {"ONLINE", "OFFLINE"}
NoSwitch   == {}

Symmetry3 == Permutations(TwoDrivers) \cup Permutations(ThreeTasks)
Symmetry2 == Permutations(TwoDrivers) \cup Permutations(TwoTasks)
=============================================================================
