----------------------------- MODULE RideAward ------------------------------
(***************************************************************************)
(* What dispatch, trip and cancellation together promise about a ride,     *)
(* whatever its status is made to say in between: it is awarded to a       *)
(* driver at most once and for good, and its fare and its cancellation fee *)
(* are each charged at most once, only after the award and only with the   *)
(* driver it was awarded to.  RideDispatch implements this.                *)
(***************************************************************************)
CONSTANTS Rides, Drivers, None

VARIABLES
    winner,     \* the driver a ride was awarded to
    fare,       \* the driver its fare was charged with
    fee         \* the driver its cancellation fee was charged with

vars == <<winner, fare, fee>>

NoDriver == [r \in Rides |-> None]

Init == winner = NoDriver /\ fare = NoDriver /\ fee = NoDriver

Award(r, d) ==
    /\ winner[r] = None
    /\ winner' = [winner EXCEPT ![r] = d]
    /\ UNCHANGED <<fare, fee>>

ChargeFare(r) ==
    /\ fare[r] = None
    /\ winner[r] # None
    /\ fare' = [fare EXCEPT ![r] = winner[r]]
    /\ UNCHANGED <<winner, fee>>

ChargeFee(r) ==
    /\ fee[r] = None
    /\ winner[r] # None
    /\ fee' = [fee EXCEPT ![r] = winner[r]]
    /\ UNCHANGED <<winner, fare>>

Next == \E r \in Rides :
    \/ \E d \in Drivers : Award(r, d)
    \/ ChargeFare(r)
    \/ ChargeFee(r)

Spec == Init /\ [][Next]_vars
=============================================================================
