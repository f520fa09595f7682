------------------------------ MODULE Tracking -------------------------------
(***************************************************************************)
(* A delivery as its sender, its driver and its receiver follow it: the    *)
(* steps of its timeline, the driver's position, the receiver's code and   *)
(* the proof of delivery (logistics.service.ts, logistics-trip.service.ts).*)
(*                                                                         *)
(* Delivery abstracts the milestones, which change nothing but this        *)
(* screen; here there is nothing else.  A call reads the delivery, and     *)
(* writes what it read that it may: the claim of a driver is the only      *)
(* conditional write.  A status before a driver accepts is "WAITING".      *)
(***************************************************************************)
EXTENDS Integers, Sequences, SequencesExt

CONSTANTS
    Tasks,      \* slots for calls in progress
    None

VARIABLES
    status,     \* Delivery.status
    stamped,    \* the steps whose column holds a time
    verified,   \* whether receiverOtpVerifiedAt is set
    onMap,      \* whether the driver has a position
    task        \* the calls in progress, by name

vars == <<status, stamped, verified, onMap, task>>

\* buildTimeline.
Timeline == <<"REQUESTED", "ACCEPTED", "ARRIVED_AT_PICKUP", "PICKED_UP",
              "ARRIVED_AT_DROPOFF", "DELIVERED", "COMPLETED">>
Taps == {"ARRIVED_AT_PICKUP", "ARRIVED_AT_DROPOFF"}
Live == {"ACCEPTED", "PICKED_UP"}

\* What a call asks of the status it reads, the step it stamps and the status
\* it writes, if any.
Calls ==
    [assign   |-> [from |-> {"WAITING"},              step |-> "ACCEPTED",           to |-> "ACCEPTED"],
     arrive   |-> [from |-> {"ACCEPTED"},             step |-> "ARRIVED_AT_PICKUP",  to |-> None],
     pickup   |-> [from |-> {"ACCEPTED"},             step |-> "PICKED_UP",          to |-> "PICKED_UP"],
     dropoff  |-> [from |-> {"PICKED_UP"},            step |-> "ARRIVED_AT_DROPOFF", to |-> None],
     proof    |-> [from |-> {"PICKED_UP"},            step |-> "DELIVERED",          to |-> None],
     complete |-> [from |-> {"PICKED_UP"},            step |-> "COMPLETED",          to |-> "COMPLETED"],
     cancel   |-> [from |-> {"WAITING", "ACCEPTED"},  step |-> "CANCELLED",          to |-> "CANCELLED"]]

Init ==
    /\ status = "WAITING" /\ stamped = {"REQUESTED"}
    /\ verified = FALSE /\ onMap \in BOOLEAN
    /\ task = [t \in Tasks |-> None]

\* acceptOffer's claim.
Claim ==
    /\ status = "WAITING"
    /\ status' = "ACCEPTED" /\ stamped' = stamped \cup {"ACCEPTED"}
    /\ UNCHANGED <<verified, onMap, task>>

\* Mutant of Allowed: a delivery is completed without its proof.
AllowedUnproven(c) ==
    /\ status \in Calls[c].from
    /\ c \in {"arrive", "dropoff"} => Calls[c].step \notin stamped

\* assignDriver, transitionAsDriver, recordMilestone (a repeated tap writes
\* nothing), submitProofOfDelivery, completeDelivery and cancelDelivery, as
\* far as they look at the row.
Allowed(c) ==
    /\ status \in Calls[c].from
    /\ c \in {"arrive", "dropoff"} => Calls[c].step \notin stamped
    /\ c = "complete" => "DELIVERED" \in stamped

Read(t, c) ==
    /\ task[t] = None /\ Allowed(c)
    /\ task' = [task EXCEPT ![t] = c]
    /\ UNCHANGED <<status, stamped, verified, onMap>>

Write(t) ==
    LET call == Calls[task[t]]
    IN  /\ task[t] # None
        /\ stamped' = stamped \cup {call.step}
        /\ status' = IF call.to = None THEN status ELSE call.to
        /\ task' = [task EXCEPT ![t] = None]
        /\ UNCHANGED <<verified, onMap>>

\* What lies between the two fails: the upload, the payment.
Throw(t) ==
    /\ task[t] # None
    /\ task' = [task EXCEPT ![t] = None]
    /\ UNCHANGED <<status, stamped, verified, onMap>>

\* verifyReceiverOtp, from the public page.
VerifyReceiverOtp ==
    /\ ~ verified /\ verified' = TRUE
    /\ UNCHANGED <<status, stamped, onMap, task>>

\* The driver's position comes and goes.
Move == onMap' = ~ onMap /\ UNCHANGED <<status, stamped, verified, task>>

Next ==
    \/ Claim \/ VerifyReceiverOtp \/ Move
    \/ \E t \in Tasks : Write(t) \/ Throw(t) \/ \E c \in DOMAIN Calls : Read(t, c)

-----------------------------------------------------------------------------
(* The screens.                                                            *)

\* getDelivery, for sender and driver.
GetDelivery == [status |-> status, position |-> status \in Live /\ onMap, steps |-> stamped]

\* trackDelivery, for whoever has the link.
TrackDelivery == [status |-> status, position |-> IF status \in Live THEN onMap ELSE FALSE,
                  steps |-> stamped]

\* getProofOfDelivery.
HasProof == "DELIVERED" \in stamped

\* The first step without a time.
Current == SelectInSeq(Timeline, LAMBDA step : step \notin stamped)

-----------------------------------------------------------------------------
(* Properties.                                                             *)

\* Apart from the two arrivals, which a driver taps or not, a step of the
\* timeline has its time only if all before it have theirs, whichever calls
\* overlap or fail; and the sender's screen and the public one show the same
\* (logistics.service.ts:383-412, 497-525, 563-573, logistics-trip.service.ts).
TimelineHolds ==
    /\ \A i, j \in DOMAIN Timeline :
          i < j /\ Timeline[j] \in stamped => Timeline[i] \in stamped \cup Taps
    /\ status = "COMPLETED" => HasProof
    /\ GetDelivery = TrackDelivery

\* Doc: logistics.service.ts:560-562: "the app ... highlights the first null
\* step as current": it stays on an arrival that the driver did not tap.
CurrentIsNext ==
    Current # 0 => \A i \in DOMAIN Timeline : i > Current => Timeline[i] \notin stamped
=============================================================================
