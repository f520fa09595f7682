---------------------------- MODULE RideDispatch ----------------------------
(***************************************************************************)
(* A ride from its booking to its end: matching with a driver              *)
(* (src/src/rides/dispatch.service.ts), the trip (trip.service.ts) and     *)
(* cancellation (cancellation.service.ts).                                 *)
(*                                                                         *)
(* Every handler is an async method that reads rows, awaits, and writes    *)
(* rows; other requests run at each await.  A call in progress is a task   *)
(* with a program counter, one action per database statement, carrying     *)
(* what it read.  Only the claim of acceptOffer and resolveNoDrivers       *)
(* update conditionally; every other write is by primary key, whatever     *)
(* the row has become since it was read.  startDispatch ends by arming a   *)
(* timer in the same process, so its task goes on as the timer.            *)
(*                                                                         *)
(* Abstracted: which online drivers are near, of the right vehicle and     *)
(* service mode and under the cash cap (any set of online drivers); the    *)
(* clock (an offer may be accepted until its round is expired, and a timer *)
(* may fire at any moment after it was armed); amounts (what is recorded   *)
(* of a payment is to whom it went); notifications and sockets.            *)
(***************************************************************************)
EXTENDS FiniteSets, Naturals

CONSTANTS
    Rides,          \* rides that may be booked
    Drivers,
    None,           \* a ride's driverId, or a payment's payee, when there is none
    Tasks,          \* slots for calls in progress (a bound on concurrency)
    Switches,       \* the availabilities drivers set themselves
    ManualStart,    \* whether POST /dispatch/:rideId/start is called
    Faults          \* whether calls throw midway and the process restarts

Availabilities == {"OFFLINE", "ONLINE", "ON_TRIP"}

ASSUME RideAssumption ==
    /\ None \notin Drivers
    /\ Switches \subseteq Availabilities
    /\ ManualStart \in BOOLEAN
    /\ Faults \in BOOLEAN

VARIABLES
    status,     \* Ride.status; "NONE" before the ride is booked
    driver,     \* Ride.driverId
    method,     \* Ride.paymentMethod
    offer,      \* RideOffer.status of (ride, driver); "NONE" without a row
    avail,      \* DriverStatus.availability
    fare,       \* who the posting `ride:<id>` (or its :commission) was made with
    fee,        \* who the posting `ride:<id>:cancellation` was made with
    counted,    \* how often a ride was counted in unsettledCashRideCount
    cancelledBy,    \* Ride.cancelledById: "rider" or "driver"
    task        \* the calls in progress

rideVars == <<status, driver, method, cancelledBy>>
moneyVars == <<fare, fee, counted>>
vars == <<status, driver, method, offer, avail, fare, fee, counted, cancelledBy, task>>

Statuses == {"REQUESTED", "DISPATCHING", "ACCEPTED", "ARRIVED", "IN_PROGRESS",
             "COMPLETED", "CANCELLED", "NO_DRIVERS_FOUND"}
OfferStatuses == {"PENDING", "ACCEPTED", "DECLINED", "EXPIRED"}
Cancellable == {"REQUESTED", "DISPATCHING", "NO_DRIVERS_FOUND", "ACCEPTED", "ARRIVED"}
Committed == {"ACCEPTED", "ARRIVED"}

-----------------------------------------------------------------------------
(* Tasks.                                                                  *)

\* r: the ride; d: the caller, or for a cancellation the driver it read;
\* set: the candidates found; seen: the ride's status as read; by: who
\* cancels; fresh: whether the commission was not yet posted when looked up.
Idle == [pc |-> "idle", r |-> None, d |-> None, set |-> {}, seen |-> "NONE",
         by |-> "none", fresh |-> FALSE]

Call(t, pc, r, d) ==
    /\ task[t] = Idle
    /\ task' = [task EXCEPT ![t] = [Idle EXCEPT !.pc = pc, !.r = r, !.d = d]]

At(t, pc) == task[t].pc = pc
Goto(t, pc) == task' = [task EXCEPT ![t].pc = pc]
Return(t) == task' = [task EXCEPT ![t] = Idle]

OnlyTask == UNCHANGED <<rideVars, moneyVars, offer, avail>>
SetStatus(r, s) ==
    /\ status' = [status EXCEPT ![r] = s]
    /\ UNCHANGED <<driver, method, cancelledBy, moneyVars, offer, avail>>
SetOffers(r, f) ==
    /\ offer' = [offer EXCEPT ![r] = f]
    /\ UNCHANGED <<rideVars, moneyVars, avail>>
SetAvail(d, a) ==
    /\ avail' = [avail EXCEPT ![d] = a]
    /\ UNCHANGED <<rideVars, moneyVars, offer>>

\* updateMany of a ride's PENDING offers, of every driver but those kept.
Expired(r, kept) ==
    [d \in Drivers |-> IF offer[r][d] = "PENDING" /\ d \notin kept THEN "EXPIRED"
                       ELSE offer[r][d]]

Init ==
    /\ status = [r \in Rides |-> "NONE"]
    /\ driver = [r \in Rides |-> None]
    /\ method = [r \in Rides |-> "WALLET"]
    /\ offer = [r \in Rides |-> [d \in Drivers |-> "NONE"]]
    /\ avail = [d \in Drivers |-> "ONLINE"]
    /\ fare = [r \in Rides |-> None]
    /\ fee = [r \in Rides |-> None]
    /\ counted = [r \in Rides |-> 0]
    /\ cancelledBy = [r \in Rides |-> "none"]
    /\ task = [t \in Tasks |-> Idle]

-----------------------------------------------------------------------------
(* Booking and dispatch.                                                   *)

\* createRide ends by calling startDispatch without awaiting it.
CreateRide(t, r, m) ==
    /\ status[r] = "NONE"
    /\ status' = [status EXCEPT ![r] = "REQUESTED"]
    /\ method' = [method EXCEPT ![r] = m]
    /\ Call(t, "start_read", r, None)
    /\ UNCHANGED <<driver, cancelledBy, offer, avail, moneyVars>>

\* recordRedemption throws between the ride's creation and startDispatch.
CreateRideUndispatched(r, m) ==
    /\ Faults
    /\ status[r] = "NONE"
    /\ status' = [status EXCEPT ![r] = "REQUESTED"]
    /\ method' = [method EXCEPT ![r] = m]
    /\ UNCHANGED <<driver, cancelledBy, offer, avail, moneyVars, task>>

\* POST /dispatch/:rideId/start.
StartManually(t, r) ==
    /\ ManualStart
    /\ status[r] # "NONE"
    /\ Call(t, "start_read", r, None)
    /\ OnlyTask

StartRead(t) ==
    /\ At(t, "start_read")
    /\ IF status[task[t].r] = "REQUESTED" THEN Goto(t, "start_write") ELSE Return(t)
    /\ OnlyTask

StartWrite(t) ==
    /\ At(t, "start_write")
    /\ SetStatus(task[t].r, "DISPATCHING")
    /\ Goto(t, "start_find")

StartFind(t) ==
    /\ At(t, "start_find")
    /\ \E found \in SUBSET {d \in Drivers : avail[d] = "ONLINE"} :
          task' = [task EXCEPT ![t].set = found,
                               ![t].pc = IF found = {} THEN "resolve" ELSE "start_offer"]
    /\ OnlyTask

\* Mutant of StartOffer: the timer is not armed.
StartOfferUntimed(t) ==
    LET r == task[t].r
        C == task[t].set
    IN  /\ At(t, "start_offer")
        /\ IF \E d \in C : offer[r][d] # "NONE"
           THEN OnlyTask
           ELSE SetOffers(r, [d \in Drivers |-> IF d \in C THEN "PENDING" ELSE offer[r][d]])
        /\ Return(t)

\* createMany of the offers, all or none: (ride, driver) is unique.  When it
\* throws the timer is not armed.
StartOffer(t) ==
    LET r == task[t].r
        C == task[t].set
    IN  /\ At(t, "start_offer")
        /\ IF \E d \in C : offer[r][d] # "NONE"
           THEN Return(t) /\ OnlyTask
           ELSE /\ SetOffers(r, [d \in Drivers |-> IF d \in C THEN "PENDING" ELSE offer[r][d]])
                /\ task' = [task EXCEPT ![t].pc = "timer", ![t].set = {}]

\* Mutants of TimerFires and ExpireRound: the ride is resolved before its
\* offers are expired; the round is expired and the ride not resolved.
TimerResolves(t) ==
    /\ At(t, "timer")
    /\ IF status[task[t].r] = "DISPATCHING" THEN Goto(t, "resolve") ELSE Return(t)
    /\ OnlyTask
ExpireRoundOnly(t) ==
    /\ At(t, "expire")
    /\ SetOffers(task[t].r, Expired(task[t].r, {}))
    /\ Return(t)

\* expireRoundIfUnresolved, when the timer fires.
TimerFires(t) ==
    /\ At(t, "timer")
    /\ IF status[task[t].r] = "DISPATCHING" THEN Goto(t, "expire") ELSE Return(t)
    /\ OnlyTask

ExpireRound(t) ==
    /\ At(t, "expire")
    /\ SetOffers(task[t].r, Expired(task[t].r, {}))
    /\ Goto(t, "resolve")

\* resolveNoDrivers, the last step of three handlers.
Resolve(t) ==
    /\ At(t, "resolve")
    /\ IF status[task[t].r] \in {"REQUESTED", "DISPATCHING"}
       THEN SetStatus(task[t].r, "NO_DRIVERS_FOUND")
       ELSE OnlyTask
    /\ Return(t)

-----------------------------------------------------------------------------
(* acceptOffer and declineOffer.                                           *)

AcceptRead(t, r, d) ==
    /\ offer[r][d] = "PENDING"
    /\ Call(t, "accept_claim", r, d)
    /\ OnlyTask

\* Mutant of Claimable: the claim checks the status alone.
ClaimableDispatching(r) == status[r] = "DISPATCHING"

\* UPDATE ... WHERE status = DISPATCHING AND driverId IS NULL.
Claimable(r) == status[r] = "DISPATCHING" /\ driver[r] = None

AcceptClaim(t) ==
    LET r == task[t].r
    IN  /\ At(t, "accept_claim")
        /\ Claimable(r)
        /\ status' = [status EXCEPT ![r] = "ACCEPTED"]
        /\ driver' = [driver EXCEPT ![r] = task[t].d]
        /\ Goto(t, "accept_won")
        /\ UNCHANGED <<method, cancelledBy, moneyVars, offer, avail>>

AcceptTooLate(t) ==
    /\ At(t, "accept_claim")
    /\ ~ Claimable(task[t].r)
    /\ Goto(t, "accept_lost")
    /\ OnlyTask

AcceptLost(t) ==
    /\ At(t, "accept_lost")
    /\ SetOffers(task[t].r, [offer[task[t].r] EXCEPT ![task[t].d] = "EXPIRED"])
    /\ Return(t)

\* Mutant of AcceptWon: the other drivers' offers are left open.
AcceptWonAlone(t) ==
    /\ At(t, "accept_won")
    /\ SetOffers(task[t].r, [offer[task[t].r] EXCEPT ![task[t].d] = "ACCEPTED"])
    /\ Goto(t, "accept_avail")

AcceptWon(t) ==
    /\ At(t, "accept_won")
    /\ SetOffers(task[t].r, [offer[task[t].r] EXCEPT ![task[t].d] = "ACCEPTED"])
    /\ Goto(t, "accept_others")

AcceptOthers(t) ==
    /\ At(t, "accept_others")
    /\ SetOffers(task[t].r, Expired(task[t].r, {task[t].d}))
    /\ Goto(t, "accept_avail")

AcceptAvail(t) ==
    /\ At(t, "accept_avail")
    /\ SetAvail(task[t].d, "ON_TRIP")
    /\ Return(t)

DeclineRead(t, r, d) ==
    /\ offer[r][d] = "PENDING"
    /\ Call(t, "decline_write", r, d)
    /\ OnlyTask

DeclineWrite(t) ==
    /\ At(t, "decline_write")
    /\ SetOffers(task[t].r, [offer[task[t].r] EXCEPT ![task[t].d] = "DECLINED"])
    /\ Goto(t, "decline_read")

\* resolveNoDriversIfAllResolved.
DeclineCheck(t) ==
    /\ At(t, "decline_read")
    /\ IF status[task[t].r] = "DISPATCHING" THEN Goto(t, "decline_count") ELSE Return(t)
    /\ OnlyTask

DeclineCount(t) ==
    /\ At(t, "decline_count")
    /\ IF \E d \in Drivers : offer[task[t].r][d] = "PENDING" THEN Return(t) ELSE Goto(t, "resolve")
    /\ OnlyTask

-----------------------------------------------------------------------------
(* Cancellation.                                                           *)

CancelRead(t, r, by) ==
    /\ status[r] \in Cancellable
    /\ by = "driver" => driver[r] # None
    /\ task[t] = Idle
    /\ task' = [task EXCEPT ![t] =
                  [Idle EXCEPT !.r = r, !.d = driver[r], !.seen = status[r], !.by = by,
                               !.pc = IF status[r] \in Committed /\ by = "rider" /\ driver[r] # None
                                      THEN "cancel_fee" ELSE "cancel_offers"]]
    /\ OnlyTask

\* payForRide, which does nothing when the reference was posted before.
CancelFee(t) ==
    LET r == task[t].r
    IN  /\ At(t, "cancel_fee")
        /\ fee' = [fee EXCEPT ![r] = IF @ = None THEN task[t].d ELSE @]
        /\ Goto(t, "cancel_offers")
        /\ UNCHANGED <<rideVars, fare, counted, offer, avail>>

\* payForRide throws: the rider's wallet does not cover the fee.
CancelUnfunded(t) ==
    /\ At(t, "cancel_fee")
    /\ fee[task[t].r] = None
    /\ Return(t)
    /\ OnlyTask

CancelOffers(t) ==
    /\ At(t, "cancel_offers")
    /\ IF task[t].seen = "DISPATCHING"
       THEN SetOffers(task[t].r, Expired(task[t].r, {}))
       ELSE OnlyTask
    /\ Goto(t, "cancel_avail")

CancelAvail(t) ==
    /\ At(t, "cancel_avail")
    /\ IF task[t].d = None THEN OnlyTask ELSE SetAvail(task[t].d, "ONLINE")
    /\ Goto(t, "cancel_write")

CancelWrite(t) ==
    LET r == task[t].r
    IN  /\ At(t, "cancel_write")
        /\ status' = [status EXCEPT ![r] = "CANCELLED"]
        /\ cancelledBy' = [cancelledBy EXCEPT ![r] = task[t].by]
        /\ Return(t)
        /\ UNCHANGED <<driver, method, moneyVars, offer, avail>>

-----------------------------------------------------------------------------
(* The trip.                                                               *)

\* transitionAsDriver: the driver of the ride, from one status to the next.
TripRead(t, r, d, from, pc) ==
    /\ driver[r] = d
    /\ status[r] = from
    /\ Call(t, pc, r, d)
    /\ OnlyTask

MarkArrived(t, r, d) == TripRead(t, r, d, "ACCEPTED", "arrive_write")
StartTrip(t, r, d)   == TripRead(t, r, d, "ARRIVED", "begin_write")
CompleteTrip(t, r, d) ==
    TripRead(t, r, d, "IN_PROGRESS", IF method[r] = "WALLET" THEN "pay" ELSE "cash_look")

TripWrite(t) ==
    \/ At(t, "arrive_write") /\ SetStatus(task[t].r, "ARRIVED") /\ Return(t)
    \/ At(t, "begin_write") /\ SetStatus(task[t].r, "IN_PROGRESS") /\ Return(t)

\* The posting of the fare or of the commission, once per reference.
PostFare(t, next) ==
    /\ fare' = [fare EXCEPT ![task[t].r] = IF @ = None THEN task[t].d ELSE @]
    /\ Goto(t, next)
    /\ UNCHANGED <<rideVars, fee, counted, offer, avail>>

PayForRide(t) == At(t, "pay") /\ PostFare(t, "complete_write")

\* Mutant of PayUnfunded: the failure is swallowed and the trip completes.
PayUnfundedAnyway(t) ==
    /\ At(t, "pay")
    /\ fare[task[t].r] = None
    /\ Goto(t, "complete_write")
    /\ OnlyTask

\* The rider's wallet does not cover the fare: completeTrip throws.
PayUnfunded(t) ==
    /\ At(t, "pay")
    /\ fare[task[t].r] = None
    /\ Return(t)
    /\ OnlyTask

\* recordCashRideCommission: look the reference up, post, count the ride if
\* the lookup found nothing.
CashLook(t) ==
    /\ At(t, "cash_look")
    /\ task' = [task EXCEPT ![t].fresh = (fare[task[t].r] = None), ![t].pc = "cash_post"]
    /\ OnlyTask

CashPost(t) ==
    /\ At(t, "cash_post")
    /\ PostFare(t, IF task[t].fresh THEN "cash_count" ELSE "complete_write")

CashCount(t) ==
    /\ At(t, "cash_count")
    /\ counted' = [counted EXCEPT ![task[t].r] = @ + 1]
    /\ Goto(t, "complete_write")
    /\ UNCHANGED <<rideVars, fare, fee, offer, avail>>

CompleteWrite(t) ==
    /\ At(t, "complete_write")
    /\ SetStatus(task[t].r, "COMPLETED")
    /\ Goto(t, "complete_avail")

CompleteAvail(t) ==
    /\ At(t, "complete_avail")
    /\ SetAvail(task[t].d, "ONLINE")
    /\ Return(t)

-----------------------------------------------------------------------------
(* The driver's own switch, faults, the whole.                             *)

SetDriverStatus(d, a) ==
    /\ avail[d] # a
    /\ SetAvail(d, a)
    /\ UNCHANGED task

\* A query fails: the call throws where it is, and writes nothing more.
Throw(t) ==
    /\ Faults
    /\ task[t].pc \notin {"idle", "timer"}
    /\ Return(t)
    /\ OnlyTask

\* The process restarts: every call in progress and every timer is gone.
Restart ==
    /\ Faults
    /\ task # [t \in Tasks |-> Idle]
    /\ task' = [t \in Tasks |-> Idle]
    /\ OnlyTask

\* A request arrives.
Request(t) ==
    \E r \in Rides :
        \/ \E m \in {"WALLET", "CASH"} : CreateRide(t, r, m)
        \/ StartManually(t, r)
        \/ \E by \in {"rider", "driver"} : CancelRead(t, r, by)
        \/ \E d \in Drivers :
              \/ AcceptRead(t, r, d)
              \/ DeclineRead(t, r, d)
              \/ MarkArrived(t, r, d)
              \/ StartTrip(t, r, d)
              \/ CompleteTrip(t, r, d)

\* A call in progress takes its next step, or a timer fires.
Step(t) ==
    \/ StartRead(t) \/ StartWrite(t) \/ StartFind(t) \/ StartOffer(t)
    \/ TimerFires(t) \/ ExpireRound(t) \/ Resolve(t)
    \/ AcceptClaim(t) \/ AcceptTooLate(t) \/ AcceptLost(t)
    \/ AcceptWon(t) \/ AcceptOthers(t) \/ AcceptAvail(t)
    \/ DeclineWrite(t) \/ DeclineCheck(t) \/ DeclineCount(t)
    \/ CancelFee(t) \/ CancelUnfunded(t) \/ CancelOffers(t) \/ CancelAvail(t) \/ CancelWrite(t)
    \/ TripWrite(t) \/ PayForRide(t) \/ PayUnfunded(t)
    \/ CashLook(t) \/ CashPost(t) \/ CashCount(t)
    \/ CompleteWrite(t) \/ CompleteAvail(t)

Next ==
    \/ \E t \in Tasks : Request(t) \/ Step(t) \/ Throw(t)
    \/ \E r \in Rides, m \in {"WALLET", "CASH"} : CreateRideUndispatched(r, m)
    \/ \E d \in Drivers, a \in Switches : SetDriverStatus(d, a)
    \/ Restart

Spec == Init /\ [][Next]_vars

\* The event loop runs every call on; nobody is obliged to make a request.
FairSpec == Spec /\ \A t \in Tasks : WF_vars(Step(t))

-----------------------------------------------------------------------------
(* Properties.                                                             *)

WonPcs    == {"accept_won", "accept_others", "accept_avail"}
TripPcs   == {"arrive_write", "begin_write", "pay", "cash_look", "cash_post",
              "cash_count", "complete_write", "complete_avail"}
StartPcs  == {"start_read", "start_write", "start_find", "start_offer"}
OfferPcs  == {"accept_claim", "accept_lost", "decline_write"}
CancelPcs == {"cancel_fee", "cancel_offers", "cancel_avail", "cancel_write"}
RidePcs   == {"timer", "expire", "resolve", "decline_read", "decline_count"}
Pcs       == WonPcs \cup TripPcs \cup StartPcs \cup OfferPcs \cup CancelPcs \cup RidePcs

TaskRecords ==
    [pc : Pcs \cup {"idle"}, r : Rides \cup {None}, d : Drivers \cup {None},
     set : SUBSET Drivers, seen : Statuses \cup {"NONE"},
     by : {"none", "rider", "driver"}, fresh : BOOLEAN]

\* Every row and every call in progress has its type.
TypeOK ==
    /\ status \in [Rides -> Statuses \cup {"NONE"}]
    /\ driver \in [Rides -> Drivers \cup {None}]
    /\ method \in [Rides -> {"WALLET", "CASH"}]
    /\ offer \in [Rides -> [Drivers -> OfferStatuses \cup {"NONE"}]]
    /\ avail \in [Drivers -> Availabilities]
    /\ fare \in [Rides -> Drivers \cup {None}]
    /\ fee \in [Rides -> Drivers \cup {None}]
    /\ counted \in [Rides -> Nat]
    /\ cancelledBy \in [Rides -> {"none", "rider", "driver"}]
    /\ task \in [Tasks -> TaskRecords]

\* Only the driver the ride went to ever has an ACCEPTED offer for it
\* (schema.prisma, RideOffer: "only ever one row can end up ACCEPTED per
\* ride"), though the claim and the offer's row are written apart.
AcceptedOfferIsDriver ==
    \A r \in Rides, d \in Drivers : offer[r][d] = "ACCEPTED" => driver[r] = d

\* A ride under way has a driver, whichever stale writes it went through.
DriverBeforeTrip ==
    \A r \in Rides :
        status[r] \in {"ACCEPTED", "ARRIVED", "IN_PROGRESS", "COMPLETED"} => driver[r] # None

\* A COMPLETED ride is paid for, with its own driver: the status is written
\* after the posting, and a second completeTrip or a retry after a failure
\* posts nothing twice and completes nothing unpaid.
CompletedIsPaid ==
    \A r \in Rides : status[r] = "COMPLETED" => fare[r] # None /\ fare[r] = driver[r]

\* Dispatch, trip and cancellation implement the award of RideAward.
Award == INSTANCE RideAward WITH winner <- driver
AwardSpec == Award!Spec

\* Some call will still end the ride's dispatch: a ride is never left in
\* DISPATCHING with nothing in the process that would take it out.
\* (Without faults, and with one startDispatch per ride.)
DispatchIsDriven ==
    \A r \in Rides : status[r] = "DISPATCHING" =>
        \E t \in Tasks :
            /\ task[t].r = r
            /\ task[t].pc \in {"start_find", "start_offer", "timer", "expire", "resolve"}

\* A ride that found no drivers has none and no driver still holds an offer
\* for it that looks open.  (With one startDispatch per ride.)
NoDriversIsFinal ==
    \A r \in Rides : status[r] = "NO_DRIVERS_FOUND" =>
        /\ driver[r] = None
        /\ \A d \in Drivers : offer[r][d] # "PENDING"

\* A search for a driver ends.
SearchEnds ==
    \A r \in Rides : status[r] = "DISPATCHING" ~> status[r] # "DISPATCHING"

\* An offer does not stay open: it is answered, taken or expired, unless the
\* ride itself was cancelled.
OffersClose ==
    \A r \in Rides, d \in Drivers :
        offer[r][d] = "PENDING" ~> (offer[r][d] # "PENDING" \/ status[r] = "CANCELLED")

-----------------------------------------------------------------------------
(* What the documentation says and the code does not do (see README).      *)

\* dispatch.service.ts:172, startDispatch on a ride that was cancelled:
\* "already progressed, cancelled, or doesn't exist - nothing to do".
CancelledStaysCancelled ==
    [][\A r \in Rides : status[r] = "CANCELLED" => status'[r] # "DISPATCHING"]_vars

\* cancellation.service.ts:74: a cancellation while dispatching voids "any
\* outstanding offers so drivers stop seeing a ride that no longer exists".
CancelledHasNoOffers ==
    \A r \in Rides : status[r] = "CANCELLED" /\ (\A t \in Tasks : task[t].r # r)
        => \A d \in Drivers : offer[r][d] # "PENDING"

\* cancellation.service.ts:15: "once a driver has ACCEPTED or ARRIVED, a
\* rider-initiated cancellation charges the tariff's cancellationFee".
LateCancellationCharges ==
    \A r \in Rides :
        status[r] = "CANCELLED" /\ cancelledBy[r] = "rider" /\ driver[r] # None
            => fee[r] # None

\* schema.prisma:668, NO_DRIVERS_FOUND: "dispatch exhausted every candidate,
\* nobody accepted".
NobodyAccepted ==
    \A r \in Rides : status[r] = "NO_DRIVERS_FOUND" => driver[r] = None

\* dispatch.controller.ts:59: the start endpoint "exists for a manual/system
\* retry (e.g. after a NO_DRIVERS_FOUND resolution)", so a start that finds
\* the ride in that status does not return without searching again.
RetrySearchesAgain ==
    [][\A t \in Tasks :
          At(t, "start_read") /\ status[task[t].r] = "NO_DRIVERS_FOUND" /\ task'[t] # task[t]
              => task'[t].pc = "start_write"]_vars

\* schema.prisma:819: unsettledCashRideCount is the "Count of CASH rides AND
\* cash deliveries completed", so a ride is counted at most once in it.
CountedOnce == \A r \in Rides : counted[r] <= 1
=============================================================================
