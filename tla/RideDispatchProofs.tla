------------------------- MODULE RideDispatchProofs -------------------------
(***************************************************************************)
(* Theorems about RideDispatch, for any rides, drivers and concurrency,    *)
(* with manual starts, failing calls and restarts.                         *)
(*                                                                         *)
(* What makes the properties inductive is what a call in progress still    *)
(* knows to be true at each of its steps, though its reads are stale: a    *)
(* ride's driver, once there, never changes, and a recorded payment stays, *)
(* so "I am this ride's driver" and "this fare is posted" survive whatever *)
(* the other calls do in between.  With one startDispatch per ride there   *)
(* is more: the call that makes the offers is alone with the ride but for  *)
(* cancellations (SearchOK), and without faults it is always there while   *)
(* the ride is DISPATCHING (DrivenOK).                                     *)
(***************************************************************************)
EXTENDS RideDispatch, TLAPS

DriverPcs == WonPcs \cup TripPcs \cup {"cancel_fee"}

\* What a call knows at its next step.
TaskOK(k) ==
    /\ k.pc # "idle" => k.r \in Rides
    /\ k.pc \in OfferPcs => k.d \in Drivers
    /\ k.pc \in DriverPcs => k.d \in Drivers /\ driver[k.r] = k.d
    /\ k.pc \in {"cash_count", "complete_write"} => fare[k.r] # None

TasksOK == \A t \in Tasks : TaskOK(task[t])

PaidToDriver == \A r \in Rides : fare[r] \in {None, driver[r]} /\ fee[r] \in {None, driver[r]}

RidesOK ==
    /\ PaidToDriver
    /\ AcceptedOfferIsDriver
    /\ DriverBeforeTrip
    /\ CompletedIsPaid

Inv == TypeOK /\ TasksOK /\ RidesOK

\* Drivers of rides and payments only come to be, never change or go.
Grows ==
    /\ \A r \in Rides : driver[r] # None => driver'[r] = driver[r]
    /\ \A r \in Rides : fare[r] # None => fare'[r] = fare[r]
    /\ \A r \in Rides : fee[r] # None => fee'[r] = fee[r]

-----------------------------------------------------------------------------
(* Tasks.                                                                  *)

LEMMA IdleOK == Idle \in TaskRecords /\ TaskOK(Idle) /\ Idle.pc = "idle"
  BY DEF Idle, TaskRecords, TaskOK, OfferPcs, DriverPcs, WonPcs, TripPcs

\* A call that goes on keeps what it carries.
LEMMA GotoTask ==
    ASSUME TypeOK, NEW t \in Tasks, NEW pc \in Pcs, Goto(t, pc)
    PROVE  LET k == [task[t] EXCEPT !.pc = pc]
           IN  /\ task' = [task EXCEPT ![t] = k]
               /\ k \in TaskRecords
               /\ k.pc = pc /\ k.r = task[t].r /\ k.d = task[t].d
  BY ZenonT(60) DEF Goto, TypeOK, TaskRecords, Pcs

LEMMA ReturnTask ==
    ASSUME NEW t \in Tasks, Return(t)
    PROVE  task' = [task EXCEPT ![t] = Idle]
  BY DEF Return

\* A call that begins knows its ride, and its caller if it has one.
Called(pc, r, d) == [Idle EXCEPT !.pc = pc, !.r = r, !.d = d]

LEMMA CallTask ==
    ASSUME NEW t \in Tasks, NEW pc \in Pcs, NEW r \in Rides, NEW d \in Drivers \cup {None},
           Call(t, pc, r, d)
    PROVE  /\ task' = [task EXCEPT ![t] = Called(pc, r, d)]
           /\ Called(pc, r, d) \in TaskRecords
           /\ Called(pc, r, d).pc = pc
           /\ Called(pc, r, d).r = r
           /\ Called(pc, r, d).d = d
  BY DEF Call, Called, Idle, TaskRecords, Pcs

\* The calls that take no step know what they knew.
LEMMA OtherTasks ==
    ASSUME TypeOK, TasksOK, Grows, NEW t \in Tasks, NEW k \in TaskRecords,
           task' = [task EXCEPT ![t] = k], TaskOK(k)'
    PROVE  task' \in [Tasks -> TaskRecords] /\ TasksOK'
  <1>1. task \in [Tasks -> TaskRecords]
    BY DEF TypeOK
  <1>2. ASSUME NEW u \in Tasks
        PROVE  task'[u] \in TaskRecords /\ TaskOK(task[u])'
    <2>1. CASE u = t
      BY <2>1, <1>1
    <2>2. CASE u # t
      <3>1. task'[u] = task[u] /\ TaskOK(task[u]) /\ task[u] \in TaskRecords
        BY <2>2, <1>1 DEF TasksOK
      <3>2. task[u].pc \in DriverPcs => task[u].pc # "idle"
        BY DEF DriverPcs, WonPcs, TripPcs
      <3> QED
        BY <3>1, <3>2, RideAssumption DEF Grows, TaskOK, RideAssumption
    <2> QED
      BY <2>1, <2>2
  <1> QED
    BY <1>1, <1>2 DEF TasksOK

-----------------------------------------------------------------------------
(* The four kinds of steps: a call that only reads, and the writes of      *)
(* offers, of a driver's availability and of a ride's status.              *)

LEMMA ReadStep ==
    ASSUME Inv, NEW t \in Tasks, NEW k \in TaskRecords, TaskOK(k),
           task' = [task EXCEPT ![t] = k], OnlyTask
    PROVE  Inv' /\ Grows
  <1>1. Grows
    BY DEF OnlyTask, rideVars, moneyVars, Grows
  <1>2. TaskOK(k)'
    BY DEF OnlyTask, rideVars, moneyVars, TaskOK
  <1>3. task' \in [Tasks -> TaskRecords] /\ TasksOK'
    BY <1>1, <1>2, OtherTasks DEF Inv
  <1>4. TypeOK'
    BY <1>3 DEF Inv, TypeOK, OnlyTask, rideVars, moneyVars
  <1>5. RidesOK'
    BY DEF Inv, RidesOK, PaidToDriver, AcceptedOfferIsDriver, DriverBeforeTrip,
           CompletedIsPaid, OnlyTask, rideVars, moneyVars
  <1> QED
    BY <1>1, <1>3, <1>4, <1>5 DEF Inv

LEMMA OffersStep ==
    ASSUME Inv, NEW t \in Tasks, NEW k \in TaskRecords, TaskOK(k),
           task' = [task EXCEPT ![t] = k],
           NEW r \in Rides, NEW f \in [Drivers -> OfferStatuses \cup {"NONE"}],
           \A d \in Drivers : f[d] = "ACCEPTED" => driver[r] = d,
           SetOffers(r, f)
    PROVE  Inv' /\ Grows
  <1>1. Grows
    BY DEF SetOffers, rideVars, moneyVars, Grows
  <1>2. TaskOK(k)'
    BY DEF SetOffers, rideVars, moneyVars, TaskOK
  <1>3. task' \in [Tasks -> TaskRecords] /\ TasksOK'
    BY <1>1, <1>2, OtherTasks DEF Inv
  <1>4. TypeOK'
    BY <1>3 DEF Inv, TypeOK, SetOffers, rideVars, moneyVars
  <1>5. AcceptedOfferIsDriver'
    BY DEF Inv, RidesOK, TypeOK, AcceptedOfferIsDriver, SetOffers, rideVars
  <1>6. (PaidToDriver /\ DriverBeforeTrip /\ CompletedIsPaid)'
    BY DEF Inv, RidesOK, PaidToDriver, DriverBeforeTrip, CompletedIsPaid,
           SetOffers, rideVars, moneyVars
  <1> QED
    BY <1>1, <1>3, <1>4, <1>5, <1>6 DEF Inv, RidesOK

LEMMA AvailStep ==
    ASSUME Inv, NEW t \in Tasks, NEW k \in TaskRecords, TaskOK(k),
           task' = [task EXCEPT ![t] = k],
           NEW d \in Drivers, NEW a \in Availabilities, SetAvail(d, a)
    PROVE  Inv' /\ Grows
  <1>1. Grows
    BY DEF SetAvail, rideVars, moneyVars, Grows
  <1>2. TaskOK(k)'
    BY DEF SetAvail, rideVars, moneyVars, TaskOK
  <1>3. task' \in [Tasks -> TaskRecords] /\ TasksOK'
    BY <1>1, <1>2, OtherTasks DEF Inv
  <1>4. TypeOK'
    BY <1>3 DEF Inv, TypeOK, SetAvail, rideVars, moneyVars
  <1>5. RidesOK'
    BY DEF Inv, RidesOK, PaidToDriver, AcceptedOfferIsDriver, DriverBeforeTrip,
           CompletedIsPaid, SetAvail, rideVars, moneyVars
  <1> QED
    BY <1>1, <1>3, <1>4, <1>5 DEF Inv

LEMMA StatusStep ==
    ASSUME Inv, NEW t \in Tasks, NEW k \in TaskRecords, TaskOK(k),
           task' = [task EXCEPT ![t] = k],
           NEW r \in Rides, NEW s \in Statuses,
           s \in {"ACCEPTED", "ARRIVED", "IN_PROGRESS", "COMPLETED"} => driver[r] # None,
           s = "COMPLETED" => fare[r] # None,
           SetStatus(r, s)
    PROVE  Inv' /\ Grows
  <1>1. Grows
    BY DEF SetStatus, moneyVars, Grows
  <1>2. TaskOK(k)'
    BY DEF SetStatus, moneyVars, TaskOK
  <1>3. task' \in [Tasks -> TaskRecords] /\ TasksOK'
    BY <1>1, <1>2, OtherTasks DEF Inv
  <1>4. TypeOK'
    BY <1>3 DEF Inv, TypeOK, SetStatus, moneyVars
  <1>5. DriverBeforeTrip'
    BY DEF Inv, RidesOK, TypeOK, DriverBeforeTrip, SetStatus
  <1>6. CompletedIsPaid'
    BY DEF Inv, RidesOK, TypeOK, CompletedIsPaid, PaidToDriver, SetStatus, moneyVars
  <1>7. PaidToDriver' /\ AcceptedOfferIsDriver'
    BY DEF Inv, RidesOK, PaidToDriver, AcceptedOfferIsDriver, SetStatus, moneyVars
  <1> QED
    BY <1>1, <1>3, <1>4, <1>5, <1>6, <1>7 DEF Inv, RidesOK

-----------------------------------------------------------------------------
(* What a call carries to its next step.                                   *)

Onward(t, pc) == [task[t] EXCEPT !.pc = pc]

LEMMA GotoOK ==
    ASSUME Inv, NEW t \in Tasks, NEW pc \in Pcs, Goto(t, pc),
           task[t].pc # "idle",
           pc \in OfferPcs => task[t].d \in Drivers,
           pc \in DriverPcs => task[t].pc \in DriverPcs,
           pc \in {"cash_count", "complete_write"} => fare[task[t].r] # None
    PROVE  /\ Onward(t, pc) \in TaskRecords
           /\ TaskOK(Onward(t, pc))
           /\ task' = [task EXCEPT ![t] = Onward(t, pc)]
  <1>1. /\ task' = [task EXCEPT ![t] = Onward(t, pc)]
        /\ Onward(t, pc) \in TaskRecords
        /\ Onward(t, pc).pc = pc /\ Onward(t, pc).r = task[t].r /\ Onward(t, pc).d = task[t].d
    BY GotoTask DEF Inv, Onward
  <1>2. TaskOK(task[t])
    BY DEF Inv, TasksOK
  <1> QED
    BY <1>1, <1>2 DEF TaskOK

\* What the call at hand knows: its record is typed and it has a ride.
LEMMA AtOK ==
    ASSUME Inv, NEW t \in Tasks, NEW pc, pc # "idle", At(t, pc)
    PROVE  /\ task[t].pc = pc /\ task[t] \in TaskRecords
           /\ task[t].r \in Rides
           /\ pc \in OfferPcs => task[t].d \in Drivers
           /\ pc \in DriverPcs =>
                 task[t].d \in Drivers /\ driver[task[t].r] = task[t].d
           /\ pc \in {"cash_count", "complete_write"} => fare[task[t].r] # None
  BY DEF Inv, TypeOK, TasksOK, TaskOK, At

\* A call that only reads and then goes on or returns.
LEMMA ReadOn ==
    ASSUME Inv, NEW t \in Tasks, NEW pc \in Pcs, Goto(t, pc), OnlyTask,
           task[t].pc # "idle", pc \notin OfferPcs,
           pc \in DriverPcs => task[t].pc \in DriverPcs,
           pc \notin {"cash_count", "complete_write"}
    PROVE  Inv' /\ Grows
  BY GotoOK, ReadStep

LEMMA ReadReturn ==
    ASSUME Inv, NEW t \in Tasks, Return(t), OnlyTask
    PROVE  Inv' /\ Grows
  BY ReturnTask, IdleOK, ReadStep

\* A request that only reads before it goes on.
LEMMA CallStep ==
    ASSUME Inv, NEW t \in Tasks, NEW pc \in Pcs, NEW r \in Rides,
           NEW d \in Drivers \cup {None}, Call(t, pc, r, d), OnlyTask,
           pc \in OfferPcs => d \in Drivers,
           pc \in DriverPcs => d \in Drivers /\ driver[r] = d,
           pc \notin {"cash_count", "complete_write"}
    PROVE  Inv' /\ Grows
  <1> DEFINE k == Called(pc, r, d)
  <1>1. /\ task' = [task EXCEPT ![t] = k]
        /\ k \in TaskRecords
        /\ k.pc = pc /\ k.r = r /\ k.d = d
    BY CallTask
  <1> HIDE DEF k
  <1>2. TaskOK(k)
    BY <1>1 DEF TaskOK
  <1> QED
    BY <1>1, <1>2, ReadStep

-----------------------------------------------------------------------------
(* The steps of dispatch.                                                  *)

LEMMA CreateRideStep ==
    ASSUME Inv, NEW t \in Tasks, NEW r \in Rides, NEW m \in {"WALLET", "CASH"},
           CreateRide(t, r, m)
    PROVE  Inv' /\ Grows
  <1> DEFINE k == Called("start_read", r, None)
  <1>1. Call(t, "start_read", r, None)
    BY DEF CreateRide
  <1>2. "start_read" \in Pcs
    BY DEF Pcs, StartPcs
  <1>3. /\ task' = [task EXCEPT ![t] = k]
        /\ k \in TaskRecords
        /\ k.pc = "start_read" /\ k.r = r
    BY <1>1, <1>2, CallTask
  <1> HIDE DEF k
  <1>4. Grows
    BY DEF CreateRide, moneyVars, Grows
  <1>5. TaskOK(k)'
    BY <1>3 DEF TaskOK, OfferPcs, DriverPcs, WonPcs, TripPcs
  <1>6. task' \in [Tasks -> TaskRecords] /\ TasksOK'
    BY <1>3, <1>4, <1>5, OtherTasks DEF Inv
  <1>7. TypeOK'
    BY <1>6 DEF Inv, TypeOK, CreateRide, moneyVars, Statuses
  <1>8. RidesOK'
    BY DEF Inv, TypeOK, RidesOK, PaidToDriver, AcceptedOfferIsDriver, DriverBeforeTrip,
           CompletedIsPaid, CreateRide, moneyVars
  <1> QED
    BY <1>4, <1>6, <1>7, <1>8 DEF Inv

LEMMA UndispatchedStep ==
    ASSUME Inv, NEW r \in Rides, NEW m \in {"WALLET", "CASH"}, CreateRideUndispatched(r, m)
    PROVE  Inv' /\ Grows
  <1>1. Grows
    BY DEF CreateRideUndispatched, moneyVars, Grows
  <1>2. TasksOK'
    BY DEF Inv, TasksOK, TaskOK, CreateRideUndispatched, moneyVars
  <1>3. TypeOK'
    BY DEF Inv, TypeOK, CreateRideUndispatched, moneyVars, Statuses
  <1>4. RidesOK'
    BY DEF Inv, TypeOK, RidesOK, PaidToDriver, AcceptedOfferIsDriver, DriverBeforeTrip,
           CompletedIsPaid, CreateRideUndispatched, moneyVars
  <1> QED
    BY <1>1, <1>2, <1>3, <1>4 DEF Inv

LEMMA StartManuallyStep ==
    ASSUME Inv, NEW t \in Tasks, NEW r \in Rides, StartManually(t, r)
    PROVE  Inv' /\ Grows
  BY CallStep DEF StartManually, Pcs, StartPcs, OfferPcs, DriverPcs, WonPcs, TripPcs

LEMMA StartReadStep ==
    ASSUME Inv, NEW t \in Tasks, StartRead(t)
    PROVE  Inv' /\ Grows
  BY AtOK, ReadOn, ReadReturn
     DEF StartRead, Pcs, StartPcs, OfferPcs, DriverPcs, WonPcs, TripPcs

LEMMA StartWriteStep ==
    ASSUME Inv, NEW t \in Tasks, StartWrite(t)
    PROVE  Inv' /\ Grows
  <1>1. task[t].pc = "start_write" /\ task[t].r \in Rides
    BY AtOK DEF StartWrite
  <1>2. "start_find" \in Pcs /\ "start_find" \notin OfferPcs \cup DriverPcs
    BY DEF Pcs, StartPcs, OfferPcs, DriverPcs, WonPcs, TripPcs
  <1>3. /\ Onward(t, "start_find") \in TaskRecords
        /\ TaskOK(Onward(t, "start_find"))
        /\ task' = [task EXCEPT ![t] = Onward(t, "start_find")]
    BY <1>1, <1>2, GotoOK DEF StartWrite
  <1> QED
    BY <1>1, <1>3, StatusStep DEF StartWrite, Statuses

LEMMA StartFindStep ==
    ASSUME Inv, NEW t \in Tasks, StartFind(t)
    PROVE  Inv' /\ Grows
  <1>1. /\ task[t] \in TaskRecords /\ task[t].r \in Rides
    BY AtOK DEF StartFind
  <1>2. PICK found \in SUBSET Drivers :
           task' = [task EXCEPT ![t].set = found,
                                ![t].pc = IF found = {} THEN "resolve" ELSE "start_offer"]
    BY DEF StartFind
  <1> DEFINE k == [task[t] EXCEPT !.set = found,
                                  !.pc = IF found = {} THEN "resolve" ELSE "start_offer"]
  <1>3. task' = [task EXCEPT ![t] = k]
    BY <1>2 DEF Inv, TypeOK
  <1>4. k \in TaskRecords /\ k.r \in Rides /\ k.pc \in {"resolve", "start_offer"}
    BY ZenonT(60), <1>1 DEF TaskRecords, Pcs, StartPcs, RidePcs
  <1> HIDE DEF k
  <1>5. TaskOK(k)
    BY <1>4 DEF TaskOK, OfferPcs, DriverPcs, WonPcs, TripPcs
  <1> QED
    BY <1>3, <1>4, <1>5, ReadStep DEF StartFind

LEMMA StartOfferStep ==
    ASSUME Inv, NEW t \in Tasks, StartOffer(t)
    PROVE  Inv' /\ Grows
  <1> DEFINE r == task[t].r
             C == task[t].set
             f == [d \in Drivers |-> IF d \in C THEN "PENDING" ELSE offer[r][d]]
  <1>1. /\ task[t].pc = "start_offer" /\ task[t] \in TaskRecords /\ task[t].r \in Rides
    BY AtOK DEF StartOffer
  <1>2. CASE \E d \in C : offer[r][d] # "NONE"
    BY <1>2, ReadReturn DEF StartOffer
  <1>3. CASE ~ \E d \in C : offer[r][d] # "NONE"
    <2> DEFINE k == [task[t] EXCEPT !.pc = "timer", !.set = {}]
    <2>1. SetOffers(r, f) /\ task' = [task EXCEPT ![t].pc = "timer", ![t].set = {}]
      BY <1>3 DEF StartOffer
    <2>2. task' = [task EXCEPT ![t] = k]
      BY <2>1 DEF Inv, TypeOK
    <2>3. k \in TaskRecords /\ k.r \in Rides /\ k.pc = "timer"
      BY <1>1 DEF TaskRecords, Pcs, RidePcs
    <2> HIDE DEF k
    <2>4. TaskOK(k)
      BY <2>3 DEF TaskOK, OfferPcs, DriverPcs, WonPcs, TripPcs
    <2>5. /\ f \in [Drivers -> OfferStatuses \cup {"NONE"}]
          /\ \A d \in Drivers : f[d] = "ACCEPTED" => driver[r] = d
      BY <1>1 DEF Inv, RidesOK, TypeOK, OfferStatuses, AcceptedOfferIsDriver
    <2> HIDE DEF f
    <2> QED
      BY <1>1, <2>1, <2>2, <2>3, <2>4, <2>5, OffersStep
  <1> QED
    BY <1>2, <1>3

LEMMA TimerFiresStep ==
    ASSUME Inv, NEW t \in Tasks, TimerFires(t)
    PROVE  Inv' /\ Grows
  BY AtOK, ReadOn, ReadReturn
     DEF TimerFires, Pcs, RidePcs, OfferPcs, DriverPcs, WonPcs, TripPcs

\* updateMany from PENDING to EXPIRED makes no offer ACCEPTED.
LEMMA ExpiredOK ==
    ASSUME Inv, NEW r \in Rides, NEW kept
    PROVE  /\ Expired(r, kept) \in [Drivers -> OfferStatuses \cup {"NONE"}]
           /\ \A d \in Drivers : Expired(r, kept)[d] = "ACCEPTED" => driver[r] = d
  BY DEF Inv, RidesOK, TypeOK, OfferStatuses, AcceptedOfferIsDriver, Expired

LEMMA ExpireRoundStep ==
    ASSUME Inv, NEW t \in Tasks, ExpireRound(t)
    PROVE  Inv' /\ Grows
  <1>1. task[t].pc = "expire" /\ task[t].r \in Rides
    BY AtOK DEF ExpireRound
  <1>2. "resolve" \in Pcs /\ "resolve" \notin OfferPcs \cup DriverPcs
    BY DEF Pcs, RidePcs, OfferPcs, DriverPcs, WonPcs, TripPcs
  <1>3. /\ Onward(t, "resolve") \in TaskRecords
        /\ TaskOK(Onward(t, "resolve"))
        /\ task' = [task EXCEPT ![t] = Onward(t, "resolve")]
    BY <1>1, <1>2, GotoOK DEF ExpireRound
  <1>4. /\ Expired(task[t].r, {}) \in [Drivers -> OfferStatuses \cup {"NONE"}]
        /\ \A d \in Drivers : Expired(task[t].r, {})[d] = "ACCEPTED" => driver[task[t].r] = d
    BY <1>1, ExpiredOK
  <1>5. SetOffers(task[t].r, Expired(task[t].r, {}))
    BY DEF ExpireRound
  <1> QED
    BY <1>1, <1>3, <1>4, <1>5, OffersStep

LEMMA ResolveStep ==
    ASSUME Inv, NEW t \in Tasks, Resolve(t)
    PROVE  Inv' /\ Grows
  <1>1. task[t].r \in Rides /\ Return(t)
    BY AtOK DEF Resolve
  <1>2. task' = [task EXCEPT ![t] = Idle]
    BY <1>1, ReturnTask
  <1>3. CASE OnlyTask
    BY <1>1, <1>3, ReadReturn
  <1>4. CASE SetStatus(task[t].r, "NO_DRIVERS_FOUND")
    BY <1>1, <1>2, <1>4, IdleOK, StatusStep DEF Statuses
  <1> QED
    BY <1>3, <1>4 DEF Resolve

-----------------------------------------------------------------------------
(* The steps of acceptOffer and declineOffer.                              *)

\* A call that writes one offer and goes on or returns.
LEMMA OneOfferOK ==
    ASSUME Inv, NEW r \in Rides, NEW d \in Drivers, NEW s \in OfferStatuses,
           s = "ACCEPTED" => driver[r] = d
    PROVE  /\ [offer[r] EXCEPT ![d] = s] \in [Drivers -> OfferStatuses \cup {"NONE"}]
           /\ \A e \in Drivers : [offer[r] EXCEPT ![d] = s][e] = "ACCEPTED" => driver[r] = e
  BY DEF Inv, RidesOK, TypeOK, AcceptedOfferIsDriver

LEMMA AcceptReadStep ==
    ASSUME Inv, NEW t \in Tasks, NEW r \in Rides, NEW d \in Drivers, AcceptRead(t, r, d)
    PROVE  Inv' /\ Grows
  BY CallStep DEF AcceptRead, Pcs, OfferPcs, DriverPcs, WonPcs, TripPcs

LEMMA DeclineReadStep ==
    ASSUME Inv, NEW t \in Tasks, NEW r \in Rides, NEW d \in Drivers, DeclineRead(t, r, d)
    PROVE  Inv' /\ Grows
  BY CallStep DEF DeclineRead, Pcs, OfferPcs, DriverPcs, WonPcs, TripPcs

\* The claim gives a ride without a driver the driver of the call.
LEMMA AcceptClaimStep ==
    ASSUME Inv, NEW t \in Tasks, AcceptClaim(t)
    PROVE  Inv' /\ Grows
  <1> DEFINE r == task[t].r
             d == task[t].d
  <1>1. /\ task[t] \in TaskRecords /\ r \in Rides /\ d \in Drivers
    BY AtOK DEF AcceptClaim, OfferPcs
  <1>0. PICK k : k = Onward(t, "accept_won")
    OBVIOUS
  <1>2. /\ task' = [task EXCEPT ![t] = k]
        /\ k \in TaskRecords
        /\ k.pc = "accept_won" /\ k.r = r /\ k.d = d
    BY <1>0, GotoTask DEF AcceptClaim, Inv, Onward, Pcs, WonPcs
  <1>3. /\ driver[r] = None
        /\ driver' = [driver EXCEPT ![r] = d]
        /\ status' = [status EXCEPT ![r] = "ACCEPTED"]
        /\ UNCHANGED <<method, cancelledBy, moneyVars, offer, avail>>
    BY DEF AcceptClaim, Claimable
  <1>4. fare[r] = None /\ fee[r] = None
    BY <1>1, <1>3 DEF Inv, RidesOK, PaidToDriver
  <1>5. /\ driver' \in [Rides -> Drivers \cup {None}]
        /\ driver'[r] = d
        /\ \A q \in Rides : q # r => driver'[q] = driver[q]
    BY <1>1, <1>3 DEF Inv, TypeOK
  <1>6. Grows
    BY <1>3, <1>5 DEF Grows, moneyVars
  <1>7. TaskOK(k)'
    <2>1. d \in Drivers /\ driver'[k.r] = k.d /\ k.r \in Rides /\ k.d \in Drivers
      BY <1>1, <1>2, <1>5
    <2> QED
      BY <1>2, <2>1 DEF TaskOK
  <1>8. task' \in [Tasks -> TaskRecords] /\ TasksOK'
    BY <1>2, <1>6, <1>7, OtherTasks DEF Inv
  <1>9. TypeOK'
    BY <1>3, <1>5, <1>8 DEF Inv, TypeOK, moneyVars, Statuses
  <1>10. PaidToDriver'
    BY <1>3, <1>4, <1>5 DEF Inv, RidesOK, PaidToDriver, moneyVars
  <1>11. AcceptedOfferIsDriver'
    <2>1. d # None
      BY <1>1, RideAssumption DEF RideAssumption
    <2>2. \A e \in Drivers : offer[r][e] # "ACCEPTED"
      BY <1>1, <1>3, RideAssumption DEF RideAssumption, Inv, RidesOK, AcceptedOfferIsDriver
    <2> QED
      BY <1>3, <1>5, <2>2 DEF Inv, RidesOK, AcceptedOfferIsDriver
  <1>12. DriverBeforeTrip'
    <2>1. d # None
      BY <1>1, RideAssumption DEF RideAssumption
    <2>2. \A q \in Rides : q # r => status'[q] = status[q]
      BY <1>1, <1>3 DEF Inv, TypeOK
    <2> QED
      BY <1>5, <2>1, <2>2 DEF Inv, RidesOK, DriverBeforeTrip
  <1>13. CompletedIsPaid'
    <2>1. status'[r] = "ACCEPTED" /\ \A q \in Rides : q # r => status'[q] = status[q]
      BY <1>1, <1>3 DEF Inv, TypeOK
    <2> QED
      BY <1>3, <1>5, <2>1 DEF Inv, RidesOK, CompletedIsPaid, moneyVars
  <1> QED
    BY <1>6, <1>8, <1>9, <1>10, <1>11, <1>12, <1>13 DEF Inv, RidesOK

\* It went too late: the call remembers its offer, to expire it.
LEMMA AcceptTooLateStep ==
    ASSUME Inv, NEW t \in Tasks, AcceptTooLate(t)
    PROVE  Inv' /\ Grows
  <1>1. task[t].pc = "accept_claim" /\ task[t].d \in Drivers
    BY AtOK DEF AcceptTooLate, OfferPcs
  <1>2. "accept_lost" \in Pcs /\ "accept_lost" \notin DriverPcs
    BY DEF Pcs, OfferPcs, DriverPcs, WonPcs, TripPcs
  <1>3. /\ Onward(t, "accept_lost") \in TaskRecords
        /\ TaskOK(Onward(t, "accept_lost"))
        /\ task' = [task EXCEPT ![t] = Onward(t, "accept_lost")]
    BY <1>1, <1>2, GotoOK DEF AcceptTooLate
  <1> QED
    BY <1>3, ReadStep DEF AcceptTooLate

LEMMA AcceptLostStep ==
    ASSUME Inv, NEW t \in Tasks, AcceptLost(t)
    PROVE  Inv' /\ Grows
  <1> DEFINE f == [offer[task[t].r] EXCEPT ![task[t].d] = "EXPIRED"]
  <1>1. task[t].r \in Rides /\ task[t].d \in Drivers
    BY AtOK DEF AcceptLost, OfferPcs
  <1>2. task' = [task EXCEPT ![t] = Idle] /\ SetOffers(task[t].r, f)
    BY ReturnTask DEF AcceptLost
  <1>3. /\ f \in [Drivers -> OfferStatuses \cup {"NONE"}]
        /\ \A e \in Drivers : f[e] = "ACCEPTED" => driver[task[t].r] = e
    BY <1>1, OneOfferOK DEF OfferStatuses
  <1> HIDE DEF f
  <1> QED
    BY <1>1, <1>2, <1>3, IdleOK, OffersStep

LEMMA AcceptWonStep ==
    ASSUME Inv, NEW t \in Tasks, AcceptWon(t)
    PROVE  Inv' /\ Grows
  <1> DEFINE f == [offer[task[t].r] EXCEPT ![task[t].d] = "ACCEPTED"]
  <1>1. /\ task[t].pc = "accept_won" /\ task[t].r \in Rides
        /\ task[t].d \in Drivers /\ driver[task[t].r] = task[t].d
    BY AtOK DEF AcceptWon, DriverPcs, WonPcs
  <1>2. /\ Onward(t, "accept_others") \in TaskRecords
        /\ TaskOK(Onward(t, "accept_others"))
        /\ task' = [task EXCEPT ![t] = Onward(t, "accept_others")]
    BY <1>1, GotoOK DEF AcceptWon, Pcs, OfferPcs, DriverPcs, WonPcs
  <1>3. /\ f \in [Drivers -> OfferStatuses \cup {"NONE"}]
        /\ \A e \in Drivers : f[e] = "ACCEPTED" => driver[task[t].r] = e
    BY <1>1, OneOfferOK DEF OfferStatuses
  <1>4. SetOffers(task[t].r, f)
    BY DEF AcceptWon
  <1> HIDE DEF f
  <1> QED
    BY <1>1, <1>2, <1>3, <1>4, OffersStep

LEMMA AcceptOthersStep ==
    ASSUME Inv, NEW t \in Tasks, AcceptOthers(t)
    PROVE  Inv' /\ Grows
  <1> DEFINE f == Expired(task[t].r, {task[t].d})
  <1>1. task[t].pc = "accept_others" /\ task[t].r \in Rides
    BY AtOK DEF AcceptOthers
  <1>2. /\ Onward(t, "accept_avail") \in TaskRecords
        /\ TaskOK(Onward(t, "accept_avail"))
        /\ task' = [task EXCEPT ![t] = Onward(t, "accept_avail")]
    BY <1>1, GotoOK DEF AcceptOthers, Pcs, OfferPcs, DriverPcs, WonPcs
  <1>3. /\ f \in [Drivers -> OfferStatuses \cup {"NONE"}]
        /\ \A e \in Drivers : f[e] = "ACCEPTED" => driver[task[t].r] = e
    BY <1>1, ExpiredOK
  <1>4. SetOffers(task[t].r, f)
    BY DEF AcceptOthers
  <1> HIDE DEF f
  <1> QED
    BY <1>1, <1>2, <1>3, <1>4, OffersStep

LEMMA AcceptAvailStep ==
    ASSUME Inv, NEW t \in Tasks, AcceptAvail(t)
    PROVE  Inv' /\ Grows
  <1>1. task[t].d \in Drivers
    BY AtOK DEF AcceptAvail, DriverPcs, WonPcs
  <1> QED
    BY <1>1, ReturnTask, IdleOK, AvailStep DEF AcceptAvail, Availabilities

LEMMA DeclineWriteStep ==
    ASSUME Inv, NEW t \in Tasks, DeclineWrite(t)
    PROVE  Inv' /\ Grows
  <1> DEFINE f == [offer[task[t].r] EXCEPT ![task[t].d] = "DECLINED"]
  <1>1. task[t].pc = "decline_write" /\ task[t].r \in Rides /\ task[t].d \in Drivers
    BY AtOK DEF DeclineWrite, OfferPcs
  <1>2. "decline_read" \in Pcs /\ "decline_read" \notin OfferPcs \cup DriverPcs
    BY DEF Pcs, RidePcs, OfferPcs, DriverPcs, WonPcs, TripPcs
  <1>3. /\ Onward(t, "decline_read") \in TaskRecords
        /\ TaskOK(Onward(t, "decline_read"))
        /\ task' = [task EXCEPT ![t] = Onward(t, "decline_read")]
    BY <1>1, <1>2, GotoOK DEF DeclineWrite
  <1>4. /\ f \in [Drivers -> OfferStatuses \cup {"NONE"}]
        /\ \A e \in Drivers : f[e] = "ACCEPTED" => driver[task[t].r] = e
    BY <1>1, OneOfferOK DEF OfferStatuses
  <1>5. SetOffers(task[t].r, f)
    BY DEF DeclineWrite
  <1> HIDE DEF f
  <1> QED
    BY <1>1, <1>3, <1>4, <1>5, OffersStep

LEMMA DeclineCheckStep ==
    ASSUME Inv, NEW t \in Tasks, DeclineCheck(t) \/ DeclineCount(t)
    PROVE  Inv' /\ Grows
  BY AtOK, ReadOn, ReadReturn
     DEF DeclineCheck, DeclineCount, Pcs, RidePcs, OfferPcs, DriverPcs, WonPcs, TripPcs

-----------------------------------------------------------------------------
(* The steps of a cancellation.                                            *)

LEMMA CancelReadStep ==
    ASSUME Inv, NEW t \in Tasks, NEW r \in Rides, NEW by \in {"rider", "driver"},
           CancelRead(t, r, by)
    PROVE  Inv' /\ Grows
  <1> DEFINE pc == IF status[r] \in Committed /\ by = "rider" /\ driver[r] # None
                   THEN "cancel_fee" ELSE "cancel_offers"
             k == [Idle EXCEPT !.r = r, !.d = driver[r], !.seen = status[r], !.by = by,
                               !.pc = pc]
  <1>1. task' = [task EXCEPT ![t] = k] /\ OnlyTask
    BY DEF CancelRead
  <1>2. driver[r] \in Drivers \cup {None} /\ status[r] \in Statuses \cup {"NONE"}
    BY DEF Inv, TypeOK
  <1>3. pc \in {"cancel_fee", "cancel_offers"} /\ (pc = "cancel_fee" => driver[r] # None)
    OBVIOUS
  <1> HIDE DEF pc
  <1>4. /\ k \in TaskRecords
        /\ k.r = r /\ k.d = driver[r] /\ k.pc = pc
    BY <1>2, <1>3 DEF Idle, TaskRecords, Pcs, CancelPcs
  <1> HIDE DEF k
  <1>5. TaskOK(k)
    BY <1>2, <1>3, <1>4 DEF TaskOK, OfferPcs, DriverPcs, WonPcs, TripPcs
  <1> QED
    BY <1>1, <1>4, <1>5, ReadStep

\* Recording a payment with the ride's driver, once.
LEMMA CancelFeeStep ==
    ASSUME Inv, NEW t \in Tasks, CancelFee(t)
    PROVE  Inv' /\ Grows
  <1> DEFINE r == task[t].r
             d == task[t].d
  <1>1. /\ task[t].pc = "cancel_fee" /\ r \in Rides /\ d \in Drivers /\ driver[r] = d
    BY AtOK DEF CancelFee, DriverPcs
  <1>2. "cancel_offers" \in Pcs /\ "cancel_offers" \notin OfferPcs \cup DriverPcs
    BY DEF Pcs, CancelPcs, OfferPcs, DriverPcs, WonPcs, TripPcs
  <1>0. PICK k : k = Onward(t, "cancel_offers")
    OBVIOUS
  <1>3. k \in TaskRecords /\ TaskOK(k) /\ task' = [task EXCEPT ![t] = k]
    BY <1>1, <1>2, <1>0, GotoOK DEF CancelFee
  <1>4. /\ fee' = [fee EXCEPT ![r] = IF fee[r] = None THEN d ELSE fee[r]]
        /\ UNCHANGED <<rideVars, fare, counted, offer, avail>>
    BY DEF CancelFee
  <1>5. /\ fee' \in [Rides -> Drivers \cup {None}]
        /\ \A q \in Rides : fee[q] # None => fee'[q] = fee[q]
        /\ \A q \in Rides : fee'[q] \in {None, driver[q]}
    BY <1>1, <1>4 DEF Inv, RidesOK, PaidToDriver, TypeOK
  <1>6. Grows
    BY <1>4, <1>5 DEF Grows, rideVars
  <1>7. TaskOK(k)'
    BY <1>3, <1>4 DEF TaskOK, rideVars
  <1>8. task' \in [Tasks -> TaskRecords] /\ TasksOK'
    BY <1>3, <1>6, <1>7, OtherTasks DEF Inv
  <1>9. TypeOK'
    BY <1>4, <1>5, <1>8 DEF Inv, TypeOK, rideVars
  <1>10. RidesOK'
    BY <1>4, <1>5 DEF Inv, RidesOK, PaidToDriver, AcceptedOfferIsDriver, DriverBeforeTrip,
                      CompletedIsPaid, rideVars
  <1> QED
    BY <1>6, <1>8, <1>9, <1>10 DEF Inv

LEMMA CancelUnfundedStep ==
    ASSUME Inv, NEW t \in Tasks, CancelUnfunded(t)
    PROVE  Inv' /\ Grows
  BY ReadReturn DEF CancelUnfunded

LEMMA CancelOffersStep ==
    ASSUME Inv, NEW t \in Tasks, CancelOffers(t)
    PROVE  Inv' /\ Grows
  <1> DEFINE f == Expired(task[t].r, {})
             k == Onward(t, "cancel_avail")
  <1>1. task[t].pc = "cancel_offers" /\ task[t].r \in Rides
    BY AtOK DEF CancelOffers
  <1>2. "cancel_avail" \in Pcs /\ "cancel_avail" \notin OfferPcs \cup DriverPcs
    BY DEF Pcs, CancelPcs, OfferPcs, DriverPcs, WonPcs, TripPcs
  <1>3. k \in TaskRecords /\ TaskOK(k) /\ task' = [task EXCEPT ![t] = k]
    BY <1>1, <1>2, GotoOK DEF CancelOffers
  <1>4. /\ f \in [Drivers -> OfferStatuses \cup {"NONE"}]
        /\ \A e \in Drivers : f[e] = "ACCEPTED" => driver[task[t].r] = e
    BY <1>1, ExpiredOK
  <1>5. SetOffers(task[t].r, f) \/ OnlyTask
    BY DEF CancelOffers
  <1> HIDE DEF f, k
  <1> QED
    BY <1>1, <1>3, <1>4, <1>5, OffersStep, ReadStep

LEMMA CancelAvailStep ==
    ASSUME Inv, NEW t \in Tasks, CancelAvail(t)
    PROVE  Inv' /\ Grows
  <1> DEFINE k == Onward(t, "cancel_write")
  <1>1. task[t].pc = "cancel_avail" /\ task[t] \in TaskRecords
    BY AtOK DEF CancelAvail
  <1>2. "cancel_write" \in Pcs /\ "cancel_write" \notin OfferPcs \cup DriverPcs
    BY DEF Pcs, CancelPcs, OfferPcs, DriverPcs, WonPcs, TripPcs
  <1>3. k \in TaskRecords /\ TaskOK(k) /\ task' = [task EXCEPT ![t] = k]
    BY <1>1, <1>2, GotoOK DEF CancelAvail
  <1>4. OnlyTask \/ (task[t].d \in Drivers /\ SetAvail(task[t].d, "ONLINE"))
    BY <1>1 DEF CancelAvail, TaskRecords
  <1> HIDE DEF k
  <1> QED
    BY <1>3, <1>4, ReadStep, AvailStep DEF Availabilities

LEMMA CancelWriteStep ==
    ASSUME Inv, NEW t \in Tasks, CancelWrite(t)
    PROVE  Inv' /\ Grows
  <1> DEFINE r == task[t].r
  <1>1. r \in Rides /\ task[t] \in TaskRecords
    BY AtOK DEF CancelWrite
  <1>2. /\ status' = [status EXCEPT ![r] = "CANCELLED"]
        /\ cancelledBy' = [cancelledBy EXCEPT ![r] = task[t].by]
        /\ task' = [task EXCEPT ![t] = Idle]
        /\ UNCHANGED <<driver, method, moneyVars, offer, avail>>
    BY ReturnTask DEF CancelWrite
  <1>3. Grows
    BY <1>2 DEF Grows, moneyVars
  <1>4. TaskOK(Idle)'
    BY <1>2, IdleOK DEF TaskOK, moneyVars
  <1>5. task' \in [Tasks -> TaskRecords] /\ TasksOK'
    BY <1>2, <1>3, <1>4, IdleOK, OtherTasks DEF Inv
  <1>6. task[t].by \in {"none", "rider", "driver"}
    BY <1>1 DEF TaskRecords
  <1>7. TypeOK'
    BY <1>1, <1>2, <1>5, <1>6 DEF Inv, TypeOK, moneyVars, Statuses
  <1>8. RidesOK'
    BY <1>1, <1>2 DEF Inv, TypeOK, RidesOK, PaidToDriver, AcceptedOfferIsDriver,
                      DriverBeforeTrip, CompletedIsPaid, moneyVars
  <1> QED
    BY <1>3, <1>5, <1>7, <1>8 DEF Inv

-----------------------------------------------------------------------------
(* The steps of the trip.                                                  *)

LEMMA TripReadStep ==
    ASSUME Inv, NEW t \in Tasks, NEW r \in Rides, NEW d \in Drivers,
           MarkArrived(t, r, d) \/ StartTrip(t, r, d) \/ CompleteTrip(t, r, d)
    PROVE  Inv' /\ Grows
  <1>1. PICK pc \in {"arrive_write", "begin_write", "pay", "cash_look"} :
           Call(t, pc, r, d) /\ driver[r] = d /\ OnlyTask
    BY DEF MarkArrived, StartTrip, CompleteTrip, TripRead
  <1>2. pc \in Pcs /\ pc \notin OfferPcs /\ pc \notin {"cash_count", "complete_write"}
    BY DEF Pcs, TripPcs, OfferPcs
  <1> QED
    BY <1>1, <1>2, CallStep

LEMMA TripWriteStep ==
    ASSUME Inv, NEW t \in Tasks, TripWrite(t)
    PROVE  Inv' /\ Grows
  <1>1. PICK s \in {"ARRIVED", "IN_PROGRESS"} : SetStatus(task[t].r, s)
    BY DEF TripWrite
  <1>2. task[t].r \in Rides /\ task[t].d \in Drivers /\ driver[task[t].r] = task[t].d
    BY AtOK DEF TripWrite, DriverPcs, TripPcs
  <1>3. driver[task[t].r] # None
    BY <1>2, RideAssumption DEF RideAssumption
  <1>4. task' = [task EXCEPT ![t] = Idle]
    BY ReturnTask DEF TripWrite
  <1> QED
    BY <1>1, <1>2, <1>3, <1>4, IdleOK, StatusStep DEF Statuses

\* The fare or the commission is recorded with the ride's driver, once, and
\* from then on the call knows it to be recorded.
LEMMA PostFareStep ==
    ASSUME Inv, NEW t \in Tasks, NEW next \in {"cash_count", "complete_write"},
           PostFare(t, next), task[t].pc \in {"pay", "cash_post"}
    PROVE  Inv' /\ Grows
  <1> DEFINE r == task[t].r
             d == task[t].d
  <1>1. /\ r \in Rides /\ d \in Drivers /\ driver[r] = d
    BY AtOK DEF At, DriverPcs, TripPcs
  <1>0. PICK k : k = Onward(t, next)
    OBVIOUS
  <1>2. /\ task' = [task EXCEPT ![t] = k]
        /\ k \in TaskRecords
        /\ k.pc = next /\ k.r = r /\ k.d = d
    BY <1>0, GotoTask DEF PostFare, Inv, Onward, Pcs, TripPcs
  <1>3. /\ fare' = [fare EXCEPT ![r] = IF fare[r] = None THEN d ELSE fare[r]]
        /\ UNCHANGED <<rideVars, fee, counted, offer, avail>>
    BY DEF PostFare
  <1>4. d # None
    BY <1>1, RideAssumption DEF RideAssumption
  <1>5. /\ fare' \in [Rides -> Drivers \cup {None}]
        /\ fare'[r] # None
        /\ \A q \in Rides : fare[q] # None => fare'[q] = fare[q]
        /\ \A q \in Rides : fare'[q] \in {None, driver[q]}
    BY <1>1, <1>3, <1>4 DEF Inv, RidesOK, PaidToDriver, TypeOK
  <1>6. Grows
    BY <1>3, <1>5 DEF Grows, rideVars
  <1>7. TaskOK(k)'
    BY <1>1, <1>2, <1>3, <1>5 DEF TaskOK, rideVars, OfferPcs
  <1>8. task' \in [Tasks -> TaskRecords] /\ TasksOK'
    BY <1>2, <1>6, <1>7, OtherTasks DEF Inv
  <1>9. TypeOK'
    BY <1>3, <1>5, <1>8 DEF Inv, TypeOK, rideVars
  <1>10. RidesOK'
    BY <1>3, <1>5 DEF Inv, RidesOK, PaidToDriver, AcceptedOfferIsDriver, DriverBeforeTrip,
                      CompletedIsPaid, rideVars
  <1> QED
    BY <1>6, <1>8, <1>9, <1>10 DEF Inv

LEMMA PayStep ==
    ASSUME Inv, NEW t \in Tasks, PayForRide(t) \/ CashPost(t)
    PROVE  Inv' /\ Grows
  <1>1. PICK next \in {"cash_count", "complete_write"} : PostFare(t, next)
    BY DEF PayForRide, CashPost
  <1> QED
    BY <1>1, PostFareStep DEF PayForRide, CashPost, At

LEMMA PayUnfundedStep ==
    ASSUME Inv, NEW t \in Tasks, PayUnfunded(t)
    PROVE  Inv' /\ Grows
  BY ReadReturn DEF PayUnfunded

LEMMA CashLookStep ==
    ASSUME Inv, NEW t \in Tasks, CashLook(t)
    PROVE  Inv' /\ Grows
  <1> DEFINE k == [task[t] EXCEPT !.fresh = (fare[task[t].r] = None), !.pc = "cash_post"]
  <1>1. /\ task[t] \in TaskRecords /\ task[t].r \in Rides
        /\ task[t].d \in Drivers /\ driver[task[t].r] = task[t].d
    BY AtOK DEF CashLook, DriverPcs, TripPcs
  <1>2. task' = [task EXCEPT ![t] = k] /\ OnlyTask
    BY DEF CashLook, Inv, TypeOK
  <1>3. (fare[task[t].r] = None) \in BOOLEAN
    OBVIOUS
  <1>4. k \in TaskRecords /\ k.r = task[t].r /\ k.d = task[t].d /\ k.pc = "cash_post"
    BY <1>1, <1>3 DEF TaskRecords, Pcs, TripPcs
  <1> HIDE DEF k
  <1>5. TaskOK(k)
    BY <1>1, <1>4 DEF TaskOK, OfferPcs
  <1> QED
    BY <1>2, <1>4, <1>5, ReadStep

LEMMA CashCountStep ==
    ASSUME Inv, NEW t \in Tasks, CashCount(t)
    PROVE  Inv' /\ Grows
  <1>1. /\ task[t].pc = "cash_count" /\ task[t].r \in Rides /\ fare[task[t].r] # None
    BY AtOK DEF CashCount
  <1>0. PICK k : k = Onward(t, "complete_write")
    OBVIOUS
  <1>2. k \in TaskRecords /\ TaskOK(k) /\ task' = [task EXCEPT ![t] = k]
    BY <1>0, <1>1, GotoOK DEF CashCount, Pcs, TripPcs, DriverPcs, OfferPcs
  <1>3. /\ counted' = [counted EXCEPT ![task[t].r] = counted[task[t].r] + 1]
        /\ UNCHANGED <<rideVars, fare, fee, offer, avail>>
    BY DEF CashCount
  <1>4. Grows
    BY <1>3 DEF Grows, rideVars
  <1>5. TaskOK(k)'
    BY <1>2, <1>3 DEF TaskOK, rideVars
  <1>6. task' \in [Tasks -> TaskRecords] /\ TasksOK'
    BY <1>2, <1>4, <1>5, OtherTasks DEF Inv
  <1>7. TypeOK'
    BY <1>1, <1>3, <1>6 DEF Inv, TypeOK, rideVars
  <1>8. RidesOK'
    BY <1>3 DEF Inv, RidesOK, PaidToDriver, AcceptedOfferIsDriver, DriverBeforeTrip,
                CompletedIsPaid, rideVars
  <1> QED
    BY <1>4, <1>6, <1>7, <1>8 DEF Inv

LEMMA CompleteWriteStep ==
    ASSUME Inv, NEW t \in Tasks, CompleteWrite(t)
    PROVE  Inv' /\ Grows
  <1>1. /\ task[t].pc = "complete_write" /\ task[t].r \in Rides /\ fare[task[t].r] # None
        /\ task[t].d \in Drivers /\ driver[task[t].r] = task[t].d
    BY AtOK DEF CompleteWrite, DriverPcs, TripPcs
  <1>2. driver[task[t].r] # None
    BY <1>1, RideAssumption DEF RideAssumption
  <1>3. /\ Onward(t, "complete_avail") \in TaskRecords
        /\ TaskOK(Onward(t, "complete_avail"))
        /\ task' = [task EXCEPT ![t] = Onward(t, "complete_avail")]
    BY <1>1, GotoOK DEF CompleteWrite, Pcs, TripPcs, DriverPcs, OfferPcs
  <1> QED
    BY <1>1, <1>2, <1>3, StatusStep DEF CompleteWrite, Statuses

LEMMA CompleteAvailStep ==
    ASSUME Inv, NEW t \in Tasks, CompleteAvail(t)
    PROVE  Inv' /\ Grows
  <1>1. task[t].d \in Drivers
    BY AtOK DEF CompleteAvail, DriverPcs, TripPcs
  <1> QED
    BY <1>1, ReturnTask, IdleOK, AvailStep DEF CompleteAvail, Availabilities

-----------------------------------------------------------------------------
(* Drivers' switches and faults.                                           *)

LEMMA SetDriverStatusStep ==
    ASSUME Inv, NEW d \in Drivers, NEW a \in Switches, SetDriverStatus(d, a)
    PROVE  Inv' /\ Grows
  <1>1. a \in Availabilities
    BY RideAssumption DEF RideAssumption
  <1>2. SetAvail(d, a) /\ UNCHANGED task
    BY DEF SetDriverStatus
  <1>3. Grows
    BY <1>2 DEF SetAvail, rideVars, moneyVars, Grows
  <1>4. TypeOK'
    BY <1>1, <1>2 DEF Inv, TypeOK, SetAvail, rideVars, moneyVars
  <1>5. TasksOK' /\ RidesOK'
    BY <1>2 DEF Inv, TasksOK, TaskOK, RidesOK, PaidToDriver, AcceptedOfferIsDriver,
                DriverBeforeTrip, CompletedIsPaid, SetAvail, rideVars, moneyVars
  <1> QED
    BY <1>3, <1>4, <1>5 DEF Inv

LEMMA RestartStep ==
    ASSUME Inv, Restart
    PROVE  Inv' /\ Grows
  <1>1. task' = [t \in Tasks |-> Idle] /\ OnlyTask
    BY DEF Restart
  <1>2. Grows
    BY <1>1 DEF OnlyTask, rideVars, moneyVars, Grows
  <1>3. TypeOK'
    BY <1>1, IdleOK DEF Inv, TypeOK, OnlyTask, rideVars, moneyVars
  <1>4. TasksOK'
    BY <1>1 DEF TasksOK, TaskOK, Idle, OfferPcs, DriverPcs, WonPcs, TripPcs
  <1>5. RidesOK'
    BY <1>1 DEF Inv, RidesOK, PaidToDriver, AcceptedOfferIsDriver, DriverBeforeTrip,
                CompletedIsPaid, OnlyTask, rideVars, moneyVars
  <1> QED
    BY <1>2, <1>3, <1>4, <1>5 DEF Inv

-----------------------------------------------------------------------------
(* The specification.                                                      *)

LEMMA InitInv == Init => Inv
  <1> SUFFICES ASSUME Init PROVE Inv
    OBVIOUS
  <1>1. TypeOK
    BY IdleOK DEF Init, TypeOK, OfferStatuses, Availabilities
  <1>2. TasksOK
    BY IdleOK DEF Init, TasksOK
  <1>3. RidesOK
    BY DEF Init, RidesOK, PaidToDriver, AcceptedOfferIsDriver, DriverBeforeTrip, CompletedIsPaid
  <1> QED
    BY <1>1, <1>2, <1>3 DEF Inv

LEMMA RequestStep ==
    ASSUME Inv, NEW t \in Tasks, Request(t)
    PROVE  Inv' /\ Grows
  BY CreateRideStep, StartManuallyStep, CancelReadStep, AcceptReadStep, DeclineReadStep,
     TripReadStep DEF Request

LEMMA TaskStep ==
    ASSUME Inv, NEW t \in Tasks, Step(t)
    PROVE  Inv' /\ Grows
  BY StartReadStep, StartWriteStep, StartFindStep, StartOfferStep, TimerFiresStep,
     ExpireRoundStep, ResolveStep, AcceptClaimStep, AcceptTooLateStep, AcceptLostStep,
     AcceptWonStep, AcceptOthersStep, AcceptAvailStep, DeclineWriteStep, DeclineCheckStep,
     CancelFeeStep, CancelUnfundedStep, CancelOffersStep, CancelAvailStep, CancelWriteStep,
     TripWriteStep, PayStep, PayUnfundedStep, CashLookStep, CashCountStep,
     CompleteWriteStep, CompleteAvailStep DEF Step

LEMMA NextInv == Inv /\ [Next]_vars => Inv' /\ Grows
  <1> SUFFICES ASSUME Inv, [Next]_vars PROVE Inv' /\ Grows
    OBVIOUS
  <1>1. ASSUME NEW t \in Tasks, Request(t) \/ Step(t)
        PROVE  Inv' /\ Grows
    BY <1>1, RequestStep, TaskStep
  <1>2. ASSUME NEW t \in Tasks, Throw(t)
        PROVE  Inv' /\ Grows
    BY <1>2, ReadReturn DEF Throw
  <1>3. ASSUME NEW r \in Rides, NEW m \in {"WALLET", "CASH"}, CreateRideUndispatched(r, m)
        PROVE  Inv' /\ Grows
    BY <1>3, UndispatchedStep
  <1>4. ASSUME NEW d \in Drivers, NEW a \in Switches, SetDriverStatus(d, a)
        PROVE  Inv' /\ Grows
    BY <1>4, SetDriverStatusStep
  <1>5. CASE Restart
    BY <1>5, RestartStep
  <1>6. CASE UNCHANGED vars
    BY <1>6 DEF vars, Inv, TypeOK, TasksOK, TaskOK, RidesOK, PaidToDriver,
                AcceptedOfferIsDriver, DriverBeforeTrip, CompletedIsPaid, Grows
  <1> QED
    BY <1>1, <1>2, <1>3, <1>4, <1>5, <1>6 DEF Next

\* The inductive invariant: what each call knows, and what rows and postings
\* have to do with each other.
THEOREM RideInvariant == Spec => []Inv
  <1>1. Inv /\ [Next]_vars => Inv'
    BY NextInv
  <1> QED
    BY <1>1, InitInv, PTL DEF Spec

\* Type correctness.
THEOREM RideTypeCorrect == Spec => []TypeOK
  <1>1. Inv => TypeOK
    BY DEF Inv
  <1> QED
    BY <1>1, RideInvariant, PTL

\* Only one driver ever holds an accepted offer of a ride: its driver.
THEOREM OneAcceptedOffer == Spec => []AcceptedOfferIsDriver
  <1>1. Inv => AcceptedOfferIsDriver
    BY DEF Inv, RidesOK
  <1> QED
    BY <1>1, RideInvariant, PTL

\* No ride is under way without a driver.
THEOREM TripsHaveDrivers == Spec => []DriverBeforeTrip
  <1>1. Inv => DriverBeforeTrip
    BY DEF Inv, RidesOK
  <1> QED
    BY <1>1, RideInvariant, PTL

\* No ride is COMPLETED unpaid, or paid with another driver than its own.
THEOREM CompletionIsPaid == Spec => []CompletedIsPaid
  <1>1. Inv => CompletedIsPaid
    BY DEF Inv, RidesOK
  <1> QED
    BY <1>1, RideInvariant, PTL

-----------------------------------------------------------------------------
(* The implementation of RideAward.                                        *)

\* Three actions of a call touch a ride's driver or its payments.
AwardPcs(t) == AcceptClaim(t) \/ CancelFee(t) \/ PayForRide(t) \/ CashPost(t)

LEMMA OtherStepsKeepAward ==
    ASSUME Next, ~ \E t \in Tasks : AwardPcs(t)
    PROVE  UNCHANGED <<driver, fare, fee>>
  <1>1. ASSUME NEW t \in Tasks, Request(t)
        PROVE  UNCHANGED <<driver, fare, fee>>
    BY SMTT(40), <1>1 DEF Request, CreateRide, StartManually, CancelRead, AcceptRead, DeclineRead,
                MarkArrived, StartTrip, CompleteTrip, TripRead, OnlyTask, rideVars, moneyVars
  <1>2. ASSUME NEW t \in Tasks, Step(t)
        PROVE  UNCHANGED <<driver, fare, fee>>
    BY <1>2 DEF AwardPcs, Step, StartRead, StartWrite, StartFind, StartOffer, TimerFires,
                ExpireRound, Resolve, AcceptTooLate, AcceptLost, AcceptWon, AcceptOthers,
                AcceptAvail, DeclineWrite, DeclineCheck, DeclineCount, CancelUnfunded,
                CancelOffers, CancelAvail, CancelWrite, TripWrite, PayUnfunded, CashLook,
                CashCount, CompleteWrite, CompleteAvail, OnlyTask, SetStatus, SetOffers,
                SetAvail, rideVars, moneyVars
  <1>3. ASSUME NEW t \in Tasks, Throw(t)
        PROVE  UNCHANGED <<driver, fare, fee>>
    BY <1>3 DEF Throw, OnlyTask, rideVars, moneyVars
  <1>4. ASSUME NEW r \in Rides, NEW m \in {"WALLET", "CASH"}, CreateRideUndispatched(r, m)
        PROVE  UNCHANGED <<driver, fare, fee>>
    BY <1>4 DEF CreateRideUndispatched, moneyVars
  <1>5. ASSUME NEW d \in Drivers, NEW a \in Switches, SetDriverStatus(d, a)
        PROVE  UNCHANGED <<driver, fare, fee>>
    BY <1>5 DEF SetDriverStatus, SetAvail, rideVars, moneyVars
  <1>6. CASE Restart
    BY <1>6 DEF Restart, OnlyTask, rideVars, moneyVars
  <1> QED
    BY <1>1, <1>2, <1>3, <1>4, <1>5, <1>6 DEF Next

LEMMA AwardStep ==
    ASSUME Inv, NEW t \in Tasks, AwardPcs(t)
    PROVE  [Award!Next]_Award!vars
  <1> DEFINE r == task[t].r
             d == task[t].d
  <1>1. CASE AcceptClaim(t)
    <2>1. r \in Rides /\ d \in Drivers
      BY <1>1, AtOK DEF AcceptClaim, OfferPcs
    <2>2. /\ driver[r] = None
          /\ driver' = [driver EXCEPT ![r] = d]
          /\ UNCHANGED <<fare, fee>>
      BY <1>1 DEF AcceptClaim, Claimable, moneyVars
    <2>3. Award!Award(r, d)
      BY <2>2 DEF Award!Award
    <2> QED
      BY <2>1, <2>3 DEF Award!Next
  <1>2. CASE CancelFee(t)
    <2>1. r \in Rides /\ d \in Drivers /\ driver[r] = d
      BY <1>2, AtOK DEF CancelFee, DriverPcs
    <2>2. /\ fee' = [fee EXCEPT ![r] = IF fee[r] = None THEN d ELSE fee[r]]
          /\ UNCHANGED <<driver, fare>>
      BY <1>2 DEF CancelFee, rideVars
    <2>3. d # None
      BY <2>1, RideAssumption DEF RideAssumption
    <2>4. CASE fee[r] = None
      <3>1. Award!ChargeFee(r)
        BY <2>1, <2>2, <2>3, <2>4 DEF Award!ChargeFee
      <3> QED
        BY <2>1, <3>1 DEF Award!Next
    <2>5. CASE fee[r] # None
      <3>1. fee' = fee
        BY <2>1, <2>2, <2>5 DEF Inv, TypeOK
      <3> QED
        BY <2>2, <3>1 DEF Award!vars
    <2> QED
      BY <2>4, <2>5
  <1>3. CASE PayForRide(t) \/ CashPost(t)
    <2>1. r \in Rides /\ d \in Drivers /\ driver[r] = d
      BY <1>3, AtOK DEF PayForRide, CashPost, DriverPcs, TripPcs
    <2>2. /\ fare' = [fare EXCEPT ![r] = IF fare[r] = None THEN d ELSE fare[r]]
          /\ UNCHANGED <<driver, fee>>
      BY <1>3 DEF PayForRide, CashPost, PostFare, rideVars
    <2>3. d # None
      BY <2>1, RideAssumption DEF RideAssumption
    <2>4. CASE fare[r] = None
      <3>1. Award!ChargeFare(r)
        BY <2>1, <2>2, <2>3, <2>4 DEF Award!ChargeFare
      <3> QED
        BY <2>1, <3>1 DEF Award!Next
    <2>5. CASE fare[r] # None
      <3>1. fare' = fare
        BY <2>1, <2>2, <2>5 DEF Inv, TypeOK
      <3> QED
        BY <2>2, <3>1 DEF Award!vars
    <2> QED
      BY <2>4, <2>5
  <1> QED
    BY <1>1, <1>2, <1>3 DEF AwardPcs

\* Every behaviour of dispatch, trip and cancellation, stale writes, failed
\* calls and restarts included, awards and charges a ride as RideAward does:
\* one winner for good, one fare and one fee, both with the winner.
THEOREM ImplementsAward == Spec => AwardSpec
  <1>1. Init => Award!Init
    BY DEF Init, Award!Init, Award!NoDriver
  <1>2. Inv /\ [Next]_vars => [Award!Next]_Award!vars
    <2> SUFFICES ASSUME Inv, [Next]_vars PROVE [Award!Next]_Award!vars
      OBVIOUS
    <2>1. CASE \E t \in Tasks : AwardPcs(t)
      BY <2>1, AwardStep
    <2>2. CASE Next /\ ~ \E t \in Tasks : AwardPcs(t)
      BY <2>2, OtherStepsKeepAward DEF Award!vars
    <2>3. CASE UNCHANGED vars
      BY <2>3 DEF vars, Award!vars
    <2> QED
      BY <2>1, <2>2, <2>3
  <1> QED
    BY <1>1, <1>2, RideInvariant, PTL DEF Spec, AwardSpec, Award!Spec

-----------------------------------------------------------------------------
(* The search for a driver, with one startDispatch per ride.  The          *)
(* predicates take the rows of a ride as arguments, so that a step is two  *)
(* sets of values.                                                         *)

NotPending(o) == \A d \in Drivers : o[d] # "PENDING"
NoOffers(o)   == \A d \in Drivers : o[d] = "NONE"

\* The call k that starts the dispatch of r is alone with it but for
\* cancellations, and nobody has had an offer yet.
Starting(r, s, dr, o, K, t) ==
    K[t].r = r /\ K[t].pc \in StartPcs =>
        /\ s \in {"REQUESTED", "DISPATCHING", "CANCELLED"}
        /\ dr = None
        /\ NoOffers(o)
        /\ \A u \in Tasks \ {t} : K[u].r = r => K[u].pc \in CancelPcs \cup {"idle"}

Searching(r, s, dr, o, K) ==
    /\ \A t \in Tasks :
          /\ Starting(r, s, dr, o, K, t)
          /\ K[t].r = r /\ K[t].pc = "resolve" => NotPending(o)
    /\ s \in {"NONE", "REQUESTED", "DISPATCHING", "NO_DRIVERS_FOUND"} => dr = None
    /\ s = "NONE" => NoOffers(o) /\ \A t \in Tasks : K[t].r = r => K[t].pc = "idle"
    /\ s = "NO_DRIVERS_FOUND" => NotPending(o)

SearchOK == \A r \in Rides : Searching(r, status[r], driver[r], offer[r], task)

\* A call at work on r after its dispatch was started.
Active(r, k) == k.r = r /\ k.pc \notin CancelPcs \cup StartPcs \cup {"idle"}

\* A call begins on r, or goes on with it.
Begins(r, s, dr, o, k2) ==
    /\ s # "NONE" /\ k2.pc \notin StartPcs \cup {"resolve"}
    /\ k2.pc \in CancelPcs \/ dr # None \/ ~ NoOffers(o)

GoesOn(r, o2, k, k2) ==
    /\ k.r = r /\ k.pc # "idle" /\ k2.pc \notin StartPcs
    /\ k.pc \in CancelPcs => k2.pc \in CancelPcs
    /\ k.pc \notin StartPcs
    /\ k2.pc = "resolve" => NotPending(o2)

\* One call moves, and what it writes leaves the search as it was.
Goes(r, s, s2, dr, o, o2, K, K2, t) ==
    /\ \A u \in Tasks \ {t} : K2[u] = K[u]
    /\ \/ K2[t].pc = "idle" \/ K2[t].r # r
       \/ Begins(r, s, dr, o, K2[t]) \/ GoesOn(r, o2, K[t], K2[t])
    /\ \A d \in Drivers : \/ o2[d] = o[d]
                          \/ o2[d] # "PENDING" /\ (o[d] = "PENDING" \/ Active(r, K[t]))
    /\ \/ s2 = s \/ s2 = "CANCELLED"
       \/ s2 \in {"ARRIVED", "IN_PROGRESS", "COMPLETED"} /\ Active(r, K[t])

LEMMA SearchGoes ==
    ASSUME NEW r, NEW s, NEW s2, NEW dr, NEW o, NEW o2, NEW K, NEW K2, NEW t \in Tasks,
           Searching(r, s, dr, o, K), Goes(r, s, s2, dr, o, o2, K, K2, t)
    PROVE  Searching(r, s2, dr, o2, K2)
  <1> DEFINE k2 == K2[t]
  <1>0. /\ \A u \in Tasks \ {t} : K2[u] = K[u]
        /\ \/ k2.pc = "idle" \/ k2.r # r \/ Begins(r, s, dr, o, k2) \/ GoesOn(r, o2, K[t], k2)
        /\ \A d \in Drivers : \/ o2[d] = o[d]
                              \/ o2[d] # "PENDING" /\ (o[d] = "PENDING" \/ Active(r, K[t]))
        /\ \/ s2 = s \/ s2 = "CANCELLED"
           \/ s2 \in {"ARRIVED", "IN_PROGRESS", "COMPLETED"} /\ Active(r, K[t])
    BY DEF Goes
  <1>1. NotPending(o) => NotPending(o2)
    BY <1>0 DEF NotPending
  <1>2. NoOffers(o) /\ ~ Active(r, K[t]) => NoOffers(o2)
    BY <1>0 DEF NoOffers
  <1>3. ASSUME NEW u \in Tasks PROVE Starting(r, s2, dr, o2, K2, u)
    <2> SUFFICES ASSUME K2[u].r = r, K2[u].pc \in StartPcs
                 PROVE  /\ s2 \in {"REQUESTED", "DISPATCHING", "CANCELLED"}
                        /\ dr = None
                        /\ NoOffers(o2)
                        /\ \A v \in Tasks \ {u} : K2[v].r = r => K2[v].pc \in CancelPcs \cup {"idle"}
      BY DEF Starting
    <2>1. u # t
      BY <1>0 DEF StartPcs, Begins, GoesOn
    <2>2. Starting(r, s, dr, o, K, u) /\ K[u].r = r /\ K[u].pc \in StartPcs
      BY <1>0, <2>1 DEF Searching
    <2>3. /\ s \in {"REQUESTED", "DISPATCHING", "CANCELLED"} /\ dr = None /\ NoOffers(o)
          /\ \A v \in Tasks \ {u} : K[v].r = r => K[v].pc \in CancelPcs \cup {"idle"}
      BY <2>2 DEF Starting
    <2>4. ~ Active(r, K[t])
      BY <2>1, <2>3 DEF Active
    <2>5. k2.r = r => k2.pc \in CancelPcs \cup {"idle"}
      BY <1>0, <2>1, <2>3 DEF Begins, GoesOn
    <2> QED
      BY <1>0, <1>2, <2>3, <2>4, <2>5
  <1>4. ASSUME NEW u \in Tasks, K2[u].r = r, K2[u].pc = "resolve" PROVE NotPending(o2)
    <2>1. CASE u = t
      BY <1>0, <1>4, <2>1 DEF Begins, GoesOn
    <2>2. CASE u # t
      BY <1>0, <1>1, <1>4, <2>2 DEF Searching
    <2> QED
      BY <2>1, <2>2
  <1>5. s2 \in {"NONE", "REQUESTED", "DISPATCHING", "NO_DRIVERS_FOUND"} => s2 = s
    BY <1>0
  <1>6. ASSUME s2 = "NONE"
        PROVE  NoOffers(o2) /\ \A u \in Tasks : K2[u].r = r => K2[u].pc = "idle"
    <2>1. s = "NONE" /\ NoOffers(o) /\ \A u \in Tasks : K[u].r = r => K[u].pc = "idle"
      BY <1>5, <1>6 DEF Searching
    <2>2. ~ Active(r, K[t])
      BY <2>1 DEF Active
    <2>3. k2.r = r => k2.pc = "idle"
      BY <1>0, <2>1 DEF Begins, GoesOn
    <2> QED
      BY <1>0, <1>2, <2>1, <2>2, <2>3
  <1> QED
    BY <1>1, <1>3, <1>4, <1>5, <1>6 DEF Searching

\* The call that starts the dispatch goes on, or finds nobody.
LEMMA SearchStarts ==
    ASSUME NEW r, NEW s, NEW s2, NEW dr, NEW o, NEW K, NEW K2, NEW t \in Tasks, NEW k2,
           Searching(r, s, dr, o, K),
           K[t].r = r, K[t].pc \in StartPcs,
           K2[t] = k2, \A u \in Tasks \ {t} : K2[u] = K[u],
           k2.r = r, k2.pc \in StartPcs \cup {"resolve"},
           s2 \in {s, "DISPATCHING"}
    PROVE  Searching(r, s2, dr, o, K2)
  <1>1. /\ s \in {"REQUESTED", "DISPATCHING", "CANCELLED"} /\ dr = None /\ NoOffers(o)
        /\ \A v \in Tasks \ {t} : K2[v].r = r => K2[v].pc \in CancelPcs \cup {"idle"}
    BY DEF Searching, Starting
  <1>2. ASSUME NEW u \in Tasks \ {t} PROVE ~ (K2[u].r = r /\ K2[u].pc \in StartPcs \cup {"resolve"})
    BY <1>1 DEF CancelPcs, StartPcs
  <1>3. s2 \in {"REQUESTED", "DISPATCHING", "CANCELLED"} /\ NotPending(o)
    BY <1>1 DEF NoOffers, NotPending
  <1>4. ASSUME NEW u \in Tasks PROVE Starting(r, s2, dr, o, K2, u)
    BY <1>1, <1>2, <1>3 DEF Starting
  <1> QED
    BY <1>1, <1>2, <1>3, <1>4 DEF Searching

\* A search that is over: no call starts the dispatch any more.
LEMMA SearchOver ==
    ASSUME NEW r, NEW s, NEW s2, NEW dr, NEW dr2, NEW o, NEW o2, NEW K, NEW K2, NEW t \in Tasks, NEW k2,
           Searching(r, s, dr, o, K),
           K2[t] = k2, \A u \in Tasks \ {t} : K2[u] = K[u],
           K[t].r = r, K[t].pc \in {"start_offer", "accept_claim", "resolve"},
           k2.pc \notin StartPcs \cup {"resolve"},
           \/ K[t].pc = "start_offer" /\ s2 = s /\ dr2 = dr
           \/ K[t].pc = "resolve" /\ s2 = "NO_DRIVERS_FOUND" /\ dr2 = None /\ o2 = o
           \/ K[t].pc = "accept_claim" /\ s2 = "ACCEPTED" /\ o2 = o
    PROVE  Searching(r, s2, dr2, o2, K2)
  <1>1. ASSUME NEW u \in Tasks PROVE ~ (K2[u].r = r /\ K2[u].pc \in StartPcs)
    <2>1. CASE u = t
      BY <2>1
    <2>2. CASE u # t
      BY <2>2 DEF Searching, Starting, StartPcs, CancelPcs
    <2> QED
      BY <2>1, <2>2
  <1>2. CASE K[t].pc = "start_offer" /\ s2 = s /\ dr2 = dr
    <2>1. /\ s \in {"REQUESTED", "DISPATCHING", "CANCELLED"} /\ dr = None
          /\ \A u \in Tasks \ {t} : K2[u].r = r => K2[u].pc # "resolve"
      BY <1>2 DEF Searching, Starting, StartPcs, CancelPcs
    <2> QED
      BY <1>1, <1>2, <2>1 DEF Searching, Starting
  <1>3. CASE K[t].pc = "resolve" /\ s2 = "NO_DRIVERS_FOUND" /\ dr2 = None /\ o2 = o
    <2>1. NotPending(o)
      BY <1>3 DEF Searching
    <2> QED
      BY <1>1, <1>3, <2>1 DEF Searching, Starting
  <1>4. CASE K[t].pc = "accept_claim" /\ s2 = "ACCEPTED" /\ o2 = o
    <2>1. \A u \in Tasks : K2[u].r = r /\ K2[u].pc = "resolve" => NotPending(o2)
      BY <1>4 DEF Searching
    <2> QED
      BY <1>1, <1>4, <2>1 DEF Searching, Starting
  <1> QED
    BY <1>2, <1>3, <1>4

\* A ride is booked: no call knew of it.
LEMMA SearchBooked ==
    ASSUME NEW r, NEW dr, NEW o, NEW K, NEW K2,
           Searching(r, "NONE", dr, o, K),
           \/ K2 = K
           \/ \E t \in Tasks : /\ K2[t].pc = "start_read" /\ K2[t].r = r
                               /\ \A u \in Tasks \ {t} : K2[u] = K[u]
    PROVE  Searching(r, "REQUESTED", dr, o, K2)
  <1>1. dr = None /\ NoOffers(o) /\ \A t \in Tasks : K[t].r = r => K[t].pc = "idle"
    BY DEF Searching
  <1>2. CASE K2 = K
    BY <1>1, <1>2 DEF Searching, Starting, StartPcs
  <1>3. ASSUME NEW t \in Tasks, K2[t].pc = "start_read", K2[t].r = r,
               \A u \in Tasks \ {t} : K2[u] = K[u]
        PROVE  Searching(r, "REQUESTED", dr, o, K2)
    <2>1. \A u \in Tasks \ {t} : K2[u].r = r => K2[u].pc = "idle"
      BY <1>1, <1>3
    <2>2. ASSUME NEW u \in Tasks PROVE Starting(r, "REQUESTED", dr, o, K2, u)
      <3>1. CASE u = t
        BY <1>1, <2>1, <3>1 DEF Starting
      <3>2. CASE u # t
        BY <2>1, <3>2 DEF Starting, StartPcs
      <3> QED
        BY <3>1, <3>2
    <2>3. \A u \in Tasks : ~ (K2[u].r = r /\ K2[u].pc = "resolve")
      BY <1>3, <2>1
    <2> QED
      BY <1>1, <2>2, <2>3 DEF Searching
  <1> QED
    BY <1>2, <1>3

LEMMA SearchNext ==
    ASSUME \A r \in Rides : Searching(r, status'[r], driver'[r], offer'[r], task')
    PROVE  SearchOK'
  BY DEF SearchOK, Searching, Starting, NotPending, NoOffers

\* A step of t about the ride x.
Steps(t, k, x) ==
    /\ task' = [task EXCEPT ![t] = k]
    /\ k.pc = "idle" \/ k.r = x
    /\ \A r \in Rides \ {x} : status'[r] = status[r] /\ driver'[r] = driver[r] /\ offer'[r] = offer[r]

LEMMA StepsAt ==
    ASSUME Inv, NEW t \in Tasks, NEW k, NEW x, Steps(t, k, x)
    PROVE  task'[t] = k /\ \A u \in Tasks \ {t} : task'[u] = task[u]
  BY DEF Steps, Inv, TypeOK

LEMMA SearchElsewhere ==
    ASSUME Inv, SearchOK, NEW t \in Tasks, NEW k, NEW x, Steps(t, k, x), NEW r \in Rides, r # x
    PROVE  Searching(r, status'[r], driver'[r], offer'[r], task')
  <1>1. Searching(r, status[r], driver[r], offer[r], task)
    BY DEF SearchOK
  <1>2. /\ status'[r] = status[r] /\ driver'[r] = driver[r] /\ offer'[r] = offer[r]
        /\ k.pc = "idle" \/ k.r # r
    BY DEF Steps
  <1>3. task'[t] = k /\ \A u \in Tasks \ {t} : task'[u] = task[u]
    BY StepsAt
  <1>4. Goes(r, status[r], status[r], driver[r], offer[r], offer[r], task, task', t)
    BY <1>2, <1>3 DEF Goes
  <1>5. Searching(r, status[r], driver[r], offer[r], task')
    BY <1>1, <1>4, SearchGoes
  <1> QED
    BY <1>2, <1>5

\* A call that was there before the step goes on with its ride.
LEMMA SearchOn ==
    ASSUME Inv, SearchOK, NEW t \in Tasks, NEW k, NEW x \in Rides, x = task[t].r, Steps(t, k, x),
           task[t].pc \notin StartPcs \cup {"idle"},
           k.pc \notin StartPcs,
           task[t].pc \in CancelPcs => k.pc \in CancelPcs \cup {"idle"},
           k.pc = "resolve" => NotPending(offer'[x]),
           driver'[x] = driver[x],
           \A d \in Drivers :
              \/ offer'[x][d] = offer[x][d]
              \/ offer'[x][d] # "PENDING" /\ (offer[x][d] = "PENDING" \/ task[t].pc \notin CancelPcs),
           \/ status'[x] = status[x] \/ status'[x] = "CANCELLED"
           \/ status'[x] \in {"ARRIVED", "IN_PROGRESS", "COMPLETED"} /\ task[t].pc \notin CancelPcs
    PROVE  SearchOK'
  <1>1. Searching(x, status[x], driver[x], offer[x], task)
    BY DEF SearchOK
  <1>2. task'[t] = k /\ \A u \in Tasks \ {t} : task'[u] = task[u]
    BY StepsAt
  <1>3. task[t].pc \notin CancelPcs => Active(x, task[t])
    BY DEF Active
  <1>4. k.pc = "idle" \/ GoesOn(x, offer'[x], task[t], k)
    BY DEF Steps, GoesOn
  <1>5. PICK s2, o2 : s2 = status'[x] /\ o2 = offer'[x]
    OBVIOUS
  <1>6. \A d \in Drivers : \/ o2[d] = offer[x][d]
                           \/ o2[d] # "PENDING" /\ (offer[x][d] = "PENDING" \/ Active(x, task[t]))
    BY <1>3, <1>5
  <1>7. s2 = status[x] \/ s2 = "CANCELLED" \/
           (s2 \in {"ARRIVED", "IN_PROGRESS", "COMPLETED"} /\ Active(x, task[t]))
    BY <1>3, <1>5
  <1>8. PICK K2 : K2 = task'
    OBVIOUS
  <1>9. K2[t] = k /\ \A u \in Tasks \ {t} : K2[u] = task[u]
    BY <1>2, <1>8
  <1>10. k.pc = "idle" \/ GoesOn(x, o2, task[t], k)
    BY <1>4, <1>5
  <1>12. Goes(x, status[x], s2, driver[x], offer[x], o2, task, K2, t)
    BY <1>6, <1>7, <1>9, <1>10 DEF Goes
  <1>11. Searching(x, s2, driver[x], o2, K2)
    BY <1>1, <1>12, SearchGoes
  <1> QED
    BY <1>5, <1>8, <1>11, SearchElsewhere, SearchNext

\* Going on and returning, with what the step wrote.
Rows(x) ==
    \/ OnlyTask
    \/ \E d, a : SetAvail(d, a)
    \/ \E s : SetStatus(x, s)
    \/ \E f : SetOffers(x, f)
    \/ UNCHANGED <<status, driver, offer>>

LEMMA StepsGoto ==
    ASSUME Inv, NEW t \in Tasks, NEW pc \in Pcs, Goto(t, pc), Rows(task[t].r)
    PROVE  \E k : Steps(t, k, task[t].r) /\ k.pc = pc
  <1>1. PICK k : k = [task[t] EXCEPT !.pc = pc]
    OBVIOUS
  <1>2. task' = [task EXCEPT ![t] = k] /\ k.pc = pc /\ k.r = task[t].r
    BY <1>1, GotoTask DEF Inv
  <1>3. \A r \in Rides \ {task[t].r} :
           status'[r] = status[r] /\ driver'[r] = driver[r] /\ offer'[r] = offer[r]
    BY DEF Rows, OnlyTask, SetAvail, SetStatus, SetOffers, rideVars, Inv, TypeOK
  <1> QED
    BY <1>2, <1>3 DEF Steps

LEMMA StepsReturn ==
    ASSUME Inv, NEW t \in Tasks, Return(t), Rows(task[t].r)
    PROVE  \E k : Steps(t, k, task[t].r) /\ k.pc = "idle"
  <1>1. PICK k : k = Idle
    OBVIOUS
  <1>2. task' = [task EXCEPT ![t] = k] /\ k.pc = "idle"
    BY <1>1, ReturnTask, IdleOK
  <1>3. \A r \in Rides \ {task[t].r} :
           status'[r] = status[r] /\ driver'[r] = driver[r] /\ offer'[r] = offer[r]
    BY DEF Rows, OnlyTask, SetAvail, SetStatus, SetOffers, rideVars, Inv, TypeOK
  <1> QED
    BY <1>2, <1>3 DEF Steps

\* A call reads its next step, or writes something else than its ride.
LEMMA SearchRead ==
    ASSUME Inv, SearchOK, NEW t \in Tasks, task[t].pc \notin StartPcs \cup {"idle"},
           NEW pc \in Pcs \ StartPcs, Return(t) \/ Goto(t, pc),
           task[t].pc \in CancelPcs => pc \in CancelPcs,
           pc = "resolve" => NotPending(offer[task[t].r]),
           Rows(task[t].r), UNCHANGED <<status, driver, offer>>
    PROVE  SearchOK'
  <1>1. task[t].r \in Rides
    BY DEF Inv, TasksOK, TaskOK
  <1>2. PICK k : Steps(t, k, task[t].r) /\ k.pc \in {pc, "idle"}
    BY StepsGoto, StepsReturn
  <1>3. k.pc \notin StartPcs /\ (k.pc = "resolve" => NotPending(offer'[task[t].r]))
    BY <1>2 DEF StartPcs
  <1> QED
    BY <1>1, <1>2, <1>3, SearchOn

\* A call writes offers of its ride, none of them PENDING that was not.
LEMMA SearchOffers ==
    ASSUME Inv, SearchOK, NEW t \in Tasks, task[t].pc \notin StartPcs \cup {"idle"},
           NEW pc \in Pcs \ StartPcs, Return(t) \/ Goto(t, pc),
           task[t].pc \in CancelPcs => pc \in CancelPcs,
           NEW f, SetOffers(task[t].r, f),
           \A d \in Drivers :
              \/ f[d] = offer[task[t].r][d]
              \/ f[d] # "PENDING" /\ (offer[task[t].r][d] = "PENDING" \/ task[t].pc \notin CancelPcs),
           pc = "resolve" => NotPending(f)
    PROVE  SearchOK'
  <1>1. task[t].r \in Rides
    BY DEF Inv, TasksOK, TaskOK
  <1>2. PICK k : Steps(t, k, task[t].r) /\ k.pc \in {pc, "idle"}
    BY StepsGoto, StepsReturn DEF Rows
  <1>3. offer'[task[t].r] = f /\ UNCHANGED <<status, driver>>
    BY <1>1 DEF SetOffers, rideVars, Inv, TypeOK
  <1>4. k.pc \notin StartPcs /\ (k.pc = "resolve" => NotPending(offer'[task[t].r]))
    BY <1>2, <1>3 DEF StartPcs
  <1> QED
    BY <1>1, <1>2, <1>3, <1>4, SearchOn

\* A call writes the status of its ride.
LEMMA SearchStatus ==
    ASSUME Inv, SearchOK, NEW t \in Tasks, task[t].pc \notin StartPcs \cup {"idle"},
           NEW pc \in Pcs \ (StartPcs \cup {"resolve"}), Return(t) \/ Goto(t, pc),
           task[t].pc \in CancelPcs => pc \in CancelPcs,
           NEW s, status' = [status EXCEPT ![task[t].r] = s], UNCHANGED <<driver, offer>>,
           s = "CANCELLED" \/ (s \in {"ARRIVED", "IN_PROGRESS", "COMPLETED"} /\ task[t].pc \notin CancelPcs)
    PROVE  SearchOK'
  <1>1. task[t].r \in Rides
    BY DEF Inv, TasksOK, TaskOK
  <1>2. status'[task[t].r] = s /\ \A r \in Rides \ {task[t].r} : status'[r] = status[r]
    BY <1>1 DEF Inv, TypeOK
  <1>3. PICK k : /\ task' = [task EXCEPT ![t] = k]
                 /\ k.pc \in {pc, "idle"} /\ (k.pc # "idle" => k.r = task[t].r)
    <2>1. CASE Return(t)
      BY <2>1, ReturnTask, IdleOK
    <2>2. CASE Goto(t, pc)
      <3>1. PICK k : k = [task[t] EXCEPT !.pc = pc]
        OBVIOUS
      <3>2. task' = [task EXCEPT ![t] = k] /\ k.pc = pc /\ k.r = task[t].r
        BY <2>2, <3>1, GotoTask DEF Inv
      <3> QED
        BY <3>2
    <2> QED
      BY <2>1, <2>2
  <1>4. Steps(t, k, task[t].r) /\ k.pc \notin StartPcs \cup {"resolve"}
    BY <1>2, <1>3 DEF Steps, StartPcs
  <1>5. task[t].pc \in CancelPcs => k.pc \in CancelPcs \cup {"idle"}
    BY <1>3
  <1> QED
    BY <1>1, <1>2, <1>4, <1>5, SearchOn

-----------------------------------------------------------------------------
(* The actions, by what they write of the ride.                            *)

LEMMA PcsOf ==
    /\ WonPcs \cup TripPcs \cup OfferPcs \cup CancelPcs \cup RidePcs \cup StartPcs \subseteq Pcs
    /\ (WonPcs \cup TripPcs \cup OfferPcs \cup RidePcs) \cap (StartPcs \cup CancelPcs \cup {"idle"}) = {}
    /\ CancelPcs \cap (StartPcs \cup {"idle"}) = {}
    /\ "idle" \notin Pcs /\ "resolve" \notin WonPcs \cup TripPcs \cup OfferPcs \cup CancelPcs \cup StartPcs
  BY DEF Pcs, WonPcs, TripPcs, OfferPcs, CancelPcs, RidePcs, StartPcs

LEMMA ReadsKeepSearch ==
    ASSUME Inv, SearchOK, NEW t \in Tasks,
           \/ TimerFires(t) \/ AcceptTooLate(t) \/ AcceptAvail(t) \/ DeclineCheck(t) \/ DeclineCount(t)
           \/ CancelFee(t) \/ CancelUnfunded(t) \/ CancelAvail(t) \/ (CancelOffers(t) /\ OnlyTask)
           \/ PayForRide(t) \/ PayUnfunded(t) \/ CashPost(t) \/ CashCount(t) \/ CompleteAvail(t)
    PROVE  SearchOK'
  <1>1. UNCHANGED <<status, driver, offer>> /\ Rows(task[t].r)
    BY DEF TimerFires, AcceptTooLate, AcceptAvail, DeclineCheck, DeclineCount, CancelFee,
       CancelUnfunded, CancelAvail, CancelOffers, PayForRide, PayUnfunded, CashPost, CashCount,
       CompleteAvail, PostFare, OnlyTask, SetAvail, rideVars, moneyVars, Rows
  <1>2. ASSUME NEW pc \in WonPcs \cup TripPcs \cup OfferPcs \cup CancelPcs \cup RidePcs,
               NEW to \in WonPcs \cup TripPcs \cup OfferPcs \cup CancelPcs \cup RidePcs,
               At(t, pc), Return(t) \/ Goto(t, to),
               pc \in CancelPcs => to \in CancelPcs,
               to = "resolve" => NotPending(offer[task[t].r])
        PROVE  SearchOK'
    <2>1. /\ task[t].pc = pc /\ pc \notin StartPcs \cup {"idle"} /\ to \in Pcs \ StartPcs
      BY <1>2, PcsOf DEF At
    <2> QED
      BY <1>1, <1>2, <2>1, SearchRead
  <1>3. CASE TimerFires(t)
    BY <1>2, <1>3 DEF TimerFires, RidePcs, CancelPcs
  <1>4. CASE AcceptTooLate(t) \/ AcceptAvail(t)
    BY <1>2, <1>4 DEF AcceptTooLate, AcceptAvail, OfferPcs, WonPcs, CancelPcs
  <1>5. CASE DeclineCheck(t)
    BY <1>2, <1>5 DEF DeclineCheck, RidePcs, CancelPcs
  <1>6. CASE DeclineCount(t)
    BY <1>2, <1>6 DEF DeclineCount, RidePcs, CancelPcs, NotPending
  <1>7. CASE CancelFee(t) \/ CancelUnfunded(t) \/ CancelAvail(t) \/ CancelOffers(t)
    BY <1>2, <1>7 DEF CancelFee, CancelUnfunded, CancelAvail, CancelOffers, CancelPcs
  <1>8. CASE PayForRide(t) \/ PayUnfunded(t) \/ CashCount(t) \/ CompleteAvail(t)
    BY <1>2, <1>8 DEF PayForRide, PayUnfunded, CashCount, CompleteAvail, PostFare, TripPcs, CancelPcs
  <1>9. CASE CashPost(t)
    <2>1. CASE task[t].fresh
      BY <1>2, <1>9, <2>1 DEF CashPost, PostFare, TripPcs, CancelPcs
    <2>2. CASE ~ task[t].fresh
      BY <1>2, <1>9, <2>2 DEF CashPost, PostFare, TripPcs, CancelPcs
    <2> QED
      BY <2>1, <2>2
  <1> QED
    BY <1>3, <1>4, <1>5, <1>6, <1>7, <1>8, <1>9

LEMMA CashLookKeepsSearch ==
    ASSUME Inv, SearchOK, NEW t \in Tasks, CashLook(t)
    PROVE  SearchOK'
  <1>1. task[t].r \in Rides /\ task[t].pc = "cash_look" /\ task[t] \in TaskRecords
    BY AtOK DEF CashLook
  <1>2. PICK b : b = (fare[task[t].r] = None)
    OBVIOUS
  <1>3. PICK k : k = [task[t] EXCEPT !.fresh = b, !.pc = "cash_post"]
    OBVIOUS
  <1>4. k.pc = "cash_post" /\ k.r = task[t].r
    BY <1>1, <1>3 DEF TaskRecords
  <1>5. task' = [task EXCEPT ![t] = k]
    BY <1>2, <1>3 DEF CashLook
  <1>6. Steps(t, k, task[t].r) /\ UNCHANGED <<status, driver, offer>>
    BY <1>4, <1>5 DEF Steps, CashLook, OnlyTask, rideVars
  <1> QED
    BY <1>1, <1>4, <1>6, SearchOn DEF StartPcs, CancelPcs

LEMMA ExpiredRow ==
    ASSUME NEW r, NEW kept
    PROVE  /\ \A d \in Drivers : \/ Expired(r, kept)[d] = offer[r][d]
                                 \/ Expired(r, kept)[d] = "EXPIRED" /\ offer[r][d] = "PENDING"
           /\ NotPending(Expired(r, {}))
  BY DEF Expired, NotPending

LEMMA OffersKeepSearch ==
    ASSUME Inv, SearchOK, NEW t \in Tasks,
           \/ ExpireRound(t) \/ AcceptLost(t) \/ AcceptWon(t) \/ AcceptOthers(t) \/ DeclineWrite(t)
           \/ CancelOffers(t)
    PROVE  SearchOK'
  <1> DEFINE x == task[t].r
  <1>1. ASSUME NEW pc \in OfferPcs \cup WonPcs \cup CancelPcs \cup RidePcs,
               NEW to \in OfferPcs \cup WonPcs \cup CancelPcs \cup RidePcs,
               At(t, pc), Return(t) \/ Goto(t, to), NEW f, SetOffers(x, f),
               pc \in CancelPcs => to \in CancelPcs,
               \A d \in Drivers : \/ f[d] = offer[x][d]
                                  \/ f[d] # "PENDING" /\ (offer[x][d] = "PENDING" \/ pc \notin CancelPcs),
               to = "resolve" => NotPending(f)
        PROVE  SearchOK'
    <2>1. task[t].pc = pc /\ pc \notin StartPcs \cup {"idle"} /\ to \in Pcs \ StartPcs
      BY <1>1, PcsOf DEF At
    <2> QED
      BY <1>1, <2>1, SearchOffers
  <1>2. ASSUME NEW d \in Drivers, NEW v \in {"EXPIRED", "ACCEPTED", "DECLINED"}, x \in Rides
        PROVE  \A c \in Drivers : [offer[x] EXCEPT ![d] = v][c] \in {offer[x][c], v}
    BY <1>2 DEF Inv, TypeOK
  <1>3. CASE ExpireRound(t)
    <2>1. /\ At(t, "expire") /\ Goto(t, "resolve") /\ SetOffers(x, Expired(x, {}))
      BY <1>3 DEF ExpireRound
    <2> QED
      BY <1>1, <2>1, ExpiredRow DEF RidePcs, CancelPcs
  <1>4. CASE AcceptLost(t)
    <2>1. /\ At(t, "accept_lost") /\ Return(t) /\ task[t].d \in Drivers /\ x \in Rides
          /\ SetOffers(x, [offer[x] EXCEPT ![task[t].d] = "EXPIRED"])
      BY <1>4, AtOK DEF AcceptLost, OfferPcs
    <2>2. PICK f : f = [offer[x] EXCEPT ![task[t].d] = "EXPIRED"]
      OBVIOUS
    <2>3. \A c \in Drivers : f[c] = offer[x][c] \/ f[c] = "EXPIRED"
      BY <1>2, <2>1, <2>2
    <2>4. SetOffers(x, f) /\ \A c \in Drivers : f[c] = offer[x][c] \/ f[c] # "PENDING"
      BY <2>1, <2>2, <2>3
    <2> QED
      BY <1>1, <2>1, <2>4 DEF OfferPcs, CancelPcs
  <1>5. CASE AcceptWon(t)
    <2>1. /\ At(t, "accept_won") /\ Goto(t, "accept_others") /\ task[t].d \in Drivers /\ x \in Rides
          /\ SetOffers(x, [offer[x] EXCEPT ![task[t].d] = "ACCEPTED"])
      BY <1>5, AtOK DEF AcceptWon, DriverPcs, WonPcs
    <2>2. PICK f : f = [offer[x] EXCEPT ![task[t].d] = "ACCEPTED"]
      OBVIOUS
    <2>3. \A c \in Drivers : f[c] = offer[x][c] \/ f[c] = "ACCEPTED"
      BY <1>2, <2>1, <2>2
    <2>4. SetOffers(x, f) /\ \A c \in Drivers : f[c] = offer[x][c] \/ f[c] # "PENDING"
      BY <2>1, <2>2, <2>3
    <2> QED
      BY <1>1, <2>1, <2>4 DEF WonPcs, CancelPcs
  <1>6. CASE AcceptOthers(t)
    <2>1. /\ At(t, "accept_others") /\ Goto(t, "accept_avail")
          /\ SetOffers(x, Expired(x, {task[t].d}))
      BY <1>6 DEF AcceptOthers
    <2> QED
      BY <1>1, <2>1, ExpiredRow DEF WonPcs, CancelPcs
  <1>7. CASE DeclineWrite(t)
    <2>1. /\ At(t, "decline_write") /\ Goto(t, "decline_read") /\ task[t].d \in Drivers /\ x \in Rides
          /\ SetOffers(x, [offer[x] EXCEPT ![task[t].d] = "DECLINED"])
      BY <1>7, AtOK DEF DeclineWrite, OfferPcs
    <2>2. PICK f : f = [offer[x] EXCEPT ![task[t].d] = "DECLINED"]
      OBVIOUS
    <2>3. \A c \in Drivers : f[c] = offer[x][c] \/ f[c] = "DECLINED"
      BY <1>2, <2>1, <2>2
    <2>4. SetOffers(x, f) /\ \A c \in Drivers : f[c] = offer[x][c] \/ f[c] # "PENDING"
      BY <2>1, <2>2, <2>3
    <2> QED
      BY <1>1, <2>1, <2>4 DEF OfferPcs, RidePcs, CancelPcs
  <1>8. CASE CancelOffers(t)
    <2>1. CASE OnlyTask
      BY <1>8, <2>1, ReadsKeepSearch
    <2>2. CASE SetOffers(x, Expired(x, {}))
      <3>1. At(t, "cancel_offers") /\ Goto(t, "cancel_avail")
        BY <1>8 DEF CancelOffers
      <3> QED
        BY <1>1, <2>2, <3>1, ExpiredRow DEF CancelPcs
    <2> QED
      BY <1>8, <2>1, <2>2 DEF CancelOffers
  <1> QED
    BY <1>3, <1>4, <1>5, <1>6, <1>7, <1>8

LEMMA StatusKeepsSearch ==
    ASSUME Inv, SearchOK, NEW t \in Tasks,
           TripWrite(t) \/ CompleteWrite(t) \/ CancelWrite(t)
    PROVE  SearchOK'
  <1>1. CASE TripWrite(t) \/ CompleteWrite(t)
    <2>1. PICK pc \in TripPcs, s \in {"ARRIVED", "IN_PROGRESS", "COMPLETED"} :
             /\ At(t, pc) /\ SetStatus(task[t].r, s)
             /\ Return(t) \/ Goto(t, "complete_avail")
      BY <1>1 DEF TripWrite, CompleteWrite, TripPcs
    <2>2. task[t].pc = pc /\ pc \notin StartPcs \cup {"idle"} \cup CancelPcs
      BY <2>1, PcsOf DEF At
    <2>3. "complete_avail" \in Pcs \ (StartPcs \cup {"resolve"})
      BY PcsOf DEF TripPcs, StartPcs
    <2> QED
      BY <2>1, <2>2, <2>3, SearchStatus DEF SetStatus
  <1>2. CASE CancelWrite(t)
    <2>1. /\ At(t, "cancel_write") /\ Return(t)
          /\ status' = [status EXCEPT ![task[t].r] = "CANCELLED"] /\ UNCHANGED <<driver, offer>>
      BY <1>2 DEF CancelWrite
    <2>2. task[t].pc = "cancel_write" /\ "cancel_write" \in CancelPcs
          /\ "cancel_write" \notin StartPcs \cup {"idle", "resolve"} /\ "cancel_write" \in Pcs
      BY <2>1, PcsOf DEF At, CancelPcs, StartPcs
    <2> QED
      BY <2>1, <2>2, SearchStatus
  <1> QED
    BY <1>1, <1>2

\* One ride of a step changes, by a call that was there or a new one.
LEMMA SearchOfStep ==
    ASSUME Inv, SearchOK, NEW t \in Tasks, NEW k, NEW x, Steps(t, k, x),
           x \in Rides => Searching(x, status'[x], driver'[x], offer'[x], task')
    PROVE  SearchOK'
  BY SearchElsewhere, SearchNext

LEMMA StartsKeepSearch ==
    ASSUME Inv, SearchOK, NEW t \in Tasks, StartRead(t) \/ StartWrite(t) \/ StartFind(t)
    PROVE  SearchOK'
  <1> DEFINE x == task[t].r
  <1>1. /\ x \in Rides /\ task[t].pc \in {"start_read", "start_write", "start_find"}
        /\ task[t] \in TaskRecords
    BY AtOK DEF StartRead, StartWrite, StartFind
  <1>2. Searching(x, status[x], driver[x], offer[x], task)
    BY <1>1 DEF SearchOK
  <1>3. ASSUME NEW k, Steps(t, k, x), k.pc \in StartPcs \cup {"resolve"}, k.r = x,
               status'[x] \in {status[x], "DISPATCHING"}, UNCHANGED <<driver, offer>>
        PROVE  SearchOK'
    <2>1. task'[t] = k /\ \A u \in Tasks \ {t} : task'[u] = task[u]
      BY <1>3, StepsAt
    <2>2. PICK s2, K2 : s2 = status'[x] /\ K2 = task'
      OBVIOUS
    <2>3. /\ task[t].r = x /\ task[t].pc \in StartPcs
          /\ K2[t] = k /\ \A u \in Tasks \ {t} : K2[u] = task[u]
          /\ s2 \in {status[x], "DISPATCHING"}
      BY <1>1, <1>3, <2>1, <2>2 DEF StartPcs
    <2>4. Searching(x, s2, driver[x], offer[x], K2)
      BY <1>2, <1>3, <2>3, SearchStarts
    <2> QED
      BY <1>3, <2>2, <2>4, SearchOfStep
  <1>4. CASE StartRead(t) /\ Return(t)
    <2>1. PICK k : Steps(t, k, x) /\ k.pc = "idle"
      BY <1>4, StepsReturn DEF StartRead, Rows
    <2>2. /\ task'[t] = k /\ (\A u \in Tasks \ {t} : task'[u] = task[u])
          /\ UNCHANGED <<status, driver, offer>>
      BY <1>4, <2>1, StepsAt DEF StartRead, OnlyTask, rideVars
    <2>3. Goes(x, status[x], status[x], driver[x], offer[x], offer[x], task, task', t)
      BY <2>1, <2>2 DEF Goes
    <2>4. Searching(x, status[x], driver[x], offer[x], task')
      BY <1>2, <2>3, SearchGoes
    <2> QED
      BY <2>1, <2>2, <2>4, SearchOfStep
  <1>5. CASE StartRead(t) /\ Goto(t, "start_write")
    <2>1. PICK k : k = [task[t] EXCEPT !.pc = "start_write"]
      OBVIOUS
    <2>2. task' = [task EXCEPT ![t] = k] /\ k.pc = "start_write" /\ k.r = x
      BY <1>5, <2>1, GotoTask DEF Inv, Pcs, StartPcs
    <2>3. Steps(t, k, x) /\ UNCHANGED <<status, driver, offer>>
      BY <1>5, <2>2 DEF Steps, StartRead, OnlyTask, rideVars
    <2> QED
      BY <1>3, <2>2, <2>3 DEF StartPcs
  <1>6. CASE StartWrite(t)
    <2>1. PICK k : k = [task[t] EXCEPT !.pc = "start_find"]
      OBVIOUS
    <2>2. task' = [task EXCEPT ![t] = k] /\ k.pc = "start_find" /\ k.r = x
      BY <1>6, <2>1, GotoTask DEF StartWrite, Inv, Pcs, StartPcs
    <2>3. /\ status'[x] = "DISPATCHING" /\ UNCHANGED <<driver, offer>>
          /\ \A r \in Rides \ {x} : status'[r] = status[r]
      BY <1>1, <1>6 DEF StartWrite, SetStatus, Inv, TypeOK
    <2>4. Steps(t, k, x)
      BY <2>2, <2>3 DEF Steps
    <2> QED
      BY <1>3, <2>2, <2>3, <2>4 DEF StartPcs
  <1>7. CASE StartFind(t)
    <2>1. PICK found \in SUBSET {d \in Drivers : avail[d] = "ONLINE"} :
             task' = [task EXCEPT ![t].set = found,
                                  ![t].pc = IF found = {} THEN "resolve" ELSE "start_offer"]
      BY <1>7 DEF StartFind
    <2>2. PICK pc \in {"resolve", "start_offer"} : pc = IF found = {} THEN "resolve" ELSE "start_offer"
      OBVIOUS
    <2>3. PICK k : k = [task[t] EXCEPT !.set = found, !.pc = pc]
      OBVIOUS
    <2>4. k.pc = pc /\ k.r = x
      BY <1>1, <2>3 DEF TaskRecords
    <2>5. task' = [task EXCEPT ![t] = k]
      BY <2>1, <2>2, <2>3
    <2>6. Steps(t, k, x) /\ UNCHANGED <<status, driver, offer>>
      BY <1>7, <2>4, <2>5 DEF Steps, StartFind, OnlyTask, rideVars
    <2> QED
      BY <1>3, <2>2, <2>4, <2>6 DEF StartPcs
  <1>8. StartRead(t) => Return(t) \/ Goto(t, "start_write")
    BY DEF StartRead
  <1> QED
    BY <1>4, <1>5, <1>6, <1>7, <1>8

LEMMA EndsKeepSearch ==
    ASSUME Inv, SearchOK, NEW t \in Tasks, StartOffer(t) \/ Resolve(t) \/ AcceptClaim(t)
    PROVE  SearchOK'
  <1> DEFINE x == task[t].r
  <1>1. /\ x \in Rides /\ task[t] \in TaskRecords
        /\ task[t].pc \in {"start_offer", "resolve", "accept_claim"}
        /\ StartOffer(t) => task[t].pc = "start_offer"
        /\ Resolve(t) => task[t].pc = "resolve"
        /\ AcceptClaim(t) => task[t].pc = "accept_claim"
    BY AtOK DEF StartOffer, Resolve, AcceptClaim
  <1>2. Searching(x, status[x], driver[x], offer[x], task)
    BY <1>1 DEF SearchOK
  <1>3. ASSUME NEW k, Steps(t, k, x), k.pc \notin StartPcs \cup {"resolve"},
               NEW s2, s2 = status'[x], NEW dr2, dr2 = driver'[x], NEW o2, o2 = offer'[x],
               \/ task[t].pc = "start_offer" /\ s2 = status[x] /\ dr2 = driver[x]
               \/ task[t].pc = "resolve" /\ s2 = "NO_DRIVERS_FOUND" /\ dr2 = None /\ o2 = offer[x]
               \/ task[t].pc = "accept_claim" /\ s2 = "ACCEPTED" /\ o2 = offer[x]
        PROVE  SearchOK'
    <2>1. task'[t] = k /\ \A u \in Tasks \ {t} : task'[u] = task[u]
      BY <1>3, StepsAt
    <2>2. PICK K2 : K2 = task'
      OBVIOUS
    <2>3. /\ task[t].r = x /\ K2[t] = k /\ \A u \in Tasks \ {t} : K2[u] = task[u]
      BY <2>1, <2>2
    <2>4. Searching(x, s2, dr2, o2, K2)
      BY <1>1, <1>2, <1>3, <2>3, SearchOver
    <2> QED
      BY <1>3, <2>2, <2>4, SearchOfStep
  <1>4. ASSUME NEW k, Steps(t, k, x), k.pc = "idle", UNCHANGED <<status, driver, offer>>
        PROVE  SearchOK'
    <2>1. task'[t] = k /\ \A u \in Tasks \ {t} : task'[u] = task[u]
      BY <1>4, StepsAt
    <2>3. Goes(x, status[x], status[x], driver[x], offer[x], offer[x], task, task', t)
      BY <1>4, <2>1 DEF Goes
    <2>4. Searching(x, status[x], driver[x], offer[x], task')
      BY <1>2, <2>3, SearchGoes
    <2> QED
      BY <1>4, <2>4, SearchOfStep
  <1>5. CASE StartOffer(t)
    <2>1. CASE Return(t) /\ OnlyTask
      <3>1. PICK k : Steps(t, k, x) /\ k.pc = "idle"
        BY <2>1, StepsReturn DEF Rows
      <3> QED
        BY <1>4, <2>1, <3>1 DEF OnlyTask, rideVars
    <2>2. ASSUME NEW f, SetOffers(x, f), task' = [task EXCEPT ![t].pc = "timer", ![t].set = {}]
          PROVE  SearchOK'
      <3>1. PICK k : k = [task[t] EXCEPT !.pc = "timer", !.set = {}]
        OBVIOUS
      <3>2. k.pc = "timer" /\ k.r = x
        BY <1>1, <3>1 DEF TaskRecords
      <3>3. task' = [task EXCEPT ![t] = k]
        BY <2>2, <3>1
      <3>4. /\ UNCHANGED <<status, driver>>
            /\ \A r \in Rides \ {x} : offer'[r] = offer[r]
        BY <2>2 DEF SetOffers, rideVars, Inv, TypeOK
      <3>5. Steps(t, k, x)
        BY <3>2, <3>3, <3>4 DEF Steps
      <3> QED
        BY <1>1, <1>3, <1>5, <3>2, <3>4, <3>5 DEF StartPcs
    <2> QED
      BY <1>5, <2>1, <2>2 DEF StartOffer
  <1>6. CASE Resolve(t)
    <2>1. CASE OnlyTask
      <3>1. PICK k : Steps(t, k, x) /\ k.pc = "idle"
        BY <1>6, <2>1, StepsReturn DEF Resolve, Rows
      <3> QED
        BY <1>4, <2>1, <3>1 DEF OnlyTask, rideVars
    <2>2. CASE status[x] \in {"REQUESTED", "DISPATCHING"} /\ SetStatus(x, "NO_DRIVERS_FOUND")
      <3>1. PICK k : Steps(t, k, x) /\ k.pc = "idle"
        BY <1>6, <2>2, StepsReturn DEF Resolve, Rows
      <3>2. status'[x] = "NO_DRIVERS_FOUND" /\ UNCHANGED <<driver, offer>>
        BY <1>1, <2>2 DEF SetStatus, Inv, TypeOK
      <3>3. driver'[x] = None /\ offer'[x] = offer[x]
        BY <1>2, <2>2, <3>2 DEF Searching
      <3>4. k.pc \notin StartPcs \cup {"resolve"}
        BY <3>1 DEF StartPcs
      <3> QED
        BY <1>1, <1>3, <1>6, <3>1, <3>2, <3>3, <3>4
    <2> QED
      BY <1>6, <2>1, <2>2 DEF Resolve
  <1>7. CASE AcceptClaim(t)
    <2>1. /\ status' = [status EXCEPT ![x] = "ACCEPTED"]
          /\ driver' = [driver EXCEPT ![x] = task[t].d]
          /\ Goto(t, "accept_won") /\ offer' = offer
      BY <1>7 DEF AcceptClaim
    <2>2. PICK k : k = [task[t] EXCEPT !.pc = "accept_won"]
      OBVIOUS
    <2>3. task' = [task EXCEPT ![t] = k] /\ k.pc = "accept_won" /\ k.r = x
      BY <2>1, <2>2, GotoTask DEF Inv, Pcs, WonPcs
    <2>4. /\ status'[x] = "ACCEPTED"
          /\ \A r \in Rides \ {x} : status'[r] = status[r] /\ driver'[r] = driver[r]
      BY <1>1, <2>1 DEF Inv, TypeOK
    <2>5. Steps(t, k, x)
      BY <2>1, <2>3, <2>4 DEF Steps
    <2> QED
      BY <1>1, <1>3, <1>7, <2>1, <2>3, <2>4, <2>5 DEF StartPcs
  <1> QED
    BY <1>5, <1>6, <1>7

-----------------------------------------------------------------------------
(* Requests, faults, the whole.                                            *)

LEMMA BookingKeepsSearch ==
    ASSUME Inv, SearchOK, NEW x \in Rides, NEW m,
           (\E t \in Tasks : CreateRide(t, x, m)) \/ CreateRideUndispatched(x, m)
    PROVE  SearchOK'
  <1>1. Searching(x, "NONE", driver[x], offer[x], task)
    BY DEF SearchOK, CreateRide, CreateRideUndispatched
  <1>2. /\ status'[x] = "REQUESTED" /\ UNCHANGED <<driver, offer>>
        /\ \A r \in Rides \ {x} : status'[r] = status[r]
    BY DEF CreateRide, CreateRideUndispatched, Inv, TypeOK
  <1>3. ASSUME NEW t \in Tasks, CreateRide(t, x, m)
        PROVE  SearchOK'
    <2>1. PICK k : k = Called("start_read", x, None)
      OBVIOUS
    <2>2. task' = [task EXCEPT ![t] = k] /\ k.pc = "start_read" /\ k.r = x
      BY <1>3, <2>1, CallTask DEF CreateRide, Pcs, StartPcs
    <2>3. Steps(t, k, x)
      BY <1>2, <2>2 DEF Steps
    <2>4. task'[t] = k /\ \A u \in Tasks \ {t} : task'[u] = task[u]
      BY <2>3, StepsAt
    <2>5. \E u \in Tasks : /\ task'[u].pc = "start_read" /\ task'[u].r = x
                           /\ \A v \in Tasks \ {u} : task'[v] = task[v]
      BY <2>2, <2>4
    <2>6. Searching(x, "REQUESTED", driver[x], offer[x], task')
      BY <1>1, <2>5, SearchBooked
    <2> QED
      BY <1>2, <2>3, <2>6, SearchOfStep
  <1>4. CASE CreateRideUndispatched(x, m)
    <2>1. task' = task
      BY <1>4 DEF CreateRideUndispatched
    <2>2. Searching(x, "REQUESTED", driver[x], offer[x], task')
      BY <1>1, <2>1, SearchBooked
    <2>3. ASSUME NEW r \in Rides PROVE Searching(r, status'[r], driver'[r], offer'[r], task')
      <3>1. CASE r = x
        BY <1>2, <2>2, <3>1
      <3>2. CASE r # x
        BY <1>2, <2>1, <3>2 DEF SearchOK
      <3> QED
        BY <3>1, <3>2
    <2> QED
      BY <2>3, SearchNext
  <1> QED
    BY <1>3, <1>4

LEMMA CallsKeepSearch ==
    ASSUME Inv, SearchOK, NEW t \in Tasks, NEW x \in Rides,
           \/ \E by \in {"rider", "driver"} : CancelRead(t, x, by)
           \/ \E d \in Drivers : \/ AcceptRead(t, x, d) \/ DeclineRead(t, x, d) \/ MarkArrived(t, x, d)
                                 \/ StartTrip(t, x, d) \/ CompleteTrip(t, x, d)
    PROVE  SearchOK'
  <1>1. Searching(x, status[x], driver[x], offer[x], task)
    BY DEF SearchOK
  <1>2. ASSUME NEW k, task' = [task EXCEPT ![t] = k], k.r = x, OnlyTask,
               Begins(x, status[x], driver[x], offer[x], k)
        PROVE  SearchOK'
    <2>1. Steps(t, k, x) /\ UNCHANGED <<status, driver, offer>>
      BY <1>2 DEF Steps, OnlyTask, rideVars
    <2>2. task'[t] = k /\ \A u \in Tasks \ {t} : task'[u] = task[u]
      BY <2>1, StepsAt
    <2>3. Goes(x, status[x], status[x], driver[x], offer[x], offer[x], task, task', t)
      BY <1>2, <2>2 DEF Goes
    <2>4. Searching(x, status[x], driver[x], offer[x], task')
      BY <1>1, <2>3, SearchGoes
    <2> QED
      BY <2>1, <2>4, SearchOfStep
  <1>3. ASSUME NEW by \in {"rider", "driver"}, CancelRead(t, x, by)
        PROVE  SearchOK'
    <2>1. PICK pc \in {"cancel_fee", "cancel_offers"} :
             pc = IF status[x] \in Committed /\ by = "rider" /\ driver[x] # None
                  THEN "cancel_fee" ELSE "cancel_offers"
      OBVIOUS
    <2>2. PICK k : k = [Idle EXCEPT !.r = x, !.d = driver[x], !.seen = status[x], !.by = by, !.pc = pc]
      OBVIOUS
    <2>3. k.pc = pc /\ k.r = x
      BY <2>2 DEF Idle
    <2>4. task' = [task EXCEPT ![t] = k] /\ OnlyTask /\ status[x] \in Cancellable
      BY <1>3, <2>1, <2>2 DEF CancelRead
    <2>5. Begins(x, status[x], driver[x], offer[x], k)
      BY <2>1, <2>3, <2>4 DEF Begins, Cancellable, StartPcs, CancelPcs
    <2> QED
      BY <1>2, <2>3, <2>4, <2>5
  <1>4. ASSUME NEW d \in Drivers, NEW pc \in OfferPcs \cup TripPcs, Call(t, pc, x, d), OnlyTask,
               driver[x] # None \/ ~ NoOffers(offer[x])
        PROVE  SearchOK'
    <2>1. PICK k : k = Called(pc, x, d)
      OBVIOUS
    <2>2. task' = [task EXCEPT ![t] = k] /\ k.pc = pc /\ k.r = x
      BY <1>4, <2>1, CallTask, PcsOf
    <2>3. status[x] # "NONE" /\ pc \notin StartPcs \cup {"resolve"}
      BY <1>1, <1>4, PcsOf DEF Searching
    <2>4. Begins(x, status[x], driver[x], offer[x], k)
      BY <1>4, <2>2, <2>3 DEF Begins
    <2> QED
      BY <1>2, <1>4, <2>2, <2>4
  <1>5. ASSUME NEW d \in Drivers, AcceptRead(t, x, d) \/ DeclineRead(t, x, d)
        PROVE  SearchOK'
    BY <1>4, <1>5 DEF AcceptRead, DeclineRead, NoOffers, OfferPcs
  <1>6. ASSUME NEW d \in Drivers, MarkArrived(t, x, d) \/ StartTrip(t, x, d) \/ CompleteTrip(t, x, d)
        PROVE  SearchOK'
    <2>1. PICK pc \in TripPcs : Call(t, pc, x, d) /\ OnlyTask /\ driver[x] = d
      <3>1. CASE MarkArrived(t, x, d)
        BY <3>1 DEF MarkArrived, TripRead, TripPcs
      <3>2. CASE StartTrip(t, x, d)
        BY <3>2 DEF StartTrip, TripRead, TripPcs
      <3>3. CASE CompleteTrip(t, x, d) /\ method[x] = "WALLET"
        BY <3>3 DEF CompleteTrip, TripRead, TripPcs
      <3>4. CASE CompleteTrip(t, x, d) /\ method[x] # "WALLET"
        BY <3>4 DEF CompleteTrip, TripRead, TripPcs
      <3> QED
        BY <1>6, <3>1, <3>2, <3>3, <3>4
    <2> QED
      BY <1>4, <2>1, RideAssumption DEF RideAssumption
  <1> QED
    BY <1>3, <1>5, <1>6

LEMMA SearchStepOK ==
    ~ ManualStart /\ Inv /\ SearchOK /\ [Next]_vars => SearchOK'
  <1> SUFFICES ASSUME ~ ManualStart, Inv, SearchOK, [Next]_vars PROVE SearchOK'
    OBVIOUS
  <1>1. ASSUME NEW t \in Tasks, Request(t) PROVE SearchOK'
    BY <1>1, BookingKeepsSearch, CallsKeepSearch DEF Request, StartManually
  <1>2. ASSUME NEW t \in Tasks, Step(t) PROVE SearchOK'
    <2>1. CASE \/ TimerFires(t) \/ AcceptTooLate(t) \/ AcceptAvail(t) \/ DeclineCheck(t)
               \/ DeclineCount(t) \/ CancelFee(t) \/ CancelUnfunded(t) \/ CancelAvail(t)
               \/ PayForRide(t) \/ PayUnfunded(t) \/ CashPost(t) \/ CashCount(t) \/ CompleteAvail(t)
      BY <2>1, ReadsKeepSearch
    <2>2. CASE \/ ExpireRound(t) \/ AcceptLost(t) \/ AcceptWon(t) \/ AcceptOthers(t)
               \/ DeclineWrite(t) \/ CancelOffers(t)
      BY <2>2, OffersKeepSearch
    <2>3. CASE TripWrite(t) \/ CompleteWrite(t) \/ CancelWrite(t) \/ CashLook(t)
      BY <2>3, StatusKeepsSearch, CashLookKeepsSearch
    <2>4. CASE \/ StartRead(t) \/ StartWrite(t) \/ StartFind(t)
               \/ StartOffer(t) \/ Resolve(t) \/ AcceptClaim(t)
      BY <2>4, StartsKeepSearch, EndsKeepSearch
    <2> QED
      BY <1>2, <2>1, <2>2, <2>3, <2>4 DEF Step
  <1>3. ASSUME NEW t \in Tasks, Throw(t) PROVE SearchOK'
    <2>1. PICK k : Steps(t, k, task[t].r) /\ k.pc = "idle"
      BY <1>3, StepsReturn DEF Throw, Rows
    <2>3. /\ task'[t] = k /\ (\A u \in Tasks \ {t} : task'[u] = task[u])
          /\ UNCHANGED <<status, driver, offer>>
      BY <1>3, <2>1, StepsAt DEF Throw, OnlyTask, rideVars
    <2>4. ASSUME NEW r \in Rides
          PROVE  Searching(r, status[r], driver[r], offer[r], task')
      <3>1. Goes(r, status[r], status[r], driver[r], offer[r], offer[r], task, task', t)
        BY <2>1, <2>3 DEF Goes
      <3> QED
        BY <3>1, SearchGoes DEF SearchOK
    <2> QED
      BY <2>3, <2>4, SearchNext
  <1>4. ASSUME NEW r \in Rides, NEW m \in {"WALLET", "CASH"}, CreateRideUndispatched(r, m)
        PROVE  SearchOK'
    BY <1>4, BookingKeepsSearch
  <1>5. CASE UNCHANGED vars \/ \E d \in Drivers, a \in Switches : SetDriverStatus(d, a)
    <2>1. UNCHANGED <<status, driver, offer, task>>
      BY <1>5 DEF vars, SetDriverStatus, SetAvail, rideVars
    <2> QED
      BY <2>1, SearchNext DEF SearchOK
  <1>6. CASE Restart
    <2>1. UNCHANGED <<status, driver, offer>> /\ \A u \in Tasks : task'[u].pc = "idle"
      BY <1>6, IdleOK DEF Restart, OnlyTask, rideVars
    <2>2. ASSUME NEW r \in Rides
          PROVE  Searching(r, status[r], driver[r], offer[r], task')
      BY <2>1 DEF SearchOK, Searching, Starting, StartPcs
    <2> QED
      BY <2>1, <2>2, SearchNext
  <1> QED
    BY <1>1, <1>2, <1>3, <1>4, <1>5, <1>6 DEF Next

LEMMA SearchInitOK == Init => SearchOK
  <1> SUFFICES ASSUME Init, NEW r \in Rides
               PROVE  Searching(r, status[r], driver[r], offer[r], task)
    BY DEF SearchOK
  <1> QED
    BY IdleOK DEF Init, Searching, Starting, NoOffers, NotPending, StartPcs

\* With one startDispatch per ride, whatever is cancelled, accepted and
\* declined meanwhile, fails or is lost in a restart: a ride that found no
\* driver has none, and no driver still sees an offer of it.
THEOREM NoDriversIsTheEnd ==
    ASSUME ~ ManualStart
    PROVE  Spec => []NoDriversIsFinal
  <1>1. SearchOK => NoDriversIsFinal
    BY DEF SearchOK, Searching, NotPending, NoDriversIsFinal
  <1>2. Inv /\ SearchOK /\ [Next]_vars => SearchOK'
    BY SearchStepOK
  <1> QED
    BY <1>1, <1>2, SearchInitOK, RideInvariant, PTL DEF Spec

-----------------------------------------------------------------------------
(* Without faults besides, some call will still end the search.            *)

DrivenPcs == {"start_find", "start_offer", "timer", "expire", "resolve"}

Driven(r, s, K) ==
    s = "DISPATCHING" => \E t \in Tasks : K[t].r = r /\ K[t].pc \in DrivenPcs

DrivenOK == \A r \in Rides : Driven(r, status[r], task)

\* A step that drives nothing, or ends the search.
LEMMA DrivenRests ==
    ASSUME Inv, DrivenOK, NEW t \in Tasks, NEW k, task' = [task EXCEPT ![t] = k],
           \A r \in Rides : status'[r] = "DISPATCHING" => status[r] = "DISPATCHING",
           \/ task[t].pc \notin DrivenPcs
           \/ k.r = task[t].r /\ k.pc \in DrivenPcs
           \/ task[t].r \in Rides => status'[task[t].r] # "DISPATCHING"
    PROVE  DrivenOK'
  <1>1. task'[t] = k /\ \A u \in Tasks \ {t} : task'[u] = task[u]
    BY DEF Inv, TypeOK
  <1>2. ASSUME NEW r \in Rides, status'[r] = "DISPATCHING"
        PROVE  \E u \in Tasks : task'[u].r = r /\ task'[u].pc \in DrivenPcs
    <2>1. PICK u \in Tasks : task[u].r = r /\ task[u].pc \in DrivenPcs
      BY <1>2 DEF DrivenOK, Driven
    <2> QED
      BY <1>1, <1>2, <2>1
  <1> QED
    BY <1>2 DEF DrivenOK, Driven

LEMMA DrivenStep ==
    ASSUME ~ Faults, ~ ManualStart, Inv, SearchOK, DrivenOK, NEW t \in Tasks, Step(t)
    PROVE  DrivenOK'
  <1> DEFINE x == task[t].r
  <1>0. x \in Rides /\ task[t] \in TaskRecords /\ task[t].pc # "idle" /\ status \in [Rides -> Statuses \cup {"NONE"}]
    <2>1. task[t].pc # "idle"
      BY SMTT(40) DEF Step, StartRead, StartWrite, StartFind, StartOffer, TimerFires, ExpireRound, Resolve,
         AcceptClaim, AcceptTooLate, AcceptLost, AcceptWon, AcceptOthers, AcceptAvail, DeclineWrite,
         DeclineCheck, DeclineCount, CancelFee, CancelUnfunded, CancelOffers, CancelAvail, CancelWrite,
         TripWrite, PayForRide, PayUnfunded, CashLook, CashPost, CashCount, CompleteWrite,
         CompleteAvail, At
    <2> QED
      BY SMTT(40), <2>1 DEF Inv, TypeOK, TasksOK, TaskOK
  <1>1. \E k : task' = [task EXCEPT ![t] = k]
    BY DEF Step, StartRead, StartWrite, StartFind, StartOffer, TimerFires, ExpireRound, Resolve,
       AcceptClaim, AcceptTooLate, AcceptLost, AcceptWon, AcceptOthers, AcceptAvail, DeclineWrite,
       DeclineCheck, DeclineCount, CancelFee, CancelUnfunded, CancelOffers, CancelAvail, CancelWrite,
       TripWrite, PayForRide, PayUnfunded, CashLook, CashPost, CashCount, CompleteWrite,
       CompleteAvail, PostFare, Goto, Return
  <1>2. ASSUME NEW pc \in {"expire", "resolve"}, Goto(t, pc), UNCHANGED status
        PROVE  DrivenOK'
    <2>1. PICK k : k = [task[t] EXCEPT !.pc = pc]
      OBVIOUS
    <2>2. task' = [task EXCEPT ![t] = k] /\ k.pc = pc /\ k.r = x
      BY <1>2, <2>1, GotoTask DEF Inv, Pcs, RidePcs
    <2> QED
      BY <1>2, <2>2, DrivenRests DEF DrivenPcs
  <1>3. CASE StartWrite(t)
    <2>1. PICK k : k = [task[t] EXCEPT !.pc = "start_find"]
      OBVIOUS
    <2>2. task' = [task EXCEPT ![t] = k] /\ k.pc = "start_find" /\ k.r = x
      BY <1>3, <2>1, GotoTask DEF StartWrite, Inv, Pcs, StartPcs
    <2>3. task'[t] = k /\ \A u \in Tasks \ {t} : task'[u] = task[u]
      BY <2>2 DEF Inv, TypeOK
    <2>4. /\ task[t].pc = "start_write"
          /\ \A r \in Rides \ {x} : status'[r] = status[r]
      BY <1>0, <1>3 DEF StartWrite, SetStatus, At
    <2>5. ASSUME NEW r \in Rides, status'[r] = "DISPATCHING"
          PROVE  \E u \in Tasks : task'[u].r = r /\ task'[u].pc \in DrivenPcs
      <3>1. CASE r = x
        BY <2>2, <2>3, <3>1 DEF DrivenPcs
      <3>2. CASE r # x
        <4>1. PICK u \in Tasks : task[u].r = r /\ task[u].pc \in DrivenPcs
          BY <2>4, <2>5, <3>2 DEF DrivenOK, Driven
        <4> QED
          BY <2>3, <3>2, <4>1
      <3> QED
        BY <3>1, <3>2
    <2> QED
      BY <2>5 DEF DrivenOK, Driven
  <1>4. CASE StartFind(t)
    <2>1. PICK found \in SUBSET {d \in Drivers : avail[d] = "ONLINE"} :
             task' = [task EXCEPT ![t].set = found,
                                  ![t].pc = IF found = {} THEN "resolve" ELSE "start_offer"]
      BY <1>4 DEF StartFind
    <2>2. PICK pc \in {"resolve", "start_offer"} : pc = IF found = {} THEN "resolve" ELSE "start_offer"
      OBVIOUS
    <2>3. PICK k : k = [task[t] EXCEPT !.set = found, !.pc = pc]
      OBVIOUS
    <2>4. k.pc = pc /\ k.r = x
      BY <1>0, <2>3 DEF TaskRecords
    <2>5. task' = [task EXCEPT ![t] = k] /\ UNCHANGED status
      BY <1>4, <2>1, <2>2, <2>3 DEF StartFind, OnlyTask, rideVars
    <2> QED
      BY <2>2, <2>4, <2>5, DrivenRests DEF DrivenPcs
  <1>5. CASE StartOffer(t)
    <2>1. Searching(x, status[x], driver[x], offer[x], task) /\ task[t].pc = "start_offer"
      BY <1>0, <1>5 DEF SearchOK, StartOffer, At
    <2>2. NoOffers(offer[x])
      BY <2>1 DEF Searching, Starting, StartPcs
    <2>3. task[t].set \subseteq Drivers
      BY <1>0 DEF TaskRecords
    <2>4. task' = [task EXCEPT ![t].pc = "timer", ![t].set = {}] /\ UNCHANGED status
      BY <1>5, <2>2, <2>3 DEF StartOffer, NoOffers, SetOffers, rideVars
    <2>5. PICK k : k = [task[t] EXCEPT !.pc = "timer", !.set = {}]
      OBVIOUS
    <2>6. k.pc = "timer" /\ k.r = x
      BY <1>0, <2>5 DEF TaskRecords
    <2>7. task' = [task EXCEPT ![t] = k]
      BY <2>4, <2>5
    <2> QED
      BY <2>4, <2>6, <2>7, DrivenRests DEF DrivenPcs
  <1>6. CASE TimerFires(t)
    <2>1. CASE status[x] = "DISPATCHING"
      BY <1>2, <1>6, <2>1 DEF TimerFires, OnlyTask, rideVars
    <2>2. CASE status[x] # "DISPATCHING"
      BY <1>1, <1>6, <2>2, DrivenRests DEF TimerFires, OnlyTask, rideVars
    <2> QED
      BY <2>1, <2>2
  <1>7. CASE ExpireRound(t)
    BY <1>2, <1>7 DEF ExpireRound, SetOffers, rideVars
  <1>8. CASE Resolve(t)
    <2>1. CASE status[x] \in {"REQUESTED", "DISPATCHING"}
      <3>1. status' = [status EXCEPT ![x] = "NO_DRIVERS_FOUND"]
        BY <1>8, <2>1 DEF Resolve, SetStatus
      <3>2. /\ \A r \in Rides : status'[r] = "DISPATCHING" => status[r] = "DISPATCHING"
            /\ status'[x] # "DISPATCHING"
        BY <1>0, <3>1
      <3> QED
        BY <1>1, <3>2, DrivenRests
    <2>2. CASE status[x] \notin {"REQUESTED", "DISPATCHING"}
      BY <1>1, <1>8, <2>2, DrivenRests DEF Resolve, OnlyTask, rideVars
    <2> QED
      BY <2>1, <2>2
  <1>9. CASE ~ (StartWrite(t) \/ StartFind(t) \/ StartOffer(t) \/ TimerFires(t) \/ ExpireRound(t) \/ Resolve(t))
    <2>1. task[t].pc \notin DrivenPcs
      BY SMTT(40), <1>9 DEF Step, StartRead, AcceptClaim, AcceptTooLate, AcceptLost, AcceptWon, AcceptOthers,
         AcceptAvail, DeclineWrite, DeclineCheck, DeclineCount, CancelFee, CancelUnfunded, CancelOffers,
         CancelAvail, CancelWrite, TripWrite, PayForRide, PayUnfunded, CashLook, CashPost, CashCount,
         CompleteWrite, CompleteAvail, At, DrivenPcs
    <2>2. \/ UNCHANGED status
          \/ \E s \in Statuses \ {"DISPATCHING"} : status' = [status EXCEPT ![x] = s]
      BY <1>9 DEF Step, StartRead, AcceptClaim, AcceptTooLate, AcceptLost, AcceptWon, AcceptOthers,
         AcceptAvail, DeclineWrite, DeclineCheck, DeclineCount, CancelFee, CancelUnfunded, CancelOffers,
         CancelAvail, CancelWrite, TripWrite, PayForRide, PayUnfunded, CashLook, CashPost, CashCount,
         CompleteWrite, CompleteAvail, PostFare, OnlyTask, SetStatus, SetOffers, SetAvail, rideVars,
         Statuses
    <2>3. \A r \in Rides : status'[r] = "DISPATCHING" => status[r] = "DISPATCHING"
      BY <1>0, <2>2
    <2> QED
      BY <1>1, <2>1, <2>3, DrivenRests
  <1> QED
    BY <1>3, <1>4, <1>5, <1>6, <1>7, <1>8, <1>9

LEMMA DrivenStepOK ==
    ~ Faults /\ ~ ManualStart /\ Inv /\ SearchOK /\ DrivenOK /\ [Next]_vars => DrivenOK'
  <1> SUFFICES ASSUME ~ Faults, ~ ManualStart, Inv, SearchOK, DrivenOK, [Next]_vars PROVE DrivenOK'
    OBVIOUS
  <1>1. ASSUME NEW t \in Tasks, Request(t) PROVE DrivenOK'
    <2>1. PICK r \in Rides :
             \/ \E m \in {"WALLET", "CASH"} : CreateRide(t, r, m)
             \/ \E by \in {"rider", "driver"} : CancelRead(t, r, by)
             \/ \E d \in Drivers : \/ AcceptRead(t, r, d) \/ DeclineRead(t, r, d) \/ MarkArrived(t, r, d)
                                   \/ StartTrip(t, r, d) \/ CompleteTrip(t, r, d)
      BY <1>1 DEF Request, StartManually
    <2>2. /\ task[t] = Idle
          /\ \E k : task' = [task EXCEPT ![t] = k]
      BY <2>1 DEF CreateRide, CancelRead, AcceptRead, DeclineRead, MarkArrived, StartTrip, CompleteTrip,
         TripRead, Call
    <2>3. UNCHANGED status \/ status' = [status EXCEPT ![r] = "REQUESTED"]
      BY <2>1 DEF CreateRide, CancelRead, AcceptRead, DeclineRead, MarkArrived, StartTrip, CompleteTrip,
         TripRead, OnlyTask, rideVars
    <2>4. \A q \in Rides : status'[q] = "DISPATCHING" => status[q] = "DISPATCHING"
      BY <2>3 DEF Inv, TypeOK
    <2>5. task[t].pc \notin DrivenPcs
      BY <2>2, IdleOK DEF DrivenPcs
    <2> QED
      BY <2>2, <2>4, <2>5, DrivenRests
  <1>2. CASE UNCHANGED vars \/ \E d \in Drivers, a \in Switches : SetDriverStatus(d, a)
    <2>1. UNCHANGED <<status, task>>
      BY <1>2 DEF vars, SetDriverStatus, SetAvail, rideVars
    <2> QED
      BY <2>1 DEF DrivenOK, Driven
  <1> QED
    BY <1>1, <1>2, DrivenStep DEF Next, Throw, Restart, CreateRideUndispatched

LEMMA DrivenInitOK == Init => DrivenOK
  BY DEF Init, DrivenOK, Driven

\* Without faults and with one startDispatch per ride, a ride is never left
\* in DISPATCHING with no call or timer that would take it out.
THEOREM SearchIsDriven ==
    ASSUME ~ ManualStart, ~ Faults
    PROVE  Spec => []DispatchIsDriven
  <1>1. DrivenOK => DispatchIsDriven
    BY DEF DrivenOK, Driven, DrivenPcs, DispatchIsDriven
  <1>2. Inv /\ SearchOK /\ [Next]_vars => SearchOK'
    BY SearchStepOK
  <1>3. Inv /\ SearchOK /\ DrivenOK /\ [Next]_vars => DrivenOK'
    BY DrivenStepOK
  <1> QED
    BY <1>1, <1>2, <1>3, SearchInitOK, DrivenInitOK, RideInvariant, PTL DEF Spec
=============================================================================
