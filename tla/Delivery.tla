------------------------------ MODULE Delivery ------------------------------
(***************************************************************************)
(* A delivery from its booking to its bill: booking, scheduling, stops and *)
(* cancellation (src/src/logistics/logistics.service.ts), the search for a *)
(* driver (logistics-dispatch.service.ts), the trip and its bill           *)
(* (logistics-trip.service.ts), the administrator's override and refund    *)
(* (admin-logistics.service.ts) and the invoices of businesses             *)
(* (src/src/business/business-invoices.service.ts).                        *)
(*                                                                         *)
(* As in RideDispatch, a call in progress is a task with a program         *)
(* counter, one action per database statement, carrying what it read.      *)
(* Only the release of a scheduled delivery, the claim of acceptOffer and  *)
(* resolveNoDrivers update conditionally.  A delayed job of the queue      *)
(* survives a restart, a timer of the process does not.                    *)
(*                                                                         *)
(* Abstracted: routes, tariffs and promotions (a fare is any of Fares, its *)
(* tax and its commission go with it); which drivers are near and eligible *)
(* (any set of online drivers); the clock; the receiver's code and the     *)
(* uploaded proof (a proof is there or not); milestones on the timeline,   *)
(* notifications and sockets.  A posting is an amount under a reference,   *)
(* made once: Ledger shows that of wallet.service.                         *)
(***************************************************************************)
EXTENDS FiniteSets, Naturals, Functions

CONSTANTS
    Deliveries,     \* deliveries that may be booked, all by one business or its members
    Drivers,
    None,           \* a delivery's driverId when there is none
    Tasks,          \* slots for calls in progress (a bound on concurrency)
    Methods,        \* how deliveries are paid for: "WALLET", "CASH", "INVOICE"
    Fares,          \* the fares a route may come to
    Limit,          \* Business.creditLimit
    Admin,          \* whether administrators assign drivers
    Faults          \* whether calls throw midway and the process restarts

ASSUME DeliveryAssumption ==
    /\ None \notin Drivers
    /\ Methods \subseteq {"WALLET", "CASH", "INVOICE"}
    /\ Fares \subseteq Nat \ {0}
    /\ Limit \in Nat
    /\ Admin \in BOOLEAN
    /\ Faults \in BOOLEAN

VARIABLES
    status,     \* Delivery.status; "NONE" before the delivery is booked
    driver,     \* Delivery.driverId
    method,     \* Delivery.paymentMethod; "INVOICE" goes with a businessId
    fare,       \* Delivery.estimatedFare, with the taxAmount that goes with it
    proof,      \* whether Delivery.podType is set
    linked,     \* whether Delivery.transactionId is set
    offer,      \* DeliveryOffer.status of (delivery, driver); "NONE" without a row
    avail,      \* DriverStatus.availability
    job,        \* the queue's job that releases the delivery: "waiting", "active" or "none"
    timer,      \* whether the process has a timer armed for the delivery's round
    billed,     \* the posting `delivery:<id>` (or its :commission): amount, driver
    fee,        \* who the posting `delivery:<id>:cancellation` was made with
    invoice,    \* the delivery's Invoice: its amount (0 without a row) and whether PAID
    settled,    \* the posting `invoice:<id>`: amount, tax, driver
    refunded,   \* whether the posting `delivery:<id>` was refunded
    task        \* the calls in progress

rowVars == <<status, driver, method, fare, proof, linked>>
billVars == <<billed, fee, invoice, settled, refunded>>
waits == <<job, timer>>
vars == <<rowVars, offer, avail, waits, billVars, task>>

Statuses == {"SCHEDULED", "REQUESTED", "DISPATCHING", "ACCEPTED", "PICKED_UP",
             "COMPLETED", "CANCELLED", "NO_DRIVERS_FOUND"}
Cancellable == {"SCHEDULED", "REQUESTED", "DISPATCHING", "NO_DRIVERS_FOUND", "ACCEPTED"}
Editable    == {"SCHEDULED", "REQUESTED", "DISPATCHING"}
Assignable  == {"REQUESTED", "DISPATCHING", "NO_DRIVERS_FOUND"}

NoBill    == [amount |-> 0, driver |-> None]
NoInvoice == [amount |-> 0, paid |-> FALSE]
NoPayment == [amount |-> 0, tax |-> 0, driver |-> None]

\* The business's BUSINESS_CREDIT_PAYABLE balance.
Payable ==
    FoldFunction(+, 0, [r \in Deliveries |-> IF method[r] = "INVOICE" THEN billed[r].amount ELSE 0])
      - FoldFunction(+, 0, [r \in Deliveries |-> settled[r].amount])

-----------------------------------------------------------------------------
(* Tasks.                                                                  *)

\* r: the delivery; d: a driver, the caller or as read; set: the candidates
\* found; seen: the status as read; q: the fare computed or read.
Idle == [pc |-> "idle", r |-> None, d |-> None, set |-> {}, seen |-> "NONE", q |-> 0]

Begin(t, call) == task[t] = Idle /\ task' = [task EXCEPT ![t] = call]
Call(t, pc, r, d) == Begin(t, [Idle EXCEPT !.pc = pc, !.r = r, !.d = d])
At(t, pc) == task[t].pc = pc
Goto(t, pc) == task' = [task EXCEPT ![t].pc = pc]
Return(t) == task' = [task EXCEPT ![t] = Idle]

OnlyTask == UNCHANGED <<rowVars, offer, avail, waits, billVars>>
SetStatus(r, s) ==
    /\ status' = [status EXCEPT ![r] = s]
    /\ UNCHANGED <<driver, method, fare, proof, linked, offer, avail, waits, billVars>>
SetOffers(r, f) ==
    /\ offer' = [offer EXCEPT ![r] = f]
    /\ UNCHANGED <<rowVars, avail, waits, billVars>>
SetAvail(d, a) ==
    /\ avail' = [avail EXCEPT ![d] = a]
    /\ UNCHANGED <<rowVars, offer, waits, billVars>>

\* updateMany of a delivery's PENDING offers, of every driver but those kept.
Expired(r, kept) ==
    [d \in Drivers |-> IF offer[r][d] = "PENDING" /\ d \notin kept THEN "EXPIRED"
                       ELSE offer[r][d]]

Init ==
    /\ status = [r \in Deliveries |-> "NONE"]
    /\ driver = [r \in Deliveries |-> None]
    /\ method \in [Deliveries -> Methods]
    /\ fare = [r \in Deliveries |-> 0]
    /\ proof = [r \in Deliveries |-> FALSE]
    /\ linked = [r \in Deliveries |-> FALSE]
    /\ offer = [r \in Deliveries |-> [d \in Drivers |-> "NONE"]]
    /\ avail = [d \in Drivers |-> "ONLINE"]
    /\ job = [r \in Deliveries |-> "none"]
    /\ timer = [r \in Deliveries |-> FALSE]
    /\ billed = [r \in Deliveries |-> NoBill]
    /\ fee = [r \in Deliveries |-> None]
    /\ invoice = [r \in Deliveries |-> NoInvoice]
    /\ settled = [r \in Deliveries |-> NoPayment]
    /\ refunded = [r \in Deliveries |-> FALSE]
    /\ task = [t \in Tasks |-> Idle]

-----------------------------------------------------------------------------
(* createDelivery, for a sender or, in scheduleDeliveries, for a business. *)

\* The fare is computed and, for a business, compared with what is left of
\* its credit; what is owed may change before the row is written.
Book(t, r, q, s) ==
    /\ status[r] = "NONE"
    /\ \A u \in Tasks : task[u].r # r
    /\ method[r] = "INVOICE" => Payable + q <= Limit
    /\ Begin(t, [Idle EXCEPT !.pc = "book_write", !.r = r, !.q = q, !.seen = s])
    /\ OnlyTask

BookWrite(t) ==
    LET r == task[t].r
    IN  /\ At(t, "book_write")
        /\ status' = [status EXCEPT ![r] = task[t].seen]
        /\ fare' = [fare EXCEPT ![r] = task[t].q]
        /\ Goto(t, IF task[t].seen = "SCHEDULED" THEN "enqueue" ELSE "start_read")
        /\ UNCHANGED <<driver, method, proof, linked, offer, avail, waits, billVars>>

\* enqueueScheduledDispatch, after the redemption of the promotion.
Enqueue(t) ==
    /\ At(t, "enqueue")
    /\ job' = [job EXCEPT ![task[t].r] = "waiting"]
    /\ Return(t)
    /\ UNCHANGED <<rowVars, offer, avail, timer, billVars>>

\* The queue hands a delayed job to the processor: releaseScheduledDelivery.
JobFires(t, r) ==
    /\ job[r] = "waiting"
    /\ job' = [job EXCEPT ![r] = "active"]
    /\ Call(t, "release", r, None)
    /\ UNCHANGED <<rowVars, offer, avail, timer, billVars>>

\* The job ends with the call it made, whether that returns or throws.
JobDone(r) == [job EXCEPT ![r] = IF @ = "active" THEN "none" ELSE @]

\* Mutant of Release: the job dispatches whatever it finds.
ReleaseAnyway(t) ==
    /\ At(t, "release")
    /\ SetStatus(task[t].r, "REQUESTED")
    /\ Goto(t, "start_read")

\* UPDATE ... WHERE status = SCHEDULED, then startDispatch.
Release(t) ==
    LET r == task[t].r
    IN  /\ At(t, "release")
        /\ IF status[r] = "SCHEDULED"
           THEN SetStatus(r, "REQUESTED") /\ Goto(t, "start_read")
           ELSE /\ job' = JobDone(r)
                /\ Return(t)
                /\ UNCHANGED <<rowVars, offer, avail, timer, billVars>>

\* updateStops: the route and the tariff are asked for in between.
EditRead(t, r, q) ==
    /\ status[r] \in Editable
    /\ Begin(t, [Idle EXCEPT !.pc = "edit_write", !.r = r, !.q = q])
    /\ OnlyTask

EditWrite(t) ==
    /\ At(t, "edit_write")
    /\ fare' = [fare EXCEPT ![task[t].r] = task[t].q]
    /\ Return(t)
    /\ UNCHANGED <<status, driver, method, proof, linked, offer, avail, waits, billVars>>

-----------------------------------------------------------------------------
(* startDispatch and the resolution of its round.                          *)

StartRead(t) ==
    /\ At(t, "start_read")
    /\ IF status[task[t].r] = "REQUESTED"
       THEN Goto(t, "start_write") /\ UNCHANGED job
       ELSE Return(t) /\ job' = JobDone(task[t].r)
    /\ UNCHANGED <<rowVars, offer, avail, timer, billVars>>

StartWrite(t) ==
    /\ At(t, "start_write")
    /\ SetStatus(task[t].r, "DISPATCHING")
    /\ Goto(t, "start_find")

StartFind(t) ==
    /\ At(t, "start_find")
    /\ \E found \in SUBSET {d \in Drivers : avail[d] = "ONLINE"} :
          task' = [task EXCEPT ![t].set = found,
                               ![t].pc = IF found = {} THEN "resolve" ELSE "start_offer"]
    /\ OnlyTask

\* createMany.  A delivery is dispatched once, so no candidate has an offer.
StartOffer(t) ==
    LET r == task[t].r
    IN  /\ At(t, "start_offer")
        /\ SetOffers(r, [d \in Drivers |-> IF d \in task[t].set THEN "PENDING" ELSE offer[r][d]])
        /\ task' = [task EXCEPT ![t].pc = "start_arm", ![t].set = {}]

\* Mutant of StartArm: the timer is not armed.
StartArmNot(t) ==
    /\ At(t, "start_arm")
    /\ job' = JobDone(task[t].r)
    /\ Return(t)
    /\ UNCHANGED <<rowVars, offer, avail, timer, billVars>>

\* The offers are emitted and the timer armed; the job is done.
StartArm(t) ==
    /\ At(t, "start_arm")
    /\ timer' = [timer EXCEPT ![task[t].r] = TRUE]
    /\ job' = JobDone(task[t].r)
    /\ Return(t)
    /\ UNCHANGED <<rowVars, offer, avail, billVars>>

\* expireRoundIfUnresolved, when the timer fires.
TimerFires(t, r) ==
    /\ timer[r]
    /\ timer' = [timer EXCEPT ![r] = FALSE]
    /\ Call(t, "round_read", r, None)
    /\ UNCHANGED <<rowVars, offer, avail, job, billVars>>

RoundRead(t) ==
    /\ At(t, "round_read")
    /\ IF status[task[t].r] = "DISPATCHING" THEN Goto(t, "expire") ELSE Return(t)
    /\ OnlyTask

ExpireRound(t) ==
    /\ At(t, "expire")
    /\ SetOffers(task[t].r, Expired(task[t].r, {}))
    /\ Goto(t, "resolve")

Resolve(t) ==
    /\ At(t, "resolve")
    /\ status' = [status EXCEPT ![task[t].r] = IF @ \in {"REQUESTED", "DISPATCHING"}
                                              THEN "NO_DRIVERS_FOUND" ELSE @]
    /\ job' = JobDone(task[t].r)
    /\ Return(t)
    /\ UNCHANGED <<driver, method, fare, proof, linked, offer, avail, timer, billVars>>

-----------------------------------------------------------------------------
(* acceptOffer and declineOffer.                                           *)

AcceptRead(t, r, d) ==
    /\ offer[r][d] = "PENDING"
    /\ Call(t, "accept_claim", r, d)
    /\ OnlyTask

\* Mutant of Claimable: the claim is a plain update.
ClaimableAlways(r) == TRUE

\* UPDATE ... WHERE status = DISPATCHING AND driverId IS NULL.
Claimable(r) == status[r] = "DISPATCHING" /\ driver[r] = None

AcceptClaim(t) ==
    LET r == task[t].r
    IN  /\ At(t, "accept_claim")
        /\ IF Claimable(r)
           THEN /\ status' = [status EXCEPT ![r] = "ACCEPTED"]
                /\ driver' = [driver EXCEPT ![r] = task[t].d]
                /\ Goto(t, "accept_won")
           ELSE Goto(t, "accept_lost") /\ UNCHANGED <<status, driver>>
        /\ UNCHANGED <<method, fare, proof, linked, offer, avail, waits, billVars>>

AcceptLost(t) ==
    /\ At(t, "accept_lost")
    /\ SetOffers(task[t].r, [offer[task[t].r] EXCEPT ![task[t].d] = "EXPIRED"])
    /\ Return(t)

AcceptWon(t) ==
    /\ At(t, "accept_won")
    /\ SetOffers(task[t].r, [offer[task[t].r] EXCEPT ![task[t].d] = "ACCEPTED"])
    /\ Goto(t, "accept_others")

AcceptOthers(t) ==
    /\ At(t, "accept_others")
    /\ SetOffers(task[t].r, Expired(task[t].r, {task[t].d}))
    /\ Goto(t, "accept_avail")

AcceptAvail(t) ==
    /\ At(t, "accept_avail")
    /\ SetAvail(task[t].d, "ON_TRIP")
    /\ Return(t)

DeclineRead(t, r, d) ==
    /\ offer[r][d] = "PENDING"
    /\ Call(t, "decline_write", r, d)
    /\ OnlyTask

DeclineWrite(t) ==
    /\ At(t, "decline_write")
    /\ SetOffers(task[t].r, [offer[task[t].r] EXCEPT ![task[t].d] = "DECLINED"])
    /\ Goto(t, "decline_read")

\* resolveNoDriversIfAllResolved.
DeclineCheck(t) ==
    /\ At(t, "decline_read")
    /\ IF status[task[t].r] = "DISPATCHING" THEN Goto(t, "decline_count") ELSE Return(t)
    /\ OnlyTask

DeclineCount(t) ==
    /\ At(t, "decline_count")
    /\ IF \E d \in Drivers : offer[task[t].r][d] = "PENDING" THEN Return(t) ELSE Goto(t, "resolve")
    /\ OnlyTask

-----------------------------------------------------------------------------
(* cancelDelivery, by the sender or the driver.                            *)

\* What the cancellation does first, by what it read: charge the sender,
\* take the job off the queue, close the offers, or free the driver.
FirstStep(r, by) ==
    CASE status[r] = "ACCEPTED" /\ by = "sender" /\ driver[r] # None -> "cancel_fee"
      [] status[r] = "SCHEDULED"   -> "cancel_job"
      [] status[r] = "DISPATCHING" -> "cancel_void"
      [] OTHER                     -> "cancel_avail"

CancelRead(t, r, by) ==
    /\ status[r] \in Cancellable
    /\ by = "driver" => driver[r] # None
    /\ Call(t, FirstStep(r, by), r, driver[r])
    /\ OnlyTask

\* payForDelivery, once per reference.
CancelFee(t) ==
    /\ At(t, "cancel_fee")
    /\ fee' = [fee EXCEPT ![task[t].r] = IF @ = None THEN task[t].d ELSE @]
    /\ Goto(t, "cancel_avail")
    /\ UNCHANGED <<rowVars, offer, avail, waits, billed, invoice, settled, refunded>>

\* The sender's wallet does not cover the fee: the call throws.
CancelUnfunded(t) ==
    /\ At(t, "cancel_fee")
    /\ fee[task[t].r] = None
    /\ Return(t)
    /\ OnlyTask

\* A job a worker has taken is locked: its removal fails and is ignored.
CancelJob(t) ==
    /\ At(t, "cancel_job")
    /\ job' = [job EXCEPT ![task[t].r] = IF @ = "waiting" THEN "none" ELSE @]
    /\ Goto(t, "cancel_avail")
    /\ UNCHANGED <<rowVars, offer, avail, timer, billVars>>

\* voidPendingOffers.
CancelVoid(t) ==
    /\ At(t, "cancel_void")
    /\ SetOffers(task[t].r, Expired(task[t].r, {}))
    /\ Goto(t, "cancel_avail")

CancelAvail(t) ==
    /\ At(t, "cancel_avail")
    /\ IF task[t].d = None THEN OnlyTask ELSE SetAvail(task[t].d, "ONLINE")
    /\ Goto(t, "cancel_write")

CancelWrite(t) ==
    /\ At(t, "cancel_write")
    /\ SetStatus(task[t].r, "CANCELLED")
    /\ Return(t)

-----------------------------------------------------------------------------
(* assignDriver, the administrator's override.                             *)

AssignRead(t, r, d) ==
    /\ Admin
    /\ status[r] \in Assignable
    /\ Call(t, IF status[r] = "DISPATCHING" THEN "assign_void" ELSE "assign_avail", r, d)
    /\ OnlyTask

AssignVoid(t) ==
    /\ At(t, "assign_void")
    /\ SetOffers(task[t].r, Expired(task[t].r, {}))
    /\ Goto(t, "assign_avail")

AssignAvail(t) ==
    /\ At(t, "assign_avail")
    /\ SetAvail(task[t].d, "ON_TRIP")
    /\ Goto(t, "assign_write")

AssignWrite(t) ==
    LET r == task[t].r
    IN  /\ At(t, "assign_write")
        /\ status' = [status EXCEPT ![r] = "ACCEPTED"]
        /\ driver' = [driver EXCEPT ![r] = task[t].d]
        /\ Return(t)
        /\ UNCHANGED <<method, fare, proof, linked, offer, avail, waits, billVars>>

-----------------------------------------------------------------------------
(* The trip: confirmPickup, submitProofOfDelivery, completeDelivery.       *)

PickupRead(t, r, d) ==
    /\ driver[r] = d
    /\ status[r] = "ACCEPTED"
    /\ Call(t, "pickup_write", r, d)
    /\ OnlyTask

PickupWrite(t) ==
    /\ At(t, "pickup_write")
    /\ SetStatus(task[t].r, "PICKED_UP")
    /\ Return(t)

\* The receiver's code is compared, or a file uploaded, in between.
ProofRead(t, r, d) ==
    /\ driver[r] = d
    /\ status[r] = "PICKED_UP"
    /\ Call(t, "proof_write", r, d)
    /\ OnlyTask

ProofWrite(t) ==
    /\ At(t, "proof_write")
    /\ proof' = [proof EXCEPT ![task[t].r] = TRUE]
    /\ Return(t)
    /\ UNCHANGED <<status, driver, method, fare, linked, offer, avail, waits, billVars>>

\* Mutant of CompleteRead: no proof is asked for.
CompleteReadUnproven(t, r, d) ==
    /\ driver[r] = d
    /\ status[r] = "PICKED_UP"
    /\ Begin(t, [Idle EXCEPT !.pc = "bill", !.r = r, !.d = d, !.q = fare[r]])
    /\ OnlyTask

CompleteRead(t, r, d) ==
    /\ driver[r] = d
    /\ status[r] = "PICKED_UP"
    /\ proof[r]
    /\ Begin(t, [Idle EXCEPT !.pc = "bill", !.r = r, !.d = d, !.q = fare[r]])
    /\ OnlyTask

\* chargeBusinessForDelivery, payForDelivery or recordCashDeliveryCommission,
\* once per reference.
Bill(t) ==
    LET r == task[t].r
    IN  /\ At(t, "bill")
        /\ billed' = [billed EXCEPT ![r] = IF @ = NoBill
                                           THEN [amount |-> task[t].q, driver |-> task[t].d]
                                           ELSE @]
        /\ Goto(t, IF method[r] = "INVOICE" THEN "issue" ELSE "complete_write")
        /\ UNCHANGED <<rowVars, offer, avail, waits, fee, invoice, settled, refunded>>

\* The sender's wallet does not cover the fare: the call throws.
BillUnfunded(t) ==
    /\ At(t, "bill")
    /\ method[task[t].r] = "WALLET"
    /\ billed[task[t].r] = NoBill
    /\ Return(t)
    /\ OnlyTask

\* Mutant of IssueInvoice: the invoice is upserted.
IssueInvoiceAgain(t) ==
    /\ At(t, "issue")
    /\ invoice' = [invoice EXCEPT ![task[t].r] = [amount |-> task[t].q, paid |-> FALSE]]
    /\ Goto(t, "complete_write")
    /\ UNCHANGED <<rowVars, offer, avail, waits, billed, fee, settled, refunded>>

\* invoice.create throws when the delivery has an invoice: deliveryId is unique.
IssueInvoice(t) ==
    LET r == task[t].r
    IN  /\ At(t, "issue")
        /\ IF invoice[r] = NoInvoice
           THEN /\ invoice' = [invoice EXCEPT ![r].amount = task[t].q]
                /\ Goto(t, "complete_write")
           ELSE Return(t) /\ UNCHANGED invoice
        /\ UNCHANGED <<rowVars, offer, avail, waits, billed, fee, settled, refunded>>

CompleteWrite(t) ==
    LET r == task[t].r
    IN  /\ At(t, "complete_write")
        /\ status' = [status EXCEPT ![r] = "COMPLETED"]
        /\ linked' = [linked EXCEPT ![r] = @ \/ method[r] = "WALLET"]
        /\ Goto(t, "complete_avail")
        /\ UNCHANGED <<driver, method, fare, proof, offer, avail, waits, billVars>>

CompleteAvail(t) ==
    /\ At(t, "complete_avail")
    /\ SetAvail(task[t].d, "ONLINE")
    /\ Return(t)

-----------------------------------------------------------------------------
(* payInvoice, and the refund of resolveDispute.                           *)

\* The invoice, then the delivery for its driver and its tax.
PayRead(t, r) ==
    /\ invoice[r] # NoInvoice
    /\ ~ invoice[r].paid
    /\ driver[r] # None
    /\ Begin(t, [Idle EXCEPT !.pc = "pay", !.r = r, !.d = driver[r], !.q = fare[r]])
    /\ OnlyTask

Pay(t) ==
    LET r == task[t].r
    IN  /\ At(t, "pay")
        /\ settled' = [settled EXCEPT ![r] =
                         IF @ = NoPayment
                         THEN [amount |-> invoice[r].amount, tax |-> task[t].q, driver |-> task[t].d]
                         ELSE @]
        /\ Goto(t, "mark_paid")
        /\ UNCHANGED <<rowVars, offer, avail, waits, billed, fee, invoice, refunded>>

\* The business's wallet does not cover the invoice.
PayUnfunded(t) ==
    /\ At(t, "pay")
    /\ settled[task[t].r] = NoPayment
    /\ Return(t)
    /\ OnlyTask

MarkPaid(t) ==
    /\ At(t, "mark_paid")
    /\ invoice' = [invoice EXCEPT ![task[t].r].paid = TRUE]
    /\ Return(t)
    /\ UNCHANGED <<rowVars, offer, avail, waits, billed, fee, settled, refunded>>

\* One transaction of the database, once per transaction refunded.
Refund(r) ==
    /\ linked[r]
    /\ ~ refunded[r]
    /\ refunded' = [refunded EXCEPT ![r] = TRUE]
    /\ UNCHANGED <<rowVars, offer, avail, waits, billed, fee, invoice, settled, task>>

-----------------------------------------------------------------------------
(* Faults, the whole.                                                      *)

ForJob == {"release", "start_read", "start_write", "start_find", "start_offer", "start_arm", "resolve"}

\* A query fails: the call throws where it is, and writes nothing more.  A
\* job that throws has failed, and is not tried again.
Throw(t) ==
    /\ Faults
    /\ task[t] # Idle
    /\ job' = IF task[t].pc \in ForJob THEN JobDone(task[t].r) ELSE job
    /\ Return(t)
    /\ UNCHANGED <<rowVars, offer, avail, timer, billVars>>

\* Calls and timers are lost.  A job that was active has stalled, and is run
\* again, or has failed when it stalled too often.
Restart ==
    /\ Faults
    /\ (\E t \in Tasks : task[t] # Idle) \/ (\E r \in Deliveries : timer[r])
    /\ task' = [t \in Tasks |-> Idle]
    /\ timer' = [r \in Deliveries |-> FALSE]
    /\ \E s \in {"waiting", "none"} :
          job' = [r \in Deliveries |-> IF job[r] = "active" THEN s ELSE job[r]]
    /\ UNCHANGED <<rowVars, offer, avail, billVars>>

Begins(t) ==
    \E r \in Deliveries :
        \/ \E q \in Fares :
              \/ \E s \in {"SCHEDULED", "REQUESTED"} : Book(t, r, q, s)
              \/ EditRead(t, r, q)
        \/ JobFires(t, r) \/ TimerFires(t, r)
        \/ \E by \in {"sender", "driver"} : CancelRead(t, r, by)
        \/ PayRead(t, r)
        \/ \E d \in Drivers :
              \/ AcceptRead(t, r, d)   \/ DeclineRead(t, r, d)
              \/ AssignRead(t, r, d)   \/ PickupRead(t, r, d)
              \/ ProofRead(t, r, d)    \/ CompleteRead(t, r, d)

Continues(t) ==
    \/ BookWrite(t)      \/ Enqueue(t)        \/ Release(t)       \/ EditWrite(t)
    \/ StartRead(t)      \/ StartWrite(t)     \/ StartFind(t)     \/ StartOffer(t)     \/ StartArm(t)
    \/ RoundRead(t)      \/ ExpireRound(t)    \/ Resolve(t)
    \/ AcceptClaim(t)    \/ AcceptLost(t)     \/ AcceptWon(t)     \/ AcceptOthers(t)
    \/ AcceptAvail(t)    \/ DeclineWrite(t)   \/ DeclineCheck(t)  \/ DeclineCount(t)
    \/ CancelFee(t)      \/ CancelUnfunded(t) \/ CancelJob(t)     \/ CancelVoid(t)
    \/ CancelAvail(t)    \/ CancelWrite(t)
    \/ AssignVoid(t)     \/ AssignAvail(t)    \/ AssignWrite(t)
    \/ PickupWrite(t)    \/ ProofWrite(t)     \/ Bill(t)          \/ BillUnfunded(t)
    \/ IssueInvoice(t)   \/ CompleteWrite(t)  \/ CompleteAvail(t)
    \/ Pay(t)            \/ PayUnfunded(t)    \/ MarkPaid(t)

Next ==
    \/ \E t \in Tasks : Begins(t) \/ Continues(t) \/ Throw(t)
    \/ \E r \in Deliveries : Refund(r)
    \/ Restart

Spec == Init /\ [][Next]_vars

\* The event loop runs every continuation and the runtime fires every timer and
\* the queue delivers every job: strongly fair, since the slots for calls, a
\* bound of the model, may be taken now and then.  Nobody has to call anything.
FairSpec ==
    /\ Spec
    /\ \A t \in Tasks : WF_vars(Continues(t))
    /\ \A r \in Deliveries : SF_vars(\E t \in Tasks : JobFires(t, r))
                             /\ SF_vars(\E t \in Tasks : TimerFires(t, r))

-----------------------------------------------------------------------------
(* Properties.                                                             *)

Pcs == ForJob \cup {"idle", "book_write", "enqueue", "edit_write", "round_read", "expire",
        "accept_claim", "accept_lost", "accept_won", "accept_others", "accept_avail",
        "decline_write", "decline_read", "decline_count", "cancel_fee", "cancel_job",
        "cancel_void", "cancel_avail", "cancel_write", "assign_void", "assign_avail",
        "assign_write", "pickup_write", "proof_write", "bill", "issue", "complete_write",
        "complete_avail", "pay", "mark_paid"}

\* Every row, posting, job and call in progress has its type.
DeliveryTypeOK ==
    /\ status \in [Deliveries -> Statuses \cup {"NONE"}]
    /\ driver \in [Deliveries -> Drivers \cup {None}]
    /\ method \in [Deliveries -> Methods]
    /\ fare \in [Deliveries -> Fares \cup {0}]
    /\ proof \in [Deliveries -> BOOLEAN]
    /\ linked \in [Deliveries -> BOOLEAN]
    /\ offer \in [Deliveries -> [Drivers -> {"NONE", "PENDING", "ACCEPTED", "DECLINED", "EXPIRED"}]]
    /\ avail \in [Drivers -> {"OFFLINE", "ONLINE", "ON_TRIP"}]
    /\ job \in [Deliveries -> {"none", "waiting", "active"}]
    /\ timer \in [Deliveries -> BOOLEAN]
    /\ billed \in [Deliveries -> [amount : Fares, driver : Drivers] \cup {NoBill}]
    /\ fee \in [Deliveries -> Drivers \cup {None}]
    /\ invoice \in [Deliveries -> [amount : Fares, paid : BOOLEAN] \cup {NoInvoice}]
    /\ settled \in [Deliveries -> [amount : Fares, tax : Fares, driver : Drivers] \cup {NoPayment}]
    /\ refunded \in [Deliveries -> BOOLEAN]
    /\ task \in [Tasks -> [pc : Pcs, r : Deliveries \cup {None}, d : Drivers \cup {None},
                           set : SUBSET Drivers, seen : Statuses \cup {"NONE"},
                           q : Fares \cup {0}]]

\* A COMPLETED delivery was delivered and billed, and a business's has its
\* invoice: the proof is read, the posting made and the invoice created in
\* statements apart from the status, and any of them may throw in between
\* and be tried again (completeDelivery).
CompletedIsBilled ==
    \A r \in Deliveries : status[r] = "COMPLETED" =>
        /\ proof[r]
        /\ billed[r] # NoBill
        /\ method[r] = "INVOICE" => invoice[r] # NoInvoice
        /\ method[r] = "WALLET" => linked[r]

\* A delivery is dispatched once: when offers are created no candidate has
\* one, or createMany would throw with the timer unarmed and the delivery
\* would stay DISPATCHING.  A job run again after a stall, a cancellation and
\* an administrator's assignment do not start a second round.
RoundIsFresh ==
    \A t \in Tasks : At(t, "start_offer") =>
        \A d \in task[t].set : offer[task[t].r][d] = "NONE"

\* The bill of a delivery goes through the stages of DeliveryBill.
Stage(r) ==
    IF refunded[r] THEN "refunded"
    ELSE IF invoice[r].paid THEN "closed"
    ELSE IF settled[r] # NoPayment THEN "settled"
    ELSE IF invoice[r] # NoInvoice THEN "invoiced"
    ELSE IF billed[r] # NoBill THEN method[r]
    ELSE "open"

Abstract == INSTANCE DeliveryBill WITH
    stage  <- [r \in Deliveries |-> Stage(r)],
    charge <- [r \in Deliveries |-> billed[r].amount],
    due    <- [r \in Deliveries |-> invoice[r].amount],
    paid   <- [r \in Deliveries |-> settled[r].amount],
    payee  <- [r \in Deliveries |-> IF method[r] = "INVOICE" THEN settled[r].driver
                                    ELSE billed[r].driver]
BillSpec == Abstract!Spec

\* Without an administrator, a delivery is awarded once and for good, and it
\* is charged with the driver it was awarded to (RideAward).
Award == INSTANCE RideAward WITH
    Rides <- Deliveries, winner <- driver,
    fare  <- [r \in Deliveries |-> billed[r].driver]
AwardSpec == Award!Spec

\* A delivery booked for later is released, one released or booked for now is
\* searched, and every search ends: with a driver, without, or cancelled.
SearchEnds ==
    \A r \in Deliveries :
        status[r] \in {"SCHEDULED", "REQUESTED", "DISPATCHING"}
            ~> status[r] \notin {"SCHEDULED", "REQUESTED", "DISPATCHING"}

\* Doc: schema.prisma:1348-1351 of an invoice's amounts: "captured here (not
\* re-derived from `delivery` at payment time) so payment logic doesn't depend
\* on the delivery row still reflecting the same figures later".
PaidAsInvoiced ==
    \A r \in Deliveries : settled[r] # NoPayment => settled[r].tax = invoice[r].amount

\* Doc: wallet.service.ts:321-322 of payInvoice: "clearing and the payable
\* both return to exactly where they started once paid".
PaidInvoiceClears ==
    \A r \in Deliveries : settled[r] # NoPayment => settled[r].amount = billed[r].amount

\* Doc: logistics.service.ts:331: "Stops can only be edited before a driver
\* has accepted the delivery".
FareFixedAtClaim ==
    [][\A r \in Deliveries : status[r] \in {"ACCEPTED", "PICKED_UP", "COMPLETED"}
                                => fare'[r] = fare[r]]_vars
=============================================================================
