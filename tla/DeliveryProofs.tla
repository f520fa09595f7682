--------------------------- MODULE DeliveryProofs ---------------------------
(***************************************************************************)
(* Theorems about Delivery, for any deliveries, drivers, fares and         *)
(* concurrency, with schedules, an administrator, failing calls and        *)
(* restarts.                                                               *)
(*                                                                         *)
(* As in RideDispatchProofs, the properties become inductive with what a   *)
(* call in progress still knows at each of its steps.  What it knows is    *)
(* never undone: a proof stays, a fare stays a fare, a posting or an       *)
(* invoice, once there, stays as it is.                                    *)
(***************************************************************************)
EXTENDS Delivery, TLAPS

TaskRecords == [pc : Pcs, r : Deliveries \cup {None}, d : Drivers \cup {None},
                set : SUBSET Drivers, seen : Statuses \cup {"NONE"}, q : Fares \cup {0}]

\* Calls that carry a driver, calls that carry a fare, calls of a delivery
\* that was booked, calls that complete one, calls that pay an invoice.
DriverPcs == {"accept_claim", "accept_lost", "accept_won", "accept_others", "accept_avail",
              "decline_write", "cancel_fee", "assign_void", "assign_avail", "assign_write",
              "pickup_write", "proof_write", "bill", "issue", "complete_write",
              "complete_avail", "pay", "mark_paid"}
FarePcs   == {"book_write", "edit_write", "bill", "issue", "complete_write", "pay", "mark_paid"}
BookedPcs == {"start_write", "cancel_fee", "cancel_job", "cancel_void", "cancel_avail",
              "cancel_write", "assign_void", "assign_avail", "assign_write", "pickup_write",
              "proof_write", "bill", "issue", "complete_write"}
EndPcs    == {"bill", "issue", "complete_write"}
PayPcs    == {"pay", "mark_paid"}

\* Calls that answer an offer; calls on their way to the offers of a round.
AnswerPcs == {"accept_claim", "accept_lost", "accept_won", "decline_write"}
RoundPcs  == {"book_write", "start_read", "start_write", "start_find", "start_offer"}

Priced(r)   == fare[r] \in Fares
Charged(r)  == billed[r] # NoBill
Invoiced(r) == invoice[r] # NoInvoice
Settled(r)  == settled[r] # NoPayment
Asked(r, d) == offer[r][d] # "NONE"
Fresh(r)    == \A d \in Drivers : ~ Asked(r, d)

\* What a call knows at its next step.
TaskOK(k) ==
    /\ k.pc # "idle" => k.r \in Deliveries
    /\ k.pc \in DriverPcs => k.d \in Drivers
    /\ k.pc \in FarePcs => k.q \in Fares
    /\ k.pc = "book_write" => k.seen \in {"SCHEDULED", "REQUESTED"}
    /\ k.pc \in BookedPcs => Priced(k.r)
    /\ k.pc \in EndPcs => proof[k.r]
    /\ k.pc \in {"issue", "complete_write"} => Charged(k.r)
    /\ k.pc = "issue" => method[k.r] = "INVOICE"
    /\ k.pc = "complete_write" /\ method[k.r] = "INVOICE" => Invoiced(k.r)
    /\ k.pc \in PayPcs => Invoiced(k.r)
    /\ k.pc = "mark_paid" => Settled(k.r)
    /\ k.pc \in AnswerPcs => Asked(k.r, k.d)

TasksOK == \A t \in Tasks : TaskOK(task[t])

\* How the columns and the postings of a delivery go together.
RowOK(r) ==
    /\ status[r] # "NONE" => Priced(r)
    /\ status[r] = "COMPLETED" =>
          /\ proof[r]
          /\ Charged(r)
          /\ method[r] = "INVOICE" => Invoiced(r)
          /\ method[r] = "WALLET" => linked[r]
    /\ Invoiced(r) => method[r] = "INVOICE" /\ Charged(r) /\ Priced(r)
    /\ Settled(r) => Invoiced(r)
    /\ invoice[r].paid => Settled(r)
    /\ linked[r] => method[r] = "WALLET" /\ Charged(r)
    /\ refunded[r] => linked[r]

RowsOK == \A r \in Deliveries : RowOK(r)

\* A delivery is on its way to its round in one call at most, and nobody was
\* asked before that call asks.
RoundsOK ==
    /\ \A r \in Deliveries : status[r] \in {"NONE", "SCHEDULED"} => Fresh(r)
    /\ \A t \in Tasks : task[t].pc \in RoundPcs =>
          /\ Fresh(task[t].r)
          /\ status[task[t].r] # "SCHEDULED"
          /\ task[t].pc # "book_write" => status[task[t].r] # "NONE"
    /\ \A t, u \in Tasks :
          task[t].pc \in RoundPcs /\ task[u].pc \in RoundPcs /\ task[t].r = task[u].r => t = u

Inv == DeliveryTypeOK /\ TasksOK /\ RowsOK /\ RoundsOK

\* What a call relies on is never undone.
Grows ==
    /\ method' = method
    /\ \A r \in Deliveries :
          /\ Priced(r) => Priced(r)'
          /\ proof[r] => proof'[r]
          /\ Charged(r) => Charged(r)'
          /\ Invoiced(r) => Invoiced(r)'
          /\ Settled(r) => Settled(r)'
          /\ \A d \in Drivers : Asked(r, d) => Asked(r, d)'

-----------------------------------------------------------------------------
(* Tasks.                                                                  *)

LEMMA TasksTyped == DeliveryTypeOK => task \in [Tasks -> TaskRecords]
  BY DEF DeliveryTypeOK, TaskRecords

LEMMA IdleOK == Idle \in TaskRecords /\ TaskOK(Idle) /\ Idle.pc = "idle"
  BY DEF Idle, TaskRecords, Pcs, ForJob, TaskOK, DriverPcs, FarePcs, BookedPcs, EndPcs, PayPcs,
         AnswerPcs

LEMMA IdleAfter == TaskOK(Idle)'
  BY DEF Idle, TaskOK, DriverPcs, FarePcs, BookedPcs, EndPcs, PayPcs, AnswerPcs

\* No program counter of a call in progress is the one of an idle slot.
LEMMA BusyPcs ==
    /\ "idle" \notin DriverPcs \cup FarePcs \cup BookedPcs \cup EndPcs \cup PayPcs \cup RoundPcs
    /\ AnswerPcs \subseteq DriverPcs
  BY DEF DriverPcs, FarePcs, BookedPcs, EndPcs, PayPcs, AnswerPcs, RoundPcs

\* What a call knows, it knows after any step.
LEMMA TaskKept ==
    ASSUME Grows, NEW k \in TaskRecords, TaskOK(k)
    PROVE  TaskOK(k)'
  <1>1. CASE k.pc = "idle"
    BY <1>1, BusyPcs DEF TaskOK
  <1>2. CASE k.pc # "idle"
    <2>1. k.r \in Deliveries
      BY <1>2 DEF TaskOK
    <2>2. /\ method'[k.r] = method[k.r]
          /\ Priced(k.r) => Priced(k.r)'
          /\ proof[k.r] => proof'[k.r]
          /\ Charged(k.r) => Charged(k.r)'
          /\ Invoiced(k.r) => Invoiced(k.r)'
          /\ Settled(k.r) => Settled(k.r)'
          /\ \A d \in Drivers : Asked(k.r, d) => Asked(k.r, d)'
      BY <2>1 DEF Grows
    <2>3. k.pc \in AnswerPcs => k.d \in Drivers
      BY BusyPcs DEF TaskOK
    <2> QED
      BY <2>1, <2>2, <2>3 DEF TaskOK
  <1> QED
    BY <1>1, <1>2

\* The calls that take no step know what they knew.
LEMMA OtherTasks ==
    ASSUME DeliveryTypeOK, TasksOK, Grows, NEW t \in Tasks, NEW k \in TaskRecords,
           task' = [task EXCEPT ![t] = k], TaskOK(k)'
    PROVE  task' \in [Tasks -> TaskRecords] /\ TasksOK'
  <1>1. task \in [Tasks -> TaskRecords]
    BY TasksTyped
  <1>2. ASSUME NEW u \in Tasks
        PROVE  task'[u] \in TaskRecords /\ TaskOK(task[u])'
    <2>1. CASE u = t
      BY <2>1, <1>1
    <2>2. CASE u # t
      <3>1. task'[u] = task[u] /\ TaskOK(task[u]) /\ task[u] \in TaskRecords
        BY <2>2, <1>1 DEF TasksOK
      <3>2. PICK i \in TaskRecords : i = task[u]
        BY <3>1
      <3>3. TaskOK(i)'
        BY <3>1, <3>2, TaskKept
      <3> QED
        BY <3>1, <3>2, <3>3
    <2> QED
      BY <2>1, <2>2
  <1> QED
    BY <1>1, <1>2 DEF TasksOK

-----------------------------------------------------------------------------
(* The kinds of steps.                                                     *)

OfferRows == [Drivers -> {"NONE", "PENDING", "ACCEPTED", "DECLINED", "EXPIRED"}]

\* A step of one call that starts no round and asks nobody.
InRound(t, k) ==
    /\ task' = [task EXCEPT ![t] = k]
    /\ k.pc \in RoundPcs =>
          task[t].pc \in RoundPcs /\ k.pc # "book_write" /\ k.r = task[t].r
                                 /\ status'[k.r] # "NONE"
    /\ \A r \in Deliveries :
          /\ status'[r] # status[r] => status'[r] \notin {"NONE", "SCHEDULED"}
          /\ \A d \in Drivers : offer'[r][d] = "NONE" <=> offer[r][d] = "NONE"

LEMMA RoundKept ==
    ASSUME Inv, NEW t \in Tasks, NEW k \in TaskRecords, InRound(t, k)
    PROVE  RoundsOK'
  <1>1. task \in [Tasks -> TaskRecords]
    BY TasksTyped DEF Inv
  <1>2. ASSUME NEW u \in Tasks, task'[u].pc \in RoundPcs
        PROVE  /\ task[u].pc \in RoundPcs /\ task'[u].r = task[u].r /\ task[u].r \in Deliveries
               /\ task'[u].pc # "book_write" => status'[task[u].r] # "NONE"
    <2>0. task[u].pc \in RoundPcs => task[u].r \in Deliveries
      BY BusyPcs DEF Inv, TasksOK, TaskOK
    <2>1. CASE u = t
      BY <1>1, <1>2, <2>0, <2>1 DEF InRound
    <2>2. CASE u # t
      BY <1>1, <1>2, <2>0, <2>2 DEF InRound, Inv, RoundsOK
    <2> QED
      BY <2>1, <2>2
  <1>3. ASSUME NEW r \in Deliveries
        PROVE  /\ Fresh(r) => Fresh(r)'
               /\ status'[r] \in {"NONE", "SCHEDULED"} => status[r] = status'[r]
    BY DEF InRound, Fresh, Asked
  <1>4. ASSUME NEW r \in Deliveries, status'[r] \in {"NONE", "SCHEDULED"}
        PROVE  Fresh(r)'
    BY <1>3, <1>4 DEF Inv, RoundsOK
  <1>5. ASSUME NEW u \in Tasks, task'[u].pc \in RoundPcs
        PROVE  Fresh(task[u].r)' /\ status'[task'[u].r] # "SCHEDULED"
    <2> DEFINE r == task[u].r
    <2>1. r \in Deliveries /\ task'[u].r = r /\ task[u].pc \in RoundPcs
      BY <1>2, <1>5
    <2>2. Fresh(r) /\ status[r] # "SCHEDULED"
      BY <2>1 DEF Inv, RoundsOK
    <2>3. PICK q \in Deliveries : q = r
      BY <2>1
    <2>4. Fresh(q)' /\ status'[q] # "SCHEDULED"
      BY <2>2, <2>3, <1>3
    <2> QED
      BY <2>1, <2>3, <2>4 DEF Fresh, Asked
  <1>6. ASSUME NEW u \in Tasks, NEW v \in Tasks,
               task'[u].pc \in RoundPcs, task'[v].pc \in RoundPcs, task'[u].r = task'[v].r
        PROVE  u = v
    BY <1>2, <1>6 DEF Inv, RoundsOK
  <1> QED
    BY <1>2, <1>4, <1>5, <1>6 DEF RoundsOK

\* Such a step that moreover leaves fares, proofs and postings alone, and makes
\* no delivery COMPLETED and none booked that has no fare.
Plain(t, k) ==
    /\ InRound(t, k)
    /\ UNCHANGED <<method, fare, proof, linked, billVars>>
    /\ status' \in [Deliveries -> Statuses \cup {"NONE"}]
    /\ \A r \in Deliveries :
          status'[r] # status[r] => status'[r] # "COMPLETED" /\ Priced(r)
    /\ driver' \in [Deliveries -> Drivers \cup {None}]
    /\ offer' \in [Deliveries -> OfferRows]
    /\ avail' \in [Drivers -> {"OFFLINE", "ONLINE", "ON_TRIP"}]
    /\ job' \in [Deliveries -> {"none", "waiting", "active"}]
    /\ timer' \in [Deliveries -> BOOLEAN]

LEMMA PlainStep ==
    ASSUME Inv, NEW t \in Tasks, NEW k \in TaskRecords, TaskOK(k), Plain(t, k)
    PROVE  Inv' /\ Grows
  <1>1. Grows
    BY DEF Plain, InRound, billVars, Grows, Priced, Charged, Invoiced, Settled, Asked
  <1>2. TaskOK(k)'
    BY <1>1, TaskKept
  <1>3. task' \in [Tasks -> TaskRecords] /\ TasksOK'
    BY <1>1, <1>2, OtherTasks DEF Inv, Plain, InRound
  <1>4. DeliveryTypeOK'
    BY <1>3 DEF Inv, DeliveryTypeOK, TaskRecords, OfferRows, Plain, billVars
  <1>5. RowsOK'
    BY DEF Inv, RowsOK, RowOK, Plain, billVars, Priced, Charged, Invoiced, Settled
  <1>6. RoundsOK'
    BY RoundKept DEF Plain
  <1> QED
    BY <1>1, <1>3, <1>4, <1>5, <1>6 DEF Inv

\* A step that writes a fare, a proof or a posting.
LEMMA RowStep ==
    ASSUME Inv, NEW t \in Tasks, NEW k \in TaskRecords, InRound(t, k), Grows, TaskOK(k)', RowsOK',
           task' \in [Tasks -> TaskRecords] => DeliveryTypeOK'
    PROVE  Inv' /\ Grows
  <1>1. task' \in [Tasks -> TaskRecords] /\ TasksOK'
    BY OtherTasks DEF Inv, InRound
  <1> QED
    BY <1>1, RoundKept DEF Inv

\* A step of no call.
LEMMA SameTasks ==
    ASSUME Inv, UNCHANGED <<task, status, offer>>, Grows, DeliveryTypeOK', RowsOK'
    PROVE  Inv' /\ Grows
  <1>1. TasksOK'
    <2>1. ASSUME NEW u \in Tasks
          PROVE  TaskOK(task[u])'
      <3>1. task[u] \in TaskRecords /\ TaskOK(task[u]) /\ task'[u] = task[u]
        BY TasksTyped DEF Inv, TasksOK
      <3>2. PICK i \in TaskRecords : i = task[u]
        BY <3>1
      <3>3. TaskOK(i)'
        BY <3>1, <3>2, TaskKept
      <3> QED
        BY <3>1, <3>2, <3>3
    <2> QED
      BY <2>1 DEF TasksOK
  <1>2. RoundsOK'
    BY DEF Inv, RoundsOK, Fresh, Asked
  <1> QED
    BY <1>1, <1>2 DEF Inv

LEMMA ReadStep ==
    ASSUME Inv, NEW t \in Tasks, NEW k \in TaskRecords, TaskOK(k), k.pc \notin RoundPcs,
           task' = [task EXCEPT ![t] = k], OnlyTask
    PROVE  Inv' /\ Grows
  <1>1. Plain(t, k)
    BY DEF Inv, DeliveryTypeOK, OfferRows, Plain, InRound, OnlyTask, rowVars, waits, billVars
  <1> QED
    BY <1>1, PlainStep

LEMMA OffersStep ==
    ASSUME Inv, NEW t \in Tasks, NEW k \in TaskRecords, TaskOK(k), k.pc \notin RoundPcs,
           task' = [task EXCEPT ![t] = k],
           NEW r \in Deliveries, NEW f \in OfferRows, SetOffers(r, f),
           \A d \in Drivers : f[d] = "NONE" <=> offer[r][d] = "NONE"
    PROVE  Inv' /\ Grows
  <1>1. Plain(t, k)
    BY DEF Inv, DeliveryTypeOK, OfferRows, Plain, InRound, SetOffers, rowVars, waits, billVars
  <1> QED
    BY <1>1, PlainStep

LEMMA AvailStep ==
    ASSUME Inv, NEW t \in Tasks, NEW k \in TaskRecords, TaskOK(k), k.pc \notin RoundPcs,
           task' = [task EXCEPT ![t] = k],
           NEW d \in Drivers, NEW a \in {"ONLINE", "ON_TRIP"}, SetAvail(d, a)
    PROVE  Inv' /\ Grows
  <1>1. Plain(t, k)
    BY DEF Inv, DeliveryTypeOK, OfferRows, Plain, InRound, SetAvail, rowVars, waits, billVars
  <1> QED
    BY <1>1, PlainStep

LEMMA StatusStep ==
    ASSUME Inv, NEW t \in Tasks, NEW k \in TaskRecords, TaskOK(k), k.pc \notin RoundPcs,
           task' = [task EXCEPT ![t] = k],
           NEW r \in Deliveries, NEW s \in Statuses \ {"COMPLETED", "SCHEDULED"},
           Priced(r),
           SetStatus(r, s)
    PROVE  Inv' /\ Grows
  <1>1. Plain(t, k)
    BY DEF Inv, DeliveryTypeOK, OfferRows, Plain, InRound, SetStatus, waits, billVars,
           Statuses
  <1> QED
    BY <1>1, PlainStep

\* The queue's jobs and the timers.
LEMMA WaitsStep ==
    ASSUME Inv, NEW t \in Tasks, NEW k \in TaskRecords, TaskOK(k), k.pc \notin RoundPcs,
           task' = [task EXCEPT ![t] = k],
           job' \in [Deliveries -> {"none", "waiting", "active"}],
           timer' \in [Deliveries -> BOOLEAN],
           UNCHANGED <<rowVars, offer, avail, billVars>>
    PROVE  Inv' /\ Grows
  <1>1. Plain(t, k)
    BY DEF Inv, DeliveryTypeOK, OfferRows, Plain, InRound, rowVars, billVars
  <1> QED
    BY <1>1, PlainStep

LEMMA JobDoneOK ==
    ASSUME Inv, NEW r \in Deliveries
    PROVE  JobDone(r) \in [Deliveries -> {"none", "waiting", "active"}]
  BY DEF Inv, DeliveryTypeOK, JobDone

-----------------------------------------------------------------------------
(* What a call carries to its next step.                                   *)

Onward(t, pc) == [task[t] EXCEPT !.pc = pc]

\* What the call at hand knows: its record is typed and it has a delivery.
LEMMA AtOK ==
    ASSUME Inv, NEW t \in Tasks, NEW pc, pc # "idle", At(t, pc)
    PROVE  /\ task[t] \in TaskRecords /\ task[t].pc = pc
           /\ task[t].r \in Deliveries
           /\ TaskOK(task[t])
           /\ RowOK(task[t].r)
  <1>1. task[t] \in TaskRecords /\ TaskOK(task[t]) /\ task[t].pc = pc
    BY TasksTyped DEF Inv, TasksOK, At
  <1>2. task[t].r \in Deliveries
    BY <1>1 DEF TaskOK
  <1> QED
    BY <1>1, <1>2 DEF Inv, RowsOK

LEMMA OnwardOK ==
    ASSUME Inv, NEW t \in Tasks, NEW pc \in Pcs, Goto(t, pc)
    PROVE  /\ task' = [task EXCEPT ![t] = Onward(t, pc)]
           /\ Onward(t, pc) \in TaskRecords
           /\ Onward(t, pc).pc = pc
           /\ Onward(t, pc).r = task[t].r /\ Onward(t, pc).d = task[t].d
           /\ Onward(t, pc).q = task[t].q /\ Onward(t, pc).seen = task[t].seen
           /\ Onward(t, pc).set = task[t].set
  <1>1. task \in [Tasks -> TaskRecords]
    BY TasksTyped DEF Inv
  <1>2. task[t] \in TaskRecords
    BY <1>1
  <1> QED
    BY <1>1, <1>2, ZenonT(60) DEF Goto, Onward, TaskRecords

LEMMA ReturnTask ==
    ASSUME NEW t \in Tasks, Return(t)
    PROVE  task' = [task EXCEPT ![t] = Idle]
  BY DEF Return

LEMMA IdleNotRound == Idle.pc \notin RoundPcs
  BY IdleOK, BusyPcs

LEMMA ReadReturn ==
    ASSUME Inv, NEW t \in Tasks, Return(t), OnlyTask
    PROVE  Inv' /\ Grows
  BY ReturnTask, IdleOK, IdleNotRound, ReadStep

\* A call that begins carries what it was given.
Called(pc, r, d) == [Idle EXCEPT !.pc = pc, !.r = r, !.d = d]

LEMMA CallTask ==
    ASSUME NEW t \in Tasks, NEW pc \in Pcs, NEW r \in Deliveries,
           NEW d \in Drivers \cup {None}, Call(t, pc, r, d)
    PROVE  /\ task' = [task EXCEPT ![t] = Called(pc, r, d)]
           /\ Called(pc, r, d) \in TaskRecords
           /\ Called(pc, r, d).pc = pc
           /\ Called(pc, r, d).r = r
           /\ Called(pc, r, d).d = d
           /\ task[t] = Idle
  BY DEF Call, Begin, Called, Idle, TaskRecords

\* A request that only reads before it goes on.
LEMMA CallStep ==
    ASSUME Inv, NEW t \in Tasks, NEW pc \in Pcs, NEW r \in Deliveries,
           NEW d \in Drivers \cup {None}, Call(t, pc, r, d), OnlyTask,
           pc \in DriverPcs => d \in Drivers,
           pc \in BookedPcs => Priced(r),
           pc \in AnswerPcs => Asked(r, d),
           pc \notin FarePcs, pc \notin RoundPcs
    PROVE  Inv' /\ Grows
  <1> DEFINE k == Called(pc, r, d)
  <1>1. /\ task' = [task EXCEPT ![t] = k]
        /\ k \in TaskRecords
        /\ k.pc = pc /\ k.r = r /\ k.d = d
    BY CallTask
  <1> HIDE DEF k
  <1>2. TaskOK(k)
    BY <1>1 DEF TaskOK, FarePcs, EndPcs, PayPcs
  <1> QED
    BY <1>1, <1>2, ReadStep

\* A call that goes on to a step that asks for nothing new.
LEMMA GotoOK ==
    ASSUME Inv, NEW t \in Tasks, NEW pc \in Pcs, Goto(t, pc), task[t].pc # "idle",
           pc \in DriverPcs => task[t].d \in Drivers,
           pc \in BookedPcs => Priced(task[t].r),
           pc \in AnswerPcs => Asked(task[t].r, task[t].d),
           pc \notin FarePcs
    PROVE  /\ Onward(t, pc) \in TaskRecords
           /\ TaskOK(Onward(t, pc))
           /\ Onward(t, pc).pc = pc
           /\ task' = [task EXCEPT ![t] = Onward(t, pc)]
  <1>1. TaskOK(task[t])
    BY DEF Inv, TasksOK
  <1> QED
    BY <1>1, OnwardOK DEF TaskOK, FarePcs, EndPcs, PayPcs

\* A call that only reads and then goes on.
LEMMA ReadOn ==
    ASSUME Inv, NEW t \in Tasks, NEW pc \in Pcs, Goto(t, pc), OnlyTask, task[t].pc # "idle",
           pc \in DriverPcs => task[t].d \in Drivers,
           pc \in BookedPcs => Priced(task[t].r),
           pc \in AnswerPcs => Asked(task[t].r, task[t].d),
           pc \notin FarePcs, pc \notin RoundPcs
    PROVE  Inv' /\ Grows
  BY GotoOK, ReadStep

-----------------------------------------------------------------------------
(* Booking, scheduling, stops.                                             *)

LEMMA BookStep ==
    ASSUME Inv, NEW t \in Tasks, NEW r \in Deliveries, NEW q \in Fares,
           NEW s \in {"SCHEDULED", "REQUESTED"}, Book(t, r, q, s)
    PROVE  Inv' /\ Grows
  <1> DEFINE k == [Idle EXCEPT !.pc = "book_write", !.r = r, !.q = q, !.seen = s]
  <1>1. task' = [task EXCEPT ![t] = k] /\ OnlyTask /\ status[r] = "NONE"
        /\ \A u \in Tasks : task[u].r # r
    BY DEF Book, Begin
  <1>2. k \in TaskRecords /\ k.pc = "book_write" /\ k.r = r /\ k.q = q /\ k.seen = s
    BY DEF Idle, TaskRecords, Pcs, Statuses
  <1> HIDE DEF k
  <1>3. TaskOK(k)
    BY <1>2 DEF TaskOK, DriverPcs, BookedPcs, EndPcs, PayPcs, AnswerPcs
  <1>4. Grows
    BY <1>1 DEF OnlyTask, rowVars, billVars, Grows, Priced, Charged, Invoiced, Settled, Asked
  <1>5. TaskOK(k)'
    BY <1>2, <1>3, <1>4, TaskKept
  <1>6. task' \in [Tasks -> TaskRecords] /\ TasksOK'
    BY <1>1, <1>2, <1>4, <1>5, OtherTasks DEF Inv
  <1>7. DeliveryTypeOK'
    BY <1>1, <1>6 DEF Inv, DeliveryTypeOK, TaskRecords, OnlyTask, rowVars, waits, billVars
  <1>8. RowsOK'
    BY <1>1 DEF Inv, RowsOK, RowOK, OnlyTask, rowVars, billVars, Priced, Charged, Invoiced, Settled
  <1>9. RoundsOK'
    <2>1. task \in [Tasks -> TaskRecords] /\ status' = status /\ offer' = offer
      BY <1>1, TasksTyped DEF Inv, OnlyTask, rowVars
    <2>2. Fresh(r)
      BY <1>1 DEF Inv, RoundsOK
    <2>3. \A u \in Tasks : task'[u] = IF u = t THEN k ELSE task[u]
      BY <1>1, <2>1
    <2> QED
      BY <1>1, <1>2, <2>1, <2>2, <2>3 DEF Inv, RoundsOK, Fresh, Asked
  <1> QED
    BY <1>4, <1>6, <1>7, <1>8, <1>9 DEF Inv

\* The row is written: its fare is the one computed, and its status is not
\* SCHEDULED while a call starts its round.
LEMMA BookWriteStep ==
    ASSUME Inv, NEW t \in Tasks, BookWrite(t)
    PROVE  Inv' /\ Grows
  <1>0. task[t] \in TaskRecords
    BY AtOK DEF BookWrite
  <1>01. PICK x \in TaskRecords : x = task[t]
    BY <1>0
  <1> DEFINE r == x.r
             pc == IF x.seen = "SCHEDULED" THEN "enqueue" ELSE "start_read"
  <1>1. /\ task[t].pc = "book_write" /\ r \in Deliveries /\ x.q \in Fares
        /\ x.seen \in {"SCHEDULED", "REQUESTED"}
    BY <1>01, AtOK DEF BookWrite, TaskOK, FarePcs
  <1>2. /\ status' = [status EXCEPT ![r] = x.seen]
        /\ fare' = [fare EXCEPT ![r] = x.q]
        /\ Goto(t, pc)
        /\ UNCHANGED <<driver, method, proof, linked, offer, avail, waits, billVars>>
    BY <1>01 DEF BookWrite
  <1>3. pc \in Pcs
    BY DEF Pcs, ForJob
  <1>4. PICK k \in TaskRecords :
            task' = [task EXCEPT ![t] = k] /\ k.pc = pc /\ k.r = r
    BY <1>01, <1>2, <1>3, OnwardOK
  <1>5. Priced(r)'
    BY <1>1, <1>2 DEF Inv, DeliveryTypeOK, Priced
  <1>6. Grows
    <2>1. \A y \in Deliveries : fare'[y] = IF y = r THEN x.q ELSE fare[y]
      BY <1>1, <1>2 DEF Inv, DeliveryTypeOK
    <2> QED
      BY <1>1, <1>2, <2>1 DEF billVars, Grows, Priced, Charged, Invoiced, Settled, Asked
  <1>7. TaskOK(k)'
    BY <1>1, <1>4 DEF TaskOK, DriverPcs, FarePcs, BookedPcs, EndPcs, PayPcs, AnswerPcs
  <1>8. task' \in [Tasks -> TaskRecords] /\ TasksOK'
    BY <1>4, <1>6, <1>7, OtherTasks DEF Inv
  <1>9. DeliveryTypeOK'
    BY <1>1, <1>2, <1>8 DEF Inv, DeliveryTypeOK, TaskRecords, waits, billVars, Statuses
  <1>10. RowsOK'
    <2>1. ASSUME NEW y \in Deliveries
          PROVE  RowOK(y)'
      <3>1. RowOK(y)
        BY DEF Inv, RowsOK
      <3>2. CASE y = r
        BY <1>1, <1>2, <1>5, <3>1, <3>2
           DEF Inv, DeliveryTypeOK, RowOK, billVars, Priced, Charged, Invoiced, Settled
      <3>3. CASE y # r
        BY <1>1, <1>2, <3>1, <3>3
           DEF Inv, DeliveryTypeOK, RowOK, billVars, Priced, Charged, Invoiced, Settled
      <3> QED
        BY <3>2, <3>3
    <2> QED
      BY <2>1 DEF RowsOK
  <1>11. RoundsOK'
    <2>1. task \in [Tasks -> TaskRecords] /\ offer' = offer
      BY <1>2, TasksTyped DEF Inv
    <2>2. /\ \A u \in Tasks : task'[u] = IF u = t THEN k ELSE task[u]
          /\ \A y \in Deliveries : status'[y] = IF y = r THEN x.seen ELSE status[y]
      BY <1>1, <1>2, <1>4, <2>1 DEF Inv, DeliveryTypeOK
    <2>3. /\ Fresh(r)
          /\ \A u \in Tasks : u # t /\ task[u].pc \in RoundPcs => task[u].r # r
      BY <1>01, <1>1 DEF Inv, RoundsOK, RoundPcs
    <2>4. \A u \in Tasks : task[u].pc \in RoundPcs => task[u].r \in Deliveries
      BY BusyPcs DEF Inv, TasksOK, TaskOK
    <2>5. "enqueue" \notin RoundPcs /\ "book_write" \in RoundPcs
      BY DEF RoundPcs
    <2>6. \A y \in Deliveries : status'[y] \in {"NONE", "SCHEDULED"} => Fresh(y)'
      BY <1>1, <2>1, <2>2, <2>3 DEF Inv, RoundsOK, Fresh, Asked
    <2>7. ASSUME NEW u \in Tasks, task'[u].pc \in RoundPcs
          PROVE  /\ Fresh(task[u].r)' /\ status'[task'[u].r] # "SCHEDULED"
                 /\ task'[u].pc # "book_write" => status'[task'[u].r] # "NONE"
      <3>1. CASE u = t
        BY <1>1, <1>4, <2>1, <2>2, <2>3, <2>5, <2>7, <3>1 DEF Fresh, Asked
      <3>2. CASE u # t
        BY <1>1, <2>1, <2>2, <2>3, <2>4, <2>7, <3>2 DEF Inv, RoundsOK, Fresh, Asked
      <3> QED
        BY <3>1, <3>2
    <2>8. ASSUME NEW u \in Tasks, NEW v \in Tasks, task'[u].pc \in RoundPcs,
                 task'[v].pc \in RoundPcs, task'[u].r = task'[v].r
          PROVE  u = v
      BY <1>1, <1>4, <2>2, <2>3, <2>8 DEF Inv, RoundsOK
    <2> QED
      BY <2>6, <2>7, <2>8 DEF RoundsOK
  <1> QED
    BY <1>6, <1>8, <1>9, <1>10, <1>11 DEF Inv

LEMMA EnqueueStep ==
    ASSUME Inv, NEW t \in Tasks, Enqueue(t)
    PROVE  Inv' /\ Grows
  <1>1. Return(t) /\ timer' = timer /\ task[t].r \in Deliveries
        /\ job' = [job EXCEPT ![task[t].r] = "waiting"]
        /\ UNCHANGED <<rowVars, offer, avail, billVars>>
    BY AtOK DEF Enqueue
  <1> QED
    BY <1>1, ReturnTask, IdleOK, IdleNotRound, WaitsStep DEF Inv, DeliveryTypeOK

LEMMA JobFiresStep ==
    ASSUME Inv, NEW t \in Tasks, NEW r \in Deliveries, JobFires(t, r)
    PROVE  Inv' /\ Grows
  <1> DEFINE k == Called("release", r, None)
  <1>1. /\ job' = [job EXCEPT ![r] = "active"] /\ timer' = timer
        /\ UNCHANGED <<rowVars, offer, avail, billVars>>
        /\ Call(t, "release", r, None)
    BY DEF JobFires
  <1>2. "release" \in Pcs
    BY DEF Pcs, ForJob
  <1>3. task' = [task EXCEPT ![t] = k] /\ k \in TaskRecords /\ k.pc = "release" /\ k.r = r
    BY <1>1, <1>2, CallTask
  <1> HIDE DEF k
  <1>4. TaskOK(k) /\ k.pc \notin RoundPcs
    BY <1>3 DEF TaskOK, DriverPcs, FarePcs, BookedPcs, EndPcs, PayPcs, AnswerPcs, RoundPcs
  <1> QED
    BY <1>1, <1>3, <1>4, WaitsStep DEF Inv, DeliveryTypeOK

\* What is released was SCHEDULED: nobody was asked and no call starts a round.
LEMMA ReleaseStep ==
    ASSUME Inv, NEW t \in Tasks, Release(t)
    PROVE  Inv' /\ Grows
  <1> DEFINE r == task[t].r
  <1>1. task[t].pc = "release" /\ r \in Deliveries /\ RowOK(r)
    BY AtOK DEF Release
  <1>2. CASE status[r] # "SCHEDULED"
    <2>1. Return(t) /\ job' = JobDone(r) /\ timer' = timer
          /\ UNCHANGED <<rowVars, offer, avail, billVars>>
      BY <1>2 DEF Release
    <2>2. job' \in [Deliveries -> {"none", "waiting", "active"}]
          /\ timer' \in [Deliveries -> BOOLEAN]
      BY <1>1, <2>1, JobDoneOK DEF Inv, DeliveryTypeOK
    <2> QED
      BY <2>1, <2>2, ReturnTask, IdleOK, IdleNotRound, WaitsStep
  <1>3. CASE status[r] = "SCHEDULED"
    <2>1. SetStatus(r, "REQUESTED") /\ Goto(t, "start_read")
      BY <1>3 DEF Release
    <2>2. "start_read" \in Pcs
      BY DEF Pcs, ForJob
    <2>3. PICK k \in TaskRecords :
              task' = [task EXCEPT ![t] = k] /\ k.pc = "start_read" /\ k.r = r
      BY <2>1, <2>2, OnwardOK
    <2>4. TaskOK(k)
      BY <1>1, <2>3 DEF TaskOK, DriverPcs, FarePcs, BookedPcs, EndPcs, PayPcs, AnswerPcs
    <2>5. Grows
      BY <2>1 DEF SetStatus, billVars, Grows, Priced, Charged, Invoiced, Settled, Asked
    <2>6. TaskOK(k)'
      BY <2>3, <2>4, <2>5, TaskKept
    <2>7. task' \in [Tasks -> TaskRecords] /\ TasksOK'
      BY <2>3, <2>5, <2>6, OtherTasks DEF Inv
    <2>8. DeliveryTypeOK'
      BY <1>1, <2>1, <2>7 DEF Inv, DeliveryTypeOK, TaskRecords, SetStatus, waits, billVars, Statuses
    <2>9. RowsOK'
      BY <1>1, <1>3, <2>1
         DEF Inv, DeliveryTypeOK, RowsOK, RowOK, SetStatus, billVars, Priced, Charged, Invoiced, Settled
    <2>10. RoundsOK'
      <3>1. task \in [Tasks -> TaskRecords] /\ offer' = offer
        BY <2>1, TasksTyped DEF Inv, SetStatus
      <3>2. /\ \A u \in Tasks : task'[u] = IF u = t THEN k ELSE task[u]
            /\ \A x \in Deliveries : status'[x] = IF x = r THEN "REQUESTED" ELSE status[x]
        BY <1>1, <2>1, <2>3, <3>1 DEF Inv, DeliveryTypeOK, SetStatus
      <3>3. Fresh(r) /\ \A u \in Tasks : task[u].pc \in RoundPcs => task[u].r # r
        BY <1>1, <1>3 DEF Inv, RoundsOK
      <3>4. \A u \in Tasks : task[u].pc \in RoundPcs => task[u].r \in Deliveries
        BY BusyPcs DEF Inv, TasksOK, TaskOK
      <3>5. \A x \in Deliveries : status'[x] \in {"NONE", "SCHEDULED"} => Fresh(x)'
        BY <3>1, <3>2 DEF Inv, RoundsOK, Fresh, Asked
      <3>6. ASSUME NEW u \in Tasks, task'[u].pc \in RoundPcs
            PROVE  /\ Fresh(task[u].r)' /\ status'[task'[u].r] # "SCHEDULED"
                   /\ task'[u].pc # "book_write" => status'[task'[u].r] # "NONE"
        <4>1. CASE u = t
          BY <1>1, <2>3, <3>1, <3>2, <3>3, <4>1 DEF Fresh, Asked
        <4>2. CASE u # t
          BY <3>1, <3>2, <3>3, <3>4, <3>6, <4>2 DEF Inv, RoundsOK, Fresh, Asked
        <4> QED
          BY <4>1, <4>2
      <3>7. ASSUME NEW u \in Tasks, NEW v \in Tasks, task'[u].pc \in RoundPcs,
                   task'[v].pc \in RoundPcs, task'[u].r = task'[v].r
            PROVE  u = v
        BY <2>3, <3>2, <3>3, <3>7 DEF Inv, RoundsOK
      <3> QED
        BY <3>5, <3>6, <3>7 DEF RoundsOK
    <2> QED
      BY <2>5, <2>7, <2>8, <2>9, <2>10 DEF Inv
  <1> QED
    BY <1>2, <1>3

LEMMA EditReadStep ==
    ASSUME Inv, NEW t \in Tasks, NEW r \in Deliveries, NEW q \in Fares, EditRead(t, r, q)
    PROVE  Inv' /\ Grows
  <1> DEFINE k == [Idle EXCEPT !.pc = "edit_write", !.r = r, !.q = q]
  <1>1. task' = [task EXCEPT ![t] = k] /\ OnlyTask
    BY DEF EditRead, Begin
  <1>2. k \in TaskRecords /\ k.pc = "edit_write" /\ k.r = r /\ k.q = q
    BY DEF Idle, TaskRecords, Pcs
  <1> HIDE DEF k
  <1>3. TaskOK(k) /\ k.pc \notin RoundPcs
    BY <1>2 DEF TaskOK, DriverPcs, BookedPcs, EndPcs, PayPcs, AnswerPcs, RoundPcs
  <1> QED
    BY <1>1, <1>2, <1>3, ReadStep

LEMMA EditWriteStep ==
    ASSUME Inv, NEW t \in Tasks, EditWrite(t)
    PROVE  Inv' /\ Grows
  <1>1. PICK r \in Deliveries, q \in Fares : r = task[t].r /\ q = task[t].q
    BY AtOK DEF EditWrite, TaskOK, FarePcs
  <1>2. /\ fare' = [fare EXCEPT ![r] = q] /\ task' = [task EXCEPT ![t] = Idle]
        /\ UNCHANGED <<status, driver, method, proof, linked, offer, avail, waits, billVars>>
    BY <1>1 DEF EditWrite, Return
  <1>3. \A x \in Deliveries : fare'[x] = IF x = r THEN q ELSE fare[x]
    BY <1>2 DEF Inv, DeliveryTypeOK
  <1>4. Grows
    BY <1>2, <1>3 DEF billVars, Grows, Priced, Charged, Invoiced, Settled, Asked
  <1>5. RowsOK'
    BY <1>2, <1>3 DEF Inv, RowsOK, RowOK, billVars, Priced, Charged, Invoiced, Settled
  <1>6. InRound(t, Idle)
    BY <1>2, IdleNotRound DEF InRound
  <1>7. task' \in [Tasks -> TaskRecords] => DeliveryTypeOK'
    BY <1>2 DEF Inv, DeliveryTypeOK, TaskRecords, waits, billVars
  <1> QED
    BY <1>4, <1>5, <1>6, <1>7, IdleOK, IdleAfter, RowStep

-----------------------------------------------------------------------------
(* The round.                                                              *)

\* A call that returns and lets its job end.
LEMMA JobReturn ==
    ASSUME Inv, NEW t \in Tasks, NEW r \in Deliveries, Return(t), job' = JobDone(r),
           timer' \in [Deliveries -> BOOLEAN],
           UNCHANGED <<rowVars, offer, avail, billVars>>
    PROVE  Inv' /\ Grows
  BY JobDoneOK, ReturnTask, IdleOK, IdleNotRound, WaitsStep

LEMMA StartReadStep ==
    ASSUME Inv, NEW t \in Tasks, StartRead(t)
    PROVE  Inv' /\ Grows
  <1> DEFINE r == task[t].r
             k == Onward(t, "start_write")
  <1>1. task[t].pc = "start_read" /\ r \in Deliveries /\ TaskOK(task[t]) /\ RowOK(r)
    BY AtOK DEF StartRead
  <1>2. UNCHANGED <<rowVars, offer, avail, timer, billVars>>
    BY DEF StartRead
  <1>3. CASE status[r] = "REQUESTED"
    <2>1. Goto(t, "start_write") /\ job' = job
      BY <1>3 DEF StartRead
    <2>2. /\ task' = [task EXCEPT ![t] = k] /\ k \in TaskRecords
          /\ k.pc = "start_write" /\ k.r = r
      BY <2>1, OnwardOK DEF Pcs, ForJob
    <2> HIDE DEF k
    <2>3. TaskOK(k)
      BY <1>1, <1>3, <2>2 DEF TaskOK, RowOK, DriverPcs, FarePcs, EndPcs, PayPcs, AnswerPcs
    <2>4. Plain(t, k)
      BY <1>1, <1>2, <1>3, <2>1, <2>2
         DEF Inv, DeliveryTypeOK, OfferRows, Plain, InRound, rowVars, RoundPcs
    <2> QED
      BY <2>2, <2>3, <2>4, PlainStep
  <1>4. CASE status[r] # "REQUESTED"
    <2>1. Return(t) /\ job' = JobDone(r) /\ timer' \in [Deliveries -> BOOLEAN]
      BY <1>2, <1>4 DEF StartRead, Inv, DeliveryTypeOK
    <2> QED
      BY <1>1, <1>2, <2>1, JobReturn
  <1> QED
    BY <1>3, <1>4

LEMMA StartWriteStep ==
    ASSUME Inv, NEW t \in Tasks, StartWrite(t)
    PROVE  Inv' /\ Grows
  <1> DEFINE r == task[t].r
             k == Onward(t, "start_find")
  <1>1. task[t].pc = "start_write" /\ r \in Deliveries /\ TaskOK(task[t])
    BY AtOK DEF StartWrite
  <1>2. SetStatus(r, "DISPATCHING") /\ Goto(t, "start_find")
    BY DEF StartWrite
  <1>3. task' = [task EXCEPT ![t] = k] /\ k \in TaskRecords /\ k.pc = "start_find" /\ k.r = r
    BY <1>2, OnwardOK DEF Pcs, ForJob
  <1>4. Priced(r)
    BY <1>1 DEF TaskOK, BookedPcs
  <1> HIDE DEF k
  <1>5. TaskOK(k)
    BY <1>1, <1>3 DEF TaskOK, DriverPcs, FarePcs, BookedPcs, EndPcs, PayPcs, AnswerPcs
  <1>6. Plain(t, k)
    BY <1>1, <1>2, <1>3, <1>4
       DEF Inv, DeliveryTypeOK, OfferRows, Plain, InRound, SetStatus, waits, billVars,
           RoundPcs, Statuses
  <1> QED
    BY <1>3, <1>5, <1>6, PlainStep

LEMMA StartFindStep ==
    ASSUME Inv, NEW t \in Tasks, StartFind(t)
    PROVE  Inv' /\ Grows
  <1>1. PICK found \in SUBSET Drivers :
            task' = [task EXCEPT ![t].set = found,
                                 ![t].pc = IF found = {} THEN "resolve" ELSE "start_offer"]
    BY DEF StartFind
  <1> DEFINE pc == IF found = {} THEN "resolve" ELSE "start_offer"
             k == [task[t] EXCEPT !.set = found, !.pc = pc]
  <1>2. /\ task[t] \in TaskRecords /\ task[t].pc = "start_find"
        /\ task[t].r \in Deliveries /\ OnlyTask
    BY AtOK DEF StartFind
  <1>3. pc \in Pcs
    BY DEF Pcs, ForJob
  <1>4. k \in TaskRecords /\ k.pc = pc /\ k.r = task[t].r
    BY <1>2, <1>3 DEF TaskRecords
  <1>5. task' = [task EXCEPT ![t] = k]
    BY <1>1, TasksTyped DEF Inv
  <1>6. status[task[t].r] # "NONE"
    BY <1>2 DEF Inv, RoundsOK, RoundPcs
  <1> HIDE DEF k
  <1>7. TaskOK(k)
    BY <1>2, <1>4 DEF TaskOK, DriverPcs, FarePcs, BookedPcs, EndPcs, PayPcs, AnswerPcs
  <1>8. Plain(t, k)
    BY <1>2, <1>4, <1>5, <1>6
       DEF Inv, DeliveryTypeOK, OfferRows, Plain, InRound, OnlyTask, rowVars, waits, RoundPcs
  <1> QED
    BY <1>4, <1>7, <1>8, PlainStep

\* The offers are made.  The call leaves its way to the round, and no other
\* call was on its way to the same round.
LEMMA StartOfferStep ==
    ASSUME Inv, NEW t \in Tasks, StartOffer(t)
    PROVE  Inv' /\ Grows
  <1>1. PICK r \in Deliveries : r = task[t].r
    BY AtOK DEF StartOffer
  <1> DEFINE f == [d \in Drivers |-> IF d \in task[t].set THEN "PENDING" ELSE offer[r][d]]
  <1>2. /\ task[t] \in TaskRecords /\ task[t].pc = "start_offer"
        /\ SetOffers(r, f)
        /\ task' = [task EXCEPT ![t].pc = "start_arm", ![t].set = {}]
    BY <1>1, AtOK DEF StartOffer
  <1>3. PICK k \in TaskRecords :
            task' = [task EXCEPT ![t] = k] /\ k.pc = "start_arm" /\ k.r = r
    <2> DEFINE k == [task[t] EXCEPT !.pc = "start_arm", !.set = {}]
    <2>1. k \in TaskRecords /\ k.pc = "start_arm" /\ k.r = task[t].r
      BY <1>2 DEF TaskRecords, Pcs, ForJob
    <2>2. task' = [task EXCEPT ![t] = k]
      BY <1>2, TasksTyped DEF Inv
    <2> QED
      BY <1>1, <2>1, <2>2
  <1>4. f \in OfferRows
    BY DEF Inv, DeliveryTypeOK, OfferRows
  <1>5. \A x \in Deliveries : offer'[x] = IF x = r THEN f ELSE offer[x]
    BY <1>2 DEF SetOffers, Inv, DeliveryTypeOK
  <1>6. UNCHANGED <<rowVars, avail, waits, billVars>>
    BY <1>2 DEF SetOffers
  <1>7. Grows
    BY ZenonT(60), <1>5, <1>6 DEF rowVars, billVars, Grows, Priced, Charged, Invoiced, Settled, Asked
  <1>8. TaskOK(k)'
    BY <1>3 DEF TaskOK, DriverPcs, FarePcs, BookedPcs, EndPcs, PayPcs, AnswerPcs
  <1>9. task' \in [Tasks -> TaskRecords] /\ TasksOK'
    BY <1>3, <1>7, <1>8, OtherTasks DEF Inv
  <1>10. offer' \in [Deliveries -> OfferRows]
    BY <1>2, <1>4 DEF SetOffers, Inv, DeliveryTypeOK, OfferRows
  <1>11. DeliveryTypeOK'
    BY <1>6, <1>9, <1>10 DEF Inv, DeliveryTypeOK, TaskRecords, OfferRows, rowVars, waits, billVars
  <1>12. RowsOK'
    BY <1>6 DEF Inv, RowsOK, RowOK, rowVars, billVars, Priced, Charged, Invoiced, Settled
  <1>13. RoundsOK'
    <2>1. \A u \in Tasks : task'[u] = IF u = t THEN k ELSE task[u]
      BY <1>3, TasksTyped DEF Inv
    <2>2. k.pc \notin RoundPcs /\ task[t].pc \in RoundPcs
      BY <1>2, <1>3 DEF RoundPcs
    <2>3. /\ status[r] \notin {"NONE", "SCHEDULED"}
          /\ \A u \in Tasks : u # t /\ task[u].pc \in RoundPcs => task[u].r # r
      BY <1>1, <1>2, <2>2 DEF Inv, RoundsOK
    <2>4. \A u \in Tasks : task[u].pc \in RoundPcs => task[u].r \in Deliveries
      BY BusyPcs DEF Inv, TasksOK, TaskOK
    <2>5. \A x \in Deliveries : x # r => offer'[x] = offer[x]
      BY <1>5
    <2>6. status' = status
      BY <1>6 DEF rowVars
    <2> HIDE DEF f
    <2> QED
      BY <2>1, <2>2, <2>3, <2>4, <2>5, <2>6 DEF Inv, RoundsOK, Fresh, Asked
  <1> QED
    BY <1>7, <1>9, <1>11, <1>12, <1>13 DEF Inv

LEMMA StartArmStep ==
    ASSUME Inv, NEW t \in Tasks, StartArm(t)
    PROVE  Inv' /\ Grows
  <1>1. /\ task[t].r \in Deliveries /\ Return(t) /\ job' = JobDone(task[t].r)
        /\ timer' = [timer EXCEPT ![task[t].r] = TRUE]
        /\ UNCHANGED <<rowVars, offer, avail, billVars>>
    BY AtOK DEF StartArm
  <1>2. timer' \in [Deliveries -> BOOLEAN]
    BY <1>1 DEF Inv, DeliveryTypeOK
  <1> QED
    BY <1>1, <1>2, JobReturn

LEMMA TimerFiresStep ==
    ASSUME Inv, NEW t \in Tasks, NEW r \in Deliveries, TimerFires(t, r)
    PROVE  Inv' /\ Grows
  <1> DEFINE k == Called("round_read", r, None)
  <1>1. /\ timer' = [timer EXCEPT ![r] = FALSE] /\ job' = job
        /\ UNCHANGED <<rowVars, offer, avail, billVars>>
        /\ Call(t, "round_read", r, None)
    BY DEF TimerFires
  <1>2. /\ task' = [task EXCEPT ![t] = k] /\ k \in TaskRecords
        /\ k.pc = "round_read" /\ k.r = r
    BY <1>1, CallTask DEF Pcs
  <1> HIDE DEF k
  <1>3. TaskOK(k) /\ k.pc \notin RoundPcs
    BY <1>2 DEF TaskOK, DriverPcs, FarePcs, BookedPcs, EndPcs, PayPcs, AnswerPcs, RoundPcs
  <1> QED
    BY <1>1, <1>2, <1>3, WaitsStep DEF Inv, DeliveryTypeOK

\* Steps of a call that ask for nothing: their program counters.
LEMMA EasyPcs ==
    \A pc \in {"expire", "resolve", "decline_read", "decline_count"} :
        /\ pc \in Pcs
        /\ pc \notin DriverPcs \cup BookedPcs \cup FarePcs \cup AnswerPcs \cup RoundPcs
  BY DEF Pcs, ForJob, DriverPcs, BookedPcs, FarePcs, AnswerPcs, RoundPcs

LEMMA RoundReadStep ==
    ASSUME Inv, NEW t \in Tasks, RoundRead(t)
    PROVE  Inv' /\ Grows
  <1>1. task[t].pc # "idle" /\ OnlyTask /\ (Goto(t, "expire") \/ Return(t))
    BY DEF RoundRead, At
  <1> QED
    BY <1>1, EasyPcs, ReadOn, ReadReturn

LEMMA ExpiredOK ==
    ASSUME Inv, NEW r \in Deliveries, NEW kept
    PROVE  /\ Expired(r, kept) \in OfferRows
           /\ \A d \in Drivers : Expired(r, kept)[d] = "NONE" <=> offer[r][d] = "NONE"
  BY DEF Inv, DeliveryTypeOK, OfferRows, Expired

\* The offers of a round are closed, but for those kept.
LEMMA CloseStep ==
    ASSUME Inv, NEW t \in Tasks, NEW k \in TaskRecords, TaskOK(k), k.pc \notin RoundPcs,
           task' = [task EXCEPT ![t] = k],
           NEW r \in Deliveries, NEW kept, SetOffers(r, Expired(r, kept))
    PROVE  Inv' /\ Grows
  <1>1. PICK f \in OfferRows :
            f = Expired(r, kept) /\ \A d \in Drivers : f[d] = "NONE" <=> offer[r][d] = "NONE"
    BY ExpiredOK
  <1>2. SetOffers(r, f)
    BY <1>1
  <1> QED
    BY <1>1, <1>2, OffersStep

\* A driver's offer is answered.
LEMMA AnswerStep ==
    ASSUME Inv, NEW t \in Tasks, NEW k \in TaskRecords, TaskOK(k), k.pc \notin RoundPcs,
           task' = [task EXCEPT ![t] = k],
           NEW r \in Deliveries, NEW d \in Drivers, Asked(r, d),
           NEW answer \in {"ACCEPTED", "DECLINED", "EXPIRED"},
           SetOffers(r, [offer[r] EXCEPT ![d] = answer])
    PROVE  Inv' /\ Grows
  <1>1. offer[r] \in OfferRows
    BY DEF Inv, DeliveryTypeOK, OfferRows
  <1>2. PICK f \in OfferRows : f = [offer[r] EXCEPT ![d] = answer]
    BY <1>1 DEF OfferRows
  <1>3. \A e \in Drivers : f[e] = "NONE" <=> offer[r][e] = "NONE"
    BY <1>1, <1>2 DEF OfferRows, Asked
  <1>4. SetOffers(r, f)
    BY <1>2
  <1> QED
    BY <1>3, <1>4, OffersStep

LEMMA ExpireRoundStep ==
    ASSUME Inv, NEW t \in Tasks, ExpireRound(t)
    PROVE  Inv' /\ Grows
  <1>1. /\ task[t].pc = "expire" /\ task[t].r \in Deliveries
        /\ SetOffers(task[t].r, Expired(task[t].r, {})) /\ Goto(t, "resolve")
    BY AtOK DEF ExpireRound
  <1>2. /\ Onward(t, "resolve") \in TaskRecords /\ TaskOK(Onward(t, "resolve"))
        /\ Onward(t, "resolve").pc \notin RoundPcs
        /\ task' = [task EXCEPT ![t] = Onward(t, "resolve")]
    BY <1>1, EasyPcs, GotoOK
  <1> QED
    BY <1>1, <1>2, CloseStep

LEMMA ResolveStep ==
    ASSUME Inv, NEW t \in Tasks, Resolve(t)
    PROVE  Inv' /\ Grows
  <1> DEFINE r == task[t].r
  <1>1. /\ r \in Deliveries /\ RowOK(r) /\ Return(t) /\ job' = JobDone(r)
        /\ status' = [status EXCEPT ![r] = IF @ \in {"REQUESTED", "DISPATCHING"}
                                           THEN "NO_DRIVERS_FOUND" ELSE @]
        /\ UNCHANGED <<driver, method, fare, proof, linked, offer, avail, timer, billVars>>
    BY AtOK DEF Resolve
  <1>2. job' \in [Deliveries -> {"none", "waiting", "active"}]
    BY <1>1, JobDoneOK
  <1>3. Plain(t, Idle)
    BY <1>1, <1>2, ReturnTask, IdleNotRound
       DEF Inv, DeliveryTypeOK, OfferRows, Plain, InRound, RowOK, Statuses
  <1> QED
    BY <1>3, IdleOK, PlainStep

-----------------------------------------------------------------------------
(* Answers.                                                                *)

LEMMA AcceptReadStep ==
    ASSUME Inv, NEW t \in Tasks, NEW r \in Deliveries, NEW d \in Drivers, AcceptRead(t, r, d)
    PROVE  Inv' /\ Grows
  <1>1. Call(t, "accept_claim", r, d) /\ OnlyTask /\ Asked(r, d)
    BY DEF AcceptRead, Asked
  <1>2. "accept_claim" \in Pcs /\ "accept_claim" \notin BookedPcs \cup FarePcs \cup RoundPcs
    BY DEF Pcs, BookedPcs, FarePcs, RoundPcs
  <1> QED
    BY <1>1, <1>2, CallStep

LEMMA DeclineReadStep ==
    ASSUME Inv, NEW t \in Tasks, NEW r \in Deliveries, NEW d \in Drivers, DeclineRead(t, r, d)
    PROVE  Inv' /\ Grows
  <1>1. Call(t, "decline_write", r, d) /\ OnlyTask /\ Asked(r, d)
    BY DEF DeclineRead, Asked
  <1>2. "decline_write" \in Pcs /\ "decline_write" \notin BookedPcs \cup FarePcs \cup RoundPcs
    BY DEF Pcs, BookedPcs, FarePcs, RoundPcs
  <1> QED
    BY <1>1, <1>2, CallStep

\* What a call that answers an offer knows of it.
LEMMA AnswerKnows ==
    ASSUME Inv, NEW t \in Tasks, task[t].pc \in AnswerPcs
    PROVE  /\ task[t].pc # "idle" /\ task[t].r \in Deliveries /\ task[t].d \in Drivers
           /\ Asked(task[t].r, task[t].d)
  BY BusyPcs DEF Inv, TasksOK, TaskOK

LEMMA AnswerNext ==
    /\ {"accept_claim", "accept_lost", "accept_won", "decline_write"} = AnswerPcs
    /\ \A pc \in {"accept_lost", "accept_won", "accept_others", "accept_avail"} :
           pc \in Pcs /\ pc \notin BookedPcs \cup FarePcs \cup RoundPcs
    /\ "accept_others" \notin AnswerPcs /\ "accept_avail" \notin AnswerPcs
    /\ "accept_others" \in DriverPcs /\ "accept_avail" \in DriverPcs
  BY DEF Pcs, AnswerPcs, BookedPcs, FarePcs, RoundPcs, DriverPcs

LEMMA AcceptClaimStep ==
    ASSUME Inv, NEW t \in Tasks, AcceptClaim(t)
    PROVE  Inv' /\ Grows
  <1> DEFINE r == task[t].r
             k(pc) == Onward(t, pc)
  <1>1. /\ task[t].pc = "accept_claim" /\ task[t].pc # "idle"
        /\ r \in Deliveries /\ task[t].d \in Drivers /\ Asked(r, task[t].d) /\ RowOK(r)
    BY AtOK, AnswerKnows, AnswerNext DEF AcceptClaim
  <1>2. UNCHANGED <<method, fare, proof, linked, offer, avail, waits, billVars>>
    BY DEF AcceptClaim
  <1>3. ASSUME NEW pc \in {"accept_lost", "accept_won"}, Goto(t, pc)
        PROVE  /\ k(pc) \in TaskRecords /\ TaskOK(k(pc)) /\ k(pc).pc \notin RoundPcs
               /\ task' = [task EXCEPT ![t] = k(pc)]
    BY <1>1, <1>3, AnswerNext, GotoOK
  <1>4. CASE Claimable(r)
    <2>1. /\ status' = [status EXCEPT ![r] = "ACCEPTED"]
          /\ driver' = [driver EXCEPT ![r] = task[t].d]
          /\ Goto(t, "accept_won") /\ status[r] = "DISPATCHING"
      BY <1>4 DEF AcceptClaim, Claimable
    <2>2. PICK i \in TaskRecords :
              TaskOK(i) /\ i.pc \notin RoundPcs /\ task' = [task EXCEPT ![t] = i]
      BY <1>3, <2>1
    <2>3. Plain(t, i)
      BY <1>1, <1>2, <2>1, <2>2
         DEF Inv, DeliveryTypeOK, OfferRows, Plain, InRound, RowOK, Statuses, waits, billVars
    <2> QED
      BY <2>2, <2>3, PlainStep
  <1>5. CASE ~ Claimable(r)
    <2>1. Goto(t, "accept_lost") /\ OnlyTask
      BY <1>2, <1>5 DEF AcceptClaim, OnlyTask, rowVars
    <2> QED
      BY <1>3, <2>1, ReadStep
  <1> QED
    BY <1>4, <1>5

LEMMA AcceptLostStep ==
    ASSUME Inv, NEW t \in Tasks, AcceptLost(t)
    PROVE  Inv' /\ Grows
  <1>1. /\ task[t].r \in Deliveries /\ task[t].d \in Drivers /\ Asked(task[t].r, task[t].d)
        /\ SetOffers(task[t].r, [offer[task[t].r] EXCEPT ![task[t].d] = "EXPIRED"]) /\ Return(t)
    BY AnswerKnows, AnswerNext DEF AcceptLost, At
  <1> QED
    BY <1>1, ReturnTask, IdleOK, IdleNotRound, AnswerStep

LEMMA AcceptWonStep ==
    ASSUME Inv, NEW t \in Tasks, AcceptWon(t)
    PROVE  Inv' /\ Grows
  <1>1. /\ task[t].pc # "idle"
        /\ task[t].r \in Deliveries /\ task[t].d \in Drivers /\ Asked(task[t].r, task[t].d)
        /\ SetOffers(task[t].r, [offer[task[t].r] EXCEPT ![task[t].d] = "ACCEPTED"])
        /\ Goto(t, "accept_others")
    BY AnswerKnows, AnswerNext DEF AcceptWon, At
  <1>2. PICK k \in TaskRecords :
            TaskOK(k) /\ k.pc \notin RoundPcs /\ task' = [task EXCEPT ![t] = k]
    BY <1>1, AnswerNext, GotoOK
  <1> QED
    BY <1>1, <1>2, AnswerStep

LEMMA AcceptOthersStep ==
    ASSUME Inv, NEW t \in Tasks, AcceptOthers(t)
    PROVE  Inv' /\ Grows
  <1>1. /\ task[t].pc = "accept_others" /\ task[t].r \in Deliveries /\ task[t].d \in Drivers
        /\ SetOffers(task[t].r, Expired(task[t].r, {task[t].d}))
        /\ Goto(t, "accept_avail")
    BY AtOK, AnswerNext DEF AcceptOthers, TaskOK
  <1>2. PICK k \in TaskRecords :
            TaskOK(k) /\ k.pc \notin RoundPcs /\ task' = [task EXCEPT ![t] = k]
    BY <1>1, AnswerNext, GotoOK
  <1> QED
    BY <1>1, <1>2, CloseStep

LEMMA AcceptAvailStep ==
    ASSUME Inv, NEW t \in Tasks, AcceptAvail(t)
    PROVE  Inv' /\ Grows
  <1>1. task[t].d \in Drivers /\ SetAvail(task[t].d, "ON_TRIP") /\ Return(t)
    BY AtOK, AnswerNext DEF AcceptAvail, TaskOK
  <1> QED
    BY <1>1, ReturnTask, IdleOK, IdleNotRound, AvailStep

LEMMA DeclineWriteStep ==
    ASSUME Inv, NEW t \in Tasks, DeclineWrite(t)
    PROVE  Inv' /\ Grows
  <1>1. /\ task[t].pc # "idle"
        /\ task[t].r \in Deliveries /\ task[t].d \in Drivers /\ Asked(task[t].r, task[t].d)
        /\ SetOffers(task[t].r, [offer[task[t].r] EXCEPT ![task[t].d] = "DECLINED"])
        /\ Goto(t, "decline_read")
    BY AnswerKnows, AnswerNext DEF DeclineWrite, At
  <1>2. PICK k \in TaskRecords :
            TaskOK(k) /\ k.pc \notin RoundPcs /\ task' = [task EXCEPT ![t] = k]
    BY <1>1, EasyPcs, GotoOK
  <1> QED
    BY <1>1, <1>2, AnswerStep

LEMMA DeclineCheckStep ==
    ASSUME Inv, NEW t \in Tasks, DeclineCheck(t)
    PROVE  Inv' /\ Grows
  <1>1. task[t].pc # "idle" /\ OnlyTask /\ (Goto(t, "decline_count") \/ Return(t))
    BY DEF DeclineCheck, At
  <1> QED
    BY <1>1, EasyPcs, ReadOn, ReadReturn

LEMMA DeclineCountStep ==
    ASSUME Inv, NEW t \in Tasks, DeclineCount(t)
    PROVE  Inv' /\ Grows
  <1>1. task[t].pc # "idle" /\ OnlyTask /\ (Goto(t, "resolve") \/ Return(t))
    BY DEF DeclineCount, At
  <1> QED
    BY <1>1, EasyPcs, ReadOn, ReadReturn

-----------------------------------------------------------------------------
(* Cancellations and assignments.                                          *)

LEMMA CancelPcs ==
    /\ \A pc \in {"cancel_fee", "cancel_job", "cancel_void", "cancel_avail", "cancel_write",
                  "assign_void", "assign_avail", "assign_write", "pickup_write", "proof_write"} :
           pc \in Pcs /\ pc \in BookedPcs /\ pc \notin AnswerPcs \cup FarePcs \cup RoundPcs
    /\ \A pc \in {"cancel_job", "cancel_void", "cancel_avail", "cancel_write"} : pc \notin DriverPcs
    /\ \A pc \in {"cancel_fee", "assign_void", "assign_avail", "assign_write", "pickup_write",
                  "proof_write"} : pc \in DriverPcs
  BY DEF Pcs, AnswerPcs, BookedPcs, FarePcs, RoundPcs, DriverPcs

\* What a call of a booked delivery knows of it.
LEMMA BookedKnows ==
    ASSUME Inv, NEW t \in Tasks, task[t].pc \in BookedPcs
    PROVE  /\ task[t].pc # "idle" /\ task[t].r \in Deliveries /\ Priced(task[t].r)
           /\ task[t].pc \in DriverPcs => task[t].d \in Drivers
  BY BusyPcs DEF Inv, TasksOK, TaskOK

\* Such a call goes on to another of its steps.
LEMMA BookedNext ==
    ASSUME Inv, NEW t \in Tasks, task[t].pc \in BookedPcs,
           NEW pc \in {"cancel_avail", "cancel_write", "assign_avail", "assign_write"},
           pc \in DriverPcs => task[t].d \in Drivers,
           Goto(t, pc)
    PROVE  \E k \in TaskRecords :
               TaskOK(k) /\ k.pc \notin RoundPcs /\ k.pc = pc /\ task' = [task EXCEPT ![t] = k]
  BY BookedKnows, CancelPcs, GotoOK

LEMMA CancelReadStep ==
    ASSUME Inv, NEW t \in Tasks, NEW r \in Deliveries, NEW by, CancelRead(t, r, by)
    PROVE  Inv' /\ Grows
  <1>1. status[r] \in Cancellable /\ Call(t, FirstStep(r, by), r, driver[r]) /\ OnlyTask
    BY DEF CancelRead
  <1>2. FirstStep(r, by) \in {"cancel_fee", "cancel_job", "cancel_void", "cancel_avail"}
        /\ (FirstStep(r, by) = "cancel_fee" => driver[r] # None)
    BY DEF FirstStep
  <1>3. Priced(r)
    BY <1>1 DEF Inv, RowsOK, RowOK, Cancellable
  <1>4. driver[r] \in Drivers \cup {None}
    BY DEF Inv, DeliveryTypeOK
  <1>5. PICK pc \in Pcs : pc = FirstStep(r, by)
    BY <1>2, CancelPcs
  <1>6. /\ pc \notin FarePcs /\ pc \notin RoundPcs /\ pc \notin AnswerPcs
        /\ pc \in DriverPcs => driver[r] \in Drivers
    BY <1>2, <1>4, <1>5, CancelPcs
  <1>7. Call(t, pc, r, driver[r])
    BY <1>1, <1>5
  <1> QED
    BY <1>1, <1>3, <1>4, <1>6, <1>7, CallStep

LEMMA CancelFeeStep ==
    ASSUME Inv, NEW t \in Tasks, CancelFee(t)
    PROVE  Inv' /\ Grows
  <1>1. /\ task[t].pc \in BookedPcs /\ task[t].r \in Deliveries /\ task[t].d \in Drivers
        /\ Goto(t, "cancel_avail")
    BY BookedKnows, CancelPcs DEF CancelFee, At
  <1>2. PICK k \in TaskRecords :
            TaskOK(k) /\ k.pc \notin RoundPcs /\ task' = [task EXCEPT ![t] = k]
    BY <1>1, BookedNext, CancelPcs
  <1>3. /\ UNCHANGED <<rowVars, offer, avail, waits, billed, invoice, settled, refunded>>
        /\ fee' = [fee EXCEPT ![task[t].r] = IF @ = None THEN task[t].d ELSE @]
    BY DEF CancelFee
  <1>4. Grows
    BY <1>3 DEF rowVars, Grows, Priced, Charged, Invoiced, Settled, Asked
  <1>5. TaskOK(k)'
    BY <1>2, <1>4, TaskKept
  <1>6. InRound(t, k)
    BY <1>2, <1>3 DEF InRound, rowVars
  <1>7. RowsOK'
    BY <1>3 DEF Inv, RowsOK, RowOK, rowVars, Priced, Charged, Invoiced, Settled
  <1>8. fee' \in [Deliveries -> Drivers \cup {None}]
    BY <1>1, <1>3 DEF Inv, DeliveryTypeOK
  <1>9. task' \in [Tasks -> TaskRecords] => DeliveryTypeOK'
    BY <1>3, <1>8 DEF Inv, DeliveryTypeOK, TaskRecords, rowVars, waits
  <1> QED
    BY <1>4, <1>5, <1>6, <1>7, <1>9, RowStep

LEMMA CancelJobStep ==
    ASSUME Inv, NEW t \in Tasks, CancelJob(t)
    PROVE  Inv' /\ Grows
  <1>1. task[t].pc \in BookedPcs /\ task[t].r \in Deliveries /\ Goto(t, "cancel_avail")
    BY BookedKnows, CancelPcs DEF CancelJob, At
  <1>2. PICK k \in TaskRecords :
            TaskOK(k) /\ k.pc \notin RoundPcs /\ task' = [task EXCEPT ![t] = k]
    BY <1>1, BookedNext, CancelPcs
  <1>3. /\ job' = [job EXCEPT ![task[t].r] = IF @ = "waiting" THEN "none" ELSE @]
        /\ timer' = timer /\ UNCHANGED <<rowVars, offer, avail, billVars>>
    BY DEF CancelJob
  <1>4. job' \in [Deliveries -> {"none", "waiting", "active"}] /\ timer' \in [Deliveries -> BOOLEAN]
    BY <1>1, <1>3 DEF Inv, DeliveryTypeOK
  <1> QED
    BY <1>2, <1>3, <1>4, WaitsStep

LEMMA CancelVoidStep ==
    ASSUME Inv, NEW t \in Tasks, CancelVoid(t)
    PROVE  Inv' /\ Grows
  <1>1. /\ task[t].pc \in BookedPcs /\ task[t].r \in Deliveries /\ Goto(t, "cancel_avail")
        /\ SetOffers(task[t].r, Expired(task[t].r, {}))
    BY BookedKnows, CancelPcs DEF CancelVoid, At
  <1>2. PICK k \in TaskRecords :
            TaskOK(k) /\ k.pc \notin RoundPcs /\ task' = [task EXCEPT ![t] = k]
    BY <1>1, BookedNext, CancelPcs
  <1> QED
    BY <1>1, <1>2, CloseStep

LEMMA CancelAvailStep ==
    ASSUME Inv, NEW t \in Tasks, CancelAvail(t)
    PROVE  Inv' /\ Grows
  <1>1. task[t].pc \in BookedPcs /\ Goto(t, "cancel_write")
    BY CancelPcs DEF CancelAvail, At
  <1>2. PICK k \in TaskRecords :
            TaskOK(k) /\ k.pc \notin RoundPcs /\ task' = [task EXCEPT ![t] = k]
    BY <1>1, BookedNext, CancelPcs
  <1>3. CASE task[t].d = None
    <2>1. OnlyTask
      BY <1>3 DEF CancelAvail
    <2> QED
      BY <1>2, <2>1, ReadStep
  <1>4. CASE task[t].d # None
    <2>1. SetAvail(task[t].d, "ONLINE") /\ task[t].d \in Drivers
      BY <1>4, TasksTyped DEF CancelAvail, Inv, TaskRecords
    <2> QED
      BY <1>2, <2>1, AvailStep
  <1> QED
    BY <1>3, <1>4

LEMMA CancelWriteStep ==
    ASSUME Inv, NEW t \in Tasks, CancelWrite(t)
    PROVE  Inv' /\ Grows
  <1>1. /\ task[t].r \in Deliveries /\ Priced(task[t].r)
        /\ SetStatus(task[t].r, "CANCELLED") /\ Return(t)
    BY BookedKnows, CancelPcs DEF CancelWrite, At
  <1>2. "CANCELLED" \in Statuses \ {"COMPLETED", "SCHEDULED"}
    BY DEF Statuses
  <1> QED
    BY <1>1, <1>2, ReturnTask, IdleOK, IdleNotRound, StatusStep

LEMMA AssignReadStep ==
    ASSUME Inv, NEW t \in Tasks, NEW r \in Deliveries, NEW d \in Drivers, AssignRead(t, r, d)
    PROVE  Inv' /\ Grows
  <1>1. PICK pc \in {"assign_void", "assign_avail"} : Call(t, pc, r, d)
    BY DEF AssignRead
  <1>2. OnlyTask /\ Priced(r)
    BY DEF AssignRead, Assignable, Inv, RowsOK, RowOK
  <1> QED
    BY <1>1, <1>2, CancelPcs, CallStep

LEMMA AssignVoidStep ==
    ASSUME Inv, NEW t \in Tasks, AssignVoid(t)
    PROVE  Inv' /\ Grows
  <1>1. /\ task[t].pc \in BookedPcs /\ task[t].r \in Deliveries /\ task[t].d \in Drivers
        /\ Goto(t, "assign_avail") /\ SetOffers(task[t].r, Expired(task[t].r, {}))
    BY BookedKnows, CancelPcs DEF AssignVoid, At
  <1>2. PICK k \in TaskRecords :
            TaskOK(k) /\ k.pc \notin RoundPcs /\ task' = [task EXCEPT ![t] = k]
    BY <1>1, BookedNext
  <1> QED
    BY <1>1, <1>2, CloseStep

LEMMA AssignAvailStep ==
    ASSUME Inv, NEW t \in Tasks, AssignAvail(t)
    PROVE  Inv' /\ Grows
  <1>1. /\ task[t].pc \in BookedPcs /\ task[t].d \in Drivers
        /\ Goto(t, "assign_write") /\ SetAvail(task[t].d, "ON_TRIP")
    BY BookedKnows, CancelPcs DEF AssignAvail, At
  <1>2. PICK k \in TaskRecords :
            TaskOK(k) /\ k.pc \notin RoundPcs /\ task' = [task EXCEPT ![t] = k]
    BY <1>1, BookedNext
  <1> QED
    BY <1>1, <1>2, AvailStep

LEMMA AssignWriteStep ==
    ASSUME Inv, NEW t \in Tasks, AssignWrite(t)
    PROVE  Inv' /\ Grows
  <1>1. /\ task[t].r \in Deliveries /\ task[t].d \in Drivers /\ Priced(task[t].r)
        /\ status' = [status EXCEPT ![task[t].r] = "ACCEPTED"]
        /\ driver' = [driver EXCEPT ![task[t].r] = task[t].d]
        /\ task' = [task EXCEPT ![t] = Idle]
        /\ UNCHANGED <<method, fare, proof, linked, offer, avail, waits, billVars>>
    BY BookedKnows, CancelPcs DEF AssignWrite, At, Return
  <1>2. Plain(t, Idle)
    BY <1>1, IdleNotRound
       DEF Inv, DeliveryTypeOK, OfferRows, Plain, InRound, Statuses, waits, billVars
  <1> QED
    BY <1>2, IdleOK, PlainStep

-----------------------------------------------------------------------------
(* The trip and its bill.                                                  *)

LEMMA PickupReadStep ==
    ASSUME Inv, NEW t \in Tasks, NEW r \in Deliveries, NEW d \in Drivers, PickupRead(t, r, d)
    PROVE  Inv' /\ Grows
  <1>1. Call(t, "pickup_write", r, d) /\ OnlyTask /\ Priced(r)
    BY DEF PickupRead, Inv, RowsOK, RowOK
  <1> QED
    BY <1>1, CancelPcs, CallStep

LEMMA PickupWriteStep ==
    ASSUME Inv, NEW t \in Tasks, PickupWrite(t)
    PROVE  Inv' /\ Grows
  <1>1. /\ task[t].r \in Deliveries /\ Priced(task[t].r)
        /\ SetStatus(task[t].r, "PICKED_UP") /\ Return(t)
    BY BookedKnows, CancelPcs DEF PickupWrite, At
  <1>2. "PICKED_UP" \in Statuses \ {"COMPLETED", "SCHEDULED"}
    BY DEF Statuses
  <1> QED
    BY <1>1, <1>2, ReturnTask, IdleOK, IdleNotRound, StatusStep

LEMMA ProofReadStep ==
    ASSUME Inv, NEW t \in Tasks, NEW r \in Deliveries, NEW d \in Drivers, ProofRead(t, r, d)
    PROVE  Inv' /\ Grows
  <1>1. Call(t, "proof_write", r, d) /\ OnlyTask /\ Priced(r)
    BY DEF ProofRead, Inv, RowsOK, RowOK
  <1> QED
    BY <1>1, CancelPcs, CallStep

LEMMA ProofWriteStep ==
    ASSUME Inv, NEW t \in Tasks, ProofWrite(t)
    PROVE  Inv' /\ Grows
  <1>1. PICK r \in Deliveries : r = task[t].r
    BY BookedKnows, CancelPcs DEF ProofWrite, At
  <1>2. /\ proof' = [proof EXCEPT ![r] = TRUE] /\ task' = [task EXCEPT ![t] = Idle]
        /\ UNCHANGED <<status, driver, method, fare, linked, offer, avail, waits, billVars>>
    BY <1>1 DEF ProofWrite, Return
  <1>3. \A x \in Deliveries : proof'[x] = IF x = r THEN TRUE ELSE proof[x]
    BY <1>2 DEF Inv, DeliveryTypeOK
  <1>4. Grows
    BY <1>2, <1>3 DEF billVars, Grows, Priced, Charged, Invoiced, Settled, Asked
  <1>5. RowsOK'
    BY <1>2, <1>3 DEF Inv, RowsOK, RowOK, billVars, Priced, Charged, Invoiced, Settled
  <1>6. InRound(t, Idle)
    BY <1>2, IdleNotRound DEF InRound
  <1>7. proof' \in [Deliveries -> BOOLEAN]
    BY <1>2 DEF Inv, DeliveryTypeOK
  <1>8. task' \in [Tasks -> TaskRecords] => DeliveryTypeOK'
    BY <1>2, <1>7 DEF Inv, DeliveryTypeOK, TaskRecords, waits, billVars
  <1> QED
    BY <1>4, <1>5, <1>6, <1>8, IdleOK, IdleAfter, RowStep

\* The call that completes a delivery, at its beginning and on its way.
EndCall(pc, r, d, q) == [Idle EXCEPT !.pc = pc, !.r = r, !.d = d, !.q = q]

LEMMA EndCallOK ==
    ASSUME NEW pc \in Pcs, NEW r \in Deliveries, NEW d \in Drivers, NEW q \in Fares
    PROVE  /\ EndCall(pc, r, d, q) \in TaskRecords
           /\ EndCall(pc, r, d, q).pc = pc /\ EndCall(pc, r, d, q).r = r
           /\ EndCall(pc, r, d, q).d = d /\ EndCall(pc, r, d, q).q = q
  BY DEF EndCall, Idle, TaskRecords

LEMMA EndNext ==
    /\ \A pc \in {"bill", "issue", "complete_write"} :
           /\ pc \in Pcs /\ pc \in DriverPcs /\ pc \in FarePcs /\ pc \in BookedPcs /\ pc \in EndPcs
           /\ pc \notin AnswerPcs \cup RoundPcs \cup PayPcs
    /\ \A pc \in {"pay", "mark_paid"} :
           /\ pc \in Pcs /\ pc \in DriverPcs /\ pc \in FarePcs /\ pc \in PayPcs
           /\ pc \notin AnswerPcs \cup RoundPcs \cup BookedPcs \cup EndPcs
    /\ "complete_avail" \in Pcs /\ "complete_avail" \in DriverPcs
    /\ "complete_avail" \notin AnswerPcs \cup RoundPcs \cup BookedPcs \cup EndPcs \cup PayPcs \cup FarePcs
  BY DEF Pcs, DriverPcs, FarePcs, BookedPcs, EndPcs, PayPcs, AnswerPcs, RoundPcs

\* What a call that completes or pays knows.
LEMMA EndKnows ==
    ASSUME Inv, NEW t \in Tasks, task[t].pc \in EndPcs \cup PayPcs
    PROVE  /\ task[t].pc # "idle" /\ task[t].r \in Deliveries
           /\ task[t].d \in Drivers /\ task[t].q \in Fares
           /\ TaskOK(task[t]) /\ RowOK(task[t].r) /\ task[t] \in TaskRecords
  <1>1. task[t].pc # "idle" /\ task[t].pc \in DriverPcs /\ task[t].pc \in FarePcs
    BY BusyPcs DEF EndPcs, PayPcs, DriverPcs, FarePcs
  <1> QED
    BY <1>1, TasksTyped DEF Inv, TasksOK, RowsOK, TaskOK

\* Such a call goes on, and knows what it carried.
LEMMA EndGoes ==
    ASSUME Inv, NEW t \in Tasks, task[t].pc \in EndPcs \cup PayPcs, NEW pc \in Pcs, Goto(t, pc)
    PROVE  \E k \in TaskRecords :
               /\ task' = [task EXCEPT ![t] = k]
               /\ k.pc = pc /\ k.r = task[t].r /\ k.d = task[t].d /\ k.q = task[t].q
  BY EndKnows, OnwardOK

LEMMA CompleteReadStep ==
    ASSUME Inv, NEW t \in Tasks, NEW r \in Deliveries, NEW d \in Drivers, CompleteRead(t, r, d)
    PROVE  Inv' /\ Grows
  <1>1. /\ task' = [task EXCEPT ![t] = EndCall("bill", r, d, fare[r])]
        /\ OnlyTask /\ proof[r] /\ fare[r] \in Fares
    BY DEF CompleteRead, Begin, EndCall, Inv, RowsOK, RowOK, Priced
  <1>11. PICK q \in Fares : q = fare[r]
    BY <1>1
  <1> DEFINE call == EndCall("bill", r, d, q)
  <1>12. call \in TaskRecords /\ call.pc = "bill" /\ call.r = r /\ call.d = d /\ call.q = q
    BY EndNext, EndCallOK
  <1>13. task' = [task EXCEPT ![t] = call]
    BY <1>1, <1>11
  <1> HIDE DEF call
  <1>2. PICK k \in TaskRecords :
            /\ task' = [task EXCEPT ![t] = k]
            /\ k.pc = "bill" /\ k.r = r /\ k.d = d /\ k.q = q
    BY <1>12, <1>13
  <1>3. TaskOK(k) /\ k.pc \notin RoundPcs
    BY <1>1, <1>2, EndNext DEF TaskOK, Priced
  <1> QED
    BY <1>1, <1>2, <1>3, ReadStep

LEMMA BillStep ==
    ASSUME Inv, NEW t \in Tasks, Bill(t)
    PROVE  Inv' /\ Grows
  <1>1. PICK r \in Deliveries, d \in Drivers, q \in Fares :
            r = task[t].r /\ d = task[t].d /\ q = task[t].q
    BY EndNext, EndKnows DEF Bill, At
  <1> DEFINE pc == IF method[r] = "INVOICE" THEN "issue" ELSE "complete_write"
  <1>2. /\ task[t].pc = "bill" /\ task[t].pc \in EndPcs
        /\ billed' = [billed EXCEPT ![r] = IF @ = NoBill THEN [amount |-> q, driver |-> d] ELSE @]
        /\ Goto(t, pc)
        /\ UNCHANGED <<rowVars, offer, avail, waits, fee, invoice, settled, refunded>>
    BY <1>1, EndNext DEF Bill, At
  <1>3. PICK k \in TaskRecords :
            task' = [task EXCEPT ![t] = k] /\ k.pc = pc /\ k.r = r /\ k.d = d /\ k.q = q
    BY <1>1, <1>2, EndNext, EndGoes
  <1>4. /\ \A x \in Deliveries : x # r => billed'[x] = billed[x]
        /\ billed'[r] = IF billed[r] = NoBill THEN [amount |-> q, driver |-> d] ELSE billed[r]
    BY <1>2 DEF Inv, DeliveryTypeOK
  <1>5. [amount |-> q, driver |-> d] # NoBill
    BY DeliveryAssumption DEF NoBill
  <1>6. Charged(r)' /\ \A x \in Deliveries : Charged(x) => Charged(x)'
    BY <1>4, <1>5 DEF Charged
  <1>7. Grows
    BY <1>2, <1>6 DEF rowVars, Grows, Priced, Invoiced, Settled, Asked
  <1>8. proof[r] /\ Priced(r)
    BY <1>1, <1>2, EndNext, EndKnows DEF TaskOK
  <1>9. TaskOK(k)'
    BY <1>2, <1>3, <1>6, <1>8, EndNext DEF TaskOK, rowVars, Priced
  <1>10. RowsOK'
    BY <1>2, <1>6 DEF Inv, RowsOK, RowOK, rowVars, Priced, Invoiced, Settled
  <1>11. InRound(t, k)
    BY <1>2, <1>3, EndNext DEF InRound, rowVars
  <1>12. billed' \in [Deliveries -> [amount : Fares, driver : Drivers] \cup {NoBill}]
    BY <1>2 DEF Inv, DeliveryTypeOK
  <1>13. task' \in [Tasks -> TaskRecords] => DeliveryTypeOK'
    BY <1>2, <1>12 DEF Inv, DeliveryTypeOK, TaskRecords, rowVars, waits
  <1> QED
    BY <1>7, <1>9, <1>10, <1>11, <1>13, RowStep

LEMMA IssueInvoiceStep ==
    ASSUME Inv, NEW t \in Tasks, IssueInvoice(t)
    PROVE  Inv' /\ Grows
  <1>1. PICK r \in Deliveries, q \in Fares : r = task[t].r /\ q = task[t].q
    BY EndNext, EndKnows DEF IssueInvoice, At
  <1>2. /\ task[t].pc = "issue" /\ task[t].pc \in EndPcs
        /\ UNCHANGED <<rowVars, offer, avail, waits, billed, fee, settled, refunded>>
    BY <1>1, EndNext DEF IssueInvoice, At
  <1>3. CASE invoice[r] # NoInvoice
    <2>1. Return(t) /\ OnlyTask
      BY <1>1, <1>2, <1>3 DEF IssueInvoice, OnlyTask, rowVars, waits, billVars
    <2> QED
      BY <2>1, ReadReturn
  <1>4. CASE invoice[r] = NoInvoice
    <2>1. invoice' = [invoice EXCEPT ![r].amount = q] /\ Goto(t, "complete_write")
      BY <1>1, <1>4 DEF IssueInvoice
    <2>2. PICK k \in TaskRecords :
              task' = [task EXCEPT ![t] = k] /\ k.pc = "complete_write" /\ k.r = r
                  /\ k.d = task[t].d /\ k.q = q
      BY <1>1, <1>2, <2>1, EndNext, EndGoes
    <2>30. [NoInvoice EXCEPT !.amount = q] \in [amount : Fares, paid : BOOLEAN]
           /\ [NoInvoice EXCEPT !.amount = q].amount = q
           /\ ~ [NoInvoice EXCEPT !.amount = q].paid
      BY DEF NoInvoice
    <2>31. PICK v \in [amount : Fares, paid : BOOLEAN] :
               v = [invoice[r] EXCEPT !.amount = q] /\ v.amount = q /\ ~ v.paid
      BY <1>4, <2>30
    <2>32. invoice' = [invoice EXCEPT ![r] = v]
      BY <2>1, <2>31
    <2>3. /\ \A x \in Deliveries : x # r => invoice'[x] = invoice[x]
          /\ invoice'[r] = v
      BY <2>32 DEF Inv, DeliveryTypeOK
    <2>4. Invoiced(r)' /\ \A x \in Deliveries : Invoiced(x) => Invoiced(x)'
      BY <2>3, <2>31, DeliveryAssumption DEF Invoiced, NoInvoice
    <2>5. Grows
      BY <1>2, <2>4 DEF rowVars, Grows, Priced, Charged, Settled, Asked
    <2>6. /\ proof[r] /\ Priced(r) /\ Charged(r) /\ method[r] = "INVOICE"
          /\ task[t].d \in Drivers
      BY <1>1, <1>2, EndNext, EndKnows DEF TaskOK
    <2>7. PICK d \in Drivers : d = k.d
      BY <2>2, <2>6
    <2>8. TaskOK(k)'
      BY <1>2, <2>2, <2>4, <2>6, <2>7, EndNext DEF TaskOK, rowVars, Priced, Charged
    <2>9. RowsOK'
      <3>1. ASSUME NEW x \in Deliveries
            PROVE  RowOK(x)'
        <4>1. RowOK(x)
          BY DEF Inv, RowsOK
        <4>2. CASE x = r
          <5>1. Charged(x) /\ Priced(x) /\ method[x] = "INVOICE" /\ ~ invoice'[x].paid
            BY <2>3, <2>31, <2>6, <4>2
          <5>2. Charged(x)' /\ Priced(x)' /\ (Settled(x)' <=> Settled(x)) /\ Invoiced(x)'
            BY <1>2, <2>4, <4>2, <5>1 DEF rowVars, Priced, Charged, Settled
          <5> QED
            BY <1>2, <4>1, <5>1, <5>2 DEF RowOK, rowVars
        <4>3. CASE x # r
          <5>1. invoice'[x] = invoice[x]
            BY <2>3, <4>3
          <5> QED
            BY <1>2, <4>1, <5>1 DEF RowOK, rowVars, Priced, Charged, Invoiced, Settled
        <4> QED
          BY <4>2, <4>3
      <3> QED
        BY <3>1 DEF RowsOK
    <2>10. InRound(t, k)
      BY <1>2, <2>2, EndNext DEF InRound, rowVars
    <2>11. invoice' \in [Deliveries -> [amount : Fares, paid : BOOLEAN] \cup {NoInvoice}]
      BY <2>31, <2>32 DEF Inv, DeliveryTypeOK
    <2>12. task' \in [Tasks -> TaskRecords] => DeliveryTypeOK'
      BY <1>2, <2>11 DEF Inv, DeliveryTypeOK, TaskRecords, rowVars, waits
    <2> QED
      BY <2>5, <2>8, <2>9, <2>10, <2>12, RowStep
  <1> QED
    BY <1>3, <1>4

\* The delivery is COMPLETED: the call knows that it is proven and billed.
LEMMA CompleteWriteStep ==
    ASSUME Inv, NEW t \in Tasks, CompleteWrite(t)
    PROVE  Inv' /\ Grows
  <1>1. PICK r \in Deliveries, d \in Drivers : r = task[t].r /\ d = task[t].d
    BY EndNext, EndKnows DEF CompleteWrite, At
  <1>2. /\ task[t].pc = "complete_write" /\ task[t].pc \in EndPcs
        /\ status' = [status EXCEPT ![r] = "COMPLETED"]
        /\ linked' = [linked EXCEPT ![r] = @ \/ method[r] = "WALLET"]
        /\ Goto(t, "complete_avail")
        /\ UNCHANGED <<driver, method, fare, proof, offer, avail, waits, billVars>>
    BY <1>1, EndNext DEF CompleteWrite, At
  <1>3. PICK k \in TaskRecords :
            task' = [task EXCEPT ![t] = k] /\ k.pc = "complete_avail" /\ k.r = r /\ k.d = d
    BY <1>1, <1>2, EndNext, EndGoes
  <1>4. /\ proof[r] /\ Priced(r) /\ Charged(r)
        /\ method[r] = "INVOICE" => Invoiced(r)
    BY <1>1, <1>2, EndNext, EndKnows DEF TaskOK
  <1>5. /\ \A x \in Deliveries : x # r => status'[x] = status[x] /\ linked'[x] = linked[x]
        /\ status'[r] = "COMPLETED"
        /\ linked'[r] <=> (linked[r] \/ method[r] = "WALLET")
    BY <1>2 DEF Inv, DeliveryTypeOK
  <1>6. Grows
    BY <1>2 DEF billVars, Grows, Priced, Charged, Invoiced, Settled, Asked
  <1>7. TaskOK(k)'
    BY <1>3, EndNext DEF TaskOK
  <1>8. RowsOK'
    BY <1>2, <1>4, <1>5 DEF Inv, RowsOK, RowOK, billVars, Priced, Charged, Invoiced, Settled
  <1>9. InRound(t, k)
    BY <1>2, <1>3, <1>5, EndNext DEF InRound
  <1>10. status' \in [Deliveries -> Statuses \cup {"NONE"}] /\ linked' \in [Deliveries -> BOOLEAN]
    BY <1>2 DEF Inv, DeliveryTypeOK, Statuses
  <1>11. task' \in [Tasks -> TaskRecords] => DeliveryTypeOK'
    BY <1>2, <1>10 DEF Inv, DeliveryTypeOK, TaskRecords, waits, billVars
  <1> QED
    BY <1>6, <1>7, <1>8, <1>9, <1>11, RowStep

LEMMA CompleteAvailStep ==
    ASSUME Inv, NEW t \in Tasks, CompleteAvail(t)
    PROVE  Inv' /\ Grows
  <1>1. task[t].d \in Drivers /\ SetAvail(task[t].d, "ONLINE") /\ Return(t)
    BY AtOK, EndNext DEF CompleteAvail, TaskOK
  <1> QED
    BY <1>1, ReturnTask, IdleOK, IdleNotRound, AvailStep

LEMMA PayReadStep ==
    ASSUME Inv, NEW t \in Tasks, NEW r \in Deliveries, PayRead(t, r)
    PROVE  Inv' /\ Grows
  <1>1. /\ task' = [task EXCEPT ![t] = EndCall("pay", r, driver[r], fare[r])]
        /\ OnlyTask /\ Invoiced(r) /\ driver[r] \in Drivers /\ fare[r] \in Fares
    BY DEF PayRead, Begin, EndCall, Inv, RowsOK, RowOK, Priced, Invoiced, DeliveryTypeOK
  <1>11. PICK d \in Drivers, q \in Fares : d = driver[r] /\ q = fare[r]
    BY <1>1
  <1> DEFINE call == EndCall("pay", r, d, q)
  <1>12. call \in TaskRecords /\ call.pc = "pay" /\ call.r = r /\ call.d = d /\ call.q = q
    BY EndNext, EndCallOK
  <1>13. task' = [task EXCEPT ![t] = call]
    BY <1>1, <1>11
  <1> HIDE DEF call
  <1>2. PICK k \in TaskRecords :
            /\ task' = [task EXCEPT ![t] = k]
            /\ k.pc = "pay" /\ k.r = r /\ k.d = d /\ k.q = q
    BY <1>12, <1>13
  <1>3. TaskOK(k) /\ k.pc \notin RoundPcs
    BY <1>1, <1>2, EndNext DEF TaskOK
  <1> QED
    BY <1>1, <1>2, <1>3, ReadStep

LEMMA PayStep ==
    ASSUME Inv, NEW t \in Tasks, Pay(t)
    PROVE  Inv' /\ Grows
  <1>1. PICK r \in Deliveries, d \in Drivers, q \in Fares :
            r = task[t].r /\ d = task[t].d /\ q = task[t].q
    BY EndNext, EndKnows DEF Pay, At
  <1> DEFINE payment == [amount |-> invoice[r].amount, tax |-> q, driver |-> d]
  <1>2. /\ task[t].pc = "pay" /\ task[t].pc \in PayPcs
        /\ settled' = [settled EXCEPT ![r] = IF @ = NoPayment THEN payment ELSE @]
        /\ Goto(t, "mark_paid")
        /\ UNCHANGED <<rowVars, offer, avail, waits, billed, fee, invoice, refunded>>
    BY <1>1, EndNext DEF Pay, At
  <1>3. PICK k \in TaskRecords :
            task' = [task EXCEPT ![t] = k] /\ k.pc = "mark_paid" /\ k.r = r /\ k.d = d /\ k.q = q
    BY <1>1, <1>2, EndNext, EndGoes
  <1>4. Invoiced(r)
    BY <1>1, <1>2, EndKnows DEF TaskOK
  <1>5. invoice[r].amount \in Fares
    BY <1>4 DEF Invoiced, Inv, DeliveryTypeOK
  <1>6. payment \in [amount : Fares, tax : Fares, driver : Drivers] /\ payment # NoPayment
    BY <1>5, DeliveryAssumption DEF NoPayment
  <1>7. /\ \A x \in Deliveries : x # r => settled'[x] = settled[x]
        /\ settled'[r] = IF settled[r] = NoPayment THEN payment ELSE settled[r]
    BY <1>2 DEF Inv, DeliveryTypeOK
  <1>8. settled' \in [Deliveries -> [amount : Fares, tax : Fares, driver : Drivers] \cup {NoPayment}]
    BY <1>2, <1>6 DEF Inv, DeliveryTypeOK
  <1> HIDE DEF payment
  <1>9. Settled(r)' /\ \A x \in Deliveries : Settled(x) => Settled(x)'
    BY <1>6, <1>7 DEF Settled
  <1>10. Grows
    BY <1>2, <1>9 DEF rowVars, Grows, Priced, Charged, Invoiced, Asked
  <1>11. TaskOK(k)'
    BY <1>2, <1>3, <1>4, <1>9, EndNext DEF TaskOK, Invoiced
  <1>12. RowsOK'
    <2>1. \A x \in Deliveries : x # r => (Settled(x)' <=> Settled(x))
      BY <1>7 DEF Settled
    <2> QED
      BY <1>2, <1>4, <1>9, <2>1 DEF Inv, RowsOK, RowOK, rowVars, Priced, Charged, Invoiced
  <1>13. InRound(t, k)
    BY <1>2, <1>3, EndNext DEF InRound, rowVars
  <1>14. task' \in [Tasks -> TaskRecords] => DeliveryTypeOK'
    BY <1>2, <1>8 DEF Inv, DeliveryTypeOK, TaskRecords, rowVars, waits
  <1> QED
    BY <1>10, <1>11, <1>12, <1>13, <1>14, RowStep

LEMMA MarkPaidStep ==
    ASSUME Inv, NEW t \in Tasks, MarkPaid(t)
    PROVE  Inv' /\ Grows
  <1>1. PICK r \in Deliveries : r = task[t].r
    BY EndNext, EndKnows DEF MarkPaid, At
  <1>2. /\ task[t].pc = "mark_paid" /\ task[t].pc \in PayPcs
        /\ invoice' = [invoice EXCEPT ![r].paid = TRUE] /\ task' = [task EXCEPT ![t] = Idle]
        /\ UNCHANGED <<rowVars, offer, avail, waits, billed, fee, settled, refunded>>
    BY <1>1, EndNext DEF MarkPaid, At, Return
  <1>3. Invoiced(r) /\ Settled(r)
    BY <1>1, <1>2, EndKnows DEF TaskOK
  <1>4. invoice[r] \in [amount : Fares, paid : BOOLEAN]
    BY <1>3 DEF Invoiced, Inv, DeliveryTypeOK
  <1>5. /\ \A x \in Deliveries : x # r => invoice'[x] = invoice[x]
        /\ invoice'[r] \in [amount : Fares, paid : BOOLEAN] /\ invoice'[r].paid
    BY <1>2, <1>4 DEF Inv, DeliveryTypeOK
  <1>6. \A x \in Deliveries : Invoiced(x)' <=> Invoiced(x)
    BY <1>3, <1>5 DEF Invoiced, NoInvoice
  <1>7. Grows
    BY <1>2, <1>6 DEF rowVars, Grows, Priced, Charged, Settled, Asked
  <1>8. RowsOK'
    BY <1>2, <1>3, <1>5, <1>6 DEF Inv, RowsOK, RowOK, rowVars, Priced, Charged, Settled
  <1>9. InRound(t, Idle)
    BY <1>2, IdleNotRound DEF InRound, rowVars
  <1>10. invoice' \in [Deliveries -> [amount : Fares, paid : BOOLEAN] \cup {NoInvoice}]
    BY <1>2, <1>5 DEF Inv, DeliveryTypeOK
  <1>11. task' \in [Tasks -> TaskRecords] => DeliveryTypeOK'
    BY <1>2, <1>10 DEF Inv, DeliveryTypeOK, TaskRecords, rowVars, waits
  <1> QED
    BY <1>7, <1>8, <1>9, <1>11, IdleOK, IdleAfter, RowStep

LEMMA RefundStep ==
    ASSUME Inv, NEW r \in Deliveries, Refund(r)
    PROVE  Inv' /\ Grows
  <1>1. /\ linked[r] /\ refunded' = [refunded EXCEPT ![r] = TRUE]
        /\ UNCHANGED <<rowVars, offer, avail, waits, billed, fee, invoice, settled, task>>
    BY DEF Refund
  <1>2. \A x \in Deliveries : refunded'[x] => refunded[x] \/ x = r
    BY <1>1 DEF Inv, DeliveryTypeOK
  <1>3. Grows
    BY <1>1 DEF rowVars, Grows, Priced, Charged, Invoiced, Settled, Asked
  <1>4. RowsOK'
    BY <1>1, <1>2 DEF Inv, RowsOK, RowOK, rowVars, Priced, Charged, Invoiced, Settled
  <1>5. DeliveryTypeOK'
    BY <1>1 DEF Inv, DeliveryTypeOK, rowVars, waits
  <1> QED
    BY <1>1, <1>3, <1>4, <1>5, SameTasks DEF rowVars

-----------------------------------------------------------------------------
(* Failing calls, restarts, every step.                                    *)

LEMMA ThrowStep ==
    ASSUME Inv, NEW t \in Tasks, Throw(t)
    PROVE  Inv' /\ Grows
  <1>1. /\ Return(t) /\ timer' = timer /\ UNCHANGED <<rowVars, offer, avail, billVars>>
        /\ job' = IF task[t].pc \in ForJob THEN JobDone(task[t].r) ELSE job
    BY DEF Throw
  <1>2. task[t].pc \in ForJob => task[t].r \in Deliveries
    BY DEF Inv, TasksOK, TaskOK, ForJob
  <1>3. job' \in [Deliveries -> {"none", "waiting", "active"}] /\ timer' \in [Deliveries -> BOOLEAN]
    BY <1>1, <1>2, JobDoneOK DEF Inv, DeliveryTypeOK
  <1> QED
    BY <1>1, <1>3, ReturnTask, IdleOK, IdleNotRound, WaitsStep

LEMMA RestartStep ==
    ASSUME Inv, Restart
    PROVE  Inv' /\ Grows
  <1>1. /\ task' = [t \in Tasks |-> Idle]
        /\ timer' = [r \in Deliveries |-> FALSE]
        /\ UNCHANGED <<rowVars, offer, avail, billVars>>
    BY DEF Restart
  <1>2. PICK s \in {"waiting", "none"} :
            job' = [r \in Deliveries |-> IF job[r] = "active" THEN s ELSE job[r]]
    BY DEF Restart
  <1>3. TasksOK' /\ task' \in [Tasks -> TaskRecords]
    BY <1>1, IdleOK, IdleAfter DEF TasksOK
  <1>4. Grows
    BY <1>1 DEF rowVars, billVars, Grows, Priced, Charged, Invoiced, Settled, Asked
  <1>5. RowsOK'
    BY <1>1 DEF Inv, RowsOK, RowOK, rowVars, billVars, Priced, Charged, Invoiced, Settled
  <1>6. RoundsOK'
    BY <1>1, IdleNotRound DEF Inv, RoundsOK, Fresh, Asked, rowVars
  <1>7. job' \in [Deliveries -> {"none", "waiting", "active"}] /\ timer' \in [Deliveries -> BOOLEAN]
    BY <1>1, <1>2 DEF Inv, DeliveryTypeOK
  <1>8. DeliveryTypeOK'
    BY <1>1, <1>3, <1>7 DEF Inv, DeliveryTypeOK, TaskRecords, rowVars, billVars
  <1> QED
    BY <1>3, <1>4, <1>5, <1>6, <1>8 DEF Inv

LEMMA StutterStep ==
    ASSUME Inv, UNCHANGED vars
    PROVE  Inv' /\ Grows
  <1>1. Grows
    BY DEF vars, rowVars, billVars, Grows, Priced, Charged, Invoiced, Settled, Asked
  <1>2. RowsOK'
    BY DEF Inv, RowsOK, RowOK, vars, rowVars, billVars, Priced, Charged, Invoiced, Settled
  <1>3. DeliveryTypeOK'
    BY DEF Inv, DeliveryTypeOK, vars, rowVars, waits, billVars
  <1> QED
    BY <1>1, <1>2, <1>3, SameTasks DEF vars, rowVars

LEMMA InitInv == Init => Inv
  <1> SUFFICES ASSUME Init PROVE Inv
    OBVIOUS
  <1>1. DeliveryTypeOK
    <2>1. Idle \in TaskRecords
      BY IdleOK
    <2>2. task \in [Tasks -> TaskRecords]
      BY <2>1 DEF Init
    <2> QED
      BY <2>2 DEF Init, DeliveryTypeOK, TaskRecords, NoBill, NoInvoice, NoPayment
  <1>2. TasksOK
    BY IdleOK DEF Init, TasksOK
  <1>3. RowsOK
    BY DEF Init, RowsOK, RowOK, Charged, Invoiced, Settled, NoInvoice
  <1>4. RoundsOK
    BY IdleNotRound DEF Init, RoundsOK, Fresh, Asked
  <1> QED
    BY <1>1, <1>2, <1>3, <1>4 DEF Inv

LEMMA BeginsInv ==
    ASSUME Inv, NEW t \in Tasks, Begins(t)
    PROVE  Inv' /\ Grows
  <1> USE BookStep, EditReadStep, JobFiresStep, TimerFiresStep, CancelReadStep, PayReadStep,
          AcceptReadStep, DeclineReadStep, AssignReadStep, PickupReadStep, ProofReadStep,
          CompleteReadStep
  <1> QED
    BY DEF Begins

LEMMA ContinuesInv ==
    ASSUME Inv, NEW t \in Tasks, Continues(t)
    PROVE  Inv' /\ Grows
  <1>1. CASE \/ BookWrite(t) \/ Enqueue(t) \/ Release(t) \/ EditWrite(t)
             \/ StartRead(t) \/ StartWrite(t) \/ StartFind(t) \/ StartOffer(t) \/ StartArm(t)
             \/ RoundRead(t) \/ ExpireRound(t) \/ Resolve(t)
    BY <1>1, BookWriteStep, EnqueueStep, ReleaseStep, EditWriteStep, StartReadStep,
       StartWriteStep, StartFindStep, StartOfferStep, StartArmStep, RoundReadStep,
       ExpireRoundStep, ResolveStep
  <1>2. CASE \/ AcceptClaim(t) \/ AcceptLost(t) \/ AcceptWon(t) \/ AcceptOthers(t)
             \/ AcceptAvail(t) \/ DeclineWrite(t) \/ DeclineCheck(t) \/ DeclineCount(t)
    BY <1>2, AcceptClaimStep, AcceptLostStep, AcceptWonStep, AcceptOthersStep, AcceptAvailStep,
       DeclineWriteStep, DeclineCheckStep, DeclineCountStep
  <1>3. CASE \/ CancelFee(t) \/ CancelJob(t) \/ CancelVoid(t) \/ CancelAvail(t) \/ CancelWrite(t)
             \/ AssignVoid(t) \/ AssignAvail(t) \/ AssignWrite(t)
             \/ PickupWrite(t) \/ ProofWrite(t)
    BY <1>3, CancelFeeStep, CancelJobStep, CancelVoidStep, CancelAvailStep, CancelWriteStep,
       AssignVoidStep, AssignAvailStep, AssignWriteStep, PickupWriteStep, ProofWriteStep
  <1>4. CASE \/ Bill(t) \/ IssueInvoice(t) \/ CompleteWrite(t) \/ CompleteAvail(t)
             \/ Pay(t) \/ MarkPaid(t)
    BY <1>4, BillStep, IssueInvoiceStep, CompleteWriteStep, CompleteAvailStep, PayStep, MarkPaidStep
  <1>5. CASE CancelUnfunded(t) \/ BillUnfunded(t) \/ PayUnfunded(t)
    BY <1>5, ReadReturn DEF CancelUnfunded, BillUnfunded, PayUnfunded
  <1> QED
    BY <1>1, <1>2, <1>3, <1>4, <1>5 DEF Continues

LEMMA NextInv == Inv /\ [Next]_vars => Inv'
  <1> SUFFICES ASSUME Inv, [Next]_vars PROVE Inv'
    OBVIOUS
  <1>1. CASE \E t \in Tasks : Begins(t) \/ Continues(t) \/ Throw(t)
    BY <1>1, BeginsInv, ContinuesInv, ThrowStep
  <1>2. CASE \E r \in Deliveries : Refund(r)
    BY <1>2, RefundStep
  <1>3. CASE Restart
    BY <1>3, RestartStep
  <1>4. CASE UNCHANGED vars
    BY <1>4, StutterStep
  <1> QED
    BY <1>1, <1>2, <1>3, <1>4 DEF Next

\* What the calls know, and how rows, postings and rounds go together, holds
\* after any steps of createDelivery to payInvoice, failures included.
THEOREM DeliveryInvariant == Spec => []Inv
  <1>1. Inv /\ [Next]_vars => Inv'
    BY NextInv
  <1> QED
    BY <1>1, InitInv, PTL DEF Spec

\* Type correctness of the rows, postings, jobs and calls of deliveries.
THEOREM DeliveryTypeCorrect == Spec => []DeliveryTypeOK
  <1>1. Inv => DeliveryTypeOK
    BY DEF Inv
  <1> QED
    BY <1>1, DeliveryInvariant, PTL

\* No delivery is COMPLETED without its proof, its charge, its invoice or its
\* transaction, however often completeDelivery throws and is called again.
THEOREM CompletionIsBilled == Spec => []CompletedIsBilled
  <1>1. Inv => CompletedIsBilled
    BY DEF Inv, RowsOK, RowOK, CompletedIsBilled, Charged, Invoiced
  <1> QED
    BY <1>1, DeliveryInvariant, PTL

\* startDispatch asks nobody twice: nobody has an offer when it makes its
\* offers, although a stalled job is run again.
THEOREM RoundsAreFresh == Spec => []RoundIsFresh
  <1>1. Inv => RoundIsFresh
    <2> SUFFICES ASSUME Inv, NEW t \in Tasks, At(t, "start_offer"), NEW d \in task[t].set
                 PROVE  offer[task[t].r][d] = "NONE"
      BY DEF RoundIsFresh
    <2>1. Fresh(task[t].r)
      BY DEF Inv, RoundsOK, RoundPcs, At
    <2>2. d \in Drivers
      BY TasksTyped DEF Inv, TaskRecords
    <2> QED
      BY <2>1, <2>2 DEF Fresh, Asked
  <1> QED
    BY <1>1, DeliveryInvariant, PTL

-----------------------------------------------------------------------------
(* The implementation of DeliveryBill.                                     *)

\* The columns and postings that make a stage.
stageVars == <<method, billed, invoice, settled, refunded>>
BillPcs(t) == Bill(t) \/ IssueInvoice(t) \/ Pay(t) \/ MarkPaid(t)

LEMMA OtherStepsKeepBill ==
    ASSUME Next, ~ (\E t \in Tasks : BillPcs(t)), ~ (\E r \in Deliveries : Refund(r))
    PROVE  UNCHANGED stageVars
  <1>1. ASSUME NEW t \in Tasks, Begins(t)
        PROVE  UNCHANGED stageVars
    BY ZenonT(60), <1>1 DEF Begins, Book, EditRead, JobFires, TimerFires, CancelRead, PayRead, AcceptRead,
                DeclineRead, AssignRead, PickupRead, ProofRead, CompleteRead, OnlyTask,
                rowVars, billVars, stageVars
  <1>2. ASSUME NEW t \in Tasks, Continues(t)
        PROVE  UNCHANGED stageVars
    BY <1>2 DEF BillPcs, Continues, BookWrite, Enqueue, Release, EditWrite, StartRead, StartWrite,
                StartFind, StartOffer, StartArm, RoundRead, ExpireRound, Resolve, AcceptClaim,
                AcceptLost, AcceptWon, AcceptOthers, AcceptAvail, DeclineWrite, DeclineCheck,
                DeclineCount, CancelFee, CancelUnfunded, CancelJob, CancelVoid, CancelAvail,
                CancelWrite, AssignVoid, AssignAvail, AssignWrite, PickupWrite, ProofWrite,
                BillUnfunded, CompleteWrite, CompleteAvail, PayUnfunded, OnlyTask, SetStatus,
                SetOffers, SetAvail, rowVars, billVars, stageVars
  <1>3. ASSUME NEW t \in Tasks, Throw(t)
        PROVE  UNCHANGED stageVars
    BY <1>3 DEF Throw, rowVars, billVars, stageVars
  <1>4. Restart => UNCHANGED stageVars
    BY DEF Restart, rowVars, billVars, stageVars
  <1> QED
    BY SMTT(40), <1>1, <1>2, <1>3, <1>4 DEF Next

LEMMA StageKept ==
    ASSUME UNCHANGED stageVars
    PROVE  UNCHANGED Abstract!vars
  BY DEF stageVars, Abstract!vars, Stage

\* A step moves the stage of one delivery.
LEMMA MoveOK ==
    ASSUME NEW r \in Deliveries, NEW from, NEW to, Stage(r) = from, Stage(r)' = to,
           \A x \in Deliveries : x # r => Stage(x)' = Stage(x)
    PROVE  Abstract!Move(r, from, to)
  BY DEF Abstract!Move

\* The rows of the others are as they were.
Others(r) ==
    \A x \in Deliveries : x # r =>
        /\ billed'[x] = billed[x] /\ invoice'[x] = invoice[x]
        /\ settled'[x] = settled[x] /\ refunded'[x] = refunded[x]

LEMMA OthersKept ==
    ASSUME NEW r \in Deliveries, method' = method, Others(r)
    PROVE  \A x \in Deliveries : x # r => Stage(x)' = Stage(x)
  BY DEF Others, Stage, Charged, Invoiced, Settled

LEMMA BillMoves ==
    ASSUME Inv, NEW t \in Tasks, Bill(t)
    PROVE  [Abstract!Next]_Abstract!vars
  <1>1. PICK r \in Deliveries, d \in Drivers, q \in Fares :
            r = task[t].r /\ d = task[t].d /\ q = task[t].q
    BY EndNext, EndKnows DEF Bill, At
  <1>2. /\ billed' = [billed EXCEPT ![r] = IF @ = NoBill THEN [amount |-> q, driver |-> d] ELSE @]
        /\ UNCHANGED <<rowVars, offer, avail, waits, fee, invoice, settled, refunded>>
    BY <1>1 DEF Bill
  <1>3. CASE billed[r] # NoBill
    <2>1. billed' = billed
      BY <1>2, <1>3 DEF Inv, DeliveryTypeOK
    <2> QED
      BY <1>2, <2>1, StageKept DEF rowVars, stageVars
  <1>4. CASE billed[r] = NoBill
    <2>1. billed' = [billed EXCEPT ![r] = [amount |-> q, driver |-> d]]
      BY <1>2, <1>4
    <2>2. /\ billed'[r] = [amount |-> q, driver |-> d]
          /\ \A x \in Deliveries : x # r => billed'[x] = billed[x]
      BY <2>1 DEF Inv, DeliveryTypeOK
    <2>3. billed'[r] # NoBill /\ billed'[r].amount = q /\ billed'[r].driver = d
      BY <2>2, DeliveryAssumption DEF NoBill
    <2>4. /\ RowOK(r) /\ ~ Charged(r) /\ ~ Invoiced(r) /\ ~ Settled(r)
          /\ ~ invoice[r].paid /\ ~ refunded[r]
      BY <1>4 DEF Inv, RowsOK, RowOK, Charged
    <2>5. Stage(r) = "open"
      BY <1>4, <2>4 DEF Stage, Invoiced, Settled
    <2>6. Stage(r)' = method[r]
      BY <1>2, <2>3, <2>4 DEF Stage, Invoiced, Settled, rowVars
    <2>7. \A x \in Deliveries : x # r => Stage(x)' = Stage(x)
      BY <1>2, <2>2, OthersKept DEF Others, rowVars
    <2>8. method[r] \in {"WALLET", "CASH", "INVOICE"}
      BY DeliveryAssumption DEF Inv, DeliveryTypeOK
    <2>9. Abstract!Move(r, "open", method[r])
      BY <2>5, <2>6, <2>7, MoveOK
    <2> DEFINE charge == [x \in Deliveries |-> billed[x].amount]
               payee == [x \in Deliveries |-> IF method[x] = "INVOICE" THEN settled[x].driver
                                              ELSE billed[x].driver]
    <2>10. charge' = [charge EXCEPT ![r] = q]
      BY <2>2, <2>3
    <2>11. payee' = IF method[r] = "INVOICE" THEN payee ELSE [payee EXCEPT ![r] = d]
      BY <1>2, <2>2, <2>3 DEF rowVars
    <2>12. /\ [x \in Deliveries |-> invoice[x].amount]' = [x \in Deliveries |-> invoice[x].amount]
           /\ [x \in Deliveries |-> settled[x].amount]' = [x \in Deliveries |-> settled[x].amount]
      BY <1>2
    <2>13. Abstract!Charge(r, q, d)
      BY <2>8, <2>9, <2>10, <2>11, <2>12 DEF Abstract!Charge
    <2> QED
      BY <2>13 DEF Abstract!Next
  <1> QED
    BY <1>3, <1>4

LEMMA IssueMoves ==
    ASSUME Inv, NEW t \in Tasks, IssueInvoice(t)
    PROVE  [Abstract!Next]_Abstract!vars
  <1>1. PICK r \in Deliveries, q \in Fares : r = task[t].r /\ q = task[t].q
    BY EndNext, EndKnows DEF IssueInvoice, At
  <1>2. /\ task[t].pc = "issue"
        /\ UNCHANGED <<rowVars, offer, avail, waits, billed, fee, settled, refunded>>
    BY DEF IssueInvoice, At
  <1>3. CASE invoice[r] # NoInvoice
    <2>1. invoice' = invoice
      BY <1>1, <1>3 DEF IssueInvoice
    <2> QED
      BY <1>2, <2>1, StageKept DEF rowVars, stageVars
  <1>4. CASE invoice[r] = NoInvoice
    <2>1. invoice' = [invoice EXCEPT ![r].amount = q]
      BY <1>1, <1>4 DEF IssueInvoice
    <2>2. /\ \A x \in Deliveries : x # r => invoice'[x] = invoice[x]
          /\ invoice'[r] = [NoInvoice EXCEPT !.amount = q]
      BY <1>4, <2>1 DEF Inv, DeliveryTypeOK
    <2>3. invoice'[r].amount = q /\ ~ invoice'[r].paid /\ invoice'[r] # NoInvoice
      BY <2>2, DeliveryAssumption DEF NoInvoice
    <2>4. /\ RowOK(r) /\ ~ Invoiced(r) /\ ~ Settled(r) /\ ~ invoice[r].paid
          /\ method[r] = "INVOICE" /\ Charged(r) /\ ~ refunded[r]
      BY <1>1, <1>2, <1>4, EndNext, EndKnows DEF Inv, RowsOK, RowOK, Invoiced, TaskOK
    <2>5. Stage(r) = "INVOICE"
      BY <1>4, <2>4 DEF Stage, Charged, Settled
    <2>6. Stage(r)' = "invoiced"
      BY <1>2, <2>3, <2>4 DEF Stage, Settled
    <2>7. \A x \in Deliveries : x # r => Stage(x)' = Stage(x)
      BY <1>2, <2>2, OthersKept DEF Others, rowVars
    <2>8. Abstract!Move(r, "INVOICE", "invoiced")
      BY <2>5, <2>6, <2>7, MoveOK
    <2> DEFINE due == [x \in Deliveries |-> invoice[x].amount]
    <2>9. due' = [due EXCEPT ![r] = q]
      BY <2>2, <2>3
    <2>10. Abstract!Issue(r, q)
      BY <1>2, <2>8, <2>9 DEF Abstract!Issue, rowVars
    <2> QED
      BY <2>10 DEF Abstract!Next
  <1> QED
    BY <1>3, <1>4

LEMMA SettleMoves ==
    ASSUME Inv, NEW t \in Tasks, Pay(t)
    PROVE  [Abstract!Next]_Abstract!vars
  <1>1. PICK r \in Deliveries, d \in Drivers, q \in Fares :
            r = task[t].r /\ d = task[t].d /\ q = task[t].q
    BY EndNext, EndKnows DEF Pay, At
  <1> DEFINE payment == [amount |-> invoice[r].amount, tax |-> q, driver |-> d]
  <1>2. /\ task[t].pc = "pay"
        /\ settled' = [settled EXCEPT ![r] = IF @ = NoPayment THEN payment ELSE @]
        /\ UNCHANGED <<rowVars, offer, avail, waits, billed, fee, invoice, refunded>>
    BY <1>1 DEF Pay, At
  <1>3. CASE settled[r] # NoPayment
    <2>1. settled' = settled
      BY <1>2, <1>3 DEF Inv, DeliveryTypeOK
    <2> QED
      BY <1>2, <2>1, StageKept DEF rowVars, stageVars
  <1>4. CASE settled[r] = NoPayment
    <2>1. /\ \A x \in Deliveries : x # r => settled'[x] = settled[x]
          /\ settled'[r] = payment
      BY <1>2, <1>4 DEF Inv, DeliveryTypeOK
    <2>2. settled'[r] # NoPayment /\ settled'[r].amount = invoice[r].amount /\ settled'[r].driver = d
      BY <2>1, DeliveryAssumption DEF NoPayment
    <2>3. /\ RowOK(r) /\ Invoiced(r) /\ ~ Settled(r) /\ ~ invoice[r].paid
          /\ method[r] = "INVOICE" /\ ~ refunded[r]
      BY <1>1, <1>2, <1>4, EndNext, EndKnows DEF Inv, RowsOK, RowOK, Settled, TaskOK
    <2>4. Stage(r) = "invoiced"
      BY <2>3 DEF Stage, Invoiced, Settled
    <2>5. Stage(r)' = "settled"
      BY <1>2, <2>2, <2>3 DEF Stage
    <2>6. \A x \in Deliveries : x # r => Stage(x)' = Stage(x)
      BY <1>2, <2>1, OthersKept DEF Others, rowVars
    <2>7. Abstract!Move(r, "invoiced", "settled")
      BY <2>4, <2>5, <2>6, MoveOK
    <2> DEFINE due == [x \in Deliveries |-> invoice[x].amount]
               paid == [x \in Deliveries |-> settled[x].amount]
               payee == [x \in Deliveries |-> IF method[x] = "INVOICE" THEN settled[x].driver
                                              ELSE billed[x].driver]
    <2>8. paid' = [paid EXCEPT ![r] = due[r]]
      BY <2>1, <2>2
    <2>9. payee' = [payee EXCEPT ![r] = d]
      <3>1. method' = method /\ billed' = billed
        BY <1>2 DEF rowVars
      <3>2. \A x \in Deliveries : x # r => settled'[x] = settled[x]
        BY <2>1
      <3> HIDE DEF payment
      <3> QED
        BY <2>2, <2>3, <3>1, <3>2
    <2>10. Abstract!Settle(r, d)
      BY <1>2, <2>7, <2>8, <2>9 DEF Abstract!Settle
    <2> QED
      BY <2>10 DEF Abstract!Next
  <1> QED
    BY <1>3, <1>4

LEMMA CloseMoves ==
    ASSUME Inv, NEW t \in Tasks, MarkPaid(t)
    PROVE  [Abstract!Next]_Abstract!vars
  <1>1. PICK r \in Deliveries : r = task[t].r
    BY EndNext, EndKnows DEF MarkPaid, At
  <1>2. /\ task[t].pc = "mark_paid"
        /\ invoice' = [invoice EXCEPT ![r].paid = TRUE]
        /\ UNCHANGED <<rowVars, offer, avail, waits, billed, fee, settled, refunded>>
    BY <1>1 DEF MarkPaid, At
  <1>3. /\ RowOK(r) /\ Invoiced(r) /\ Settled(r) /\ ~ refunded[r]
    BY <1>1, <1>2, EndNext, EndKnows DEF Inv, RowsOK, RowOK, TaskOK
  <1>4. invoice[r] \in [amount : Fares, paid : BOOLEAN]
    BY <1>3 DEF Invoiced, Inv, DeliveryTypeOK
  <1>5. /\ \A x \in Deliveries : x # r => invoice'[x] = invoice[x]
        /\ invoice'[r].paid /\ invoice'[r].amount = invoice[r].amount
    BY <1>2, <1>4 DEF Inv, DeliveryTypeOK
  <1>6. Stage(r) = IF invoice[r].paid THEN "closed" ELSE "settled"
    BY <1>3 DEF Stage, Settled
  <1>7. Stage(r)' = "closed"
    BY <1>2, <1>3, <1>5 DEF Stage
  <1>8. \A x \in Deliveries : x # r => Stage(x)' = Stage(x)
    BY <1>2, <1>5, OthersKept DEF Others, rowVars
  <1>9. [x \in Deliveries |-> invoice[x].amount]' = [x \in Deliveries |-> invoice[x].amount]
    BY <1>5
  <1>10. CASE invoice[r].paid
    <2>1. \A x \in Deliveries : Stage(x)' = Stage(x)
      BY <1>6, <1>7, <1>8, <1>10
    <2> QED
      BY <1>2, <1>9, <2>1 DEF Abstract!vars, rowVars
  <1>11. CASE ~ invoice[r].paid
    <2>1. Abstract!Move(r, "settled", "closed")
      BY <1>6, <1>7, <1>8, <1>11, MoveOK
    <2>2. Abstract!Close(r)
      BY <1>2, <1>9, <2>1 DEF Abstract!Close, rowVars
    <2> QED
      BY <2>2 DEF Abstract!Next
  <1> QED
    BY <1>10, <1>11

LEMMA RefundMoves ==
    ASSUME Inv, NEW r \in Deliveries, Refund(r)
    PROVE  [Abstract!Next]_Abstract!vars
  <1>1. /\ linked[r] /\ ~ refunded[r] /\ refunded' = [refunded EXCEPT ![r] = TRUE]
        /\ UNCHANGED <<rowVars, offer, avail, waits, billed, fee, invoice, settled, task>>
    BY DEF Refund
  <1>2. /\ \A x \in Deliveries : x # r => refunded'[x] = refunded[x]
        /\ refunded'[r]
    BY <1>1 DEF Inv, DeliveryTypeOK
  <1>3. /\ RowOK(r) /\ method[r] = "WALLET" /\ Charged(r) /\ ~ Invoiced(r) /\ ~ Settled(r)
        /\ ~ invoice[r].paid
    BY <1>1 DEF Inv, RowsOK, RowOK
  <1>4. Stage(r) = "WALLET" /\ Stage(r)' = "refunded"
    BY <1>1, <1>2, <1>3 DEF Stage, Charged, Invoiced, Settled
  <1>5. \A x \in Deliveries : x # r => Stage(x)' = Stage(x)
    BY <1>1, <1>2, OthersKept DEF Others, rowVars
  <1>6. Abstract!Move(r, "WALLET", "refunded")
    BY <1>4, <1>5, MoveOK
  <1>7. Abstract!Refund(r)
    BY <1>1, <1>6 DEF Abstract!Refund, rowVars
  <1> QED
    BY <1>7 DEF Abstract!Next

\* Every behaviour of deliveries, invoices and refunds, with calls that throw
\* and are made again, takes a bill through the stages of DeliveryBill: charged
\* once, invoiced once, settled once for the invoice's amount, closed after
\* that, refunded only what a wallet paid.
THEOREM ImplementsBill == Spec => BillSpec
  <1>1. Init => Abstract!Init
    BY DEF Init, Abstract!Init, Stage, NoBill, NoInvoice, NoPayment
  <1>2. Inv /\ [Next]_vars => [Abstract!Next]_Abstract!vars
    <2> SUFFICES ASSUME Inv, [Next]_vars PROVE [Abstract!Next]_Abstract!vars
      OBVIOUS
    <2>1. CASE \E t \in Tasks : BillPcs(t)
      BY <2>1, BillMoves, IssueMoves, SettleMoves, CloseMoves DEF BillPcs
    <2>2. CASE \E r \in Deliveries : Refund(r)
      BY <2>2, RefundMoves
    <2>3. CASE Next /\ ~ (\E t \in Tasks : BillPcs(t)) /\ ~ (\E r \in Deliveries : Refund(r))
      BY <2>3, OtherStepsKeepBill, StageKept
    <2>4. CASE UNCHANGED vars
      BY <2>4, StageKept DEF vars, rowVars, billVars, stageVars
    <2> QED
      BY <2>1, <2>2, <2>3, <2>4
  <1> QED
    BY <1>1, <1>2, DeliveryInvariant, PTL DEF Spec, BillSpec, Abstract!Spec

-----------------------------------------------------------------------------
(* The implementation of RideAward, where no administrator assigns.        *)

AssignPcs == {"assign_void", "assign_avail", "assign_write"}
ChargePcs == {"cancel_fee", "bill"}

\* A call that is about to charge charges with the delivery's driver, who is
\* not replaced.
AwardInv ==
    \A t \in Tasks :
        /\ task[t].pc \notin AssignPcs
        /\ task[t].pc \in ChargePcs => driver[task[t].r] = task[t].d

\* A call does not come to charge or to assign on its way: it begins so.
LEMMA BeginsToCharge ==
    ASSUME Inv, ~ Admin, NEW t \in Tasks, Begins(t)
    PROVE  \E k : /\ task' = [task EXCEPT ![t] = k]
                  /\ k.pc \notin AssignPcs
                  /\ k.pc \in ChargePcs => driver[k.r] = k.d
  <1> DEFINE Fine(k) == k.pc \notin AssignPcs /\ (k.pc \in ChargePcs => driver[k.r] = k.d)
  <1>1. ASSUME NEW pc \in Pcs, NEW r \in Deliveries, NEW d \in Drivers \cup {None},
               Call(t, pc, r, d), pc \notin AssignPcs, pc \in ChargePcs => driver[r] = d
        PROVE  \E k : task' = [task EXCEPT ![t] = k] /\ Fine(k)
    BY <1>1, CallTask
  <1>2. ASSUME NEW r \in Deliveries, NEW q \in Fares, NEW s \in {"SCHEDULED", "REQUESTED"},
               Book(t, r, q, s) \/ EditRead(t, r, q)
        PROVE  \E k : task' = [task EXCEPT ![t] = k] /\ Fine(k)
    <2>1. PICK k : k.pc \in {"book_write", "edit_write"} /\ task' = [task EXCEPT ![t] = k]
      <3> DEFINE i == [Idle EXCEPT !.pc = "book_write", !.r = r, !.q = q, !.seen = s]
                 j == [Idle EXCEPT !.pc = "edit_write", !.r = r, !.q = q]
      <3>1. i.pc = "book_write" /\ j.pc = "edit_write"
        BY DEF Idle
      <3>2. task' = [task EXCEPT ![t] = i] \/ task' = [task EXCEPT ![t] = j]
        BY <1>2 DEF Book, EditRead, Begin
      <3> HIDE DEF i, j
      <3> QED
        BY <3>1, <3>2
    <2> QED
      BY <2>1 DEF AssignPcs, ChargePcs
  <1>3. ASSUME NEW r \in Deliveries, PayRead(t, r)
        PROVE  \E k : task' = [task EXCEPT ![t] = k] /\ Fine(k)
    <2> DEFINE k == [Idle EXCEPT !.pc = "pay", !.r = r, !.d = driver[r], !.q = fare[r]]
    <2>1. k.pc = "pay" /\ task' = [task EXCEPT ![t] = k]
      BY <1>3 DEF PayRead, Begin, Idle
    <2> HIDE DEF k
    <2> QED
      BY <2>1 DEF AssignPcs, ChargePcs
  <1>4. ASSUME NEW r \in Deliveries, NEW d \in Drivers, CompleteRead(t, r, d)
        PROVE  \E k : task' = [task EXCEPT ![t] = k] /\ Fine(k)
    <2> DEFINE k == [Idle EXCEPT !.pc = "bill", !.r = r, !.d = d, !.q = fare[r]]
    <2>1. k.pc = "bill" /\ k.r = r /\ k.d = d
      BY DEF Idle
    <2>2. task' = [task EXCEPT ![t] = k] /\ driver[r] = d
      BY <1>4 DEF CompleteRead, Begin
    <2> HIDE DEF k
    <2> QED
      BY <2>1, <2>2 DEF AssignPcs, ChargePcs
  <1>5. ASSUME NEW r \in Deliveries, NEW by \in {"sender", "driver"}, CancelRead(t, r, by)
        PROVE  \E k : task' = [task EXCEPT ![t] = k] /\ Fine(k)
    <2>1. PICK pc \in {"cancel_fee", "cancel_job", "cancel_void", "cancel_avail"} :
              Call(t, pc, r, driver[r])
      BY <1>5 DEF CancelRead, FirstStep
    <2>2. driver[r] \in Drivers \cup {None} /\ pc \in Pcs /\ pc \notin AssignPcs
      BY CancelPcs DEF Inv, DeliveryTypeOK, AssignPcs
    <2> QED
      BY <2>1, <2>2, <1>1
  <1>6. ASSUME NEW r \in Deliveries, NEW d \in Drivers,
               \/ AcceptRead(t, r, d) \/ DeclineRead(t, r, d)
               \/ PickupRead(t, r, d) \/ ProofRead(t, r, d)
        PROVE  \E k : task' = [task EXCEPT ![t] = k] /\ Fine(k)
    <2>1. PICK pc \in {"accept_claim", "decline_write", "pickup_write", "proof_write"} :
              Call(t, pc, r, d)
      BY <1>6 DEF AcceptRead, DeclineRead, PickupRead, ProofRead
    <2>2. pc \in Pcs /\ pc \notin AssignPcs \cup ChargePcs
      BY DEF Pcs, ForJob, AssignPcs, ChargePcs
    <2> QED
      BY <2>1, <2>2, <1>1
  <1>7. ASSUME NEW r \in Deliveries, JobFires(t, r) \/ TimerFires(t, r)
        PROVE  \E k : task' = [task EXCEPT ![t] = k] /\ Fine(k)
    <2>1. PICK pc \in {"release", "round_read"} : Call(t, pc, r, None)
      BY <1>7 DEF JobFires, TimerFires
    <2>2. pc \in Pcs /\ pc \notin AssignPcs \cup ChargePcs
      BY DEF Pcs, ForJob, AssignPcs, ChargePcs
    <2> QED
      BY <2>1, <2>2, <1>1
  <1>8. ~ \E r \in Deliveries, d \in Drivers : AssignRead(t, r, d)
    BY DEF AssignRead
  <1> HIDE DEF Fine
  <1>9. \E k : task' = [task EXCEPT ![t] = k] /\ Fine(k)
    BY <1>2, <1>3, <1>4, <1>5, <1>6, <1>7, <1>8 DEF Begins
  <1> QED
    BY <1>9 DEF Fine

\* The steps of a call: where it goes, and the claim of a delivery that nobody has.
LEMMA ContinuesToCharge ==
    ASSUME Inv, AwardInv, NEW t \in Tasks, Continues(t)
    PROVE  /\ \A u \in Tasks : u # t => task'[u] = task[u]
           /\ task'[t].pc \notin AssignPcs \cup ChargePcs
           /\ \A r \in Deliveries : driver'[r] = driver[r] \/ driver[r] = None
  <1>1. task \in [Tasks -> TaskRecords] /\ task[t].pc \notin AssignPcs
    BY TasksTyped DEF Inv, AwardInv
  <1>2. CASE AcceptClaim(t)
    <2>1. \E pc \in {"accept_won", "accept_lost"} : Goto(t, pc)
      BY <1>2 DEF AcceptClaim
    <2>2. \A r \in Deliveries : driver'[r] = driver[r] \/ driver[r] = None
      BY <1>2 DEF AcceptClaim, Claimable, Inv, DeliveryTypeOK
    <2> QED
      BY <1>1, <2>1, <2>2 DEF Goto, TaskRecords, AssignPcs, ChargePcs
  <1>3. CASE ~ AcceptClaim(t)
    <2>1. driver' = driver
      BY <1>1, <1>3 DEF Continues, BookWrite, Enqueue, Release, EditWrite, StartRead, StartWrite,
         StartFind, StartOffer, StartArm, RoundRead, ExpireRound, Resolve,
         AcceptLost, AcceptWon, AcceptOthers, AcceptAvail, DeclineWrite, DeclineCheck,
         DeclineCount, CancelFee, CancelUnfunded, CancelJob, CancelVoid, CancelAvail,
         CancelWrite, AssignVoid, AssignAvail, AssignWrite, PickupWrite, ProofWrite,
         Bill, BillUnfunded, IssueInvoice, CompleteWrite, CompleteAvail, Pay, PayUnfunded,
         MarkPaid, OnlyTask, SetStatus, SetOffers, SetAvail, rowVars, At, AssignPcs
    <2>2. \/ Return(t)
          \/ \E pc \in Pcs \ (AssignPcs \cup ChargePcs) : Goto(t, pc)
          \/ StartFind(t) \/ StartOffer(t)
      BY <1>1, <1>3 DEF Continues, BookWrite, Enqueue, Release, EditWrite, StartRead, StartWrite,
         StartArm, RoundRead, ExpireRound, Resolve,
         AcceptLost, AcceptWon, AcceptOthers, AcceptAvail, DeclineWrite, DeclineCheck,
         DeclineCount, CancelFee, CancelUnfunded, CancelJob, CancelVoid, CancelAvail,
         CancelWrite, AssignVoid, AssignAvail, AssignWrite, PickupWrite, ProofWrite,
         Bill, BillUnfunded, IssueInvoice, CompleteWrite, CompleteAvail, Pay, PayUnfunded,
         MarkPaid, At, AssignPcs, ChargePcs, Pcs, ForJob
    <2>3. \E k : task' = [task EXCEPT ![t] = k] /\ k.pc \notin AssignPcs \cup ChargePcs
      <3>1. CASE Return(t)
        BY <3>1, IdleOK DEF Return, AssignPcs, ChargePcs
      <3>2. CASE \E pc \in Pcs \ (AssignPcs \cup ChargePcs) : Goto(t, pc)
        BY <3>2, OnwardOK
      <3>3. CASE StartFind(t)
        <4>1. PICK found :
                  task' = [task EXCEPT ![t].set = found,
                                       ![t].pc = IF found = {} THEN "resolve" ELSE "start_offer"]
          BY <3>3 DEF StartFind
        <4> DEFINE k == [task[t] EXCEPT !.set = found,
                                        !.pc = IF found = {} THEN "resolve" ELSE "start_offer"]
        <4>2. k.pc \in {"resolve", "start_offer"}
          BY <1>1 DEF TaskRecords
        <4>3. task' = [task EXCEPT ![t] = k]
          BY <1>1, <4>1
        <4> HIDE DEF k
        <4> QED
          BY <4>2, <4>3 DEF AssignPcs, ChargePcs
      <3>4. CASE StartOffer(t)
        <4> DEFINE k == [task[t] EXCEPT !.pc = "start_arm", !.set = {}]
        <4>1. k.pc = "start_arm"
          BY <1>1 DEF TaskRecords
        <4>2. task' = [task EXCEPT ![t] = k]
          BY <1>1, <3>4 DEF StartOffer
        <4> HIDE DEF k
        <4> QED
          BY <4>1, <4>2 DEF AssignPcs, ChargePcs
      <3> QED
        BY <2>2, <3>1, <3>2, <3>3, <3>4
    <2> QED
      BY SMTT(40), <1>1, <2>1, <2>3
  <1> QED
    BY <1>2, <1>3

LEMMA AwardInvInit == Init => AwardInv
  BY IdleOK DEF Init, AwardInv, AssignPcs, ChargePcs

LEMMA AwardInvNext ==
    ASSUME Inv, AwardInv, ~ Admin, [Next]_vars
    PROVE  /\ AwardInv'
           /\ \A r \in Deliveries : driver'[r] = driver[r] \/ driver[r] = None
  <1>1. task \in [Tasks -> TaskRecords]
    BY TasksTyped DEF Inv
  <1>2. \A u \in Tasks : task[u].pc \in ChargePcs => task[u].r \in Deliveries /\ task[u].d \in Drivers
    BY BusyPcs DEF Inv, TasksOK, TaskOK, ChargePcs, DriverPcs
  <1>3. ASSUME NEW t \in Tasks, Begins(t)
        PROVE  AwardInv' /\ driver' = driver
    <2>1. driver' = driver
      BY ZenonT(60), <1>3 DEF Begins, Book, EditRead, JobFires, TimerFires, CancelRead, PayRead, AcceptRead,
                  DeclineRead, AssignRead, PickupRead, ProofRead, CompleteRead, OnlyTask, rowVars
    <2>2. PICK k : /\ task' = [task EXCEPT ![t] = k]
                   /\ k.pc \notin AssignPcs
                   /\ k.pc \in ChargePcs => driver[k.r] = k.d
      BY <1>3, BeginsToCharge
    <2> QED
      BY SMTT(40), <1>1, <2>1, <2>2 DEF AwardInv
  <1>4. ASSUME NEW t \in Tasks, Continues(t)
        PROVE  AwardInv' /\ \A r \in Deliveries : driver'[r] = driver[r] \/ driver[r] = None
    <2>1. /\ \A u \in Tasks : u # t => task'[u] = task[u]
          /\ task'[t].pc \notin AssignPcs \cup ChargePcs
          /\ \A r \in Deliveries : driver'[r] = driver[r] \/ driver[r] = None
      BY <1>4, ContinuesToCharge
    <2>2. \A u \in Tasks : task[u].pc \in ChargePcs => driver'[task[u].r] = task[u].d
      BY <1>2, <2>1, DeliveryAssumption DEF AwardInv
    <2> QED
      BY <2>1, <2>2 DEF AwardInv
  <1>5. ASSUME NEW t \in Tasks, Throw(t)
        PROVE  AwardInv' /\ driver' = driver
    BY <1>1, <1>5, IdleOK DEF Throw, Return, rowVars, AwardInv, AssignPcs, ChargePcs
  <1>6. CASE Restart
    BY <1>6, IdleOK DEF Restart, rowVars, AwardInv, AssignPcs, ChargePcs
  <1>7. ASSUME NEW r \in Deliveries, Refund(r)
        PROVE  AwardInv' /\ driver' = driver
    BY <1>7 DEF Refund, rowVars, AwardInv
  <1>8. CASE UNCHANGED vars
    BY <1>8 DEF vars, rowVars, AwardInv
  <1> QED
    BY <1>3, <1>4, <1>5, <1>6, <1>7, <1>8 DEF Next

\* The steps that do not touch what is awarded or charged.
LEMMA OtherStepsKeepAward ==
    ASSUME Next, ~ Admin, Inv, AwardInv,
           ~ (\E t \in Tasks : AcceptClaim(t) \/ CancelFee(t) \/ Bill(t))
    PROVE  driver' = driver /\ billed' = billed /\ fee' = fee
  <1>1. ASSUME NEW t \in Tasks, Begins(t)
        PROVE  driver' = driver /\ billed' = billed /\ fee' = fee
    BY ZenonT(60), <1>1 DEF Begins, Book, EditRead, JobFires, TimerFires, CancelRead, PayRead, AcceptRead,
                DeclineRead, AssignRead, PickupRead, ProofRead, CompleteRead, OnlyTask,
                rowVars, billVars
  <1>2. ASSUME NEW t \in Tasks, Continues(t)
        PROVE  driver' = driver /\ billed' = billed /\ fee' = fee
    <2>1. ~ AssignWrite(t)
      BY DEF AwardInv, AssignPcs, AssignWrite, At
    <2> QED
      BY <1>2, <2>1 DEF Continues, BookWrite, Enqueue, Release, EditWrite, StartRead, StartWrite,
                StartFind, StartOffer, StartArm, RoundRead, ExpireRound, Resolve,
                AcceptLost, AcceptWon, AcceptOthers, AcceptAvail, DeclineWrite, DeclineCheck,
                DeclineCount, CancelUnfunded, CancelJob, CancelVoid, CancelAvail,
                CancelWrite, AssignVoid, AssignAvail, PickupWrite, ProofWrite,
                BillUnfunded, IssueInvoice, CompleteWrite, CompleteAvail, Pay, PayUnfunded,
                MarkPaid, OnlyTask, SetStatus, SetOffers, SetAvail, rowVars, billVars
  <1>3. ASSUME NEW t \in Tasks, Throw(t)
        PROVE  driver' = driver /\ billed' = billed /\ fee' = fee
    BY <1>3 DEF Throw, rowVars, billVars
  <1>4. Restart => driver' = driver /\ billed' = billed /\ fee' = fee
    BY DEF Restart, rowVars, billVars
  <1>5. ASSUME NEW r \in Deliveries, Refund(r)
        PROVE  driver' = driver /\ billed' = billed /\ fee' = fee
    BY <1>5 DEF Refund, rowVars
  <1> QED
    BY <1>1, <1>2, <1>3, <1>4, <1>5 DEF Next

LEMMA AwardMoves ==
    ASSUME Inv, AwardInv, NEW t \in Tasks, AcceptClaim(t) \/ CancelFee(t) \/ Bill(t)
    PROVE  [Award!Next]_Award!vars
  <1> DEFINE fare0 == [x \in Deliveries |-> billed[x].driver]
  <1>0. driver \in [Deliveries -> Drivers \cup {None}] /\ fee \in [Deliveries -> Drivers \cup {None}]
    BY DEF Inv, DeliveryTypeOK
  <1>1. CASE AcceptClaim(t)
    <2>1. PICK r \in Deliveries, d \in Drivers : r = task[t].r /\ d = task[t].d
      BY <1>1, AnswerKnows, AnswerNext DEF AcceptClaim, At
    <2>2. billed' = billed /\ fee' = fee
      BY <1>1 DEF AcceptClaim, billVars
    <2>3. CASE Claimable(r)
      <3>1. driver[r] = None /\ driver' = [driver EXCEPT ![r] = d]
        BY <1>1, <2>1, <2>3 DEF AcceptClaim, Claimable
      <3>2. Award!Award(r, d)
        BY <2>2, <3>1 DEF Award!Award
      <3> QED
        BY <3>2 DEF Award!Next
    <2>4. CASE ~ Claimable(r)
      <3>1. driver' = driver
        BY <1>1, <2>1, <2>4 DEF AcceptClaim
      <3> QED
        BY <2>2, <3>1 DEF Award!vars
    <2> QED
      BY <2>3, <2>4
  <1>2. CASE CancelFee(t)
    <2>1. task[t].pc = "cancel_fee"
      BY <1>2 DEF CancelFee, At
    <2>2. PICK r \in Deliveries, d \in Drivers : r = task[t].r /\ d = task[t].d
      BY <2>1, BookedKnows, CancelPcs
    <2>3. driver[r] = d
      BY <2>1, <2>2 DEF AwardInv, ChargePcs
    <2>4. /\ fee' = [fee EXCEPT ![r] = IF @ = None THEN d ELSE @]
          /\ driver' = driver /\ billed' = billed
      BY <1>2, <2>2 DEF CancelFee, rowVars
    <2>5. CASE fee[r] = None
      <3>1. fee' = [fee EXCEPT ![r] = driver[r]] /\ driver[r] # None
        BY <2>3, <2>4, <2>5, DeliveryAssumption
      <3>2. Award!ChargeFee(r)
        BY <2>4, <2>5, <3>1 DEF Award!ChargeFee
      <3> QED
        BY <3>2 DEF Award!Next
    <2>6. CASE fee[r] # None
      <3>1. fee' = fee
        BY <1>0, <2>4, <2>6
      <3> QED
        BY <2>4, <3>1 DEF Award!vars
    <2> QED
      BY <2>5, <2>6
  <1>3. CASE Bill(t)
    <2>1. task[t].pc = "bill"
      BY <1>3 DEF Bill, At
    <2>2. PICK r \in Deliveries, d \in Drivers, q \in Fares :
              r = task[t].r /\ d = task[t].d /\ q = task[t].q
      BY <2>1, EndNext, EndKnows
    <2>3. driver[r] = d
      BY <2>1, <2>2 DEF AwardInv, ChargePcs
    <2>4. /\ billed' = [billed EXCEPT ![r] = IF @ = NoBill THEN [amount |-> q, driver |-> d] ELSE @]
          /\ driver' = driver /\ fee' = fee
      BY <1>3, <2>2 DEF Bill, rowVars
    <2>5. CASE billed[r] = NoBill
      <3>1. /\ \A x \in Deliveries : x # r => billed'[x] = billed[x]
            /\ billed'[r] = [amount |-> q, driver |-> d]
        BY <2>4, <2>5 DEF Inv, DeliveryTypeOK
      <3>2. billed'[r].driver = d
        BY <3>1
      <3>3. \A x \in Deliveries : x # r => billed'[x] = billed[x]
        BY <3>1
      <3>4. fare0' = [fare0 EXCEPT ![r] = driver[r]]
        BY <2>3, <3>2, <3>3
      <3>5. fare0[r] = None /\ driver[r] # None
        BY <2>3, <2>5, DeliveryAssumption DEF NoBill
      <3>6. Award!ChargeFare(r)
        BY <2>4, <3>4, <3>5 DEF Award!ChargeFare
      <3> QED
        BY <3>6 DEF Award!Next
    <2>6. CASE billed[r] # NoBill
      <3>1. billed' = billed
        BY <2>4, <2>6 DEF Inv, DeliveryTypeOK
      <3> QED
        BY <2>4, <3>1 DEF Award!vars
    <2> QED
      BY <2>5, <2>6
  <1> QED
    BY <1>1, <1>2, <1>3

\* Without an administrator who assigns drivers, a delivery is awarded to a
\* driver once and for good, and its charge and its cancellation fee are each
\* made once, with that driver (acceptOffer, cancelDelivery, completeDelivery).
THEOREM ImplementsDeliveryAward ==
    ASSUME ~ Admin
    PROVE  Spec => AwardSpec
  <1>1. Init => Award!Init
    BY DEF Init, Award!Init, Award!NoDriver, NoBill
  <1>2. Inv /\ AwardInv /\ [Next]_vars => AwardInv'
    BY AwardInvNext
  <1>3. Inv /\ AwardInv /\ [Next]_vars => [Award!Next]_Award!vars
    <2> SUFFICES ASSUME Inv, AwardInv, [Next]_vars PROVE [Award!Next]_Award!vars
      OBVIOUS
    <2>1. CASE \E t \in Tasks : AcceptClaim(t) \/ CancelFee(t) \/ Bill(t)
      BY <2>1, AwardMoves
    <2>2. CASE Next /\ ~ (\E t \in Tasks : AcceptClaim(t) \/ CancelFee(t) \/ Bill(t))
      BY <2>2, OtherStepsKeepAward DEF Award!vars
    <2>3. CASE UNCHANGED vars
      BY <2>3 DEF vars, rowVars, billVars, Award!vars
    <2> QED
      BY <2>1, <2>2, <2>3
  <1>4. Spec => []AwardInv
    BY <1>2, AwardInvInit, DeliveryInvariant, PTL DEF Spec
  <1> QED
    BY <1>1, <1>3, <1>4, DeliveryInvariant, PTL DEF Spec, AwardSpec, Award!Spec
=============================================================================
