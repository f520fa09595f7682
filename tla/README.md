# A formal model of the Kilo backend

TLA+ models of the Kilo backend (NestJS, Prisma on PostgreSQL, Redis, Bull,
Paystack): the wallet's ledger, the matching of rides and deliveries with
drivers, trips and their bills, the money that crosses the payment gateway, and
around them accounts, onboarding, prices, offers, support and the figures that
the back office is shown. TLC checks the models on small instances; TLAPS
proves the main invariants for every value of the constants. `PROJECT.json`
maps each definition to the source lines it models.

## The system

One Node process (or several behind a load balancer) serves REST and WebSocket
requests. A handler is an `async` method: it reads rows, awaits, writes rows,
awaits again. At every `await` other requests run, and with several processes
they run anywhere. Nothing but PostgreSQL serialises them, and Prisma is used
without explicit locks: what protects a row is a conditional `updateMany`, a
unique index, or a `$transaction`. Everything else is check-then-act.

| Part | State | Operations | What makes it correct |
|---|---|---|---|
| Ledger (`wallet.service`) | accounts, transactions by reference, ledger rows | fifteen posting methods, refund | double entry, no overdraft, one posting per reference, append-only |
| Payments (`payments.service`, webhooks) | top-up and withdrawal requests, cards, the driver's unsettled counter | top up, poll, charge webhook, withdraw, transfer webhook | credited once and in full, a failure undone, the clearing account agrees with Paystack, one default card |
| Dispatch (`dispatch.service`) | rides, offers, drivers' availability and positions, a timer per round | start, accept, decline, expire | one driver per ride, the search ends, offers close |
| Trip (`trip.service`) | the ride's status, its payment | arrive, start, complete | a completed ride is paid once, with its driver |
| Cancellation (`cancellation.service`) | the ride's status, its fee | cancel by rider or driver | a late cancellation is charged, a cancelled ride stays cancelled |
| Booking (`rides.service`) | rides, share links, ratings | quote, create, share | a booked ride is dispatched, and costs what was quoted |
| Deliveries (`logistics/*`) | deliveries, stops, offers, scheduled jobs, proof, invoices | book, schedule, dispatch, assign, pick up, complete, cancel, dispute, pay an invoice | as rides; billed once, one invoice per business delivery, timeline in order |
| Businesses (`business/*`) | credit limit, members, invoices | invite, book, pay, suspend | roles and companies agree, an invoice settled once |
| Promo codes (`promo`) | codes, redemptions | validate, redeem, edit | limits passed by no more than the calls under way |
| Referrals, partners (`partnerships`) | codes, accruals, payouts, claims, fleets | redeem, accrue, pay out, claim | paid out once, one fleet per driver |
| Battery swaps (`kilowatt`) | batteries per station, reservations | reserve, administer | never more sold than there are |
| Pricing, areas, configuration | tariffs, rules, areas, values; caches in Redis | read through, update | the tariff made for the trip; caches catch up |
| Fares (`pricing`, `quote.service`) | none of their own | quote, book, pay, cancel | a fare adds up and is divided whole |
| Accounts (`accounts`) | codes, reset links, refresh tokens, users, invitations | send and verify a code, log in, refresh, suspend, invite, register | attempts bounded, a link used once, roles and companies agree |
| KYC (`kyc`) | documents, guarantors | upload, review, invite, confirm | one guarantor, verified only with a form |
| Support (`support`) | tickets, messages | open, reply, assign, escalate, resolve | stamps and status agree |
| Notifications | devices, preferences, notifications, campaigns | send, push, fan out | a campaign marked sent reached everyone |
| Saved places, plates, idempotency keys | their rows | save, relabel, claim, replay | no more of each than there are calls at once |
| Back office (`admin-ops`, `reports`, `activity`, `analytics`, `admin-finance`) | none of their own | reads of rows, ledger and positions | figures of one thing agree on every screen, money is explained by trips |
| Charts (`time-bucket.util`) | none of their own | buckets, keys | a row is counted in one bucket |
| Audit, health, renderers, adapters | none of their own | log rows, layout, HTTP calls | - |

How they meet: `rides` and `logistics` post to the ledger through
`WalletService` (fare, commission, fee) and share `DriverStatus` (availability,
service mode, the counter of unsettled cash trips). `payments` posts to the
ledger and resets that counter through `settleCommission`. The gateway calls
back through `wallet-webhooks.controller`. `rides.service` starts the dispatch
without awaiting it; dispatch arms a `setTimeout` in the same process. A
scheduled delivery is released by a job in Redis, which survives a restart.
Businesses are billed when a delivery completes and pay through the ledger.
Pricing, configuration and areas are read by all of them through Redis. The
back office reads everybody's rows with queries of its own.

## Modules

| Module | Models | Proofs |
|---|---|---|
| `Ledger` | `wallet.service.ts` | `DriverMoneyProofs` (first part) |
| `RideAward` | what booking, dispatch, trip and cancellation promise together (abstract) | |
| `RideDispatch` | `dispatch.service.ts`, `trip.service.ts`, `cancellation.service.ts`, the end of `createRide`; implements `RideAward` | `RideDispatchProofs` |
| `DriverMoney` | `payments.service.ts`, the webhook controller, the commission methods of `wallet.service.ts`; EXTENDS `Ledger` | `DriverMoneyProofs` |
| `DeliveryBill` | what a delivery's charge, invoice, payment and refund promise (abstract) | |
| `Delivery` | `logistics.service.ts`, `logistics-dispatch.service.ts`, `logistics-trip.service.ts`, `admin-logistics.service.ts`, `business-invoices.service.ts`; implements `DeliveryBill` and, without an administrator, `RideAward` | `DeliveryProofs` |
| `Tracking` | the timeline, the receiver's code, the tracking screens of a delivery | |
| `Sessions` | `auth.service.ts`, `otp.service.ts`, `sessions.service.ts`, `users.service.ts` | |
| `Membership` | `invites.service.ts`, `business.service.ts` (team), `social-auth.service.ts`, `email-verification.service.ts` | |
| `Onboarding` | `kyc.service.ts`, `guarantor.service.ts` | |
| `Offers` | `promo.service.ts`, `partnerships/*`, `battery-swap.service.ts` | |
| `Pricing` | `pricing.service.ts` (tables), `service-areas`, `platform-config`, and their Redis entries | |
| `Fares` | `pricing.service.ts` (formula), `quote.service.ts`, the amounts of completion and cancellation | |
| `Notices` | `notifications.service.ts`, `notifications.processor.ts` | |
| `Tickets` | `support.service.ts` with its cards, export and report | |
| `Books` | the rows and postings that whole calls leave behind | |
| `Figures` | the queries over them in `admin-ops`, `admin-finance`, `reports`, `business`, `activity`, `wallet-history`, `fleet-partners`; EXTENDS `Books` | |
| `Roster` | who there is: users, availability, positions, documents, and the screens that count them | |
| `Uniques` | saved places, saved cards, plates, fleets, share links, idempotency keys | |
| `Charts` | `time-bucket.util.ts` | |
| `MCLedger`, `MCRideDispatch`, `MCDriverMoney`, `MCDelivery` | the finite instances of the module they EXTEND | |
| `MCAccounts`, `MCOffice` | the finite instances of the two compositions | |
| `Accounts` | `Sessions`, `Membership`, `Onboarding` side by side | `AccountsProofs` |
| `Services` | `Offers`, `Pricing`, `Notices`, `Tickets` side by side | `ServicesProofs` |
| `Office` | `Figures`, `Fares`, `Roster`, `Uniques`, `Charts`, `Tracking` side by side | `OfficeProofs`, `ScreenProofs` |
| `Sums` | lemmas about finite sets and the sums over them, for all of the proofs | its own |

The three compositions put components side by side that share no row. Their initial
state picks the component (`part`) a behaviour is about, so a run explores the
sum and not the product of them.

### Ledger

The ledger is one record: `balance` per account, `txs` (status and entries per
reference) and `rows` (the ledger entries of each account, with their
`balanceAfter`). An account is its owner and its type. `CanPost` and `Posted`
are `postTransactionEntries`: an existing reference returns early, unbalanced
entries are refused, a debit of a user's account must be covered
(`WHERE balance >= amount`), platform accounts have no guard. Each posting
method is an `...Entries` operator giving a signed amount per account. `Post`,
`PayInvoice` (two postings in one database transaction) and `Refund` are the
actions. A posting is one step because it is one database transaction whose
account rows are locked by their updates and whose reference is unique: of two
that overlap with one reference, the second finds it or is rolled back by the
unique index.

### RideDispatch

Variables are the columns the handlers write: `status`, `driver`, `method`,
`offer`, `avail`, `cancelledBy`, and what was posted for a ride (`fare`, `fee`,
`counted`: to whom, and how often it was counted). A call in progress is a
*task*: a program counter and what the call read. There is one action per
database statement. The guard of an action is the condition the code checks *at
that statement*; a check made earlier is in the task. So `StartRead` looks at the status and
`StartWrite` writes `DISPATCHING` whatever the status has become, as the code
does; `AcceptClaim` is guarded, because `updateMany ... WHERE` is. The timer of
a round is the same task waiting in `timer`. `Throw` ends a call wherever it
is, `Restart` ends all of them and every timer.

`RideAward` says what must survive all of this: a ride is awarded at most once
and for good, and fare and fee are each charged at most once, after the award,
with its winner. `AwardSpec` is checked and proved with `winner <- driver`.

### DriverMoney

The same construction over the ledger: `AccrueLook`..`AccrueCount` is
`recordCashRideCommission` (and its delivery twin), `SettleLook`..`SettleReset`
is `settleCommission`, a subroutine that returns to `task.next`. Top-ups go
through `TopUpRow`/`TopUpCheckout`/`ChargeCard`/`TopUpAccount`, a webhook or a
poll enters at `Verify`, then `LookCredited`, `ReadDebt`, and either
`CreditAll` or the settlement and `CreditRest`. A withdrawal is `WithdrawRead`
to `WithdrawSend`; a refusal or a failure webhook enters at `RefundWithdrawal`.
The gateway is external: `charge` and `transfer` are its records, `events` the
transfer webhooks it may deliver, again and in any order.

### Delivery

Tasks again, one action per statement. A delivery is booked now or for later:
`Book`/`BookWrite`, then `Enqueue` and the job (`job`: waiting, active, none)
or the search. `JobFires`/`Release` is the queue's processor; a job that was
active when the process stopped is run again or has failed. `StartRead` to
`StartArm` make the round, `TimerFires`/`RoundRead`/`ExpireRound`/`Resolve` end
it, `Accept*` and `Decline*` answer it. `Assign*` is the administrator's
override, which writes over whatever the delivery became. `CompleteRead`,
`Bill`, `IssueInvoice`, `CompleteWrite` are the completion, whose posting is
made once per reference and whose invoice is unique per delivery, so that a
call that threw midway can be made again. `Pay`/`MarkPaid` pay the invoice,
`Refund` settles a dispute.

`DeliveryBill` is the life of a bill: open, charged in one of three ways, then
refunded once, or invoiced, settled for the amount of the invoice, and closed.
`Delivery` maps its postings and rows to those stages (`Stage`).

### Accounts, services

`Sessions`, `Membership`, `Onboarding`, `Offers`, `Pricing`, `Notices` and
`Tickets` use the same tasks for every handler that reads before it writes. A
`$transaction` is one step. Rows are sequences or records in order of their
creation where the code takes the latest; secrets are the row they belong to.
Expiry may happen at any moment, since no property is about how long.
`Onboarding` has one variable the code has not: `stale`, the guarantors' rows
that a call wrote, or made, by a reading that no longer held.

### The back office

`Books` writes what whole calls leave behind (their interleavings are in
`RideDispatch`, `Delivery`, `DriverMoney`): trips with their status, method,
fare and fee, invoices, withdrawals, postings. `Figures` has an operator for
each query of the back office, named after the method that makes it, with that
query's own filters, and says which of them must be equal. `Roster` does the
same for people, over three sources that are written apart: users, the
availability table and the Redis set of positions. `Charts` and `Tracking` do
it for buckets and for the screens of one delivery. A wrong filter, the
commonest fault of such code, is a disagreement between two figures.

`Uniques` interleaves instead: every statement of its handlers is a step, calls
overlap, and `Throw` ends one before any of its statements, by an error or with
the process; so `removeCard` may delete and never promote, and the handler of a
request may have worked and leave no key. Two variables remember what no row
says: `lapsed` (a removal cut off, or a write by an old reading, since there was
a default) and `lost` (runs whose key was not written).

## What is checked

| Run | Instance | Question |
|---|---|---|
| `ledger` | two owners, three references, amounts 1 and 2 | do sequences of postings, invoice payments and refunds keep the books |
| `ride_races` | one ride, two drivers, two calls at once, faults, manual start | which promises survive every interleaving and failure |
| `ride_live` | one ride, two drivers, two calls, fairness | has a search something that ends it, is NO_DRIVERS_FOUND clean, does a search end and an offer close |
| `money_turns` | a driver's and a rider's payment, a withdrawal, a cash trip, one call at a time | are sequences right, with repeated and reordered webhooks |
| `money_races` | a rider's payment, a withdrawal, a cash trip, two calls, faults | what do lookups and order still protect under races and lost answers |
| `money_live` | a driver's payment, a withdrawal and a debt, two calls, fairness | is money taken credited, a failed transfer undone |
| `deliveries` | one delivery by wallet, cash or invoice, one driver, two calls, faults, an administrator | is what is completed delivered, billed and invoiced once; are only drivers of the present round asked |
| `delivery_live` | one delivery, two drivers, two calls, fairness | is a delivery awarded like a ride, does a scheduled one get released and its search end |
| `accounts` | an account, or two and an address, or a driver; two calls | do links work once, are guesses bounded, do roles fit companies, has a driver one guarantor |
| `services` | a code, a station, an offer; tables of prices; a campaign; a ticket; two calls | is nothing sold or paid twice, do caches catch up, is a stopped fan-out finished, do stamps agree |
| `office` | a rider, two drivers, a company, two trips; fares; people; places, cards, plates, links, keys; charts; a timeline | do figures agree on every screen, is a fare whole, how many of a kind can overlap and failure leave |
| `money_credited_twice` | a driver's payment, two calls | expects a violation, see below |

The properties, by what they protect:

* Books: `NoOverdraft`, `RunningBalance` (a balance is the sum of its rows),
  `PostedOnce`, `RefundMatches`, `Conservation`, `InvoiceIsWhole`,
  `AppendOnly` (proved).
* Rides: `AcceptedOfferIsDriver`, `DriverBeforeTrip` (proved), `CompletedIsPaid`,
  `AwardSpec`, `DispatchIsDriven`, `NoDriversIsFinal`; liveness `SearchEnds`,
  `OffersClose`.
* Gateway: `CreditedExactly` (calls in turn), `RiderCreditedExactly` (any
  interleaving, faults), `CreditedIsCharged`, `FailedIsRefunded`,
  `GatewayReconciles`; liveness `ChargeIsCredited`, `FailureIsUndone`.
* Deliveries: `CompletedIsBilled`, `RoundIsFresh`, `BillSpec`, `AwardSpec`;
  liveness `SearchEnds`.
* Accounts: `ResetIsOnce`, `AttemptsAreBounded`, `MembersHaveRoles`,
  `OneGuarantor`.
* Services: `PayoutOnce`, `LimitsHold`, `TariffFits`, `SentToAll`,
  `TicketStamped`; liveness `CatchesUp`.
* Back office: `FareIsWhole`, `QuoteIsCharged`, `ScreensAgree` (money, people,
  charts, timeline), `BooksExplained`, `OverlapIsBounded`.

Each property has a mutant: the model changed the way a plausible bug would
change the code, under which TLC finds the property violated. Mutants stand
beside the definition they replace. `ScreensAgree` has four, one per part,
`OverlapIsBounded` two.

Every module also has its type invariant (`TypeOK`, `DeliveryTypeOK`,
`AccountsTypeOK`, `ServicesTypeOK`, ...). They hold on these instances; no
run lists them, because a type says little. All are proved.

### Bounds, and why they are enough

* `Tasks` is how many calls overlap. A race needs two writers; two calls show
  every pairwise race. What holds for any number of calls is proved where it
  could be.
* One ride, one delivery: they share with others only `avail`, which in the
  faulty runs the drivers also set at will (`Switches`), and the business's
  credit. No property depends on either.
* `deliveries` has one driver and two fares, with a credit limit of 2, so that
  an edited fare may exceed what is left of the credit; `delivery_live` has two
  drivers, who compete, and one fare, which liveness does not look at.
* `Amounts` 1 and 2, with a commission of 1 and payments and withdrawals of 2:
  a debt smaller than the amount (partial absorption), a wallet too small for a
  second debit, a fare with and without commission and tax.
  `FareParts` leaves out a commission and tax above the fare, which
  `wallet.service.ts` does not refuse (a credit is not guarded): its callers pass
  computed fares, and `FareIsWhole` says that of those, for any tables.
* Three references: two postings and a refund of either, before or after.
* `Opening`: a balance set up before the first posting. No posting credits
  `BUSINESS_WALLET`, so an invoice could never be paid otherwise.
* `accounts`: one or two attempts, codes, sessions, documents and guarantors
  are enough for "another one was made meanwhile". Two guarantors and two calls
  show an invitation made while the row it read is decided, and two reviews of
  one form.
* `services`: limits and stocks of one, which two calls compete for; two users
  for a campaign that stops between them; two writes of a table.
* `office`: two trips of either kind and method, a withdrawal and an invoice,
  on two days, the second of which begins with at most one of them made
  (`Evening`); a day passes in `Roster` while some user is known and another is
  not; three rows of a kind (`MaxRows`); tariffs, routes and codes for
  which minimum, cap and rounding each happen; charts that open on 2024-02-28
  and 2024-12-30, before a leap day and before the end of a year.
* `Faults = FALSE` in the turns and liveness runs is the assumption that no
  statement fails; the divergences say what a failure does there.

Drivers and tasks are permuted as symmetry in runs without liveness
properties; no definition chooses among them.

Deadlock is not checked: when every ride has ended, every request was made and
no call is in progress, the system waits for the next request.

### Fairness, and why it is justified

`FairSpec` of `RideDispatch` and `Delivery` and `MoneyFairSpec` have weak
fairness on the next step of each call in progress: Node runs a resolved
promise. Nothing is assumed of users, drivers or the gateway's charges. In
`Delivery` the timer and the queue's job are strongly fair, and so is the
delivery of webhooks in `MoneyFairSpec`: a `setTimeout` fires, Bull hands out a
due job, Paystack repeats a webhook until it is answered with 200
(`wallet-webhooks.controller.ts:61-62`), while the model's bounded slots for
calls may be taken now and then, which is why weak fairness is too little.
`Pricing` has weak fairness of `Expire`: Redis drops an entry whose time has
come. The liveness runs have no restarts: the timer is in the process, and the
code says that it does not survive one (`dispatch.service.ts:209-211`).

## What is proved

For any sets of owners, references, rides, drivers, deliveries, users, tariffs
and so on, and any number of calls at once. A formula after "if" is a
hypothesis of the theorem.

| Module | Theorem | Statement |
|---|---|---|
| `DriverMoneyProofs` | `LedgerTypeCorrect`, `NeverOverdrawn`, `BalancesAreRowSums`, `ReferencesPostOnce`, `RefundsMatch`, `LedgerAppendOnly` | `TypeOK`, `NoOverdraft`, `RunningBalance`, `PostedOnce`, `RefundMatches`, `AppendOnly` of `LedgerSpec` |
| | `MoneyIsConserved`, `InvoicesAreWhole` | `Conservation`, `InvoiceIsWhole` of `LedgerSpec` |
| | `MoneyTypeCorrect`, `MoneyNeverOverdrawn`, `FailuresAreRefunded` | `MoneyTypeOK`, `NoOverdraft`, `FailedIsRefunded` of `MoneySpec` |
| | `CreditsAreCharged`, `RidersCreditedExactly` | `CreditedIsCharged`, `RiderCreditedExactly` |
| | `PaymentsCreditedExactly` | `CreditedExactly`, if `~ Faults` and `[]Turns` |
| | `GatewayIsBooked` | `BooksOK`: clearing account and debts together moved by what the standing transactions took in and paid out |
| | `GatewayIsReconciled` | `GatewayReconciles`, if `~ Faults` and `[]OwnTurns` |
| `RideDispatchProofs` | `RideTypeCorrect`, `OneAcceptedOffer`, `TripsHaveDrivers`, `CompletionIsPaid`, `ImplementsAward` | `TypeOK`, `AcceptedOfferIsDriver`, `DriverBeforeTrip`, `CompletedIsPaid`, `AwardSpec` |
| | `NoDriversIsTheEnd` | `NoDriversIsFinal`, if `~ ManualStart` |
| | `SearchIsDriven` | `DispatchIsDriven`, if `~ ManualStart` and `~ Faults` |
| `DeliveryProofs` | `DeliveryTypeCorrect`, `CompletionIsBilled`, `RoundsAreFresh`, `ImplementsBill` | `DeliveryTypeOK`, `CompletedIsBilled`, `RoundIsFresh`, `BillSpec` |
| | `ImplementsDeliveryAward` | `AwardSpec`, if `~ Admin` |
| `AccountsProofs` | `AccountsTyped`, `RolesAndCompanies`, `OneGuarantorHolds` | `AccountsTypeOK`, `MembersHaveRoles`, `OneGuarantor` |
| | `LinksWorkOnce`, `GuessesAreBounded` | `ResetIsOnce`, `AttemptsAreBounded` |
| `ServicesProofs` | `ServicesTyped`, `PaidOutOnce`, `LimitsAreHeld`, `TripsArePricedRight`, `CampaignsReachAll`, `TicketsAreStamped` | `ServicesTypeOK`, `PayoutOnce`, `LimitsHold`, `TariffFits`, `SentToAll`, `TicketStamped` |
| `OfficeProofs` | `QuotesAreCharged`, `FaresAreWhole` | `QuoteIsCharged`, `FareIsWhole` |
| | `BooksAreExplained` | `BooksExplained` |
| | `OverlapStaysBounded` | `OverlapIsBounded` |
| `ScreenProofs` | `ScreensAlwaysAgree` | `ScreensAgree`, if `Assigned \subseteq {"DRIVER"}` |
| | `FiguresAlwaysAgree`, `ChartsAlwaysAgree`, `TimelinesHold` | its parts about money and trips (`FiguresAgree`), time (`ChartsAgree`) and a delivery (`TimelineHolds`), without that hypothesis |
| | `PeopleAgree` | its part about people (`RosterAgrees`), with it |

### The hypotheses

Each stands for something the code does not see to, and the table of
divergences shows what happens without it.

* `~ Faults`: no statement throws and the process does not restart. A crash
  between settlement and credit loses the rest (`CompletedIsCredited`).
* `~ ManualStart`: nobody calls `startDispatch` a second time for a ride
  (`NobodyAccepted`).
* `Turns`: no two calls about one payment overlap. The calls of other payments,
  of trips and of withdrawals interleave freely. `money_credited_twice` is the
  counterexample without it.
* `OwnTurns`: no two calls about one owner's trips, payments and withdrawals
  overlap, since all of them read and settle the same debt.
* `~ Admin`: `assignDriver` writes over the driver whom a call in progress
  knows.
* `Assigned \subseteq {"DRIVER"}`: administrators assign deliveries to drivers.
  `assignDriver` makes an availability for whomever it is given
  (`OnlineAgrees`).

### The assumptions about constants

`LedgerAssumption`: the null owner is no owner, owners are finitely many (there
is a sum over them), amounts are positive, derived references are new, no
user's account opens below zero. `RideAssumption`: no driver is `None`.
`MoneyAssumption`: a payment, a withdrawal and a trip have different
references, their owners and amounts are of the right kind, payments and
withdrawals are finitely many. `DeliveryAssumption`: no driver is `None`, fares
are positive. `AccountsAssumption`, `ServicesAssumption` and `OfficeAssumption`
are those of their components: finitely many calls where calls are counted,
`None` is no user, account, task or value, prices and rates are natural
numbers, rates at most 100, bounds are natural numbers. `BooksAssumption`
(part of `OfficeAssumption`) also has finitely many riders, drivers and
companies, since there are sums over them, `None` none of them, positive amounts
of other calls, and fares and a cancellation fee that cover their commission
(which `FareIsWhole` proves of the fares the code computes). Fares may be zero.
`RosterAssumption` has finitely many users, since they are counted, and `None`
is no availability and no user's row. `ChartsAssumption` bounds the calendar: a
behaviour starts at least one year into the `Years` there are, since a chart
looks twelve months back, and ends, with the longest ticks there may be, before
they do. The years are any, from any `BaseYear`.

### How the arguments go

* *Sums and counts.* The folds of the community modules are a `CHOOSE` of a
  function defined by recursion, of which a prover knows nothing. `Sums` proves
  that it exists, and that the order does not matter, by a least counterexample
  among the subsets of a finite set (`SetInduction`); then that a sum splits at
  any element (`SumRemove`). Everything below that adds or counts rests on it.
* *Ledger.* The invariant is the conjunction of the ledger properties: each is
  needed by another (a refund is covered by `PostedOnce`, whose rows belong to
  existing transactions). Lemmas say what `Posted` and `Refunded` preserve for
  any ledger record; the actions, and those of `DriverMoney`, cite them.
  `Conservation`: the sum over all accounts moves by the sum of the entries,
  and every posting method's entries have sum zero.
* *RideDispatch.* `AcceptedOfferIsDriver` is not inductive: a call that won
  still has to write its offer. The invariant adds what each program counter
  knows: a call in `accept_won`..`accept_avail` is the ride's driver's, a trip
  call's driver is the ride's driver and after the payment the fare is posted,
  a cancellation with a fee to charge has the ride's driver. All of them are
  stable because `driver` is written once, by the guarded claim.
  `NoDriversIsFinal` and `DispatchIsDriven` follow one dispatch through its
  rounds: at most one call is in it, and it alone writes the two statuses.
* *DriverMoney.* `FailedIsRefunded` needs, per withdrawal, what the calls on it
  know: between the debit and the refund its transaction exists; in
  `refund_settle` it is reversed; in `failed` it is wholly undone; and no
  settlement under its reference can be posted after the call that made the
  withdrawal has moved on. The last one is why a redelivered failure webhook
  and the catch of `initiateWithdrawal` cannot leave a FAILED request with a
  settlement kept.
  The exact credits need the same per payment: which of its three references
  are posted, with which amounts, and what the call that has posted the
  settlement has still to credit. `GatewayReconciles` has two halves. The
  ledger's is `BooksOK`, for every interleaving: each standing transaction of a
  payment or withdrawal moves clearing and debts by its amount, a trip's
  accrual and a settlement move money within or out of them. The gateway's is
  that what stands is what was sent, which needs turns and no faults.
* *Delivery.* `TasksOK` says what each call knows, `RowsOK` how the columns and
  postings of a delivery go together, `RoundsOK` that a driver was asked once.
  What a call knows is only ever added to (`Grows`: a proof, a bill, an
  invoice, a payment, once there, stay), so that a step needs an argument for
  its own call and the row it writes, and none for the other calls. `BillSpec`
  follows from `Stage`, which only steps that post or write an invoice move.
  `AwardSpec` needs the ride's argument again.
* *Sessions.* The links of a user are kept apart: a call that has read a link
  knows that none of the user's later ones is used, and using one marks those
  before it. A guess that found a wrong code has not yet been counted, so the
  attempts together with the calls at that point are what is bounded.
* *Membership.* Members (registered users) and invitations are only added to.
  What a call knows is stated of the members and the number of invitations as
  arguments, and kept when they grow. A call about to grant a role has a role
  and a company that agree, taken from an invitation or an account that agrees.
* *Onboarding.* A call that is about to write a verdict read a form that was
  sent (`Read`), and a form that was sent stays sent, so whoever is decided on
  sent one (`Honest`). A guarantor before the newest
  was rejected when the next was made, or that call's reading was old; and a
  rejected row leaves that status only by a call that read another, which marks
  it (`Excused`). Two invitations that both saw the same newest row mark the
  second row they make.
* *Offers.* A call that marks a referral knows that its posting is there, and a
  payout run that those it has still to pay were redeemed. All postings of a
  user carry one reference. Stock and redemptions are sums: what is reserved
  and what is free is what there was, and the redemptions of a code with the
  calls that have checked its limit and not yet redeemed exceed the limit by no
  more than the calls there may be.
* *Pricing.* The order in which the code looks for a tariff gives the most
  specific one there is, for any table.
* *Types of accounts and services.* The bounds of a type need what the calls
  know. A company that a row or a call names is one that was created
  (`MembershipSizes`), the guarantor that a review names is there
  (`GuarantorsOK`), a user's redemptions are a part of all (`PartOfSum`), and
  whom a notification is for is a registered user (`NoticeSizes`).
* *Notices.* A user of the audience is served, or is among those that the job
  has still to serve, or the job has stopped and will start again.
* *Tickets.* A status and its stamp are written together. A reply that read the
  ticket earlier writes a status, and never clears a stamp.
* *Fares.* A part of an amount, rounded, is between zero and the amount. So the
  discount is at most the fare, the tax at most the total, and the commission
  at most the total without the tax. The invariant carries the last one in the
  booking, since an invoice is paid with the commission of the completion,
  whatever the rule is by then. The receipt's lines are a fold over a sequence
  of known length, unfolded.
* *Books.* Revenue, a driver's wallet and debt and a company's debt are each a
  pair of numbers: what a posting weighs on the account, and what a trip, an
  invoice or a withdrawal says of it. The inductive invariant is `BooksOK` (the
  types; what each posting is a posting of; references used once; what is
  refunded is reversed) and `Balanced` (the weights of all postings and the
  figures of all rows have equal sums; no driver's debt is negative). `BooksOK`
  is what makes a step a change of one row and the postings of that row, and
  then both sums change alike (`SumRemove`). The figures of the screens are such
  sums in another order, by driver or by service: `SumSwap` turns them round. A
  rider's line is found by the reference, which `BooksOK` ties to one trip.
* *Roster.* The screens count with different queries: by role, by role and
  status, by the rows of availability, by the latest document of each type. Two
  facts make them counts of one set: an availability or a document belongs to
  a driver, and of two documents of one driver and type the later waits for
  review if the earlier does, so that a driver is judged pending exactly if
  some document waits. The cards then are sums over classes (`CountClasses`).
* *Figures.* The screens read the same rows by different ways: by the posting, by
  the row, by the day, by who pays, by who drives, by the reference a posting
  carries. `BooksInv` leads from a posting to its row. The way back needs
  `LinksInv`: every trip that says it was posted has its posting, every
  withdrawal has one with its amount, a posting is called refund or withdrawal
  exactly if its reference says so, and what is marked reversed has a refund
  that names it. It is inductive only together with `BooksInv`: a new posting's
  reference must be new. Each figure is then a count or a sum over one set of
  rows, divided into classes another way (`SumParts`, `CountParts`,
  `CountClasses`).
* *Charts.* The calendar is a table of months and a count of leap days. Every
  month has a day at least (`MonthHasDays`), so first days grow (`Grows`,
  by the largest counterexample, since there is no induction), each instant
  within the years has one month (`MonthIs`), and keys and buckets divide time
  the same way (`HoursDivide`, `DaysDivide`, `MonthsDivide`). Buckets that
  follow each other cover their window and do not overlap (`BucketsCover`), so
  what they count adds up (`BucketsCount`). `ChartsInv` says that no row is in
  the future and that there is time left until the years end.
* *Tracking.* A call that has read a status knows which stops were stamped
  then, and no stop is taken back: a write that comes late still finds them.
* *Uniques.* Rows are counted together with the calls that are about to make
  one. A call that looks finds either no row, and then all rows there will be
  are those of the calls under way, or a row, and then it makes none: so rows
  and the calls that may add to them never exceed the calls there can be at once
  (`Room`, `RoomMoved`, `RoomGiven`). The same count bounds HOMEs and WORKs
  (`PlacesInv`), defaults (`CardsInv`), links (`ShareInv`) and, with the runs
  whose row was not written, the runs under a key (`KeyInv`). A default goes
  missing only in a step that either hands the promotion to the same call or is
  a slip.

### What the proofs found

`ResetIsOnce` was false of the model for two users: its second half spoke of
every other link, and a consumed link of one user does not touch another's. The
run has one user, so TLC could not see it. It now speaks of the links of the
same user, as `auth.service.ts:296-316` has it.

`BooksExplained` was inexact in three places that the amounts of the run hid: a
cancelled trip's line was asked of its fee and not of its status, which differ
when the fee is zero; the status of a company's credit was asked of sums that
an invoice of amount zero does not change; and a fare of zero was a payment
that no balance shows. It now says what the rows say, for any amounts.

`ScreensAgree` showed what the run's values took for granted: what one ride
earned is at most what its driver earned in all only if no fare is below its
commission, and the charts by months need twelve months before the first day
and time left after the last. Both are assumptions now, which TLC evaluates.

### Only model-checked

Every safety invariant and action property of the runs is stated by a theorem.
What is left to TLC:

* Liveness: `SearchEnds`, `OffersClose`, `ChargeIsCredited`, `FailureIsUndone`,
  `CatchesUp`. The proof system has no `ENABLED`, hence no fairness.

## Divergences between documentation and code

`money_credited_twice` expects a violation: webhook and poll overlap on an
indebted driver's payment, one settles the debt and the other credits the full
amount, although `payments.service.ts:223-224` calls this idempotent.

The definitions below state what a comment says and the code does not do. They
stand at the end of the module named, with the comment they quote. TLC finds
each violated: copy the configuration in the third column, put the definition
in the place of its properties, and change what the last column says. Five
of the configurations are kept as examples (`RideResurrected.cfg`, `MoneyLimbo.cfg`,
`DeliveryLateEdit.cfg`, `TicketReopened.cfg`, `TwoHomes.cfg`).

| Definition | What happens | From | With |
|---|---|---|---|
| `CancelledStaysCancelled` | a ride cancelled between `startDispatch`'s read and write goes back to DISPATCHING | `RideResurrected.cfg` | |
| `CancelledHasNoOffers` | a cancelled ride keeps PENDING offers | `RideResurrected.cfg` | |
| `CountedOnce` | two completions of a cash ride count it twice | `RideResurrected.cfg` | |
| `LateCancellationCharges` | an acceptance during a cancellation is cancelled without the fee | `RideResurrected.cfg` | `ThreeTasks` |
| `NobodyAccepted` | a second start takes an accepted ride back | `RideResurrected.cfg` | `ThreeTasks`, `ManualStart` |
| `RetrySearchesAgain` | the manual retry does nothing after NO_DRIVERS_FOUND | `RideResurrected.cfg` | `ManualStart` |
| `NoLimbo` | a failure after the debit leaves money no request records | `MoneyLimbo.cfg` | |
| `RefundedIsUnpaid` | a lost answer of `initiateTransfer` is refunded, and Paystack pays | `MoneyTurns.cfg` | `NoPayment`, `Faults` |
| `RetryCanFinish` | a half-undone transfer can never be finished | `MoneyTurns.cfg` | `NoPayment`, `Faults` |
| `CompletedKeepsDebit` | a late success marks a refunded withdrawal COMPLETED | `MoneyTurns.cfg` | `NoPayment` |
| `CounterCountsDebt` | a reversed settlement restores the debt and not the counter of cash trips | `MoneyTurns.cfg` | `NoPayment` |
| `CompletedIsCredited` | a crash between settlement and credit loses the rest | `MoneyTurns.cfg` | `DriverPayment`, `NoWithdrawal`, `Faults` |
| `FareFixedAtClaim` | stops edited while a driver accepts change the fare of an accepted delivery | `DeliveryLateEdit.cfg` | |
| `PaidAsInvoiced` | an invoice is paid with the tax of the row as it is later | `DeliveryLateEdit.cfg` | |
| `PaidInvoiceClears` | a retried completion accrues one amount and invoices another | `DeliveryLateEdit.cfg` | `Faults` |
| `PushNeverFails` | a failing push fails the call that sends it | `Services.cfg`, `Spec` | |
| `ResolvedStaysResolved` | a reply that read the ticket earlier reopens a resolved one | `TicketReopened.cfg` | |
| `MeanIsOfResolved` | the mean over resolved tickets averages reopened ones | `TicketReopened.cfg` | |
| `DiscountIsHonoured` | an edit recomputes a discount the booking had redeemed | `Office.cfg` | |
| `FeeBalances` | the parts of a late cancellation's fee, each rounded, are not its sum | `Office.cfg` | |
| `FleetEarnsFromTrips` | a fleet's earnings count every credit of its drivers' wallets, top-ups included | `Office.cfg` | |
| `SettledAgrees` | the export counts the deductions of every withdrawal, a driver's own summary those of completed ones | `Office.cfg` | |
| `RiderBalancesAgree` | the total balance contains accounts that are not riders' | `Office.cfg` | |
| `EarnedIsReceived` | the list's earnings of a driver include the tax, which is not the driver's | `Office.cfg` | |
| `OnlineAgrees` | an assigned user of another role is online on one card only | `Office.cfg` | `Assigned = {"DRIVER", "RIDER"}` |
| `OfflineHasNoPosition` | a position pushed after going offline stays | `Office.cfg` | |
| `CurrentIsNext` | the highlighted step stays on an arrival nobody tapped | `Office.cfg` | |
| `OneHomeAlways`, `OneLinkAlways` | two overlapping calls make two homes, two links of which the first is dead | `TwoHomes.cfg` | |
| `OneDefaultAlways` | two overlapping calls, or one that fails after its deletion, leave no or two default cards | `TwoHomes.cfg` | |
| `OneRunAlways` | two overlapping requests, or a row that was not written, run a request twice | `TwoHomes.cfg` | |
| `OnlySubmittedIsVerified` | of two overlapping reviews of a guarantor, the later overwrites the verdict of the other | `Accounts.cfg`, as a PROPERTY and without `SYMMETRY` | |

Met while modelling, without a definition of their own:

* `kyc.service.ts:110-111` says that the provider decides; a reviewer may
  overrule it.
* `business.service.ts:102` tells an owner to revoke a pending invitation
  first; no endpoint revokes one.
* `business.service.ts:416` says that a business has no status; `setStatus`
  writes one.
* The cards of businesses count as "on credit" those with a limit, the filter
  of that name those who owe something.
* `updateTariff` does not look whether another active tariff has the key it
  moves to (`pricing.service.ts:192-197`), as `createTariff` does.
* The report on rides divides the revenue of what was completed in a period by
  the completions of what was requested in it.
* No code makes an invoice OVERDUE; the screens count overdue ones.
* A suspended driver keeps the availability row, and is on the map.

## Abstractions

* The geographic search, vehicle types, service modes and the cash cap are "any
  set of online drivers". The cap is a bound on work, not on the protocol.
* Time: an offer may be accepted until its round is expired, a timer fires at
  any moment after it was armed. The code also refuses an offer past its
  `expiresAt`; the model allows more. Codes, links and cache entries may expire
  at any moment.
* Amounts in `RideDispatch`: a payment is the driver it was made with. Amounts
  elsewhere are integers in the smallest unit; the rounding is in `Fares`.
* Routes and tariffs in `Delivery`: a fare is any of `Fares`, its tax goes with
  it. In `Fares` a handler is one step: its interleavings are in `RideDispatch`
  and `Delivery`, the choice of a tariff in `Pricing`.
* Secrets, hashes, files and texts: a link or token names its row.
* Notifications, sockets, receipts and e-mail, outside `Notices`.
* Paging, search, sorting, labels and layout of the screens.
* Two refunds of one transaction that overlap are taken in one order; the
  second throws in the model, where the code may return normally without
  posting. Every posting is the same.

## Not modelled

* Guards, decorators, DTO validation, permissions: no state, or a filter before
  a handler.
* Renderers of documents (`common/export`, `report-documents`): layout of
  figures that are modelled where they are computed.
* The HTTP adapters but the gateway, which `DriverMoney` models from its use.
  FCM is any set of invalid tokens.
* Health checks, the Redis and Prisma modules: no protocol of their own.
* Ratings (`rateRide`, `listMyReviews`): an upsert on a unique index and a read.
* Records an administrator edits and nothing reads back in a protocol:
  partners, offers, charging stations, solar assessments, roles.
* The audit log: rows that are only added.
* The scripts: seed data, the Kilowatt report, the schedule of reports.

## What is left

1. Two deliveries of one business over one credit limit, with the ledger in the
   place of `billed` and `settled`.
2. Ratings of a delivery and single stops; profiles and roles.
