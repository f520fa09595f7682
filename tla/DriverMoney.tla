---------------------------- MODULE DriverMoney -----------------------------
(***************************************************************************)
(* The money of a driver outside the trips: the commission owed for cash   *)
(* trips and the counter that caps them (wallet.service.ts), top-ups and   *)
(* withdrawals through the payment gateway with the debt deducted from     *)
(* both (payments.service.ts), and the gateway's webhooks, delivered late, *)
(* again or out of order (wallet-webhooks.controller.ts).                  *)
(*                                                                         *)
(* Each posting and each refund is one step of Ledger.  What is between    *)
(* two of them is not: a call in progress is a task with a program         *)
(* counter, one action per statement that reads or writes a row, carrying  *)
(* what it read.  settleCommission is a subroutine, with the counter to    *)
(* return to in "next".                                                    *)
(*                                                                         *)
(* Abstracted: saved cards, notifications, the recipient's bank account.   *)
(* A generated reference is the id of the payment or of the withdrawal.    *)
(***************************************************************************)
EXTENDS Ledger

CONSTANTS
    Drivers,        \* the owners whose role is DRIVER
    Payments,       \* top-ups, by their references
    Withdrawals,    \* by their references
    Trips,          \* cash trips, by the references of their commissions
    OwnerOf,        \* whose payment, withdrawal or trip it is
    AmountOf,       \* its amount; of a trip, the commission and tax owed
    Tasks,          \* slots for calls in progress
    Faults          \* calls throw midway, the process restarts, replies get lost

SettleRef(x) == <<"settle", x>>     \* `${reference}:settle`
CreditRef(p) == <<"credit", p>>     \* `${reference}:credit`

Things == Payments \cup Withdrawals \cup Trips

ASSUME MoneyAssumption ==
    /\ Drivers \subseteq Owners
    /\ Things \subseteq BaseRefs \ {Null}
    /\ Payments \cap Withdrawals = {} /\ Trips \cap (Payments \cup Withdrawals) = {}
    /\ \A x \in Things : SettleRef(x) \in BaseRefs \ Things /\ CreditRef(x) \in BaseRefs \ Things
    /\ OwnerOf \in [Things -> Owners]
    /\ AmountOf \in [Things -> Amounts]
    /\ \A x \in Withdrawals \cup Trips : OwnerOf[x] \in Drivers
    /\ Faults \in BOOLEAN
    /\ IsFiniteSet(Payments) /\ IsFiniteSet(Withdrawals)

VARIABLES
    unsettled,  \* DriverStatus.unsettledCashRideCount
    request,    \* TopUpRequest.status; "NONE" without a row
    charge,     \* the gateway's side of a payment
    withdrawal, \* WithdrawalRequest.status; "NONE" without a row
    transfer,   \* the gateway's side of a withdrawal
    events,     \* the transfer webhooks the gateway has sent
    task        \* the calls in progress

others == <<unsettled, request, charge, withdrawal, transfer, events>>
moneyVars == <<ledger, unsettled, request, charge, withdrawal, transfer, events, task>>

Payable(x) == CommissionPayable(OwnerOf[x])
Debt(x)    == ledger.balance[Payable(x)]
Lesser(a, b) == IF a < b THEN a ELSE b

-----------------------------------------------------------------------------
(* Tasks.                                                                  *)

\* x: the payment, withdrawal or trip; settle: the amount to settle; next:
\* where settleCommission returns to; fresh: whether a reference was not
\* there when looked up; saved: whether chargeSavedCard made the call.
Idle == [pc |-> "idle", x |-> Null, settle |-> 0, next |-> "idle",
         fresh |-> FALSE, saved |-> FALSE]

Call(t, pc, x, saved) ==
    /\ task[t] = Idle
    /\ task' = [task EXCEPT ![t] = [Idle EXCEPT !.pc = pc, !.x = x, !.saved = saved]]

At(t, pc)   == task[t].pc = pc
Goto(t, pc) == task' = [task EXCEPT ![t].pc = pc]
Return(t)   == task' = [task EXCEPT ![t] = Idle]

\* An exception: chargeSavedCard catches it and marks the top-up failed.
Raise(t) == IF task[t].saved /\ ~ At(t, "mark_failed") THEN Goto(t, "mark_failed") ELSE Return(t)

OnlyTask == UNCHANGED <<ledger, others>>

\* postTransaction: nothing when the reference is there, and it throws when
\* a user's account would be overdrawn.
PostThen(t, ref, e, pc) ==
    /\ \/ Exists(ledger, ref) /\ UNCHANGED ledger /\ Goto(t, pc)
       \/ CanPost(ledger, ref, e) /\ ledger' = Posted(ledger, ref, e) /\ Goto(t, pc)
       \/ ~ Exists(ledger, ref) /\ ~ CanPost(ledger, ref, e) /\ UNCHANGED ledger /\ Raise(t)
    /\ UNCHANGED others

\* refund, which throws when the transaction was refunded before.  (Two that
\* overlap are taken one after the other.)
RefundThen(t, ref, pc) ==
    /\ \/ CanRefund(ledger, ref) /\ ledger' = Refunded(ledger, ref) /\ Goto(t, pc)
       \/ ~ CanRefund(ledger, ref) /\ UNCHANGED ledger /\ Return(t)
    /\ UNCHANGED others

MoneyInit ==
    /\ LedgerInit
    /\ unsettled = [d \in Drivers |-> 0]
    /\ request = [p \in Payments |-> "NONE"]
    /\ charge = [p \in Payments |-> "none"]
    /\ withdrawal = [w \in Withdrawals |-> "NONE"]
    /\ transfer = [w \in Withdrawals |-> "none"]
    /\ events = [w \in Withdrawals |-> {}]
    /\ task = [t \in Tasks |-> Idle]

-----------------------------------------------------------------------------
(* recordCashRideCommission (recordCashDeliveryCommission is the same),    *)
(* called again when the completion of the trip is retried.                *)

AccrueLook(t, x) ==
    /\ task[t] = Idle
    /\ task' = [task EXCEPT ![t] = [Idle EXCEPT !.pc = "accrue_post", !.x = x,
                                                !.fresh = ~ Exists(ledger, x)]]
    /\ OnlyTask

AccruePost(t) ==
    LET x == task[t].x
    IN  /\ At(t, "accrue_post")
        /\ PostThen(t, x, CashRideEntries(OwnerOf[x], AmountOf[x]),
                    IF task[t].fresh THEN "accrue_count" ELSE "return")

AccrueCount(t) ==
    /\ At(t, "accrue_count")
    /\ unsettled' = [unsettled EXCEPT ![OwnerOf[task[t].x]] = @ + 1]
    /\ Return(t)
    /\ UNCHANGED <<ledger, request, charge, withdrawal, transfer, events>>

Returned(t) == At(t, "return") /\ Return(t) /\ OnlyTask

-----------------------------------------------------------------------------
(* settleCommission.                                                       *)

SettleLook(t) ==
    /\ At(t, "settle_look")
    /\ task' = [task EXCEPT ![t].fresh = ~ Exists(ledger, SettleRef(task[t].x)),
                            ![t].pc = "settle_post"]
    /\ OnlyTask

SettlePost(t) ==
    LET x == task[t].x
    IN  /\ At(t, "settle_post")
        /\ PostThen(t, SettleRef(x), SettlementEntries(OwnerOf[x], task[t].settle),
                    IF task[t].fresh THEN "settle_read" ELSE task[t].next)

SettleRead(t) ==
    /\ At(t, "settle_read")
    /\ Goto(t, IF Debt(task[t].x) = 0 THEN "settle_reset" ELSE task[t].next)
    /\ OnlyTask

SettleReset(t) ==
    /\ At(t, "settle_reset")
    /\ unsettled' = [unsettled EXCEPT ![OwnerOf[task[t].x]] = 0]
    /\ Goto(t, task[t].next)
    /\ UNCHANGED <<ledger, request, charge, withdrawal, transfer, events>>

-----------------------------------------------------------------------------
(* Top-ups.                                                                *)

\* initiateTopUp with CARD or SAVED_CARD: the row first, then the gateway.
TopUpRow(t, p, saved) ==
    /\ request[p] = "NONE" /\ charge[p] = "none"
    /\ request' = [request EXCEPT ![p] = "PENDING"]
    /\ Call(t, IF saved THEN "charge_card" ELSE "checkout", p, saved)
    /\ UNCHANGED <<ledger, unsettled, charge, withdrawal, transfer, events>>

\* BANK_TRANSFER: the gateway first, then the row.
TopUpAccount(t, p) ==
    /\ request[p] = "NONE" /\ charge[p] = "none"
    /\ charge' = [charge EXCEPT ![p] = "open"]
    /\ Call(t, "late_row", p, FALSE)
    /\ UNCHANGED <<ledger, unsettled, request, withdrawal, transfer, events>>

TopUpLateRow(t) ==
    /\ At(t, "late_row")
    /\ request' = [request EXCEPT ![task[t].x] = "PENDING"]
    /\ Return(t)
    /\ UNCHANGED <<ledger, unsettled, charge, withdrawal, transfer, events>>

TopUpCheckout(t) ==
    /\ At(t, "checkout")
    /\ charge' = [charge EXCEPT ![task[t].x] = "open"]
    /\ Return(t)
    /\ UNCHANGED <<ledger, unsettled, request, withdrawal, transfer, events>>

\* chargeAuthorization answers at once: charged, refused, or still open; or
\* the answer is lost, whatever became of the charge.
ChargeCard(t) ==
    /\ At(t, "charge_card")
    /\ \E outcome \in {"success", "failed", "open"} :
          /\ charge' = [charge EXCEPT ![task[t].x] = outcome]
          /\ \/ outcome = "success" /\ Goto(t, "verify")
             \/ outcome = "failed" /\ Goto(t, "mark_failed")
             \/ outcome = "open" /\ Return(t)
             \/ Faults /\ Goto(t, "mark_failed")
    /\ UNCHANGED <<ledger, unsettled, request, withdrawal, transfer, events>>

\* The gateway's customer pays, or the payment fails.
GatewayCharges(p, outcome) ==
    /\ charge[p] = "open"
    /\ charge' = [charge EXCEPT ![p] = outcome]
    /\ UNCHANGED <<ledger, unsettled, request, withdrawal, transfer, events, task>>

\* The charge.success webhook; getTopUpStatus on a PENDING request.
ChargeWebhook(t, p) == charge[p] = "success" /\ Call(t, "verify", p, FALSE) /\ OnlyTask
PollTopUp(t, p)     == request[p] = "PENDING" /\ Call(t, "verify", p, FALSE) /\ OnlyTask

\* updateMany WHERE status = PENDING: applyVerifiedTopUp, markTopUpFailed.
FailPending(p) ==
    /\ request' = [request EXCEPT ![p] = IF @ = "PENDING" THEN "FAILED" ELSE @]
    /\ UNCHANGED <<ledger, unsettled, charge, withdrawal, transfer, events>>

MarkFailed(t) ==
    /\ At(t, "mark_failed")
    /\ FailPending(task[t].x)
    /\ Return(t)

\* Mutant: a charge that is still open passes for a successful one.
VerifyOpen(t) ==
    LET p == task[t].x
    IN  /\ At(t, "verify")
        /\ \/ charge[p] \in {"open", "success"} /\ Goto(t, "look") /\ OnlyTask
           \/ charge[p] = "failed" /\ Return(t) /\ FailPending(p)
           \/ charge[p] = "none" /\ Return(t) /\ OnlyTask

\* applyVerifiedTopUp: what the gateway says of the payment.
Verify(t) ==
    LET p == task[t].x
    IN  /\ At(t, "verify")
        /\ \/ charge[p] = "success" /\ Goto(t, "look") /\ OnlyTask
           \/ charge[p] = "failed" /\ Return(t) /\ FailPending(p)
           \/ charge[p] \in {"none", "open"} /\ Return(t) /\ OnlyTask

AlreadyCredited(p) == \E ref \in {p, SettleRef(p), CreditRef(p)} : Exists(ledger, ref)

\* Mutants: only the plain reference is looked up; the status of the request
\* is taken for the ledger's word.
LookCreditedPlain(t) ==
    LET p == task[t].x
    IN  /\ At(t, "look")
        /\ Goto(t, IF Exists(ledger, p) THEN "complete"
                   ELSE IF OwnerOf[p] \in Drivers THEN "debt" ELSE "topup")
        /\ OnlyTask
LookCreditedStatus(t) ==
    LET p == task[t].x
    IN  /\ At(t, "look")
        /\ Goto(t, IF AlreadyCredited(p) \/ request[p] # "PENDING" THEN "complete"
                   ELSE IF OwnerOf[p] \in Drivers THEN "debt" ELSE "topup")
        /\ OnlyTask

LookCredited(t) ==
    LET p == task[t].x
    IN  /\ At(t, "look")
        /\ Goto(t, IF AlreadyCredited(p) THEN "complete"
                   ELSE IF OwnerOf[p] \in Drivers THEN "debt" ELSE "topup")
        /\ OnlyTask

\* A driver's debt is read, and settled first.
ReadDebt(t) ==
    LET p == task[t].x
    IN  /\ At(t, "debt")
        /\ task' = [task EXCEPT
             ![t] = IF Debt(p) > 0
                    THEN [@ EXCEPT !.settle = Lesser(Debt(p), AmountOf[p]),
                                   !.next = "credit", !.pc = "settle_look"]
                    ELSE [@ EXCEPT !.pc = "topup"]]
        /\ OnlyTask

\* Mutant: what the settlement left is forgotten.
CreditNothing(t) == At(t, "credit") /\ Goto(t, "complete") /\ OnlyTask

\* What the settlement left, if anything, goes to the wallet.
CreditRest(t) ==
    LET p    == task[t].x
        rest == AmountOf[p] - task[t].settle
    IN  /\ At(t, "credit")
        /\ IF rest > 0
           THEN PostThen(t, CreditRef(p), TopUpEntries(OwnerOf[p], rest), "complete")
           ELSE Goto(t, "complete") /\ OnlyTask

CreditAll(t) ==
    LET p == task[t].x
    IN  /\ At(t, "topup")
        /\ PostThen(t, p, TopUpEntries(OwnerOf[p], AmountOf[p]), "complete")

\* completeTopUpRequest; a payment may have no row.
CompleteTopUp(t) ==
    LET p == task[t].x
    IN  /\ At(t, "complete")
        /\ request' = [request EXCEPT ![p] = IF @ = "NONE" THEN @ ELSE "COMPLETED"]
        /\ Return(t)
        /\ UNCHANGED <<ledger, unsettled, charge, withdrawal, transfer, events>>

-----------------------------------------------------------------------------
(* Withdrawals.                                                            *)

\* initiateWithdrawal: what of it the debt will absorb.
WithdrawRead(t, w) ==
    /\ ~ Exists(ledger, w)
    /\ \A u \in Tasks : task[u].x # w
    /\ task[t] = Idle
    /\ task' = [task EXCEPT ![t] = [Idle EXCEPT !.pc = "debit", !.x = w,
                                                !.settle = Lesser(Debt(w), AmountOf[w])]]
    /\ OnlyTask

\* requestWithdrawal: the full amount leaves the wallet.
WithdrawDebit(t) ==
    LET w == task[t].x
    IN  /\ At(t, "debit")
        /\ PostThen(t, w, WithdrawalEntries(OwnerOf[w], AmountOf[w]), "deduct")

WithdrawDeduct(t) ==
    /\ At(t, "deduct")
    /\ task' = [task EXCEPT ![t].pc = IF task[t].settle > 0 THEN "settle_look" ELSE "row",
                            ![t].next = "row"]
    /\ OnlyTask

ToSend(t) == AmountOf[task[t].x] - task[t].settle

WithdrawRow(t) ==
    LET absorbed == ToSend(t) = 0
    IN  /\ At(t, "row")
        /\ withdrawal' = [withdrawal EXCEPT ![task[t].x] =
                            IF absorbed THEN "COMPLETED" ELSE "PENDING"]
        /\ IF absorbed THEN Return(t) ELSE Goto(t, "send")
        /\ UNCHANGED <<ledger, unsettled, request, charge, transfer, events>>

\* initiateTransfer: the gateway accepts it, or refuses it, or accepts it and
\* the answer is lost, which the code cannot tell from a refusal.
WithdrawSend(t) ==
    LET w == task[t].x
    IN  /\ At(t, "send")
        /\ \/ transfer' = [transfer EXCEPT ![w] = "accepted"] /\ Return(t)
           \/ UNCHANGED transfer /\ Goto(t, "refund")
           \/ Faults /\ transfer' = [transfer EXCEPT ![w] = "accepted"] /\ Goto(t, "refund")
        /\ UNCHANGED <<ledger, unsettled, request, charge, withdrawal, events>>

\* Mutants: the settlement is not looked for; a settlement that is there ends
\* the call.
RefundWithdrawalOnly(t) == At(t, "refund") /\ RefundThen(t, task[t].x, "failed")
RefundWithdrawalStops(t) ==
    LET w == task[t].x
    IN  /\ At(t, "refund")
        /\ RefundThen(t, w, IF Exists(ledger, SettleRef(w)) THEN "return" ELSE "failed")

\* The attempt is undone: first the withdrawal, then the settlement.
RefundWithdrawal(t) ==
    LET w == task[t].x
    IN  /\ At(t, "refund")
        /\ RefundThen(t, w, IF Exists(ledger, SettleRef(w)) THEN "refund_settle" ELSE "failed")

RefundSettlement(t) ==
    /\ At(t, "refund_settle")
    /\ RefundThen(t, SettleRef(task[t].x), "failed")

WithdrawFailed(t) ==
    /\ At(t, "failed")
    /\ withdrawal' = [withdrawal EXCEPT ![task[t].x] = "FAILED"]
    /\ Return(t)
    /\ UNCHANGED <<ledger, unsettled, request, charge, transfer, events>>

\* The gateway's transfer comes to its end, or is reversed after it did; it
\* sends the webhook for each.
GatewayTransfers(w, from, to, event) ==
    /\ transfer[w] = from
    /\ transfer' = [transfer EXCEPT ![w] = to]
    /\ events' = [events EXCEPT ![w] = @ \cup {event}]
    /\ UNCHANGED <<ledger, unsettled, request, charge, withdrawal, task>>

\* processTransferWebhookEvent, for a request whose row is there.
TransferWebhook(t, w, event) ==
    /\ event \in events[w]
    /\ Call(t, IF event = "success" THEN "paid" ELSE "refund", w, FALSE)
    /\ OnlyTask

WithdrawPaid(t) ==
    /\ At(t, "paid")
    /\ withdrawal' = [withdrawal EXCEPT ![task[t].x] = "COMPLETED"]
    /\ Return(t)
    /\ UNCHANGED <<ledger, unsettled, request, charge, transfer, events>>

-----------------------------------------------------------------------------
(* Faults, the whole.                                                      *)

Throw(t) == Faults /\ ~ At(t, "idle") /\ Raise(t) /\ OnlyTask

Restart ==
    /\ Faults
    /\ task # [t \in Tasks |-> Idle]
    /\ task' = [t \in Tasks |-> Idle]
    /\ OnlyTask

Request(t) ==
    \/ \E x \in Trips : AccrueLook(t, x)
    \/ \E p \in Payments :
          \/ \E saved \in BOOLEAN : TopUpRow(t, p, saved)
          \/ TopUpAccount(t, p)
          \/ PollTopUp(t, p)
    \/ \E w \in Withdrawals : WithdrawRead(t, w)

Webhook(t) ==
    \/ \E p \in Payments : ChargeWebhook(t, p)
    \/ \E w \in Withdrawals, event \in {"success", "failed"} : TransferWebhook(t, w, event)

Gateway ==
    \/ \E p \in Payments, outcome \in {"success", "failed"} : GatewayCharges(p, outcome)
    \/ \E w \in Withdrawals :
          \/ GatewayTransfers(w, "accepted", "paid", "success")
          \/ GatewayTransfers(w, "accepted", "failed", "failed")
          \/ GatewayTransfers(w, "paid", "failed", "failed")

Step(t) ==
    \/ AccruePost(t) \/ AccrueCount(t) \/ Returned(t)
    \/ SettleLook(t) \/ SettlePost(t) \/ SettleRead(t) \/ SettleReset(t)
    \/ TopUpLateRow(t) \/ TopUpCheckout(t) \/ ChargeCard(t) \/ MarkFailed(t)
    \/ Verify(t) \/ LookCredited(t) \/ ReadDebt(t) \/ CreditRest(t) \/ CreditAll(t)
    \/ CompleteTopUp(t)
    \/ WithdrawDebit(t) \/ WithdrawDeduct(t) \/ WithdrawRow(t) \/ WithdrawSend(t)
    \/ RefundWithdrawal(t) \/ RefundSettlement(t) \/ WithdrawFailed(t) \/ WithdrawPaid(t)

MoneyNext ==
    \/ \E t \in Tasks : Request(t) \/ Webhook(t) \/ Step(t) \/ Throw(t)
    \/ Gateway
    \/ Restart

MoneySpec == MoneyInit /\ [][MoneyNext]_moneyVars

\* A call in progress runs on unless the process stops; the gateway delivers
\* a webhook again until it is answered 200 (wallet-webhooks.controller.ts),
\* however busy the calls are in between.  It owes no charge and no transfer.
MoneyFairSpec ==
    /\ MoneySpec
    /\ \A t \in Tasks : WF_moneyVars(Step(t))
    /\ \A p \in Payments : SF_moneyVars(\E t \in Tasks : ChargeWebhook(t, p))
    /\ \A w \in Withdrawals : SF_moneyVars(\E t \in Tasks : TransferWebhook(t, w, "failed"))

-----------------------------------------------------------------------------
(* Properties.                                                             *)

PCs == {"idle", "return", "accrue_post", "accrue_count", "settle_look", "settle_post",
        "settle_read", "settle_reset", "late_row", "checkout", "charge_card",
        "mark_failed", "verify", "look", "debt", "credit", "topup", "complete",
        "debit", "deduct", "row", "send", "refund", "refund_settle", "failed", "paid"}

TaskRecords == [pc : PCs, x : Things \cup {Null}, settle : Nat, next : PCs,
                fresh : BOOLEAN, saved : BOOLEAN]

\* The rows, the gateway's records and the calls have their types.
MoneyTypeOK ==
    /\ LedgerTypeOK(ledger)
    /\ unsettled \in [Drivers -> Nat]
    /\ request \in [Payments -> {"NONE", "PENDING", "COMPLETED", "FAILED"}]
    /\ charge \in [Payments -> {"none", "open", "success", "failed"}]
    /\ withdrawal \in [Withdrawals -> {"NONE", "PENDING", "COMPLETED", "FAILED"}]
    /\ transfer \in [Withdrawals -> {"none", "accepted", "paid", "failed"}]
    /\ events \in [Withdrawals -> SUBSET {"success", "failed"}]
    /\ task \in [Tasks -> TaskRecords]

Entry(ref, a)  == ledger.txs[ref].entries[a]
TxStatus(ref)  == ledger.txs[ref].status
SettledBy(x)   == -Entry(SettleRef(x), Payable(x))
Quiet          == \A t \in Tasks : task[t] = Idle
NoCallOn(x)    == \A t \in Tasks : task[t].x # x

\* What a payment put into its owner's wallet or paid of its owner's debt.
Credited(p) ==
    LET wallet == RiderWallet(OwnerOf[p])
    IN  Entry(p, wallet) + Entry(CreditRef(p), wallet) + SettledBy(p)

CreditedExactlyFor(P) ==
    \A p \in P :
        /\ Credited(p) <= AmountOf[p]
        /\ request[p] = "COMPLETED" => Credited(p) = AmountOf[p]

\* As long as the calls about a payment do not overlap or break off, however
\* often it is reported, it is credited once, and wholly before its request
\* is COMPLETED, whether it went to the wallet, to the debt, or to both
\* (payments.service.ts, applyVerifiedTopUp).
CreditedExactly == CreditedExactlyFor(Payments)

\* For a rider the same holds with overlapping calls, exceptions and restarts.
RiderCreditedExactly == CreditedExactlyFor({p \in Payments : OwnerOf[p] \notin Drivers})

\* Nothing is credited, and no request completes, before the gateway has the
\* money, whatever polls, webhooks and lost answers report
\* (payments.service.ts, "Independently re-verifies against Paystack").
CreditedIsCharged ==
    \A p \in Payments :
        Credited(p) > 0 \/ request[p] = "COMPLETED" => charge[p] = "success"

\* A withdrawal marked FAILED is wholly undone: the driver has the money
\* back and owes again what was deducted (payments.service.ts, the catch of
\* initiateWithdrawal and processTransferWebhookEvent).
Undone(w) == TxStatus(w) = "REVERSED" /\ TxStatus(SettleRef(w)) # "COMPLETED"
FailedIsRefunded ==
    \A w \in Withdrawals : withdrawal[w] = "FAILED" => Undone(w)

\* Once every successful charge is credited and every failed transfer
\* undone, the clearing account and the debts still owed add up to what
\* crossed the gateway, in and out (payments.service.ts, the comment of
\* initiateWithdrawal on PLATFORM_GATEWAY_CLEARING).
Reported ==
    /\ Quiet
    /\ \A p \in Payments : charge[p] = "success" => Credited(p) > 0
    /\ \A w \in Withdrawals : transfer[w] = "failed" => TxStatus(w) = "REVERSED"

GatewayReconciles ==
    Reported =>
        LET in   == {p \in Payments : charge[p] = "success"}
            out  == {w \in Withdrawals : transfer[w] \in {"accepted", "paid"}}
            Sent == [w \in Withdrawals |-> AmountOf[w] - SettledBy(w)]
            debt == [d \in Drivers |-> ledger.balance[CommissionPayable(d)]
                                          - Opening[CommissionPayable(d)]]
        IN  ledger.balance[Clearing] - Opening[Clearing] + SumFunction(debt)
              = SumFunctionOnSet(Sent, out) - SumFunctionOnSet(AmountOf, in)

\* Liveness, without faults: money the gateway took is credited in full.
ChargeIsCredited ==
    \A p \in Payments : charge[p] = "success" ~> Credited(p) >= AmountOf[p]

\* Liveness, without faults: a transfer that failed is undone, the deducted
\* commission with it.
FailureIsUndone == \A w \in Withdrawals : transfer[w] = "failed" ~> Undone(w)

-----------------------------------------------------------------------------
(* What comments promise and the code does not keep.                       *)

\* payments.service.ts:223-224: "Idempotent end to end: every ledger write is
\* keyed by reference, so the webhook and a status poll can both land here".
CreditedOnce == \A p \in Payments : Credited(p) <= AmountOf[p]

\* payments.service.ts:259-261: "Both writes use deterministic sub-references
\* so a re-delivered webhook is a safe no-op": once the request is COMPLETED
\* both were made.
CompletedIsCredited ==
    \A p \in Payments : request[p] = "COMPLETED" => Credited(p) >= AmountOf[p]

\* payments.service.ts:538-541: an attempt that fails is reversed "rather
\* than leaving the driver's funds stuck in limbo": money a finished call
\* debited is recorded in a request or was given back.
NoLimbo ==
    \A w \in Withdrawals :
        TxStatus(w) = "COMPLETED" /\ NoCallOn(w) => withdrawal[w] # "NONE"

\* payments.service.ts:538: "The gateway call failed outright": a withdrawal
\* given back to the driver is not paid out as well.
RefundedIsUnpaid ==
    \A w \in Withdrawals : TxStatus(w) = "REVERSED" => transfer[w] # "paid"

\* wallet-webhooks.controller.ts:61-62: "Paystack retries on anything else,
\* and our processing is idempotent by reference anyway": a failed transfer
\* that was half undone can still be undone by the next delivery.
RetryCanFinish ==
    \A w \in Withdrawals :
        /\ "failed" \in events[w]
        /\ TxStatus(SettleRef(w)) = "COMPLETED"
        /\ NoCallOn(w)
        => CanRefund(ledger, w)

\* The same lines: a success delivered again changes nothing once the
\* transfer was reversed.
CompletedKeepsDebit ==
    \A w \in Withdrawals : withdrawal[w] = "COMPLETED" => TxStatus(w) = "COMPLETED"

\* schema.prisma:819-824: the counter is the cash trips completed "since
\* DRIVER_COMMISSION_PAYABLE was last fully cleared": with a debt and no call
\* in progress there is a trip that made it.
CounterCountsDebt ==
    Quiet => \A d \in Drivers :
        ledger.balance[CommissionPayable(d)] > 0 => unsettled[d] > 0
=============================================================================
