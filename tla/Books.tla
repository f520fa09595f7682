------------------------------- MODULE Books -------------------------------
(***************************************************************************)
(* What the back office is shown of the money.  The same money is reported *)
(* by queries written apart: the dashboard, the finance screen, the lists  *)
(* of drivers, riders and businesses, the reports and the wallet's history *)
(* (admin-ops, wallet/admin-finance, business, rides/admin-rides, reports, *)
(* activity, wallet-history).  Some read the rows of trips, withdrawals    *)
(* and invoices, some the ledger.                                          *)
(*                                                                         *)
(* The rows and the postings are written here by whole calls, one step     *)
(* each; RideDispatch, Delivery and DriverMoney have their interleavings.  *)
(* A balance is the sum of the entries of its account (Ledger).            *)
(***************************************************************************)
EXTENDS Integers, Sequences, FiniteSets, Functions

CONSTANTS
    Riders, Drivers, Businesses,
    FareOf,         \* the fare of a ride and of a delivery: total, commission, tax
    Fee,            \* the cancellation fee: total, commission
    Amounts,        \* amounts of top-ups, withdrawals, swaps and payouts
    Opening,        \* what riders and businesses have in their wallets at first
    MaxTrips, MaxOthers, MaxDay,    \* bounds
    Evening,        \* bound: how many trips and other calls there are before a day passes
    None

BooksAssumption ==
    /\ FareOf \in [{"RIDE", "DELIVERY"} -> [total : Nat, commission : Nat, tax : Nat]]
    /\ \A kind \in {"RIDE", "DELIVERY"} : FareOf[kind].commission <= FareOf[kind].total
    /\ Fee \in [total : Nat, commission : Nat] /\ Fee.commission <= Fee.total
    /\ IsFiniteSet(Riders) /\ IsFiniteSet(Drivers) /\ IsFiniteSet(Businesses)
    /\ None \notin Drivers \cup Businesses
    /\ Amounts \subseteq Nat \ {0}
    /\ {Opening, MaxTrips, MaxOthers, MaxDay, Evening} \subseteq Nat

VARIABLES
    trips,          \* Ride and Delivery rows
    invoices,       \* Invoice rows
    withdrawals,    \* WithdrawalRequest rows
    posted,         \* Transaction rows with their entries
    others,         \* how many top-ups, swaps and payouts there were
    today           \* the day

vars == <<trips, invoices, withdrawals, posted, others, today>>

Init ==
    /\ trips = <<>> /\ invoices = <<>> /\ withdrawals = <<>>
    /\ posted = {} /\ others = 0 /\ today = 0

-----------------------------------------------------------------------------
(* Accounts and postings.  An entry is positive when it is a credit.       *)

Rider(u) == <<"RIDER_WALLET", u>>
Driver(d) == <<"DRIVER_WALLET", d>>
Payable(d) == <<"DRIVER_COMMISSION_PAYABLE", d>>
Wallet(b) == <<"BUSINESS_WALLET", b>>
Credit(b) == <<"BUSINESS_CREDIT_PAYABLE", b>>
Revenue == <<"PLATFORM_REVENUE", None>>
Clearing == <<"PLATFORM_GATEWAY_CLEARING", None>>
Tax == <<"PLATFORM_TAX_PAYABLE", None>>

AtFirst(a) ==
    IF a \in {Rider(r) : r \in Riders} \cup {Wallet(b) : b \in Businesses} THEN Opening ELSE 0

\* The sum of a function's values.
Total(f) == SumFunction(f)

\* The part of a posting that is about an account.
Entry(tx, a) == IF a \in DOMAIN tx.entries THEN tx.entries[a] ELSE 0
Balance(a) == AtFirst(a) + Total([tx \in posted |-> Entry(tx, a)])

\* The entries that move an amount from one account to another.
Move(from, to, n) == [a \in {from, to} |-> IF a = from THEN -n ELSE n]

Posting(type, ref, amount, entries) ==
    [type |-> type, ref |-> ref, amount |-> amount, entries |-> entries,
     status |-> "COMPLETED", day |-> today]

\* postTransaction: no user's account is overdrawn.
CanPost(tx) ==
    \A a \in DOMAIN tx.entries :
        a[2] = None \/ tx.entries[a] >= 0 \/ Balance(a) + tx.entries[a] >= 0

\* payForRide and payForDelivery.
Payment(type, ref, from, d, total, commission, tax) ==
    Posting(type, ref, total,
            [a \in {from, Driver(d), Revenue, Tax} |->
                CASE a = from -> -total [] a = Driver(d) -> total - commission - tax
                  [] a = Revenue -> commission [] a = Tax -> tax])

\* The two kinds of payments from a wallet, and of accruals for cash.
PaidFromWallet(kind) == IF kind = "RIDE" THEN "RIDE_PAYMENT_WALLET" ELSE "DELIVERY_PAYMENT_WALLET"
PaidInCash(kind) == IF kind = "RIDE" THEN "RIDE_PAYMENT_CASH" ELSE "DELIVERY_PAYMENT_CASH"

\* A debt, with the gateway's account as the counterpart.
Accrual(type, ref, payable, amount) ==
    Posting(type, ref, amount, Move(Clearing, payable, amount))

\* refund: every entry the other way, and the original is marked.
Refunded(S, tx) ==
    (S \ {tx}) \cup {[tx EXCEPT !.status = "REVERSED"],
                     Posting("REFUND", <<"refund", tx.ref>>, tx.amount,
                             [a \in DOMAIN tx.entries |-> -tx.entries[a]])}
CanRefund(tx) ==
    /\ tx.status = "COMPLETED"
    /\ \A a \in DOMAIN tx.entries : a[2] = None \/ Balance(a) >= tx.entries[a]

-----------------------------------------------------------------------------
(* Trips.                                                                  *)

\* The transactionId of a trip that no payment is linked to.
NoLink == <<>>

\* A ride whose search has not begun and a delivery that is scheduled are both
\* REQUESTED here.
Book(kind, r, b, method, status) ==
    /\ Len(trips) < MaxTrips
    /\ kind = "RIDE" => b = None
    /\ b # None => method = "WALLET"
    /\ trips' = Append(trips, [kind |-> kind, rider |-> r, business |-> b, method |-> method,
                               driver |-> None, status |-> status,
                               requested |-> today, ended |-> None, tx |-> NoLink, fee |-> 0])
    /\ UNCHANGED <<invoices, withdrawals, posted, others, today>>

Search(i, from, to) ==
    /\ trips[i].status = from
    /\ trips' = [trips EXCEPT ![i].status = to]
    /\ UNCHANGED <<invoices, withdrawals, posted, others, today>>
Dispatch(i) == Search(i, "REQUESTED", "DISPATCHING")
NoDrivers(i) == Search(i, "DISPATCHING", "NO_DRIVERS_FOUND")

\* A driver accepts, or an administrator assigns one to a delivery.
Accept(i, d) ==
    /\ trips[i].status \in {"DISPATCHING"} \cup {s \in {"NO_DRIVERS_FOUND"} : trips[i].kind = "DELIVERY"}
    /\ trips' = [trips EXCEPT ![i].status = "ACCEPTED", ![i].driver = d]
    /\ UNCHANGED <<invoices, withdrawals, posted, others, today>>

Ended(i, status, tx, fee) ==
    trips' = [trips EXCEPT ![i].status = status, ![i].ended = today, ![i].tx = tx, ![i].fee = fee]

\* completeTrip and completeDelivery.
CompletePaid(i) ==
    LET t == trips[i]
        f == FareOf[t.kind]
        tx == Payment(PaidFromWallet(t.kind), <<"trip", i>>, Rider(t.rider), t.driver,
                      f.total, f.commission, f.tax)
    IN  /\ t.status = "ACCEPTED" /\ t.business = None /\ t.method = "WALLET"
        /\ CanPost(tx)
        /\ posted' = posted \cup {tx}
        /\ Ended(i, "COMPLETED", tx.ref, 0)
        /\ UNCHANGED <<invoices, withdrawals, others, today>>

CompleteCash(i) ==
    LET t == trips[i]
        f == FareOf[t.kind]
    IN  /\ t.status = "ACCEPTED" /\ t.business = None /\ t.method = "CASH"
        /\ posted' = posted \cup {Accrual(PaidInCash(t.kind), <<"commission", i>>,
                                          Payable(t.driver), f.commission + f.tax)}
        /\ Ended(i, "COMPLETED", NoLink, 0)
        /\ UNCHANGED <<invoices, withdrawals, others, today>>

CompleteBilled(i) ==
    LET t == trips[i]
        f == FareOf[t.kind]
    IN  /\ t.status = "ACCEPTED" /\ t.business # None
        /\ posted' = posted \cup {Accrual("BUSINESS_DELIVERY_ACCRUAL", <<"trip", i>>,
                                          Credit(t.business), f.total)}
        /\ invoices' = Append(invoices, [business |-> t.business, trip |-> i, status |-> "PENDING",
                                         amount |-> f.total, commission |-> f.commission])
        /\ Ended(i, "COMPLETED", NoLink, 0)
        /\ UNCHANGED <<withdrawals, others, today>>

\* cancel: free while nobody came, and for a driver.  The customer of a driver
\* who has accepted pays the fee.
CancelFree(i) ==
    /\ trips[i].status \notin {"COMPLETED", "CANCELLED"}
    /\ Ended(i, "CANCELLED", NoLink, 0)
    /\ UNCHANGED <<invoices, withdrawals, posted, others, today>>

CancelLate(i) ==
    LET t == trips[i]
        tx == Payment(PaidFromWallet(t.kind), <<"cancellation", i>>, Rider(t.rider), t.driver,
                      Fee.total, Fee.commission, 0)
    IN  /\ t.status = "ACCEPTED"
        /\ CanPost(tx)
        /\ posted' = posted \cup {tx}
        /\ Ended(i, "CANCELLED", NoLink, Fee.total)
        /\ UNCHANGED <<invoices, withdrawals, others, today>>

\* payInvoice: two postings, both or none.
PayInvoice(k) ==
    LET v == invoices[k]
        t == trips[v.trip]
        pay == Payment("BUSINESS_INVOICE_PAYMENT", <<"invoice", k>>, Wallet(v.business), t.driver,
                       v.amount, v.commission, FareOf[t.kind].tax)
        settle == Posting("BUSINESS_INVOICE_PAYMENT", <<"settlement", k>>, v.amount,
                          Move(Credit(v.business), Clearing, v.amount))
    IN  /\ v.status = "PENDING" /\ CanPost(pay) /\ CanPost(settle)
        /\ posted' = posted \cup {pay, settle}
        /\ invoices' = [invoices EXCEPT ![k].status = "PAID"]
        /\ UNCHANGED <<trips, withdrawals, others, today>>

\* resolveDispute with a refund, which needs the delivery's transaction.
Refund(i) ==
    /\ trips[i].kind = "DELIVERY"
    /\ \E tx \in posted :
          /\ tx.ref = trips[i].tx /\ CanRefund(tx)
          /\ posted' = Refunded(posted, tx)
    /\ UNCHANGED <<trips, invoices, withdrawals, others, today>>

-----------------------------------------------------------------------------
(* Top-ups, withdrawals, swaps, payouts.                                   *)

Count == others < MaxOthers /\ others' = others + 1

TopUpOf(user, ref, amount) ==
    Accrual("WALLET_TOPUP", ref, Rider(user), amount)
Settlement(d, ref, amount) ==
    Posting("COMMISSION_SETTLEMENT", ref, amount, Move(Payable(d), Revenue, amount))

TopUp(r, n) ==
    /\ Count
    /\ posted' = posted \cup {TopUpOf(r, <<"topup", others>>, n)}
    /\ UNCHANGED <<trips, invoices, withdrawals, today>>

Least(m, n) == IF m < n THEN m ELSE n

\* A driver's top-up pays the debt first; the rest goes to a rider's wallet.
TopUpDriver(d, n) ==
    LET settle == Least(Balance(Payable(d)), n)
    IN  /\ Count
        /\ posted' = posted
              \cup {Settlement(d, <<"settle topup", others>>, settle) : k \in {1} \cap 1 .. settle}
              \cup {TopUpOf(d, <<"topup", others>>, n - settle) : k \in {1} \cap 1 .. (n - settle)}
        /\ UNCHANGED <<trips, invoices, withdrawals, today>>

\* initiateWithdrawal: the debt is settled out of what is withdrawn; what is
\* left waits for the gateway.
Withdraw(d, n) ==
    LET settle == Least(Balance(Payable(d)), n)
        tx == Posting("WALLET_WITHDRAWAL", <<"withdraw", Len(withdrawals) + 1>>, n,
                      Move(Driver(d), Clearing, n))
    IN  /\ Count /\ CanPost(tx)
        /\ posted' = posted \cup {tx}
              \cup {Settlement(d, <<"settle", Len(withdrawals) + 1>>, settle) : k \in {1} \cap 1 .. settle}
        /\ withdrawals' = Append(withdrawals,
              [driver |-> d, amount |-> n, settled |-> settle,
               status |-> IF settle = n THEN "COMPLETED" ELSE "PENDING"])
        /\ UNCHANGED <<trips, invoices, today>>

\* processTransferWebhookEvent, and the gateway's refusal at once.
TransferSucceeds(w) ==
    /\ withdrawals[w].status = "PENDING"
    /\ withdrawals' = [withdrawals EXCEPT ![w].status = "COMPLETED"]
    /\ UNCHANGED <<trips, invoices, posted, others, today>>

TransferFails(w) ==
    /\ withdrawals[w].status = "PENDING"
    /\ withdrawals' = [withdrawals EXCEPT ![w].status = "FAILED"]
    /\ \E tx \in posted :
          /\ tx.ref = <<"withdraw", w>>
          /\ \/ \E s \in posted : /\ s.ref = <<"settle", w>>
                                  /\ posted' = Refunded(Refunded(posted, tx), s)
             \/ /\ \A s \in posted : s.ref # <<"settle", w>>
                /\ posted' = Refunded(posted, tx)
    /\ UNCHANGED <<trips, invoices, others, today>>

\* payForKilowattService.
PaySwap(r, n) ==
    LET tx == Posting("KILOWATT_PAYMENT", <<"swap", others>>, n, Move(Rider(r), Revenue, n))
    IN  /\ Count /\ CanPost(tx)
        /\ posted' = posted \cup {tx}
        /\ UNCHANGED <<trips, invoices, withdrawals, today>>

Referrals == <<"PLATFORM_REFERRAL_PAYABLE", None>>

\* redeem: what the referrer will get is owed to all of them together.
Redeem(d, n) ==
    /\ Count
    /\ posted' = posted \cup {Accrual("REFERRAL_PAYOUT", <<"referral", others, d>>, Referrals, n)}
    /\ UNCHANGED <<trips, invoices, withdrawals, today>>

\* processPayouts: everything that is owed.
ProcessPayouts ==
    LET due == {tx \in posted : tx.ref[1] = "referral"
                    /\ \A paid \in posted : paid.ref # <<"payout", tx.ref>>}
    IN  /\ due # {}
        /\ posted' = posted \cup
              {Posting("REFERRAL_PAYOUT", <<"payout", tx.ref>>, tx.amount,
                       Move(Referrals, Driver(tx.ref[3]), tx.amount)) : tx \in due}
        /\ UNCHANGED <<trips, invoices, withdrawals, others, today>>

NewDay ==
    /\ today < MaxDay /\ Len(trips) + others <= Evening
    /\ today' = today + 1
    /\ UNCHANGED <<trips, invoices, withdrawals, posted, others>>

Next ==
    \/ \E kind \in {"RIDE", "DELIVERY"}, r \in Riders, b \in Businesses \cup {None},
          method \in {"WALLET", "CASH"}, status \in {"REQUESTED", "DISPATCHING"} :
          Book(kind, r, b, method, status)
    \/ \E i \in DOMAIN trips :
          \/ CompletePaid(i) \/ CompleteCash(i) \/ CompleteBilled(i)
          \/ CancelFree(i) \/ CancelLate(i) \/ Refund(i)
          \/ Dispatch(i) \/ NoDrivers(i) \/ \E d \in Drivers : Accept(i, d)
    \/ \E k \in DOMAIN invoices : PayInvoice(k)
    \/ \E w \in DOMAIN withdrawals : TransferSucceeds(w) \/ TransferFails(w)
    \/ \E n \in Amounts :
          \/ \E r \in Riders : TopUp(r, n) \/ PaySwap(r, n)
          \/ \E d \in Drivers : TopUpDriver(d, n) \/ Withdraw(d, n) \/ Redeem(d, n)
    \/ ProcessPayouts \/ NewDay

Spec == Init /\ [][Next]_vars
=============================================================================
