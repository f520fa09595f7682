------------------------------- MODULE Ledger -------------------------------
(***************************************************************************)
(* The double-entry ledger of WalletService                                *)
(* (src/src/wallet/wallet.service.ts).  Every wallet-affecting operation   *)
(* of the backend funnels through postTransactionEntries, which runs in    *)
(* one database transaction: it returns the existing row when the          *)
(* reference was used before, refuses unbalanced entries, applies each     *)
(* entry to its account with a conditional UPDATE, and creates the         *)
(* transaction with its ledger rows, or rolls everything back.  Two        *)
(* postings of one reference that overlap are serialised by the row locks  *)
(* and by the unique reference, so a posting is one step here.             *)
(*                                                                         *)
(* Amounts are whole units instead of Decimals: nothing here depends on    *)
(* rounding.  The ledger is one record, L, and the operations are pure     *)
(* functions from a ledger to a ledger, so that the modules that model the *)
(* callers (DriverMoney) compose them under their own interleavings.       *)
(***************************************************************************)
EXTENDS Integers, Sequences, FiniteSets, Folds, Functions

CONSTANTS
    Owners,     \* users and businesses: the non-null values of Account.ownerId
    Null,       \* the ownerId of the seeded platform accounts
    BaseRefs,   \* references the callers use (ride:<id>, topup:<token>, ...)
    Amounts,    \* amounts a posting may carry (a bound for TLC)
    Opening     \* what the accounts hold before the first posting: the code
                \* has no posting that credits a BUSINESS_WALLET

UserTypes == {"RIDER_WALLET", "DRIVER_WALLET", "DRIVER_COMMISSION_PAYABLE",
              "BUSINESS_WALLET", "BUSINESS_CREDIT_PAYABLE"}

PlatformTypes == {"PLATFORM_REVENUE", "PLATFORM_GATEWAY_CLEARING",
                  "PLATFORM_TAX_PAYABLE", "PLATFORM_REFERRAL_PAYABLE"}

\* An account is identified by its owner and its type (ownerId_type).
\* getOrCreateUserAccount upserts with balance 0, so an account that was
\* never used is an account with its opening balance and no rows.
UserAccounts     == Owners \X UserTypes
PlatformAccounts == {Null} \X PlatformTypes
Accounts         == UserAccounts \cup PlatformAccounts

SettlementRef(ref) == <<"settlement", ref>>   \* `${reference}:settlement`
RefundRef(ref)     == <<"refund", ref>>       \* `refund:${original.id}`

Refs == BaseRefs \cup {SettlementRef(r) : r \in BaseRefs}
                 \cup {RefundRef(r) : r \in BaseRefs}

ASSUME LedgerAssumption ==
    /\ IsFiniteSet(Owners)
    /\ Null \notin Owners
    /\ Amounts \subseteq Nat \ {0}
    /\ \A r \in BaseRefs : SettlementRef(r) \notin BaseRefs /\ RefundRef(r) \notin BaseRefs
    /\ Opening \in [Accounts -> Int]
    /\ \A a \in UserAccounts : Opening[a] >= 0

-----------------------------------------------------------------------------
(* Entries: one signed amount per account, a CREDIT positive, a DEBIT      *)
(* negative.  No posting of the code has two entries on one account.       *)

EntrySets == [Accounts -> Int]
NoEntries == [a \in Accounts |-> 0]
Flip(e)   == [a \in Accounts |-> -e[a]]

Revenue         == <<Null, "PLATFORM_REVENUE">>
Clearing        == <<Null, "PLATFORM_GATEWAY_CLEARING">>
TaxPayable      == <<Null, "PLATFORM_TAX_PAYABLE">>
ReferralPayable == <<Null, "PLATFORM_REFERRAL_PAYABLE">>

RiderWallet(o)       == <<o, "RIDER_WALLET">>
DriverWallet(o)      == <<o, "DRIVER_WALLET">>
CommissionPayable(o) == <<o, "DRIVER_COMMISSION_PAYABLE">>
BusinessWallet(o)    == <<o, "BUSINESS_WALLET">>
CreditPayable(o)     == <<o, "BUSINESS_CREDIT_PAYABLE">>

Move(from, to, amount) == [NoEntries EXCEPT ![from] = -amount, ![to] = amount]

\* The payer's debit split over driver, commission and tax (payForRide).
Split(payer, d, fare, commission, tax) ==
    [NoEntries EXCEPT ![payer] = -fare,
                      ![DriverWallet(d)] = fare - commission - tax,
                      ![Revenue] = commission,
                      ![TaxPayable] = tax]

TopUpEntries(u, amount)             == Move(Clearing, RiderWallet(u), amount)
RideFareEntries(r, d, f, c, t)      == Split(RiderWallet(r), d, f, c, t)
DeliveryFareEntries(s, d, f, c, t)  == Split(RiderWallet(s), d, f, c, t)
CashDeliveryEntries(d, amount)      == Move(Clearing, CommissionPayable(d), amount)
CashRideEntries(d, amount)          == Move(Clearing, CommissionPayable(d), amount)
SettlementEntries(d, amount)        == Move(CommissionPayable(d), Revenue, amount)
BusinessAccrualEntries(b, amount)   == Move(Clearing, CreditPayable(b), amount)
InvoicePaymentEntries(b, d, f, c, t) == Split(BusinessWallet(b), d, f, c, t)
InvoiceSettlementEntries(b, amount) == Move(CreditPayable(b), Clearing, amount)
WithdrawalEntries(d, amount)        == Move(DriverWallet(d), Clearing, amount)
KilowattEntries(u, amount)          == Move(RiderWallet(u), Revenue, amount)
ReferralAccrualEntries(amount)      == Move(Clearing, ReferralPayable, amount)
ReferralPayoutEntries(u, type, amount) == Move(ReferralPayable, <<u, type>>, amount)

\* A commission and a tax are cut out of the fare.  WalletService does not look
\* whether they exceed it: they come with the computed fare, where they do not
\* (FareIsWhole).
FareParts ==
    {p \in Amounts \X (Amounts \cup {0}) \X (Amounts \cup {0}) : p[2] + p[3] <= p[1]}

\* Everything the single-posting methods of WalletService can post.
Postings ==
         {TopUpEntries(u, x) : u \in Owners, x \in Amounts}
    \cup {CashRideEntries(d, x) : d \in Owners, x \in Amounts}
    \cup {SettlementEntries(d, x) : d \in Owners, x \in Amounts}
    \cup {BusinessAccrualEntries(b, x) : b \in Owners, x \in Amounts}
    \cup {WithdrawalEntries(d, x) : d \in Owners, x \in Amounts}
    \cup {KilowattEntries(u, x) : u \in Owners, x \in Amounts}
    \cup {ReferralAccrualEntries(x) : x \in Amounts}
    \cup {ReferralPayoutEntries(u, ty, x) :
              u \in Owners, ty \in {"RIDER_WALLET", "DRIVER_WALLET"}, x \in Amounts}
    \cup {RideFareEntries(r, d, p[1], p[2], p[3]) :
              r \in Owners, d \in Owners, p \in FareParts}

-----------------------------------------------------------------------------
(* One posting.                                                            *)

\* Debits equal credits.  (The sum runs over the accounts the entries touch.)
Balanced(e) == SumFunctionOnSet(e, {a \in Accounts : e[a] # 0}) = 0

\* `WHERE balance >= amount` on a debit of a user's account; platform
\* accounts have no guard and may go negative.
Sufficient(balance, e) ==
    \A a \in UserAccounts : e[a] < 0 => balance[a] + e[a] >= 0

NoTx == [status |-> "NONE", entries |-> NoEntries]

EmptyLedger ==
    [balance |-> Opening,
     txs     |-> [ref \in Refs |-> NoTx],
     rows    |-> [a \in Accounts |-> <<>>]]

Exists(L, ref) == L.txs[ref].status # "NONE"

\* Mutants of CanPost: the conditional UPDATE of the debit is dropped; the
\* lookup of the reference is dropped.
CanPostUnguarded(L, ref, e) == ~ Exists(L, ref) /\ Balanced(e)
CanPostAgain(L, ref, e)     == Balanced(e) /\ Sufficient(L.balance, e)

\* postTransactionEntries goes through: a new reference, balanced entries, no
\* user account overdrawn.  When the reference exists it changes nothing.
CanPost(L, ref, e) ==
    /\ ~ Exists(L, ref)
    /\ Balanced(e)
    /\ Sufficient(L.balance, e)

\* Mutants of Posted.  balanceAfter is read before the balance is updated; the
\* debit of a platform account is taken for one of the unguarded ones and not
\* applied.
PostedStaleAfter(L, ref, e) ==
    [balance |-> [a \in Accounts |-> L.balance[a] + e[a]],
     txs     |-> [L.txs EXCEPT ![ref] = [status |-> "COMPLETED", entries |-> e]],
     rows    |-> [a \in Accounts |->
                    IF e[a] = 0 THEN L.rows[a]
                    ELSE Append(L.rows[a],
                                [ref |-> ref, amount |-> e[a], after |-> L.balance[a]])]]
PostedOneSided(L, ref, e) ==
    [balance |-> [a \in Accounts |->
                    IF a \in PlatformAccounts /\ e[a] < 0 THEN L.balance[a]
                    ELSE L.balance[a] + e[a]],
     txs     |-> [L.txs EXCEPT ![ref] = [status |-> "COMPLETED", entries |-> e]],
     rows    |-> L.rows]

\* The ledger after the posting: balances moved, the transaction COMPLETED,
\* one row with its balanceAfter on every account touched.
Posted(L, ref, e) ==
    [balance |-> [a \in Accounts |-> L.balance[a] + e[a]],
     txs     |-> [L.txs EXCEPT ![ref] = [status |-> "COMPLETED", entries |-> e]],
     rows    |-> [a \in Accounts |->
                    IF e[a] = 0 THEN L.rows[a]
                    ELSE Append(L.rows[a],
                                [ref |-> ref, amount |-> e[a],
                                 after |-> L.balance[a] + e[a]])]]

\* refund: a COMPLETED transaction is reversed by a posting with every entry
\* flipped, under a reference derived from its own, and marked REVERSED.
CanRefund(L, ref) ==
    /\ L.txs[ref].status = "COMPLETED"
    /\ CanPost(L, RefundRef(ref), Flip(L.txs[ref].entries))

\* Mutant of Refunded: the original is not marked.
RefundedUnmarked(L, ref) == Posted(L, RefundRef(ref), Flip(L.txs[ref].entries))

Refunded(L, ref) ==
    LET P == Posted(L, RefundRef(ref), Flip(L.txs[ref].entries))
    IN  [P EXCEPT !.txs = [P.txs EXCEPT ![ref].status = "REVERSED"]]

-----------------------------------------------------------------------------
VARIABLE
    ledger      \* the rows of accounts, transactions and ledger entries

LedgerInit == ledger = EmptyLedger

\* Any method of WalletService that posts once.
Post(ref, e) ==
    /\ CanPost(ledger, ref, e)
    /\ ledger' = Posted(ledger, ref, e)

\* Mutant of PayInvoice: the payable is closed by what the driver received.
PayInvoiceNet(b, d, fare, commission, tax, ref) ==
    LET payment    == InvoicePaymentEntries(b, d, fare, commission, tax)
        settlement == InvoiceSettlementEntries(b, fare - commission - tax)
        paid       == Posted(ledger, ref, payment)
    IN  /\ CanPost(ledger, ref, payment)
        /\ CanPost(paid, SettlementRef(ref), settlement)
        /\ ledger' = Posted(paid, SettlementRef(ref), settlement)

\* payInvoice: the payment and the closing of the payable, two postings in
\* one database transaction; if either fails neither happens.
PayInvoice(b, d, fare, commission, tax, ref) ==
    LET payment    == InvoicePaymentEntries(b, d, fare, commission, tax)
        settlement == InvoiceSettlementEntries(b, fare)
        paid       == Posted(ledger, ref, payment)
    IN  /\ CanPost(ledger, ref, payment)
        /\ CanPost(paid, SettlementRef(ref), settlement)
        /\ ledger' = Posted(paid, SettlementRef(ref), settlement)

Refund(ref) ==
    /\ CanRefund(ledger, ref)
    /\ ledger' = Refunded(ledger, ref)

LedgerNext ==
    \/ \E ref \in BaseRefs, e \in Postings : Post(ref, e)
    \/ \E ref \in BaseRefs, b, d \in Owners, p \in FareParts :
          PayInvoice(b, d, p[1], p[2], p[3], ref)
    \/ \E ref \in BaseRefs : Refund(ref)

LedgerSpec == LedgerInit /\ [][LedgerNext]_ledger

-----------------------------------------------------------------------------
(* Properties.                                                             *)

TxRecords  == [status : {"NONE", "COMPLETED", "REVERSED"}, entries : EntrySets]
RowRecords == [ref : Refs, amount : Int, after : Int]

LedgerTypeOK(L) ==
    L \in [balance : [Accounts -> Int],
           txs     : [Refs -> TxRecords],
           rows    : [Accounts -> Seq(RowRecords)]]

\* The ledger, its transactions and its rows have their types.
TypeOK == LedgerTypeOK(ledger)

\* No user's wallet, and no debt account of a user, is ever overdrawn,
\* whatever postings, invoice payments and refunds are interleaved
\* (wallet.service.ts, the conditional UPDATE of a debit).
NoOverdraftIn(L) == \A a \in UserAccounts : L.balance[a] >= 0
NoOverdraft == NoOverdraftIn(ledger)

\* Account.balance is a cache of the ledger rows (kilo-backend-plan.md:697):
\* every row's balanceAfter is the previous one's plus its amount, and the
\* balance is the last balanceAfter.
RunningBalanceIn(L) ==
    \A a \in Accounts :
        /\ L.balance[a] = IF L.rows[a] = <<>> THEN Opening[a]
                          ELSE L.rows[a][Len(L.rows[a])].after
        /\ \A i \in DOMAIN L.rows[a] :
              L.rows[a][i].after =
                  L.rows[a][i].amount +
                      (IF i = 1 THEN Opening[a] ELSE L.rows[a][i - 1].after)
RunningBalance == RunningBalanceIn(ledger)

\* A reference moves money on an account at most once, and what it moved is
\* what its transaction says: a retried call never posts twice.
PostedOnceIn(L) ==
    \A a \in Accounts :
        /\ \A i \in DOMAIN L.rows[a] :
              /\ Exists(L, L.rows[a][i].ref)
              /\ L.rows[a][i].amount = L.txs[L.rows[a][i].ref].entries[a]
        /\ \A i, j \in DOMAIN L.rows[a] :
              L.rows[a][i].ref = L.rows[a][j].ref => i = j
PostedOnce == PostedOnceIn(ledger)

\* A transaction is REVERSED exactly when its refund was posted, and the
\* refund undoes every entry of it: never a refund without the mark (which
\* would allow a second one) and never the mark without the money.
RefundMatchesIn(L) ==
    \A ref \in BaseRefs :
        /\ (L.txs[ref].status = "REVERSED") <=> Exists(L, RefundRef(ref))
        /\ Exists(L, RefundRef(ref)) =>
              L.txs[RefundRef(ref)].entries = Flip(L.txs[ref].entries)
RefundMatches == RefundMatchesIn(ledger)

\* The ledger creates no money: all balances together stay what they were
\* at the opening.
ConservedIn(L) == SumFunction(L.balance) = SumFunction(Opening)
Conservation == ConservedIn(ledger)

\* Paying an invoice closes the payable it was accrued on by as much as the
\* business paid: the two halves of payInvoice never come apart.
InvoiceIsWholeIn(L) ==
    \A ref \in BaseRefs, b \in Owners :
        /\ Exists(L, SettlementRef(ref)) => Exists(L, ref)
        /\ L.txs[ref].entries[BusinessWallet(b)] < 0
              => L.txs[SettlementRef(ref)].entries[CreditPayable(b)]
                   = L.txs[ref].entries[BusinessWallet(b)]
InvoiceIsWhole == InvoiceIsWholeIn(ledger)

\* The ledger is append-only (kilo-backend-plan.md:696): a posted transaction
\* keeps its entries, its only change is COMPLETED to REVERSED, and rows are
\* only added after the ones there are.
AppendOnlyFrom(L, M) ==
    /\ \A ref \in Refs : Exists(L, ref) =>
          /\ M.txs[ref].entries = L.txs[ref].entries
          /\ M.txs[ref].status \in {L.txs[ref].status, "REVERSED"}
    /\ \A a \in Accounts : \A i \in DOMAIN L.rows[a] :
          /\ i \in DOMAIN M.rows[a]
          /\ M.rows[a][i] = L.rows[a][i]
AppendOnlyStep == AppendOnlyFrom(ledger, ledger')
AppendOnly == [][AppendOnlyStep]_ledger
=============================================================================
