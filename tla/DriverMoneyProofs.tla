------------------------- MODULE DriverMoneyProofs --------------------------
(***************************************************************************)
(* Theorems about DriverMoney, under every interleaving of overlapping     *)
(* calls, exceptions and restarts unless it is said otherwise.             *)
(*                                                                         *)
(* MoneyOK: the rows, the calls and the ledger keep their types and the    *)
(* ledger its invariant, and a withdrawal is FAILED only when its debit    *)
(* and its settlement were both given back.  Up to the row of its request  *)
(* one call is about a withdrawal, afterwards any number of webhooks.      *)
(* PaymentsOK: nothing is credited before the gateway has the money.       *)
(* BooksOK: the clearing account and the debts moved by what the           *)
(* transactions that stand moved.  TurnsOK, SentAllOK: when the calls take *)
(* turns and nothing fails, what is credited, settled, sent and given back *)
(* are whole amounts, from which the reconciliation follows.               *)
(***************************************************************************)
EXTENDS DriverMoney, Sums, TLAPS

-----------------------------------------------------------------------------
(***************************************************************************)
(* Theorems about Ledger, for every set of owners, references and amounts. *)
(*                                                                         *)
(* The invariant is the conjunction of the properties themselves: each of  *)
(* them is preserved by one posting (Posted) given the others, and every   *)
(* step of the specification is one posting, two postings (PayInvoice) or  *)
(* a posting and a mark (Refunded).  The lemmas are about a ledger L, not  *)
(* about the variable, so that the modules that keep their own ledger      *)
(* variable cite them too.                                                 *)
(***************************************************************************)

LEMMA EntryType ==
    ASSUME NEW e \in EntrySets, NEW a, NEW amount \in Int
    PROVE  [e EXCEPT ![a] = amount] \in EntrySets
  BY DEF EntrySets

LEMMA NoEntriesType == NoEntries \in EntrySets
  BY DEF EntrySets, NoEntries

\* The entries every method builds are a function from accounts to integers.
LEMMA MoveType ==
    ASSUME NEW from, NEW to, NEW amount \in Int
    PROVE  Move(from, to, amount) \in EntrySets
  <1> DEFINE f == [NoEntries EXCEPT ![from] = -amount]
  <1>1. f \in EntrySets
    BY SMTT(40), EntryType, NoEntriesType
  <1>2. [f EXCEPT ![to] = amount] \in EntrySets
    BY <1>1, EntryType
  <1> QED
    BY <1>2 DEF Move

LEMMA SplitType ==
    ASSUME NEW payer, NEW d, NEW fare \in Int, NEW commission \in Int, NEW tax \in Int
    PROVE  Split(payer, d, fare, commission, tax) \in EntrySets
  <1> DEFINE f == [NoEntries EXCEPT ![payer] = -fare]
             g == [f EXCEPT ![DriverWallet(d)] = fare - commission - tax]
             h == [g EXCEPT ![Revenue] = commission]
  <1>1. f \in EntrySets
    BY EntryType, NoEntriesType
  <1>2. g \in EntrySets
    <2>1. fare - commission - tax \in Int
      OBVIOUS
    <2> QED
      BY <1>1, <2>1, EntryType
  <1>3. h \in EntrySets
    BY <1>2, EntryType
  <1>4. [h EXCEPT ![TaxPayable] = tax] \in EntrySets
    BY <1>3, EntryType
  <1> QED
    BY <1>4 DEF Split

LEMMA FlipType ==
    ASSUME NEW e \in EntrySets
    PROVE  Flip(e) \in EntrySets
  BY DEF Flip, EntrySets

LEMMA FarePartsType ==
    ASSUME NEW p \in FareParts
    PROVE  p[1] \in Int /\ p[2] \in Int /\ p[3] \in Int
  <1>1. p \in Amounts \X (Amounts \cup {0}) \X (Amounts \cup {0})
    BY DEF FareParts
  <1>2. p[1] \in Amounts /\ p[2] \in Amounts \cup {0} /\ p[3] \in Amounts \cup {0}
    BY <1>1
  <1>3. Amounts \subseteq Int /\ Amounts \cup {0} \subseteq Int
    BY LedgerAssumption DEF LedgerAssumption
  <1>4. p[1] \in Int
    BY <1>2, <1>3
  <1>5. p[2] \in Int
    BY <1>2, <1>3
  <1>6. p[3] \in Int
    BY <1>2, <1>3
  <1> QED
    BY <1>4, <1>5, <1>6

LEMMA PostingsType == Postings \subseteq EntrySets
  <1> SUFFICES ASSUME NEW e \in Postings PROVE e \in EntrySets
    OBVIOUS
  <1> Amounts \subseteq Int
    BY LedgerAssumption DEF LedgerAssumption
  <1> USE MoveType
  <1>1. CASE \E u \in Owners, x \in Amounts : e = TopUpEntries(u, x)
    BY <1>1 DEF TopUpEntries
  <1>2. CASE \E d \in Owners, x \in Amounts : e = CashRideEntries(d, x)
    BY <1>2 DEF CashRideEntries
  <1>3. CASE \E d \in Owners, x \in Amounts : e = SettlementEntries(d, x)
    BY <1>3 DEF SettlementEntries
  <1>4. CASE \E b \in Owners, x \in Amounts : e = BusinessAccrualEntries(b, x)
    BY <1>4 DEF BusinessAccrualEntries
  <1>5. CASE \E d \in Owners, x \in Amounts : e = WithdrawalEntries(d, x)
    BY <1>5 DEF WithdrawalEntries
  <1>6. CASE \E u \in Owners, x \in Amounts : e = KilowattEntries(u, x)
    BY <1>6 DEF KilowattEntries
  <1>7. CASE \E x \in Amounts : e = ReferralAccrualEntries(x)
    BY <1>7 DEF ReferralAccrualEntries
  <1>8. CASE \E u \in Owners, ty \in {"RIDER_WALLET", "DRIVER_WALLET"}, x \in Amounts :
               e = ReferralPayoutEntries(u, ty, x)
    BY <1>8 DEF ReferralPayoutEntries
  <1>9. CASE \E r \in Owners, d \in Owners, p \in FareParts :
               e = RideFareEntries(r, d, p[1], p[2], p[3])
    BY <1>9, FarePartsType, SplitType DEF RideFareEntries
  <1> QED
    BY <1>1, <1>2, <1>3, <1>4, <1>5, <1>6, <1>7, <1>8, <1>9 DEF Postings

-----------------------------------------------------------------------------
(* One posting.                                                            *)

\* A posting keeps the types of the ledger.
LEMMA PostedType ==
    ASSUME NEW L, LedgerTypeOK(L), NEW ref \in Refs, NEW e \in EntrySets
    PROVE  LedgerTypeOK(Posted(L, ref, e))
  <1> DEFINE P == Posted(L, ref, e)
  <1>1. P.balance \in [Accounts -> Int]
    BY DEF Posted, LedgerTypeOK, EntrySets
  <1>2. P.txs \in [Refs -> TxRecords]
    BY DEF Posted, LedgerTypeOK, TxRecords
  <1>3. P.rows \in [Accounts -> Seq(RowRecords)]
    <2> SUFFICES ASSUME NEW a \in Accounts PROVE P.rows[a] \in Seq(RowRecords)
      BY DEF Posted
    <2> DEFINE row == [ref |-> ref, amount |-> e[a], after |-> L.balance[a] + e[a]]
    <2>1. row \in RowRecords
      BY DEF LedgerTypeOK, EntrySets, RowRecords
    <2>2. L.rows[a] \in Seq(RowRecords)
      BY DEF LedgerTypeOK
    <2>3. P.rows[a] \in {L.rows[a], Append(L.rows[a], row)}
      BY DEF Posted
    <2> HIDE DEF row, P
    <2>4. Append(L.rows[a], row) \in Seq(RowRecords)
      BY <2>1, <2>2
    <2> QED
      BY <2>2, <2>3, <2>4
  <1> QED
    BY <1>1, <1>2, <1>3 DEF Posted, LedgerTypeOK

\* The conditional debit: no posting overdraws a user's account.
LEMMA PostedNoOverdraft ==
    ASSUME NEW L, LedgerTypeOK(L), NoOverdraftIn(L),
           NEW ref \in Refs, NEW e \in EntrySets, Sufficient(L.balance, e)
    PROVE  NoOverdraftIn(Posted(L, ref, e))
  <1> SUFFICES ASSUME NEW a \in UserAccounts
               PROVE  Posted(L, ref, e).balance[a] >= 0
    BY DEF NoOverdraftIn
  <1>1. a \in Accounts /\ L.balance[a] \in Int /\ e[a] \in Int /\ L.balance[a] >= 0
    BY DEF Accounts, LedgerTypeOK, EntrySets, NoOverdraftIn
  <1>2. Posted(L, ref, e).balance[a] = L.balance[a] + e[a]
    BY <1>1 DEF Posted
  <1> QED
    BY <1>1, <1>2 DEF Sufficient

\* What a posting does to the rows of one account.
LEMMA PostedRows ==
    ASSUME NEW L, LedgerTypeOK(L), NEW ref \in Refs, NEW e \in EntrySets,
           NEW a \in Accounts
    PROVE  LET old == L.rows[a]
               new == Posted(L, ref, e).rows[a]
               row == [ref |-> ref, amount |-> e[a], after |-> L.balance[a] + e[a]]
           IN  /\ old \in Seq(RowRecords)
               /\ Posted(L, ref, e).balance[a] = L.balance[a] + e[a]
               /\ e[a] = 0 => new = old
               /\ e[a] # 0 => /\ Len(new) = Len(old) + 1
                              /\ \A i \in 1..Len(old) : new[i] = old[i]
                              /\ new[Len(old) + 1] = row
  BY DEF Posted, LedgerTypeOK

\* The running balance of every account survives a posting.
LEMMA PostedRunningBalance ==
    ASSUME NEW L, LedgerTypeOK(L), RunningBalanceIn(L),
           NEW ref \in Refs, NEW e \in EntrySets
    PROVE  RunningBalanceIn(Posted(L, ref, e))
  <1> DEFINE P == Posted(L, ref, e)
  <1> SUFFICES ASSUME NEW a \in Accounts
               PROVE  /\ P.balance[a] = IF P.rows[a] = <<>> THEN Opening[a]
                                        ELSE P.rows[a][Len(P.rows[a])].after
                      /\ \A i \in DOMAIN P.rows[a] :
                           P.rows[a][i].after =
                             P.rows[a][i].amount +
                               (IF i = 1 THEN Opening[a] ELSE P.rows[a][i - 1].after)
    BY DEF RunningBalanceIn
  <1> DEFINE old == L.rows[a]
             new == P.rows[a]
             n   == Len(old)
             row == [ref |-> ref, amount |-> e[a], after |-> L.balance[a] + e[a]]
  <1>1. /\ old \in Seq(RowRecords)
        /\ P.balance[a] = L.balance[a] + e[a]
        /\ e[a] = 0 => new = old
        /\ e[a] # 0 => /\ Len(new) = n + 1
                       /\ \A i \in 1..n : new[i] = old[i]
                       /\ new[n + 1] = row
    BY PostedRows
  <1>2. /\ L.balance[a] = IF old = <<>> THEN Opening[a] ELSE old[n].after
        /\ \A i \in DOMAIN old :
             old[i].after = old[i].amount + (IF i = 1 THEN Opening[a] ELSE old[i - 1].after)
    BY DEF RunningBalanceIn
  <1>3. L.balance[a] \in Int /\ e[a] \in Int
    BY DEF LedgerTypeOK, EntrySets
  <1>4. LedgerTypeOK(P)
    BY PostedType
  <1>5. new \in Seq(RowRecords)
    BY <1>4 DEF LedgerTypeOK
  <1>6. CASE e[a] = 0
    BY SMTT(40), <1>1, <1>2, <1>3, <1>6
  <1>7. CASE e[a] # 0
    <2>1. n \in Nat /\ DOMAIN old = 1..n /\ DOMAIN new = 1..(n + 1) /\ new # <<>>
      BY <1>1, <1>5, <1>7
    <2>2. (old = <<>>) <=> (n = 0)
      BY <1>1
    <2>3. new[Len(new)].after = P.balance[a]
      BY <1>1, <1>7
    <2>4. ASSUME NEW i \in 1..n
          PROVE  new[i].after = new[i].amount + (IF i = 1 THEN Opening[a] ELSE new[i - 1].after)
      <3>1. new[i] = old[i] /\ (i # 1 => new[i - 1] = old[i - 1])
        BY <1>1, <1>7, <2>1
      <3> QED
        BY <3>1, <1>2, <2>1
    <2>5. new[n + 1].after = new[n + 1].amount
                               + (IF n + 1 = 1 THEN Opening[a] ELSE new[n].after)
      <3>1. n # 0 => new[n] = old[n]
        BY <1>1, <1>7, <2>1
      <3>2. L.balance[a] = IF n + 1 = 1 THEN Opening[a] ELSE new[n].after
        BY <1>2, <2>1, <2>2, <3>1
      <3>3. new[n + 1] = row
        BY <1>1, <1>7
      <3> HIDE DEF new, n, old
      <3>4. new[n + 1].after = L.balance[a] + e[a] /\ new[n + 1].amount = e[a]
        BY <3>3
      <3>5. new[n + 1].after = new[n + 1].amount + L.balance[a]
        BY <1>3, <3>4
      <3> QED
        BY <3>2, <3>5
    <2>6. ASSUME NEW i \in DOMAIN new
          PROVE  new[i].after = new[i].amount + (IF i = 1 THEN Opening[a] ELSE new[i - 1].after)
      <3>1. CASE i \in 1..n
        BY <2>4, <3>1
      <3>2. CASE i = n + 1
        <4>1. i - 1 = n
          BY <2>1, <3>2
        <4> QED
          BY <2>5, <3>2, <4>1
      <3> QED
        BY <2>1, <3>1, <3>2
    <2> HIDE DEF new, P
    <2> QED
      BY <2>1, <2>3, <2>6 DEF new
  <1> QED
    BY <1>3, <1>6, <1>7

\* What a posting does to the transactions.
LEMMA PostedTxs ==
    ASSUME NEW L, LedgerTypeOK(L), NEW ref \in Refs, NEW e \in EntrySets
    PROVE  /\ Posted(L, ref, e).txs[ref].status = "COMPLETED"
           /\ Posted(L, ref, e).txs[ref].entries = e
           /\ Exists(Posted(L, ref, e), ref)
           /\ \A r \in Refs : r # ref =>
                 /\ Posted(L, ref, e).txs[r] = L.txs[r]
                 /\ Exists(Posted(L, ref, e), r) <=> Exists(L, r)
  BY DEF Posted, LedgerTypeOK, Exists

\* A posting under a new reference keeps every reference posted once.
LEMMA PostedPostedOnce ==
    ASSUME NEW L, LedgerTypeOK(L), PostedOnceIn(L),
           NEW ref \in Refs, NEW e \in EntrySets, ~ Exists(L, ref)
    PROVE  PostedOnceIn(Posted(L, ref, e))
  <1> DEFINE P == Posted(L, ref, e)
  <1> SUFFICES ASSUME NEW a \in Accounts
               PROVE  /\ \A i \in DOMAIN P.rows[a] :
                           /\ Exists(P, P.rows[a][i].ref)
                           /\ P.rows[a][i].amount = P.txs[P.rows[a][i].ref].entries[a]
                      /\ \A i, j \in DOMAIN P.rows[a] :
                           P.rows[a][i].ref = P.rows[a][j].ref => i = j
    BY DEF PostedOnceIn
  <1> DEFINE old == L.rows[a]
             new == P.rows[a]
             n   == Len(old)
  <1>1. /\ old \in Seq(RowRecords)
        /\ e[a] = 0 => new = old
        /\ e[a] # 0 => /\ Len(new) = n + 1
                       /\ \A i \in 1..n : new[i] = old[i]
                       /\ new[n + 1] = [ref |-> ref, amount |-> e[a],
                                        after |-> L.balance[a] + e[a]]
    BY PostedRows
  <1>2. n \in Nat /\ DOMAIN old = 1..n
    BY <1>1
  <1>3. new \in Seq(RowRecords)
    <2>1. LedgerTypeOK(P)
      BY PostedType
    <2> QED
      BY <2>1 DEF LedgerTypeOK
  <1>4. ASSUME NEW i \in 1..n
        PROVE  /\ old[i].ref \in Refs /\ old[i].ref # ref
               /\ Exists(P, old[i].ref)
               /\ old[i].amount = P.txs[old[i].ref].entries[a]
    <2>1. old[i] \in RowRecords
      BY <1>1, <1>2
    <2>4. old[i].ref \in Refs
      BY <2>1 DEF RowRecords
    <2>2. Exists(L, old[i].ref) /\ old[i].amount = L.txs[old[i].ref].entries[a]
      BY <1>2 DEF PostedOnceIn
    <2>3. old[i].ref # ref
      BY <2>2
    <2> HIDE DEF old, n, P
    <2>5. P.txs[old[i].ref] = L.txs[old[i].ref]
      BY <2>3, <2>4, PostedTxs DEF P
    <2>6. Exists(P, old[i].ref)
      BY <2>2, <2>5 DEF Exists
    <2> QED
      BY <2>2, <2>3, <2>4, <2>5, <2>6
  <1>5. \A i, j \in 1..n : old[i].ref = old[j].ref => i = j
    BY <1>2 DEF PostedOnceIn
  <1>6. Exists(P, ref) /\ P.txs[ref].entries = e
    BY PostedTxs
  <1> HIDE DEF P
  <1>7. CASE e[a] = 0
    <2>1. new = old
      BY <1>1, <1>7
    <2>2. DOMAIN new = 1..n
      BY <1>2, <2>1
    <2>3. \A i \in 1..n : new[i] = old[i]
      BY <2>1
    <2> HIDE DEF new, old, n
    <2>4. ASSUME NEW i \in DOMAIN new
          PROVE  Exists(P, new[i].ref) /\ new[i].amount = P.txs[new[i].ref].entries[a]
      BY <1>4, <2>2, <2>3
    <2>5. \A i, j \in DOMAIN new : new[i].ref = new[j].ref => i = j
      BY <1>5, <2>2, <2>3
    <2> QED
      BY <2>4, <2>5 DEF new
  <1>8. CASE e[a] # 0
    <2>1. DOMAIN new = 1..(n + 1)
      BY <1>1, <1>3, <1>8
    <2>2. \A i \in 1..n : new[i] = old[i]
      BY <1>1, <1>8
    <2>3. new[n + 1].ref = ref /\ new[n + 1].amount = e[a]
      BY <1>1, <1>8
    <2> HIDE DEF new, old, n
    <2>4. ASSUME NEW i \in DOMAIN new
          PROVE  Exists(P, new[i].ref) /\ new[i].amount = P.txs[new[i].ref].entries[a]
      <3>1. CASE i \in 1..n
        BY <3>1, <1>4, <2>2
      <3>2. CASE i = n + 1
        BY <3>2, <1>6, <2>3
      <3> QED
        BY <1>2, <2>1, <3>1, <3>2
    <2>5. ASSUME NEW i \in DOMAIN new, NEW j \in DOMAIN new, new[i].ref = new[j].ref
          PROVE  i = j
      <3>1. \A k \in 1..n : new[k].ref # ref
        BY <1>4, <2>2
      <3>2. CASE i \in 1..n /\ j \in 1..n
        BY <3>2, <1>5, <2>2, <2>5
      <3>3. CASE i = n + 1 \/ j = n + 1
        BY <3>3, <3>1, <1>2, <2>1, <2>3, <2>5
      <3> QED
        BY <1>2, <2>1, <3>2, <3>3
    <2> QED
      BY <2>4, <2>5 DEF new
  <1> QED
    BY <1>7, <1>8

-----------------------------------------------------------------------------
(* References.                                                             *)

LEMMA RefFacts ==
    ASSUME NEW ref \in BaseRefs
    PROVE  /\ ref \in Refs /\ SettlementRef(ref) \in Refs /\ RefundRef(ref) \in Refs
           /\ SettlementRef(ref) \notin BaseRefs /\ RefundRef(ref) \notin BaseRefs
           /\ \A r \in BaseRefs : SettlementRef(ref) # RefundRef(r)
           /\ \A r \in BaseRefs : RefundRef(ref) = RefundRef(r) => r = ref
  <1>1. /\ SettlementRef(ref) \notin BaseRefs /\ RefundRef(ref) \notin BaseRefs
    BY LedgerAssumption DEF LedgerAssumption
  <1>2. ref \in Refs /\ SettlementRef(ref) \in Refs /\ RefundRef(ref) \in Refs
    BY DEF Refs
  <1>3. \A r \in BaseRefs : SettlementRef(ref) # RefundRef(r)
    BY DEF SettlementRef, RefundRef
  <1>4. \A r \in BaseRefs : RefundRef(ref) = RefundRef(r) => r = ref
    BY DEF RefundRef
  <1> QED
    BY <1>1, <1>2, <1>3, <1>4

-----------------------------------------------------------------------------
(* The invariant.                                                          *)

LedgerOK(L) ==
    /\ LedgerTypeOK(L)
    /\ NoOverdraftIn(L)
    /\ RunningBalanceIn(L)
    /\ PostedOnceIn(L)
    /\ RefundMatchesIn(L)
    /\ ConservedIn(L)

\* A posting that is not a refund keeps refunds and marks in step.
LEMMA PostedRefundMatches ==
    ASSUME NEW L, LedgerTypeOK(L), RefundMatchesIn(L),
           NEW ref \in Refs, NEW e \in EntrySets, ~ Exists(L, ref),
           \A r \in BaseRefs : ref # RefundRef(r)
    PROVE  RefundMatchesIn(Posted(L, ref, e))
  <1> DEFINE P == Posted(L, ref, e)
  <1> SUFFICES ASSUME NEW r \in BaseRefs
               PROVE  /\ (P.txs[r].status = "REVERSED") <=> Exists(P, RefundRef(r))
                      /\ Exists(P, RefundRef(r)) =>
                           P.txs[RefundRef(r)].entries = Flip(P.txs[r].entries)
    BY DEF RefundMatchesIn
  <1>1. r \in Refs /\ RefundRef(r) \in Refs /\ RefundRef(r) # ref
    BY RefFacts
  <1>2. /\ (L.txs[r].status = "REVERSED") <=> Exists(L, RefundRef(r))
        /\ Exists(L, RefundRef(r)) => L.txs[RefundRef(r)].entries = Flip(L.txs[r].entries)
    BY DEF RefundMatchesIn
  <1>3. P.txs[RefundRef(r)] = L.txs[RefundRef(r)]
        /\ (Exists(P, RefundRef(r)) <=> Exists(L, RefundRef(r)))
    BY <1>1, PostedTxs
  <1>4. CASE r = ref
    <2>1. P.txs[r].status = "COMPLETED" /\ L.txs[r].status = "NONE"
      BY <1>4, PostedTxs DEF Exists
    <2> QED
      BY <1>2, <1>3, <2>1
  <1>5. CASE r # ref
    <2>1. P.txs[r] = L.txs[r]
      BY <1>1, <1>5, PostedTxs
    <2> QED
      BY <1>2, <1>3, <2>1
  <1> QED
    BY <1>4, <1>5

LEMMA AccountsFinite == IsFiniteSet(Accounts)
  <1>1. IsFiniteSet(UserTypes) /\ IsFiniteSet(PlatformTypes) /\ IsFiniteSet({Null})
    <2> DEFINE U == {"RIDER_WALLET"} \cup {"DRIVER_WALLET"} \cup {"DRIVER_COMMISSION_PAYABLE"}
                      \cup {"BUSINESS_WALLET"} \cup {"BUSINESS_CREDIT_PAYABLE"}
               P == {"PLATFORM_REVENUE"} \cup {"PLATFORM_GATEWAY_CLEARING"}
                      \cup {"PLATFORM_TAX_PAYABLE"} \cup {"PLATFORM_REFERRAL_PAYABLE"}
    <2>1. UserTypes = U /\ PlatformTypes = P
      BY DEF UserTypes, PlatformTypes
    <2>2. \A x : IsFiniteSet({x})
      BY FS_Singleton
    <2>3. IsFiniteSet(U) /\ IsFiniteSet(P)
      BY <2>2, FS_AddElement
    <2> QED
      BY <2>1, <2>2, <2>3
  <1>2. IsFiniteSet(UserAccounts) /\ IsFiniteSet(PlatformAccounts)
    BY <1>1, FS_Product, LedgerAssumption DEF UserAccounts, PlatformAccounts, LedgerAssumption
  <1> QED
    BY <1>2, FS_Union DEF Accounts

\* Balanced entries sum to zero over all accounts, and leave the sum of the
\* balances what it was.
LEMMA PostedConserved ==
    ASSUME NEW L, LedgerTypeOK(L), ConservedIn(L),
           NEW ref \in Refs, NEW e \in EntrySets, Balanced(e)
    PROVE  ConservedIn(Posted(L, ref, e))
  <1> DEFINE P == Posted(L, ref, e)
  <1>1. /\ Ints(e, Accounts) /\ Ints(L.balance, Accounts)
        /\ DOMAIN L.balance = Accounts /\ DOMAIN P.balance = Accounts
        /\ \A a \in Accounts : P.balance[a] = L.balance[a] + e[a]
    BY DEF Ints, EntrySets, LedgerTypeOK, Posted
  <1>2. SumFunctionOnSet(e, Accounts) = 0
    BY <1>1, AccountsFinite, SumSupport DEF Balanced
  <1> HIDE DEF P
  <1>3. SumFunctionOnSet(P.balance, Accounts)
          = SumFunctionOnSet(L.balance, Accounts) + SumFunctionOnSet(e, Accounts)
    BY <1>1, AccountsFinite, SumPlus
  <1>4. SumFunctionOnSet(L.balance, Accounts) \in Int
    BY <1>1, AccountsFinite, SumInt
  <1>5. SumFunctionOnSet(P.balance, Accounts) = SumFunctionOnSet(L.balance, Accounts)
    BY <1>2, <1>3, <1>4
  <1>6. SumFunction(P.balance) = SumFunction(L.balance)
    BY <1>1, <1>5 DEF SumFunction
  <1> QED
    BY <1>6 DEF ConservedIn, P

\* One posting of a method of WalletService keeps the invariant.
LEMMA PostedOK ==
    ASSUME NEW L, LedgerOK(L), NEW ref \in Refs, NEW e \in EntrySets,
           CanPost(L, ref, e), \A r \in BaseRefs : ref # RefundRef(r)
    PROVE  LedgerOK(Posted(L, ref, e))
  BY PostedType, PostedNoOverdraft, PostedRunningBalance, PostedPostedOnce,
     PostedRefundMatches, PostedConserved DEF LedgerOK, CanPost

\* The posting and the mark of a refund keep the invariant.
LEMMA RefundedOK ==
    ASSUME NEW L, LedgerOK(L), NEW ref \in BaseRefs, CanRefund(L, ref)
    PROVE  LedgerOK(Refunded(L, ref))
  <1> DEFINE e == Flip(L.txs[ref].entries)
             P == Posted(L, RefundRef(ref), e)
             R == Refunded(L, ref)
  <1>1. ref \in Refs /\ RefundRef(ref) \in Refs /\ ref # RefundRef(ref)
    BY RefFacts
  <1>2. L.txs[ref].entries \in EntrySets /\ e \in EntrySets
    BY <1>1, FlipType DEF LedgerOK, LedgerTypeOK, TxRecords
  <1>3. CanPost(L, RefundRef(ref), e) /\ L.txs[ref].status = "COMPLETED"
    BY DEF CanRefund
  <1>4. /\ LedgerTypeOK(P) /\ NoOverdraftIn(P) /\ RunningBalanceIn(P) /\ PostedOnceIn(P)
    BY <1>1, <1>2, <1>3, PostedType, PostedNoOverdraft, PostedRunningBalance,
       PostedPostedOnce DEF LedgerOK, CanPost
  <1>5. /\ R = [P EXCEPT !.txs = [P.txs EXCEPT ![ref].status = "REVERSED"]]
    BY DEF Refunded
  <1>6. /\ P.txs[RefundRef(ref)].entries = e
        /\ Exists(P, RefundRef(ref))
        /\ \A r \in Refs : r # RefundRef(ref) =>
             P.txs[r] = L.txs[r] /\ (Exists(P, r) <=> Exists(L, r))
    <2>1. LedgerTypeOK(L)
      BY DEF LedgerOK
    <2> QED
      BY <1>1, <1>2, <2>1, PostedTxs
  <1> HIDE DEF P, R, e
  <1>7. /\ R.balance = P.balance /\ R.rows = P.rows
        /\ R.txs = [P.txs EXCEPT ![ref].status = "REVERSED"]
        /\ LedgerTypeOK(R)
    BY <1>1, <1>4, <1>5 DEF LedgerTypeOK, TxRecords
  <1>8. /\ R.txs[ref].status = "REVERSED"
        /\ \A r \in Refs : R.txs[r].entries = P.txs[r].entries
        /\ \A r \in Refs \ {ref} : R.txs[r] = P.txs[r]
    BY <1>1, <1>4, <1>7 DEF LedgerTypeOK, TxRecords
  <1>9. Exists(P, ref)
    BY <1>1, <1>3, <1>6 DEF Exists
  <1>10. \A r \in Refs : Exists(R, r) <=> Exists(P, r)
    BY <1>8, <1>9 DEF Exists
  <1>11. NoOverdraftIn(R) /\ RunningBalanceIn(R)
    BY <1>4, <1>7 DEF NoOverdraftIn, RunningBalanceIn
  <1>12. PostedOnceIn(R)
    <2> SUFFICES ASSUME NEW a \in Accounts
                 PROVE  /\ \A i \in DOMAIN R.rows[a] :
                             /\ Exists(R, R.rows[a][i].ref)
                             /\ R.rows[a][i].amount = R.txs[R.rows[a][i].ref].entries[a]
                        /\ \A i, j \in DOMAIN R.rows[a] :
                             R.rows[a][i].ref = R.rows[a][j].ref => i = j
      BY DEF PostedOnceIn
    <2>1. \A i \in DOMAIN P.rows[a] : P.rows[a][i].ref \in Refs
      <3>1. P.rows[a] \in Seq(RowRecords)
        BY <1>4 DEF LedgerTypeOK
      <3>2. \A i \in DOMAIN P.rows[a] : P.rows[a][i] \in RowRecords
        BY <3>1
      <3> QED
        BY <3>2 DEF RowRecords
    <2>2. /\ \A i \in DOMAIN P.rows[a] :
               /\ Exists(P, P.rows[a][i].ref)
               /\ P.rows[a][i].amount = P.txs[P.rows[a][i].ref].entries[a]
          /\ \A i, j \in DOMAIN P.rows[a] : P.rows[a][i].ref = P.rows[a][j].ref => i = j
      BY <1>4 DEF PostedOnceIn
    <2> QED
      BY <2>1, <2>2, <1>7, <1>8, <1>10
  <1>13. RefundMatchesIn(R)
    <2> SUFFICES ASSUME NEW r \in BaseRefs
                 PROVE  /\ (R.txs[r].status = "REVERSED") <=> Exists(R, RefundRef(r))
                        /\ Exists(R, RefundRef(r)) =>
                             R.txs[RefundRef(r)].entries = Flip(R.txs[r].entries)
      BY DEF RefundMatchesIn
    <2>1. r \in Refs /\ RefundRef(r) \in Refs /\ r # RefundRef(ref) /\ RefundRef(r) # ref
      BY RefFacts
    <2>2. CASE r = ref
      BY <2>1, <2>2, <1>6, <1>8, <1>10 DEF e
    <2>3. CASE r # ref
      <3>1. RefundRef(r) # RefundRef(ref)
        BY <2>3, RefFacts
      <3>2. /\ (L.txs[r].status = "REVERSED") <=> Exists(L, RefundRef(r))
            /\ Exists(L, RefundRef(r)) => L.txs[RefundRef(r)].entries = Flip(L.txs[r].entries)
        BY DEF LedgerOK, RefundMatchesIn
      <3> QED
        BY <2>1, <2>3, <3>1, <3>2, <1>6, <1>8, <1>10
    <2> QED
      BY <2>2, <2>3
  <1>14. ConservedIn(R)
    <2>1. ConservedIn(P)
      <3>1. ConservedIn(Posted(L, RefundRef(ref), e))
        BY <1>1, <1>2, <1>3, PostedConserved DEF LedgerOK, CanPost
      <3> QED
        BY <3>1 DEF P
    <2> QED
      BY <1>7, <2>1 DEF ConservedIn
  <1> QED
    BY <1>7, <1>11, <1>12, <1>13, <1>14 DEF LedgerOK, R

\* A refund writes its own transaction and marks the original.
LEMMA RefundedTxs ==
    ASSUME NEW L, LedgerTypeOK(L), NEW ref \in BaseRefs, CanRefund(L, ref)
    PROVE  /\ \A r \in Refs \ {ref, RefundRef(ref)} :
                 Refunded(L, ref).txs[r] = L.txs[r]
           /\ Refunded(L, ref).txs[ref] = [L.txs[ref] EXCEPT !.status = "REVERSED"]
           /\ \A r \in Refs : r # RefundRef(ref) =>
                 /\ Exists(Refunded(L, ref), r) <=> Exists(L, r)
                 /\ Refunded(L, ref).txs[r].entries = L.txs[r].entries
  <1> DEFINE e == Flip(L.txs[ref].entries)
             P == Posted(L, RefundRef(ref), e)
             R == Refunded(L, ref)
  <1>1. ref \in Refs /\ RefundRef(ref) \in Refs /\ ref # RefundRef(ref)
    BY RefFacts
  <1>2. e \in EntrySets
    BY <1>1, FlipType DEF LedgerTypeOK, TxRecords
  <1>3. /\ LedgerTypeOK(P)
        /\ \A r \in Refs : r # RefundRef(ref) => P.txs[r] = L.txs[r]
    BY <1>1, <1>2, PostedType, PostedTxs
  <1>4. R = [P EXCEPT !.txs = [P.txs EXCEPT ![ref].status = "REVERSED"]]
    BY DEF Refunded
  <1>5. L.txs[ref].status = "COMPLETED" /\ L.txs[ref] \in TxRecords
    BY <1>1 DEF CanRefund, LedgerTypeOK
  <1> HIDE DEF P, R, e
  <1>6. R.txs = [P.txs EXCEPT ![ref].status = "REVERSED"]
    BY <1>3, <1>4 DEF LedgerTypeOK
  <1>7. /\ R.txs[ref] = [L.txs[ref] EXCEPT !.status = "REVERSED"]
        /\ \A r \in Refs \ {ref, RefundRef(ref)} : R.txs[r] = L.txs[r]
    BY <1>1, <1>3, <1>6 DEF LedgerTypeOK
  <1>8. \A r \in Refs : r # RefundRef(ref) =>
           (Exists(R, r) <=> Exists(L, r)) /\ R.txs[r].entries = L.txs[r].entries
    BY <1>5, <1>7 DEF Exists, TxRecords
  <1> QED
    BY <1>7, <1>8 DEF R

\* A posting under a new reference only adds.
LEMMA PostedAppends ==
    ASSUME NEW L, LedgerTypeOK(L), NEW ref \in Refs, NEW e \in EntrySets, ~ Exists(L, ref)
    PROVE  AppendOnlyFrom(L, Posted(L, ref, e))
  <1> DEFINE P == Posted(L, ref, e)
  <1>1. ASSUME NEW r \in Refs, Exists(L, r)
        PROVE  P.txs[r].entries = L.txs[r].entries /\ P.txs[r].status = L.txs[r].status
    <2>1. r # ref
      BY <1>1
    <2>2. P.txs[r] = L.txs[r]
      BY <2>1, PostedTxs
    <2> QED
      BY <2>2
  <1>2. ASSUME NEW a \in Accounts, NEW i \in DOMAIN L.rows[a]
        PROVE  i \in DOMAIN P.rows[a] /\ P.rows[a][i] = L.rows[a][i]
    <2>1. /\ L.rows[a] \in Seq(RowRecords)
          /\ e[a] = 0 => P.rows[a] = L.rows[a]
          /\ e[a] # 0 => /\ Len(P.rows[a]) = Len(L.rows[a]) + 1
                         /\ \A k \in 1..Len(L.rows[a]) : P.rows[a][k] = L.rows[a][k]
      BY PostedRows
    <2>2. LedgerTypeOK(P)
      BY PostedType
    <2>3. P.rows[a] \in Seq(RowRecords)
      BY <2>2 DEF LedgerTypeOK
    <2> DEFINE old == L.rows[a]
               new == P.rows[a]
    <2>4. CASE e[a] = 0
      BY <2>1, <2>4
    <2>5. CASE e[a] # 0
      <3>1. Len(new) = Len(old) + 1 /\ \A k \in 1..Len(old) : new[k] = old[k]
        BY <2>1, <2>5
      <3>2. old \in Seq(RowRecords) /\ new \in Seq(RowRecords) /\ i \in DOMAIN old
        BY <2>1, <2>3
      <3> HIDE DEF old, new
      <3>3. Len(old) \in Nat /\ DOMAIN old = 1..Len(old) /\ DOMAIN new = 1..Len(new)
        BY <3>2
      <3>4. i \in 1..Len(old) /\ i \in 1..Len(new)
        BY <3>1, <3>2, <3>3
      <3>5. i \in DOMAIN new /\ new[i] = old[i]
        BY <3>1, <3>3, <3>4
      <3> QED
        BY <3>5 DEF old, new
    <2> QED
      BY <2>4, <2>5
  <1> QED
    BY <1>1, <1>2 DEF AppendOnlyFrom

\* Two postings of one step only add.
LEMMA AppendOnlyTrans ==
    ASSUME NEW L, NEW M, NEW N, AppendOnlyFrom(L, M), AppendOnlyFrom(M, N)
    PROVE  AppendOnlyFrom(L, N)
  <1>1. ASSUME NEW r \in Refs, Exists(L, r)
        PROVE  N.txs[r].entries = L.txs[r].entries /\ N.txs[r].status \in {L.txs[r].status, "REVERSED"}
    <2>1. M.txs[r].entries = L.txs[r].entries /\ M.txs[r].status \in {L.txs[r].status, "REVERSED"}
      BY <1>1 DEF AppendOnlyFrom
    <2>2. Exists(M, r)
      BY <1>1, <2>1 DEF Exists
    <2>3. N.txs[r].entries = M.txs[r].entries /\ N.txs[r].status \in {M.txs[r].status, "REVERSED"}
      BY <2>2 DEF AppendOnlyFrom
    <2> QED
      BY <2>1, <2>3
  <1>2. ASSUME NEW a \in Accounts, NEW i \in DOMAIN L.rows[a]
        PROVE  i \in DOMAIN N.rows[a] /\ N.rows[a][i] = L.rows[a][i]
    <2>1. i \in DOMAIN M.rows[a] /\ M.rows[a][i] = L.rows[a][i]
      BY DEF AppendOnlyFrom
    <2>2. i \in DOMAIN N.rows[a] /\ N.rows[a][i] = M.rows[a][i]
      BY <2>1 DEF AppendOnlyFrom
    <2> QED
      BY <2>1, <2>2
  <1> QED
    BY <1>1, <1>2 DEF AppendOnlyFrom

\* A refund adds its posting and marks the original.
LEMMA RefundedAppends ==
    ASSUME NEW L, LedgerOK(L), NEW ref \in BaseRefs, CanRefund(L, ref)
    PROVE  AppendOnlyFrom(L, Refunded(L, ref))
  <1> DEFINE e == Flip(L.txs[ref].entries)
             P == Posted(L, RefundRef(ref), e)
             R == Refunded(L, ref)
  <1>1. /\ ref \in Refs /\ RefundRef(ref) \in Refs /\ LedgerTypeOK(L)
        /\ ~ Exists(L, RefundRef(ref))
    BY RefFacts DEF LedgerOK, CanRefund, CanPost
  <1>2. L.txs[ref].entries \in EntrySets
    BY <1>1 DEF LedgerTypeOK, TxRecords
  <1>3. e \in EntrySets
    BY <1>2, FlipType
  <1>4. AppendOnlyFrom(L, P) /\ LedgerTypeOK(P)
    BY <1>1, <1>3, PostedAppends, PostedType
  <1>5. R = [P EXCEPT !.txs = [P.txs EXCEPT ![ref].status = "REVERSED"]]
    BY DEF Refunded
  <1> HIDE DEF P, R, e
  <1>6. AppendOnlyFrom(P, R)
    BY <1>1, <1>4, <1>5 DEF AppendOnlyFrom, LedgerTypeOK, TxRecords
  <1>7. AppendOnlyFrom(L, R)
    BY <1>4, <1>6, AppendOnlyTrans
  <1> QED
    BY <1>7 DEF R

-----------------------------------------------------------------------------
(* The specification.                                                      *)

LEMMA InitOK == LedgerInit => LedgerOK(ledger)
  <1> SUFFICES LedgerOK(EmptyLedger)
    BY DEF LedgerInit
  <1>1. Opening \in [Accounts -> Int] /\ \A a \in UserAccounts : Opening[a] >= 0
    BY LedgerAssumption DEF LedgerAssumption
  <1>2. NoTx \in TxRecords
    BY NoEntriesType DEF NoTx, TxRecords
  <1>3. LedgerTypeOK(EmptyLedger)
    BY <1>1, <1>2 DEF EmptyLedger, LedgerTypeOK
  <1>4. NoOverdraftIn(EmptyLedger)
    BY <1>1 DEF EmptyLedger, NoOverdraftIn
  <1>5. RunningBalanceIn(EmptyLedger) /\ PostedOnceIn(EmptyLedger)
    BY <1>1 DEF EmptyLedger, RunningBalanceIn, PostedOnceIn
  <1>6. RefundMatchesIn(EmptyLedger)
    <2>1. \A r \in Refs : EmptyLedger.txs[r].status = "NONE"
      BY DEF EmptyLedger, NoTx
    <2> QED
      BY <2>1, RefFacts DEF RefundMatchesIn, Exists
  <1>7. ConservedIn(EmptyLedger)
    BY DEF EmptyLedger, ConservedIn
  <1> QED
    BY <1>3, <1>4, <1>5, <1>6, <1>7 DEF LedgerOK

\* The two postings of payInvoice have their types.
LEMMA InvoiceEntriesType ==
    ASSUME NEW b, NEW d, NEW p \in FareParts
    PROVE  /\ InvoicePaymentEntries(b, d, p[1], p[2], p[3]) \in EntrySets
           /\ InvoiceSettlementEntries(b, p[1]) \in EntrySets
  BY FarePartsType, SplitType, MoveType
     DEF InvoicePaymentEntries, InvoiceSettlementEntries

\* Every step keeps the invariant and only adds to the ledger.
LEMMA StepOK ==
    LedgerOK(ledger) /\ [LedgerNext]_ledger
      => LedgerOK(ledger') /\ (ledger' # ledger => AppendOnlyStep)
  <1> SUFFICES ASSUME LedgerOK(ledger), LedgerNext
               PROVE  LedgerOK(ledger') /\ AppendOnlyStep
    OBVIOUS
  <1>0. LedgerTypeOK(ledger)
    BY DEF LedgerOK
  <1>1. ASSUME NEW ref \in BaseRefs, NEW e \in Postings, Post(ref, e)
        PROVE  LedgerOK(ledger') /\ AppendOnlyStep
    <2>1. /\ ref \in Refs /\ e \in EntrySets /\ \A r \in BaseRefs : ref # RefundRef(r)
      BY RefFacts, PostingsType
    <2>2. CanPost(ledger, ref, e) /\ ledger' = Posted(ledger, ref, e)
      BY <1>1 DEF Post
    <2>3. LedgerOK(Posted(ledger, ref, e))
      BY <2>1, <2>2, PostedOK
    <2>4. ~ Exists(ledger, ref)
      BY <2>2 DEF CanPost
    <2>5. AppendOnlyFrom(ledger, Posted(ledger, ref, e))
      BY <1>0, <2>1, <2>4, PostedAppends
    <2> QED
      BY <2>2, <2>3, <2>5 DEF AppendOnlyStep
  <1>2. ASSUME NEW ref \in BaseRefs, NEW b \in Owners, NEW d \in Owners, NEW p \in FareParts,
               PayInvoice(b, d, p[1], p[2], p[3], ref)
        PROVE  LedgerOK(ledger') /\ AppendOnlyStep
    <2> DEFINE payment    == InvoicePaymentEntries(b, d, p[1], p[2], p[3])
               settlement == InvoiceSettlementEntries(b, p[1])
               paid       == Posted(ledger, ref, payment)
               settled    == Posted(paid, SettlementRef(ref), settlement)
    <2>1. payment \in EntrySets /\ settlement \in EntrySets
      BY InvoiceEntriesType
    <2>2. /\ CanPost(ledger, ref, payment)
          /\ CanPost(paid, SettlementRef(ref), settlement)
          /\ ledger' = settled
      BY <1>2 DEF PayInvoice
    <2>3. /\ ref \in Refs /\ SettlementRef(ref) \in Refs
          /\ \A r \in BaseRefs : ref # RefundRef(r) /\ SettlementRef(ref) # RefundRef(r)
      BY RefFacts
    <2>4. ~ Exists(ledger, ref) /\ ~ Exists(paid, SettlementRef(ref))
      BY <2>2 DEF CanPost
    <2> HIDE DEF payment, settlement
    <2>5. LedgerOK(paid) /\ AppendOnlyFrom(ledger, paid)
      BY <1>0, <2>1, <2>2, <2>3, <2>4, PostedOK, PostedAppends
    <2>6. LedgerTypeOK(paid)
      BY <2>5 DEF LedgerOK
    <2> HIDE DEF paid
    <2>7. LedgerOK(settled) /\ AppendOnlyFrom(paid, settled)
      BY <2>1, <2>2, <2>3, <2>4, <2>5, <2>6, PostedOK, PostedAppends
    <2> HIDE DEF settled
    <2> QED
      BY <2>2, <2>5, <2>7, AppendOnlyTrans DEF AppendOnlyStep
  <1>3. ASSUME NEW ref \in BaseRefs, Refund(ref)
        PROVE  LedgerOK(ledger') /\ AppendOnlyStep
    <2>1. CanRefund(ledger, ref) /\ ledger' = Refunded(ledger, ref)
      BY <1>3 DEF Refund
    <2> QED
      BY <2>1, RefundedOK, RefundedAppends DEF AppendOnlyStep
  <1> QED
    BY <1>1, <1>2, <1>3 DEF LedgerNext

\* The inductive invariant: the ledger's properties, each needed by another.
THEOREM LedgerInvariant == LedgerSpec => []LedgerOK(ledger)
  <1>1. LedgerInit => LedgerOK(ledger)
    BY SMTT(40), InitOK
  <1>2. LedgerOK(ledger) /\ [LedgerNext]_ledger => LedgerOK(ledger)'
    BY StepOK DEF LedgerOK, LedgerTypeOK, NoOverdraftIn, RunningBalanceIn,
       PostedOnceIn, RefundMatchesIn, ConservedIn, Exists
  <1> QED
    BY <1>1, <1>2, PTL DEF LedgerSpec

\* Type correctness.
THEOREM LedgerTypeCorrect == LedgerSpec => []TypeOK
  <1>1. LedgerOK(ledger) => TypeOK
    BY DEF LedgerOK, TypeOK
  <1> QED
    BY <1>1, LedgerInvariant, PTL

\* No user account is ever overdrawn, whatever is posted in whatever order.
THEOREM NeverOverdrawn == LedgerSpec => []NoOverdraft
  <1>1. LedgerOK(ledger) => NoOverdraft
    BY DEF LedgerOK, NoOverdraft
  <1> QED
    BY <1>1, LedgerInvariant, PTL

\* Every balance is the running sum of its rows.
THEOREM BalancesAreRowSums == LedgerSpec => []RunningBalance
  <1>1. LedgerOK(ledger) => RunningBalance
    BY DEF LedgerOK, RunningBalance
  <1> QED
    BY <1>1, LedgerInvariant, PTL

\* A reference moves the money of an account at most once.
THEOREM ReferencesPostOnce == LedgerSpec => []PostedOnce
  <1>1. LedgerOK(ledger) => PostedOnce
    BY DEF LedgerOK, PostedOnce
  <1> QED
    BY <1>1, LedgerInvariant, PTL

\* REVERSED and the refund posting go together.
THEOREM RefundsMatch == LedgerSpec => []RefundMatches
  <1>1. LedgerOK(ledger) => RefundMatches
    BY DEF LedgerOK, RefundMatches
  <1> QED
    BY <1>1, LedgerInvariant, PTL

\* The ledger creates no money and loses none.
THEOREM MoneyIsConserved == LedgerSpec => []Conservation
  <1>1. LedgerOK(ledger) => Conservation
    BY DEF LedgerOK, Conservation
  <1> QED
    BY <1>1, LedgerInvariant, PTL

\* Posted transactions and rows are never rewritten.
THEOREM LedgerAppendOnly == LedgerSpec => AppendOnly
  <1>1. LedgerOK(ledger) /\ [LedgerNext]_ledger => [AppendOnlyStep]_ledger
    BY StepOK
  <1> QED
    BY <1>1, LedgerInvariant, PTL DEF LedgerSpec, AppendOnly

-----------------------------------------------------------------------------
(* Invoices.                                                               *)

LEMMA MoveElsewhere ==
    ASSUME NEW from, NEW to, NEW amount, NEW a \in Accounts, a # from, a # to
    PROVE  Move(from, to, amount)[a] = 0
  BY DEF Move, NoEntries

LEMMA SplitElsewhere ==
    ASSUME NEW payer, NEW d, NEW f, NEW c, NEW t, NEW a \in Accounts,
           a \notin {payer, DriverWallet(d), Revenue, TaxPayable}
    PROVE  Split(payer, d, f, c, t)[a] = 0
  BY DEF Split, NoEntries

\* No posting but payInvoice's touches a business wallet.
LEMMA PostingsSpareBusiness ==
    ASSUME NEW e \in Postings, NEW b \in Owners
    PROVE  e[BusinessWallet(b)] = 0
  <1> DEFINE a == BusinessWallet(b)
  <1>0. /\ a \in Accounts
        /\ a \notin {Revenue, Clearing, TaxPayable, ReferralPayable}
        /\ \A o : a \notin {RiderWallet(o), DriverWallet(o), CommissionPayable(o), CreditPayable(o),
                          <<o, "RIDER_WALLET">>, <<o, "DRIVER_WALLET">>}
    BY DEF BusinessWallet, Accounts, UserAccounts, UserTypes, Revenue, Clearing, TaxPayable,
       ReferralPayable, RiderWallet, DriverWallet, CommissionPayable, CreditPayable
  <1> HIDE DEF a
  <1> USE <1>0, MoveElsewhere
  <1>1. CASE \E u \in Owners, x \in Amounts : e = TopUpEntries(u, x)
    BY <1>1 DEF TopUpEntries, a
  <1>2. CASE \E d \in Owners, x \in Amounts : e = CashRideEntries(d, x)
    BY <1>2 DEF CashRideEntries, a
  <1>3. CASE \E d \in Owners, x \in Amounts : e = SettlementEntries(d, x)
    BY <1>3 DEF SettlementEntries, a
  <1>4. CASE \E c \in Owners, x \in Amounts : e = BusinessAccrualEntries(c, x)
    BY <1>4 DEF BusinessAccrualEntries, a
  <1>5. CASE \E d \in Owners, x \in Amounts : e = WithdrawalEntries(d, x)
    BY <1>5 DEF WithdrawalEntries, a
  <1>6. CASE \E u \in Owners, x \in Amounts : e = KilowattEntries(u, x)
    BY <1>6 DEF KilowattEntries, a
  <1>7. CASE \E x \in Amounts : e = ReferralAccrualEntries(x)
    BY <1>7 DEF ReferralAccrualEntries, a
  <1>8. CASE \E u \in Owners, ty \in {"RIDER_WALLET", "DRIVER_WALLET"}, x \in Amounts :
               e = ReferralPayoutEntries(u, ty, x)
    BY <1>8 DEF ReferralPayoutEntries, a
  <1>9. CASE \E r \in Owners, d \in Owners, p \in FareParts :
               e = RideFareEntries(r, d, p[1], p[2], p[3])
    BY <1>9, SplitElsewhere DEF RideFareEntries, a
  <1> QED
    BY <1>1, <1>2, <1>3, <1>4, <1>5, <1>6, <1>7, <1>8, <1>9 DEF Postings

\* What the two postings of payInvoice write on the accounts concerned.
LEMMA InvoiceEntries ==
    ASSUME NEW b \in Owners, NEW d \in Owners, NEW c \in Owners, NEW p \in FareParts
    PROVE  /\ InvoicePaymentEntries(b, d, p[1], p[2], p[3])[BusinessWallet(c)] =
                  (IF c = b THEN -p[1] ELSE 0)
           /\ InvoiceSettlementEntries(b, p[1])[CreditPayable(b)] = -p[1]
  <1>1. /\ BusinessWallet(c) \in Accounts /\ CreditPayable(b) \in Accounts
        /\ CreditPayable(b) # Clearing
        /\ BusinessWallet(c) \notin {DriverWallet(d), Revenue, TaxPayable}
        /\ BusinessWallet(c) = BusinessWallet(b) => c = b
    BY DEF BusinessWallet, CreditPayable, Clearing, DriverWallet, Revenue, TaxPayable,
       Accounts, UserAccounts, UserTypes
  <1>2. CASE c = b
    BY <1>1, <1>2 DEF InvoicePaymentEntries, InvoiceSettlementEntries, Split, Move, NoEntries
  <1>3. CASE c # b
    BY <1>1, <1>3, SplitElsewhere DEF InvoicePaymentEntries, InvoiceSettlementEntries, Move, NoEntries
  <1> QED
    BY <1>2, <1>3

\* The two halves of an invoice payment stay together, and no other posting
\* and no refund comes between them.
LEMMA InvoiceStep ==
    ASSUME LedgerOK(ledger), InvoiceIsWholeIn(ledger), [LedgerNext]_ledger
    PROVE  InvoiceIsWholeIn(ledger')
  <1>0. LedgerTypeOK(ledger)
    BY DEF LedgerOK
  <1>1. ASSUME NEW ref \in BaseRefs, NEW e \in Postings, Post(ref, e)
        PROVE  InvoiceIsWholeIn(ledger')
    <2>1. /\ CanPost(ledger, ref, e) /\ ledger' = Posted(ledger, ref, e)
          /\ ref \in Refs /\ e \in EntrySets /\ ~ Exists(ledger, ref)
      BY <1>1, RefFacts, PostingsType DEF Post, CanPost
    <2> SUFFICES ASSUME NEW r \in BaseRefs, NEW b \in Owners
                 PROVE  /\ Exists(ledger', SettlementRef(r)) => Exists(ledger', r)
                        /\ ledger'.txs[r].entries[BusinessWallet(b)] < 0
                              => ledger'.txs[SettlementRef(r)].entries[CreditPayable(b)]
                                   = ledger'.txs[r].entries[BusinessWallet(b)]
      BY DEF InvoiceIsWholeIn
    <2>2. r \in Refs /\ SettlementRef(r) \in Refs /\ SettlementRef(r) # ref
      BY RefFacts
    <2>3. /\ ledger'.txs[SettlementRef(r)] = ledger.txs[SettlementRef(r)]
          /\ Exists(ledger', SettlementRef(r)) <=> Exists(ledger, SettlementRef(r))
      BY <1>0, <2>1, <2>2, PostedTxs
    <2>4. CASE r = ref
      BY <1>0, <2>1, <2>4, PostedTxs, PostingsSpareBusiness
    <2>5. CASE r # ref
      <3>1. ledger'.txs[r] = ledger.txs[r] /\ (Exists(ledger', r) <=> Exists(ledger, r))
        BY <1>0, <2>1, <2>2, <2>5, PostedTxs
      <3> QED
        BY <2>3, <3>1 DEF InvoiceIsWholeIn
    <2> QED
      BY <2>4, <2>5
  <1>2. ASSUME NEW ref \in BaseRefs, NEW b \in Owners, NEW d \in Owners, NEW p \in FareParts,
               PayInvoice(b, d, p[1], p[2], p[3], ref)
        PROVE  InvoiceIsWholeIn(ledger')
    <2> DEFINE payment    == InvoicePaymentEntries(b, d, p[1], p[2], p[3])
               settlement == InvoiceSettlementEntries(b, p[1])
               paid       == Posted(ledger, ref, payment)
    <2>1. /\ payment \in EntrySets /\ settlement \in EntrySets
          /\ ref \in Refs /\ SettlementRef(ref) \in Refs /\ SettlementRef(ref) # ref
          /\ ledger' = Posted(paid, SettlementRef(ref), settlement)
      BY <1>2, InvoiceEntriesType, RefFacts DEF PayInvoice
    <2>2. \A c \in Owners : payment[BusinessWallet(c)] = (IF c = b THEN -p[1] ELSE 0)
      BY InvoiceEntries
    <2>3. settlement[CreditPayable(b)] = -p[1]
      BY InvoiceEntries
    <2> HIDE DEF payment, settlement
    <2>4. /\ LedgerTypeOK(paid)
          /\ Exists(paid, ref) /\ paid.txs[ref].entries = payment
          /\ \A r \in Refs : r # ref =>
                paid.txs[r] = ledger.txs[r] /\ (Exists(paid, r) <=> Exists(ledger, r))
      BY <1>0, <2>1, PostedType, PostedTxs
    <2> HIDE DEF paid
    <2>5. /\ Exists(ledger', ref) /\ ledger'.txs[ref].entries = payment
          /\ ledger'.txs[SettlementRef(ref)].entries = settlement
          /\ \A r \in Refs \ {ref, SettlementRef(ref)} :
                ledger'.txs[r] = ledger.txs[r] /\ (Exists(ledger', r) <=> Exists(ledger, r))
      BY <2>1, <2>4, PostedTxs
    <2> SUFFICES ASSUME NEW r \in BaseRefs, NEW c \in Owners
                 PROVE  /\ Exists(ledger', SettlementRef(r)) => Exists(ledger', r)
                        /\ ledger'.txs[r].entries[BusinessWallet(c)] < 0
                              => ledger'.txs[SettlementRef(r)].entries[CreditPayable(c)]
                                   = ledger'.txs[r].entries[BusinessWallet(c)]
      BY DEF InvoiceIsWholeIn
    <2>6. CASE r = ref
      BY <2>2, <2>3, <2>5, <2>6
    <2>7. CASE r # ref
      <3>1. r \in Refs \ {ref, SettlementRef(ref)}
            /\ SettlementRef(r) \in Refs \ {ref, SettlementRef(ref)}
        BY <2>7, RefFacts DEF SettlementRef
      <3> QED
        BY <2>5, <3>1 DEF InvoiceIsWholeIn
    <2> QED
      BY <2>6, <2>7
  <1>3. ASSUME NEW ref \in BaseRefs, Refund(ref)
        PROVE  InvoiceIsWholeIn(ledger')
    <2>1. CanRefund(ledger, ref) /\ ledger' = Refunded(ledger, ref)
      BY <1>3 DEF Refund
    <2>2. \A r \in BaseRefs : r \in Refs /\ SettlementRef(r) \in Refs
      BY RefFacts
    <2>3. AppendOnlyFrom(ledger, ledger') /\ LedgerTypeOK(ledger')
      BY <2>1, RefundedAppends, RefundedOK DEF LedgerOK
    <2>4. ASSUME NEW r \in BaseRefs
          PROVE  /\ ledger'.txs[SettlementRef(r)] = ledger.txs[SettlementRef(r)]
                 /\ Exists(ledger', SettlementRef(r)) <=> Exists(ledger, SettlementRef(r))
                 /\ Exists(ledger', r) <=> Exists(ledger, r)
                 /\ ledger'.txs[r].entries = ledger.txs[r].entries
      <3>1. /\ r \in Refs /\ r # RefundRef(ref)
            /\ SettlementRef(r) \in Refs \ {ref, RefundRef(ref)}
        BY RefFacts
      <3>2. ledger'.txs[SettlementRef(r)] = ledger.txs[SettlementRef(r)]
        <4>1. \A q \in Refs \ {ref, RefundRef(ref)} : ledger'.txs[q] = ledger.txs[q]
          <5>1. \A q \in Refs \ {ref, RefundRef(ref)} : Refunded(ledger, ref).txs[q] = ledger.txs[q]
            BY <1>0, <2>1, RefundedTxs
          <5> QED
            BY <2>1, <5>1
        <4> QED
          BY <3>1, <4>1
      <3>3. (Exists(ledger', r) <=> Exists(ledger, r)) /\ ledger'.txs[r].entries = ledger.txs[r].entries
        BY <1>0, <2>1, <3>1, RefundedTxs
      <3> QED
        BY <3>2, <3>3 DEF Exists
    <2> QED
      BY <2>4 DEF InvoiceIsWholeIn
  <1>4. CASE UNCHANGED ledger
    BY <1>4
  <1> QED
    BY <1>1, <1>2, <1>3, <1>4 DEF LedgerNext

\* What a business pays for an invoice and what closes its payable are one
\* amount, and neither is there without the other.
THEOREM InvoicesAreWhole == LedgerSpec => []InvoiceIsWhole
  <1>1. LedgerInit => InvoiceIsWhole
    <2>1. \A b \in Owners : BusinessWallet(b) \in Accounts
      BY DEF BusinessWallet, Accounts, UserAccounts, UserTypes
    <2> QED
      BY <2>1, RefFacts DEF LedgerInit, EmptyLedger, NoTx, NoEntries, InvoiceIsWhole,
         InvoiceIsWholeIn, Exists
  <1>2. LedgerOK(ledger) /\ InvoiceIsWhole /\ [LedgerNext]_ledger => InvoiceIsWhole'
    BY InvoiceStep DEF InvoiceIsWhole, InvoiceIsWholeIn, Exists
  <1> QED
    BY <1>1, <1>2, LedgerInvariant, PTL DEF LedgerSpec

-----------------------------------------------------------------------------
(* DriverMoney.                                                            *)

SettlePCs == {"settle_look", "settle_post", "settle_read", "settle_reset"}
AccruePCs == {"accrue_post", "accrue_count", "return"}
TopUpPCs  == {"late_row", "checkout", "charge_card", "mark_failed", "verify", "look",
              "debt", "credit", "topup", "complete"}
EarlyPCs  == {"debit", "deduct", "row"}
LatePCs   == {"send", "refund", "refund_settle", "failed", "paid"}

\* What a call is about, by where it stands.
CallOK(k) ==
    /\ k \in TaskRecords
    /\ k.pc \in AccruePCs => k.x \in Trips
    /\ k.pc \in TopUpPCs => k.x \in Payments
    /\ k.pc \in EarlyPCs \cup LatePCs => k.x \in Withdrawals
    /\ k.pc \in SettlePCs => \/ k.x \in Payments /\ k.next = "credit"
                             \/ k.x \in Withdrawals /\ k.next = "row"
    /\ k.pc # "idle" /\ k.saved => k.x \in Payments

Calls == \A t \in Tasks : CallOK(task[t])

\* One withdrawal: its row follows its debit, one call has it until then, and
\* what a refunding call relies on.
On(t, w, pcs) == task[t].x = w /\ task[t].pc \in pcs

WithdrawalOK(w) ==
    /\ withdrawal[w] # "NONE" => Exists(ledger, w)
    /\ transfer[w] # "none" \/ events[w] # {} => withdrawal[w] # "NONE"
    /\ withdrawal[w] = "FAILED" => Undone(w)
    /\ \A t \in Tasks :
          /\ On(t, w, EarlyPCs \cup SettlePCs) =>
                /\ withdrawal[w] = "NONE"
                /\ \A u \in Tasks \ {t} : task[u].x # w
          /\ On(t, w, {"deduct", "row"} \cup SettlePCs) => Exists(ledger, w)
          /\ On(t, w, LatePCs) => withdrawal[w] # "NONE"
          /\ On(t, w, {"refund_settle"}) => TxStatus(w) = "REVERSED"
          /\ On(t, w, {"failed"}) => Undone(w)

MoneyOK ==
    /\ MoneyTypeOK
    /\ LedgerOK(ledger)
    /\ Calls
    /\ \A w \in Withdrawals : WithdrawalOK(w)

-----------------------------------------------------------------------------
(* References and entries.                                                 *)

LEMMA ThingFacts ==
    ASSUME NEW x \in Things
    PROVE  /\ x \in BaseRefs /\ x # Null
           /\ SettleRef(x) \in BaseRefs \ Things /\ CreditRef(x) \in BaseRefs \ Things
           /\ AmountOf[x] \in Nat /\ AmountOf[x] > 0
           /\ OwnerOf[x] \in Owners
           /\ \A y \in Things : SettleRef(x) # CreditRef(y)
           /\ \A y \in Things : SettleRef(x) = SettleRef(y) => x = y
  <1>1. /\ x \in BaseRefs /\ x # Null
        /\ SettleRef(x) \in BaseRefs \ Things /\ CreditRef(x) \in BaseRefs \ Things
        /\ AmountOf[x] \in Amounts /\ OwnerOf[x] \in Owners
    BY MoneyAssumption DEF MoneyAssumption
  <1>2. AmountOf[x] \in Nat /\ AmountOf[x] > 0
    <2>1. Amounts \subseteq Nat \ {0}
      BY LedgerAssumption DEF LedgerAssumption
    <2>2. PICK n \in Nat \ {0} : AmountOf[x] = n
      BY <1>1, <2>1
    <2> QED
      BY <2>2
  <1>3. \A y \in Things : SettleRef(x) # CreditRef(y)
    BY DEF SettleRef, CreditRef
  <1>4. \A y \in Things : SettleRef(x) = SettleRef(y) => x = y
    BY DEF SettleRef
  <1> QED
    BY <1>1, <1>2, <1>3, <1>4

LEMMA KindFacts ==
    /\ \A p \in Payments : p \in Things /\ p \notin Withdrawals
    /\ \A w \in Withdrawals : w \in Things /\ OwnerOf[w] \in Drivers
    /\ \A x \in Trips : x \in Things /\ x \notin Withdrawals /\ x \notin Payments /\ OwnerOf[x] \in Drivers
  BY MoneyAssumption DEF MoneyAssumption, Things

\* A debt is a natural number: the account is never overdrawn.
LEMMA DebtIsNat ==
    ASSUME LedgerOK(ledger), NEW x \in Things
    PROVE  Debt(x) \in Nat
  <1>1. OwnerOf[x] \in Owners
    BY ThingFacts
  <1>2. Payable(x) \in UserAccounts
    BY <1>1 DEF Payable, CommissionPayable, UserAccounts, UserTypes
  <1>3. ledger.balance[Payable(x)] \in Int /\ ledger.balance[Payable(x)] >= 0
    BY <1>2 DEF LedgerOK, LedgerTypeOK, NoOverdraftIn, Accounts
  <1> QED
    BY <1>3 DEF Debt

LEMMA LesserIsNat ==
    ASSUME NEW a \in Nat, NEW b \in Nat
    PROVE  Lesser(a, b) \in Nat
  BY DEF Lesser

-----------------------------------------------------------------------------
(* What a posting and a refund of a call do.                               *)

\* Beyond the reference concerned the transactions of calls stay as they are,
\* and what was posted or reversed remains so.
Keeps(ref) ==
    /\ \A r \in BaseRefs \ {ref} : ledger'.txs[r] = ledger.txs[r]
    /\ Exists(ledger, ref) => ledger'.txs[ref].status \in {TxStatus(ref), "REVERSED"}

LEMMA PostThenEffect ==
    ASSUME LedgerOK(ledger), NEW t, NEW ref \in BaseRefs, NEW e \in EntrySets, NEW pc,
           PostThen(t, ref, e, pc)
    PROVE  /\ LedgerOK(ledger') /\ Keeps(ref)
           /\ UNCHANGED others
           /\ \/ Goto(t, pc) /\ Exists(ledger', ref)
              \/ Raise(t)
  <1>1. /\ ref \in Refs /\ \A r \in BaseRefs : ref # RefundRef(r)
    BY RefFacts
  <1>2. LedgerTypeOK(ledger)
    BY DEF LedgerOK
  <1>3. CASE Exists(ledger, ref) /\ UNCHANGED ledger /\ Goto(t, pc)
    BY <1>3 DEF PostThen, Keeps, TxStatus
  <1>4. CASE CanPost(ledger, ref, e) /\ ledger' = Posted(ledger, ref, e) /\ Goto(t, pc)
    <2>1. LedgerOK(Posted(ledger, ref, e))
      BY <1>1, <1>4, PostedOK
    <2>2. Keeps(ref) /\ Exists(ledger', ref)
      <3>1. \A r \in BaseRefs : r \in Refs
        BY RefFacts
      <3>2. ~ Exists(ledger, ref)
        BY <1>4 DEF CanPost
      <3> QED
        BY <1>1, <1>2, <1>4, <3>1, <3>2, PostedTxs DEF Keeps
    <2> QED
      BY <1>4, <2>1, <2>2 DEF PostThen
  <1>5. CASE ~ Exists(ledger, ref) /\ UNCHANGED ledger /\ Raise(t)
    BY <1>5 DEF PostThen, Keeps
  <1> QED
    BY <1>3, <1>4, <1>5 DEF PostThen

LEMMA RefundThenEffect ==
    ASSUME LedgerOK(ledger), NEW t, NEW ref \in BaseRefs, NEW pc,
           RefundThen(t, ref, pc)
    PROVE  /\ LedgerOK(ledger') /\ Keeps(ref)
           /\ UNCHANGED others
           /\ \/ Goto(t, pc) /\ ledger'.txs[ref].status = "REVERSED"
              \/ Return(t) /\ UNCHANGED ledger
  <1>1. CASE CanRefund(ledger, ref) /\ ledger' = Refunded(ledger, ref) /\ Goto(t, pc)
    <2> DEFINE e == Flip(ledger.txs[ref].entries)
               P == Posted(ledger, RefundRef(ref), e)
    <2>1. LedgerOK(ledger')
      BY <1>1, RefundedOK
    <2>2. /\ ref \in Refs /\ RefundRef(ref) \in Refs /\ LedgerTypeOK(ledger)
          /\ \A r \in BaseRefs : r \in Refs /\ r # RefundRef(ref)
      BY RefFacts DEF LedgerOK
    <2>3. e \in EntrySets
      BY <2>2, FlipType DEF LedgerTypeOK, TxRecords
    <2>4. LedgerTypeOK(P)
      BY <2>2, <2>3, PostedType
    <2>5. \A r \in BaseRefs : P.txs[r] = ledger.txs[r]
      BY <2>2, <2>3, PostedTxs
    <2> HIDE DEF P
    <2>6. ledger'.txs = [P.txs EXCEPT ![ref].status = "REVERSED"]
      BY <1>1, <2>4 DEF Refunded, P, LedgerTypeOK
    <2>7. ledger'.txs[ref].status = "REVERSED"
      BY <2>2, <2>4, <2>6 DEF LedgerTypeOK, TxRecords
    <2>8. \A r \in BaseRefs \ {ref} : ledger'.txs[r] = ledger.txs[r]
      BY <2>2, <2>4, <2>5, <2>6 DEF LedgerTypeOK
    <2> QED
      BY <1>1, <2>1, <2>7, <2>8 DEF RefundThen, Keeps
  <1>2. CASE ~ CanRefund(ledger, ref) /\ UNCHANGED ledger /\ Return(t)
    BY <1>2 DEF RefundThen, Keeps, TxStatus
  <1> QED
    BY <1>1, <1>2 DEF RefundThen

-----------------------------------------------------------------------------
(* What a step does to the withdrawals.                                    *)

Untouched(w) ==
    /\ ledger'.txs[w] = ledger.txs[w]
    /\ ledger'.txs[SettleRef(w)] = ledger.txs[SettleRef(w)]

\* Call t, about to be k, may be about the withdrawal it is about.
Admissible(t, k) ==
    \A w \in Withdrawals : k.x = w =>
        /\ \/ task[t].x = w
           \/ withdrawal[w] # "NONE"
           \/ \A u \in Tasks \ {t} : task[u].x # w
        /\ k.pc \in EarlyPCs \cup SettlePCs =>
              withdrawal[w] = "NONE" /\ \A u \in Tasks \ {t} : task[u].x # w
        /\ k.pc \in {"deduct", "row"} \cup SettlePCs => Exists(ledger, w)
        /\ k.pc \in LatePCs => withdrawal[w] # "NONE"
        /\ k.pc = "refund_settle" => TxStatus(w) = "REVERSED"
        /\ k.pc = "failed" => Undone(w)

\* A step that leaves the withdrawal and its transactions alone and takes no
\* call to it keeps what holds of it.
LEMMA Elsewhere ==
    ASSUME NEW w \in Withdrawals, WithdrawalOK(w), Untouched(w),
           withdrawal'[w] = withdrawal[w], transfer'[w] = transfer[w], events'[w] = events[w],
           \A u \in Tasks : task'[u] = task[u] \/ task'[u].x # w
    PROVE  WithdrawalOK(w)'
  <1>1. /\ (Exists(ledger, w))' <=> Exists(ledger, w)
        /\ TxStatus(w)' = TxStatus(w)
        /\ Undone(w)' <=> Undone(w)
    BY DEF Untouched, Exists, TxStatus, Undone
  <1>2. /\ (withdrawal[w] # "NONE" => Exists(ledger, w))'
        /\ (transfer[w] # "none" \/ events[w] # {} => withdrawal[w] # "NONE")'
        /\ (withdrawal[w] = "FAILED" => Undone(w))'
    BY <1>1 DEF WithdrawalOK
  <1>3. ASSUME NEW t \in Tasks
        PROVE  /\ On(t, w, EarlyPCs \cup SettlePCs)' =>
                     withdrawal'[w] = "NONE" /\ \A u \in Tasks \ {t} : task'[u].x # w
               /\ On(t, w, {"deduct", "row"} \cup SettlePCs)' => (Exists(ledger, w))'
               /\ On(t, w, LatePCs)' => withdrawal'[w] # "NONE"
               /\ On(t, w, {"refund_settle"})' => TxStatus(w)' = "REVERSED"
               /\ On(t, w, {"failed"})' => Undone(w)'
    <2>1. CASE task'[t].x # w
      BY <2>1 DEF On
    <2>2. CASE task'[t] = task[t]
      BY <1>1, <2>2 DEF On, WithdrawalOK
    <2> QED
      BY <2>1, <2>2
  <1> QED
    BY <1>2, <1>3 DEF WithdrawalOK, On, EarlyPCs, SettlePCs, LatePCs

\* A call moves on, to where it may be, and no withdrawal changes.
LEMMA CallMoves ==
    ASSUME MoneyOK, NEW t \in Tasks, NEW k, CallOK(k), Admissible(t, k),
           task' = [task EXCEPT ![t] = k],
           LedgerOK(ledger'), \A w \in Withdrawals : Untouched(w),
           UNCHANGED <<withdrawal, transfer, events>>,
           unsettled' \in [Drivers -> Nat],
           request' \in [Payments -> {"NONE", "PENDING", "COMPLETED", "FAILED"}],
           charge' \in [Payments -> {"none", "open", "success", "failed"}]
    PROVE  MoneyOK'
  <1>0. task \in [Tasks -> TaskRecords]
    BY DEF MoneyOK, MoneyTypeOK
  <1>1. MoneyTypeOK'
    BY <1>0 DEF MoneyOK, MoneyTypeOK, LedgerOK, LedgerTypeOK, CallOK
  <1>2. Calls'
    BY <1>0 DEF MoneyOK, Calls, CallOK
  <1>3. LedgerOK(ledger)'
    BY DEF LedgerOK, LedgerTypeOK, NoOverdraftIn, RunningBalanceIn, PostedOnceIn, ConservedIn,
           RefundMatchesIn, Exists
  <1>4. ASSUME NEW w \in Withdrawals
        PROVE  WithdrawalOK(w)'
    <2>1. CASE k.x # w
      BY <1>0, <2>1, Elsewhere DEF MoneyOK
    <2>2. CASE k.x = w
      <3>1. /\ (Exists(ledger, w))' <=> Exists(ledger, w)
            /\ TxStatus(w)' = TxStatus(w)
            /\ Undone(w)' <=> Undone(w)
        BY DEF Untouched, Exists, TxStatus, Undone
      <3>2. WithdrawalOK(w)
        BY DEF MoneyOK
      <3>3. /\ (withdrawal[w] # "NONE" => Exists(ledger, w))'
            /\ (transfer[w] # "none" \/ events[w] # {} => withdrawal[w] # "NONE")'
            /\ (withdrawal[w] = "FAILED" => Undone(w))'
        BY <3>1, <3>2 DEF WithdrawalOK
      <3>4. ASSUME NEW u \in Tasks
            PROVE  /\ On(u, w, EarlyPCs \cup SettlePCs)' =>
                         withdrawal'[w] = "NONE" /\ \A v \in Tasks \ {u} : task'[v].x # w
                   /\ On(u, w, {"deduct", "row"} \cup SettlePCs)' => (Exists(ledger, w))'
                   /\ On(u, w, LatePCs)' => withdrawal'[w] # "NONE"
                   /\ On(u, w, {"refund_settle"})' => TxStatus(w)' = "REVERSED"
                   /\ On(u, w, {"failed"})' => Undone(w)'
        <4>1. CASE u = t
          BY <1>0, <2>2, <3>1, <4>1 DEF On, Admissible
        <4>2. CASE u # t
          <5>1. task'[u] = task[u] /\ task'[t] = k
            BY <1>0, <4>2
          <5>2. On(u, w, EarlyPCs \cup SettlePCs)' =>
                         withdrawal'[w] = "NONE" /\ \A v \in Tasks \ {u} : task'[v].x # w
            <6>1. SUFFICES ASSUME On(u, w, EarlyPCs \cup SettlePCs) PROVE FALSE
              BY <3>2, <5>1 DEF On, WithdrawalOK
            <6>2. /\ withdrawal[w] = "NONE" /\ task[t].x # w /\ task[u].x = w
              BY <3>2, <4>2, <6>1 DEF On, WithdrawalOK
            <6> QED
              BY <2>2, <4>2, <6>2 DEF Admissible
          <5> QED
            BY <3>1, <3>2, <5>1, <5>2 DEF On, WithdrawalOK
        <4> QED
          BY <4>1, <4>2
      <3> QED
        BY <3>3, <3>4 DEF WithdrawalOK, On, EarlyPCs, SettlePCs, LatePCs
    <2> QED
      BY <2>1, <2>2
  <1> QED
    BY <1>1, <1>2, <1>3, <1>4 DEF MoneyOK

LEMMA KeepsUntouched ==
    ASSUME NEW ref, Keeps(ref), NEW w \in Withdrawals, ref # w, ref # SettleRef(w)
    PROVE  Untouched(w)
  <1>1. w \in BaseRefs /\ SettleRef(w) \in BaseRefs
    BY KindFacts, ThingFacts
  <1> QED
    BY <1>1 DEF Keeps, Untouched

\* A call about a payment or a trip may go anywhere; so may one that ends.
LEMMA FreeAdmissible ==
    ASSUME NEW t, NEW k, k.x \notin Withdrawals
    PROVE  Admissible(t, k)
  BY DEF Admissible

LEMMA IdleOK ==
    /\ CallOK(Idle)
    /\ Idle.x \notin Withdrawals
  BY KindFacts, ThingFacts DEF CallOK, Idle, TaskRecords, PCs, AccruePCs, TopUpPCs, EarlyPCs,
     LatePCs, SettlePCs

\* An exception ends the call, or takes chargeSavedCard to its catch.
LEMMA RaiseMoves ==
    ASSUME NEW t \in Tasks, CallOK(task[t]), ~ At(t, "idle"), Raise(t)
    PROVE  \E k : /\ task' = [task EXCEPT ![t] = k]
                  /\ CallOK(k) /\ k.x \notin Withdrawals
  <1>1. CASE Return(t)
    BY <1>1, IdleOK DEF Return
  <1>2. CASE task[t].saved /\ Goto(t, "mark_failed")
    <2>1. PICK k : k = [task[t] EXCEPT !.pc = "mark_failed"]
      OBVIOUS
    <2>2. task[t] \in TaskRecords /\ task[t].x \in Payments
      BY <1>2 DEF CallOK, At
    <2>3. CallOK(k)
      BY <2>1, <2>2 DEF CallOK, TaskRecords, PCs, AccruePCs, TopUpPCs, EarlyPCs, LatePCs, SettlePCs
    <2>4. k.x \notin Withdrawals
      BY <2>1, <2>2, KindFacts DEF TaskRecords
    <2> QED
      BY <1>2, <2>1, <2>3, <2>4 DEF Goto
  <1> QED
    BY <1>1, <1>2 DEF Raise

\* A call at pc is one about a trip, a payment or a withdrawal.
LEMMA AtFacts ==
    ASSUME MoneyOK, NEW t \in Tasks
    PROVE  /\ CallOK(task[t]) /\ task[t] \in TaskRecords
           /\ task \in [Tasks -> TaskRecords]
           /\ task[t].pc \in AccruePCs => task[t].x \in Trips
           /\ task[t].pc \in TopUpPCs => task[t].x \in Payments
           /\ task[t].pc \in EarlyPCs \cup LatePCs => task[t].x \in Withdrawals
           /\ task[t].pc # "idle" => task[t].x \in Things
  BY KindFacts DEF MoneyOK, Calls, CallOK, MoneyTypeOK, TaskRecords, PCs, AccruePCs, TopUpPCs, EarlyPCs,
     LatePCs, SettlePCs

\* The rows that are not money keep their types when they do not change.
LEMMA SameRows ==
    ASSUME MoneyOK
    PROVE  /\ UNCHANGED unsettled => unsettled' \in [Drivers -> Nat]
           /\ UNCHANGED request => request' \in [Payments -> {"NONE", "PENDING", "COMPLETED", "FAILED"}]
           /\ UNCHANGED charge => charge' \in [Payments -> {"none", "open", "success", "failed"}]
           /\ UNCHANGED ledger => LedgerOK(ledger') /\ \A w \in Withdrawals : Untouched(w)
  BY DEF MoneyOK, MoneyTypeOK, Untouched

\* A call that only reads goes where it may.
LEMMA ReadMoves ==
    ASSUME MoneyOK, NEW t \in Tasks, NEW k, CallOK(k), Admissible(t, k),
           task' = [task EXCEPT ![t] = k], OnlyTask
    PROVE  MoneyOK'
  <1>1. UNCHANGED <<ledger, unsettled, request, charge, withdrawal, transfer, events>>
    BY DEF OnlyTask, others
  <1> QED
    BY <1>1, SameRows, CallMoves

LEMMA RaiseOK ==
    ASSUME MoneyOK, NEW t \in Tasks, ~ At(t, "idle"), Raise(t), OnlyTask
    PROVE  MoneyOK'
  <1>1. PICK k : task' = [task EXCEPT ![t] = k] /\ CallOK(k) /\ k.x \notin Withdrawals
    BY AtFacts, RaiseMoves
  <1> QED
    BY <1>1, FreeAdmissible, ReadMoves

LEMMA ReturnOK ==
    ASSUME MoneyOK, NEW t \in Tasks, Return(t), OnlyTask
    PROVE  MoneyOK'
  BY IdleOK, FreeAdmissible, ReadMoves DEF Return

\* A posting whose reference is no withdrawal's, by a call about a payment or
\* a trip.
LEMMA PostMoves ==
    ASSUME MoneyOK, NEW t \in Tasks, ~ At(t, "idle"), NEW ref \in BaseRefs,
           NEW e \in EntrySets, NEW pc, PostThen(t, ref, e, pc),
           \A w \in Withdrawals : ref # w /\ ref # SettleRef(w),
           CallOK([task[t] EXCEPT !.pc = pc]), task[t].x \notin Withdrawals
    PROVE  MoneyOK'
  <1>1. /\ LedgerOK(ledger') /\ Keeps(ref)
        /\ UNCHANGED others
        /\ Goto(t, pc) \/ Raise(t)
    BY PostThenEffect DEF MoneyOK
  <1>2. \A w \in Withdrawals : Untouched(w)
    BY <1>1, KeepsUntouched
  <1>3. PICK k : task' = [task EXCEPT ![t] = k] /\ CallOK(k) /\ k.x \notin Withdrawals
    <2>1. CASE Raise(t)
      BY <2>1, AtFacts, RaiseMoves
    <2>2. CASE Goto(t, pc)
      <3>1. PICK k : k = [task[t] EXCEPT !.pc = pc]
        OBVIOUS
      <3>2. task[t] \in TaskRecords
        BY AtFacts
      <3>3. k.x = task[t].x
        BY <3>1, <3>2 DEF TaskRecords
      <3> QED
        BY <2>2, <3>1, <3>3 DEF Goto
    <2> QED
      BY <1>1, <2>1, <2>2
  <1>4. UNCHANGED <<unsettled, request, charge, withdrawal, transfer, events>>
    BY <1>1 DEF others
  <1> QED
    BY <1>1, <1>2, <1>3, <1>4, SameRows, FreeAdmissible, CallMoves

-----------------------------------------------------------------------------
(* The actions of trips and of top-ups.                                    *)

LEMMA TripGoes ==
    ASSUME NEW k0, CallOK(k0), k0.pc \in AccruePCs, NEW pc \in AccruePCs
    PROVE  CallOK([k0 EXCEPT !.pc = pc])
  BY KindFacts DEF CallOK, TaskRecords, PCs, AccruePCs, TopUpPCs, EarlyPCs, LatePCs, SettlePCs

LEMMA AccrueOK ==
    ASSUME MoneyOK, NEW t \in Tasks
    PROVE  /\ \A x \in Trips : AccrueLook(t, x) => MoneyOK'
           /\ AccruePost(t) => MoneyOK'
           /\ AccrueCount(t) => MoneyOK'
           /\ Returned(t) => MoneyOK'
  <1>1. ASSUME NEW x \in Trips, AccrueLook(t, x) PROVE MoneyOK'
    <2>1. PICK k : k = [Idle EXCEPT !.pc = "accrue_post", !.x = x, !.fresh = ~ Exists(ledger, x)]
      OBVIOUS
    <2>2. CallOK(k) /\ k.x \notin Withdrawals
      BY <2>1, KindFacts DEF CallOK, Idle, TaskRecords, PCs, AccruePCs, TopUpPCs, EarlyPCs,
         LatePCs, SettlePCs
    <2> QED
      BY <1>1, <2>1, <2>2, FreeAdmissible, ReadMoves DEF AccrueLook
  <1>2. ASSUME AccruePost(t) PROVE MoneyOK'
    <2> DEFINE x == task[t].x
               pc == IF task[t].fresh THEN "accrue_count" ELSE "return"
    <2>1. x \in Trips /\ task[t] \in TaskRecords /\ CallOK(task[t])
      BY <1>2, AtFacts DEF AccruePost, At, AccruePCs
    <2>2. /\ x \in BaseRefs /\ AmountOf[x] \in Int
          /\ \A w \in Withdrawals : x # w /\ x # SettleRef(w)
      BY <2>1, KindFacts, ThingFacts
    <2>3. CashRideEntries(OwnerOf[x], AmountOf[x]) \in EntrySets
      BY <2>2, MoveType DEF CashRideEntries
    <2>4. CallOK([task[t] EXCEPT !.pc = pc])
      <3>1. task[t].pc \in AccruePCs /\ pc \in AccruePCs
        BY <1>2 DEF AccruePost, At, AccruePCs
      <3> HIDE DEF pc
      <3> QED
        BY <2>1, <3>1, TripGoes
    <2>5. x \notin Withdrawals /\ ~ At(t, "idle")
      BY <1>2, <2>1, KindFacts DEF AccruePost, At
    <2>6. PostThen(t, x, CashRideEntries(OwnerOf[x], AmountOf[x]), pc)
      BY <1>2 DEF AccruePost
    <2> QED
      BY <2>2, <2>3, <2>4, <2>5, <2>6, PostMoves
  <1>3. ASSUME AccrueCount(t) PROVE MoneyOK'
    <2>0. OwnerOf[task[t].x] \in Drivers
      BY <1>3, AtFacts, KindFacts DEF AccrueCount, At, AccruePCs
    <2>1. unsettled' \in [Drivers -> Nat]
      BY <1>3, <2>0 DEF AccrueCount, MoneyOK, MoneyTypeOK
    <2>2. UNCHANGED <<ledger, request, charge, withdrawal, transfer, events>>
      BY <1>3 DEF AccrueCount
    <2>3. task' = [task EXCEPT ![t] = Idle]
      BY <1>3 DEF AccrueCount, Return
    <2> QED
      BY <2>1, <2>2, <2>3, SameRows, IdleOK, FreeAdmissible, CallMoves
  <1>4. ASSUME Returned(t) PROVE MoneyOK'
    BY <1>4, ReturnOK DEF Returned
  <1> QED
    BY <1>1, <1>2, <1>3, <1>4

\* A step on the rows of a top-up, which leaves the money alone.
LEMMA RowMoves ==
    ASSUME MoneyOK, NEW t \in Tasks, NEW k, CallOK(k), k.x \notin Withdrawals,
           task' = [task EXCEPT ![t] = k],
           UNCHANGED <<ledger, unsettled, withdrawal, transfer, events>>,
           request' \in [Payments -> {"NONE", "PENDING", "COMPLETED", "FAILED"}],
           charge' \in [Payments -> {"none", "open", "success", "failed"}]
    PROVE  MoneyOK'
  BY SameRows, FreeAdmissible, CallMoves

\* Calls about a payment stay about it.
LEMMA PaymentCall ==
    ASSUME NEW p \in Payments, NEW pc \in TopUpPCs, NEW saved \in BOOLEAN
    PROVE  LET k == [Idle EXCEPT !.pc = pc, !.x = p, !.saved = saved]
           IN  CallOK(k) /\ k.x \notin Withdrawals
  BY KindFacts DEF CallOK, Idle, TaskRecords, PCs, AccruePCs, TopUpPCs, EarlyPCs, LatePCs, SettlePCs

LEMMA PaymentGoes ==
    ASSUME NEW k0, CallOK(k0), k0.x \in Payments, k0.pc # "idle", NEW pc \in TopUpPCs
    PROVE  LET k == [k0 EXCEPT !.pc = pc]
           IN  CallOK(k) /\ k.x \notin Withdrawals
  BY KindFacts DEF CallOK, TaskRecords, PCs, AccruePCs, TopUpPCs, EarlyPCs, LatePCs, SettlePCs

\* initiateTopUp, the gateway's answers, and markTopUpFailed.
LEMMA TopUpOK ==
    ASSUME MoneyOK, NEW t \in Tasks
    PROVE  /\ \A p \in Payments, saved \in BOOLEAN : TopUpRow(t, p, saved) => MoneyOK'
           /\ \A p \in Payments : TopUpAccount(t, p) => MoneyOK'
           /\ TopUpLateRow(t) => MoneyOK'
           /\ TopUpCheckout(t) => MoneyOK'
           /\ ChargeCard(t) => MoneyOK'
           /\ MarkFailed(t) => MoneyOK'
  <1>0. /\ request \in [Payments -> {"NONE", "PENDING", "COMPLETED", "FAILED"}]
        /\ charge \in [Payments -> {"none", "open", "success", "failed"}]
    BY DEF MoneyOK, MoneyTypeOK
  <1>1. ASSUME NEW p \in Payments, NEW saved \in BOOLEAN, TopUpRow(t, p, saved) PROVE MoneyOK'
    <2>1. PICK pc \in TopUpPCs : Call(t, pc, p, saved)
      BY <1>1 DEF TopUpRow, TopUpPCs
    <2>2. PICK k : k = [Idle EXCEPT !.pc = pc, !.x = p, !.saved = saved]
      OBVIOUS
    <2>3. CallOK(k) /\ k.x \notin Withdrawals /\ task' = [task EXCEPT ![t] = k]
      BY <2>1, <2>2, PaymentCall DEF Call
    <2>4. /\ UNCHANGED <<ledger, unsettled, charge, withdrawal, transfer, events>>
          /\ request' \in [Payments -> {"NONE", "PENDING", "COMPLETED", "FAILED"}]
      BY <1>0, <1>1 DEF TopUpRow
    <2> QED
      BY <1>0, <2>3, <2>4, RowMoves
  <1>2. ASSUME NEW p \in Payments, TopUpAccount(t, p) PROVE MoneyOK'
    <2>1. PICK k : k = [Idle EXCEPT !.pc = "late_row", !.x = p, !.saved = FALSE]
      OBVIOUS
    <2>2. CallOK(k) /\ k.x \notin Withdrawals /\ task' = [task EXCEPT ![t] = k]
      BY <1>2, <2>1, PaymentCall DEF TopUpAccount, Call, TopUpPCs
    <2>3. /\ UNCHANGED <<ledger, unsettled, request, withdrawal, transfer, events>>
          /\ charge' \in [Payments -> {"none", "open", "success", "failed"}]
      BY <1>0, <1>2 DEF TopUpAccount
    <2> QED
      BY <1>0, <2>2, <2>3, RowMoves
  <1>3. ASSUME TopUpLateRow(t) PROVE MoneyOK'
    <2>1. /\ UNCHANGED <<ledger, unsettled, charge, withdrawal, transfer, events>>
          /\ request' \in [Payments -> {"NONE", "PENDING", "COMPLETED", "FAILED"}]
          /\ task' = [task EXCEPT ![t] = Idle]
      BY <1>0, <1>3 DEF TopUpLateRow, Return
    <2> QED
      BY <1>0, <2>1, IdleOK, RowMoves
  <1>4. ASSUME TopUpCheckout(t) PROVE MoneyOK'
    <2>1. /\ UNCHANGED <<ledger, unsettled, request, withdrawal, transfer, events>>
          /\ charge' \in [Payments -> {"none", "open", "success", "failed"}]
          /\ task' = [task EXCEPT ![t] = Idle]
      BY <1>0, <1>4 DEF TopUpCheckout, Return
    <2> QED
      BY <1>0, <2>1, IdleOK, RowMoves
  <1>5. ASSUME ChargeCard(t) PROVE MoneyOK'
    <2>1. /\ UNCHANGED <<ledger, unsettled, request, withdrawal, transfer, events>>
          /\ charge' \in [Payments -> {"none", "open", "success", "failed"}]
          /\ \/ Return(t)
             \/ \E pc \in {"verify", "mark_failed"} : Goto(t, pc)
      BY <1>0, <1>5 DEF ChargeCard
    <2>2. CallOK(task[t]) /\ task[t].pc # "idle" /\ task[t].x \in Payments
      BY <1>5, AtFacts DEF ChargeCard, At, TopUpPCs
    <2>3. CASE Return(t)
      BY <1>0, <2>1, <2>3, IdleOK, RowMoves DEF Return
    <2>4. ASSUME NEW pc \in {"verify", "mark_failed"}, Goto(t, pc) PROVE MoneyOK'
      <3>1. PICK k : k = [task[t] EXCEPT !.pc = pc]
        OBVIOUS
      <3>2. CallOK(k) /\ k.x \notin Withdrawals
        BY <2>2, <3>1, PaymentGoes DEF TopUpPCs
      <3> QED
        BY <1>0, <2>1, <2>4, <3>1, <3>2, RowMoves DEF Goto
    <2> QED
      BY <2>1, <2>3, <2>4
  <1>6. ASSUME MarkFailed(t) PROVE MoneyOK'
    <2>1. /\ UNCHANGED <<ledger, unsettled, charge, withdrawal, transfer, events>>
          /\ request' \in [Payments -> {"NONE", "PENDING", "COMPLETED", "FAILED"}]
          /\ task' = [task EXCEPT ![t] = Idle]
      BY <1>0, <1>6 DEF MarkFailed, FailPending, Return
    <2> QED
      BY <1>0, <2>1, IdleOK, RowMoves
  <1> QED
    BY <1>1, <1>2, <1>3, <1>4, <1>5, <1>6

\* applyVerifiedTopUp and completeTopUpRequest.
LEMMA ApplyOK ==
    ASSUME MoneyOK, NEW t \in Tasks
    PROVE  /\ \A p \in Payments : ChargeWebhook(t, p) \/ PollTopUp(t, p) => MoneyOK'
           /\ Verify(t) => MoneyOK'
           /\ LookCredited(t) => MoneyOK'
           /\ ReadDebt(t) => MoneyOK'
           /\ CreditRest(t) => MoneyOK'
           /\ CreditAll(t) => MoneyOK'
           /\ CompleteTopUp(t) => MoneyOK'
  <1>0. /\ request \in [Payments -> {"NONE", "PENDING", "COMPLETED", "FAILED"}]
        /\ charge \in [Payments -> {"none", "open", "success", "failed"}]
        /\ task[t] \in TaskRecords /\ CallOK(task[t])
    BY AtFacts DEF MoneyOK, MoneyTypeOK
  <1>1. ASSUME NEW p \in Payments, ChargeWebhook(t, p) \/ PollTopUp(t, p) PROVE MoneyOK'
    <2>1. PICK k : k = [Idle EXCEPT !.pc = "verify", !.x = p, !.saved = FALSE]
      OBVIOUS
    <2>2. CallOK(k) /\ k.x \notin Withdrawals
      BY <2>1, PaymentCall DEF TopUpPCs
    <2>3. task' = [task EXCEPT ![t] = k] /\ OnlyTask
      BY <1>1, <2>1 DEF ChargeWebhook, PollTopUp, Call
    <2> QED
      BY <2>2, <2>3, FreeAdmissible, ReadMoves
  <1>2. ASSUME NEW pc \in TopUpPCs, task[t].pc \in TopUpPCs, Goto(t, pc), OnlyTask PROVE MoneyOK'
    <2>1. PICK k : k = [task[t] EXCEPT !.pc = pc]
      OBVIOUS
    <2>2. CallOK(k) /\ k.x \notin Withdrawals
      BY <1>0, <1>2, <2>1, AtFacts, PaymentGoes DEF TopUpPCs
    <2> QED
      BY <1>2, <2>1, <2>2, FreeAdmissible, ReadMoves DEF Goto
  <1>3. ASSUME Verify(t) PROVE MoneyOK'
    <2>1. task[t].pc \in TopUpPCs
      BY <1>3 DEF Verify, At, TopUpPCs
    <2>2. CASE Goto(t, "look") /\ OnlyTask
      BY <1>2, <2>1, <2>2 DEF TopUpPCs
    <2>3. CASE Return(t) /\ OnlyTask
      BY <2>3, ReturnOK
    <2>4. CASE Return(t) /\ FailPending(task[t].x)
      <3>1. /\ UNCHANGED <<ledger, unsettled, charge, withdrawal, transfer, events>>
            /\ request' \in [Payments -> {"NONE", "PENDING", "COMPLETED", "FAILED"}]
            /\ task' = [task EXCEPT ![t] = Idle]
        BY <1>0, <2>4 DEF FailPending, Return
      <3> QED
        BY <1>0, <3>1, IdleOK, RowMoves
    <2> QED
      BY <1>3, <2>2, <2>3, <2>4 DEF Verify
  <1>4. ASSUME LookCredited(t) PROVE MoneyOK'
    <2>1. task[t].pc \in TopUpPCs
      BY <1>4 DEF LookCredited, At, TopUpPCs
    <2>2. PICK pc \in TopUpPCs : Goto(t, pc) /\ OnlyTask
      BY <1>4 DEF LookCredited, TopUpPCs
    <2> QED
      BY <1>2, <2>1, <2>2
  <1>5. ASSUME ReadDebt(t) PROVE MoneyOK'
    <2> DEFINE p == task[t].x
    <2>1. p \in Payments /\ task[t].pc = "debt"
      BY <1>5, AtFacts DEF ReadDebt, At, TopUpPCs
    <2>2. Lesser(Debt(p), AmountOf[p]) \in Nat
      BY <2>1, DebtIsNat, LesserIsNat, KindFacts, ThingFacts DEF MoneyOK
    <2>3. PICK k : k = IF Debt(p) > 0
                       THEN [task[t] EXCEPT !.settle = Lesser(Debt(p), AmountOf[p]),
                                            !.next = "credit", !.pc = "settle_look"]
                       ELSE [task[t] EXCEPT !.pc = "topup"]
      OBVIOUS
    <2>4. CallOK(k) /\ k.x \notin Withdrawals
      BY ZenonT(60), <1>0, <2>1, <2>2, <2>3, KindFacts DEF CallOK, TaskRecords, PCs, AccruePCs, TopUpPCs, EarlyPCs,
         LatePCs, SettlePCs
    <2>5. task' = [task EXCEPT ![t] = k] /\ OnlyTask
      BY <1>5, <2>3 DEF ReadDebt
    <2> QED
      BY <2>4, <2>5, FreeAdmissible, ReadMoves
  <1>6. ASSUME NEW ref \in BaseRefs, NEW e \in EntrySets, PostThen(t, ref, e, "complete"),
               task[t].pc \in TopUpPCs, \A w \in Withdrawals : ref # w /\ ref # SettleRef(w)
        PROVE  MoneyOK'
    <2>1. /\ task[t].x \in Payments /\ ~ At(t, "idle")
      BY <1>6, AtFacts DEF At, TopUpPCs
    <2>2. CallOK([task[t] EXCEPT !.pc = "complete"]) /\ task[t].x \notin Withdrawals
      BY <1>0, <2>1, PaymentGoes, KindFacts DEF At, TopUpPCs
    <2> QED
      BY <1>6, <2>1, <2>2, PostMoves
  <1>7. ASSUME CreditRest(t) PROVE MoneyOK'
    <2> DEFINE p == task[t].x
               rest == AmountOf[p] - task[t].settle
    <2>1. p \in Payments /\ task[t].pc \in TopUpPCs
      BY <1>7, AtFacts DEF CreditRest, At, TopUpPCs
    <2>2. CASE rest > 0
      <3>1. /\ CreditRef(p) \in BaseRefs
            /\ \A w \in Withdrawals : CreditRef(p) # w /\ CreditRef(p) # SettleRef(w)
        BY <2>1, KindFacts, ThingFacts
      <3>2. rest \in Int
        BY <1>0, <2>1, KindFacts, ThingFacts DEF TaskRecords
      <3>3. TopUpEntries(OwnerOf[p], rest) \in EntrySets
        BY <3>2, MoveType DEF TopUpEntries
      <3>4. PostThen(t, CreditRef(p), TopUpEntries(OwnerOf[p], rest), "complete")
        BY <1>7, <2>2 DEF CreditRest
      <3> HIDE DEF rest
      <3> QED
        BY <1>6, <2>1, <3>1, <3>3, <3>4
    <2>3. CASE ~ (rest > 0)
      <3>1. Goto(t, "complete") /\ OnlyTask
        BY <1>7, <2>3 DEF CreditRest
      <3> QED
        BY <1>2, <2>1, <3>1 DEF TopUpPCs
    <2> QED
      BY <2>2, <2>3
  <1>8. ASSUME CreditAll(t) PROVE MoneyOK'
    <2> DEFINE p == task[t].x
    <2>1. p \in Payments /\ task[t].pc \in TopUpPCs
      BY <1>8, AtFacts DEF CreditAll, At, TopUpPCs
    <2>2. /\ p \in BaseRefs /\ AmountOf[p] \in Int
          /\ \A w \in Withdrawals : p # w /\ p # SettleRef(w)
      BY <2>1, KindFacts, ThingFacts
    <2>3. TopUpEntries(OwnerOf[p], AmountOf[p]) \in EntrySets
      BY <2>2, MoveType DEF TopUpEntries
    <2>4. PostThen(t, p, TopUpEntries(OwnerOf[p], AmountOf[p]), "complete")
      BY <1>8 DEF CreditAll
    <2> QED
      BY <1>6, <2>1, <2>2, <2>3, <2>4
  <1>9. ASSUME CompleteTopUp(t) PROVE MoneyOK'
    <2>1. /\ UNCHANGED <<ledger, unsettled, charge, withdrawal, transfer, events>>
          /\ request' \in [Payments -> {"NONE", "PENDING", "COMPLETED", "FAILED"}]
          /\ task' = [task EXCEPT ![t] = Idle]
      BY <1>0, <1>9 DEF CompleteTopUp, Return
    <2> QED
      BY <1>0, <2>1, IdleOK, RowMoves
  <1> QED
    BY <1>1, <1>3, <1>4, <1>5, <1>7, <1>8, <1>9

-----------------------------------------------------------------------------
(* settleCommission and the withdrawals.                                   *)

\* What the invariant says of the one call a withdrawal has before its row.
LEMMA EarlyFacts ==
    ASSUME MoneyOK, NEW t \in Tasks, NEW w \in Withdrawals,
           On(t, w, EarlyPCs \cup SettlePCs)
    PROVE  /\ withdrawal[w] = "NONE" /\ \A u \in Tasks \ {t} : task[u].x # w
           /\ transfer[w] = "none" /\ events[w] = {}
           /\ task[t].pc # "debit" => Exists(ledger, w)
  BY DEF MoneyOK, WithdrawalOK, On, EarlyPCs, SettlePCs

\* settleCommission goes on, or returns to its caller.
LEMMA SettleGoes ==
    ASSUME MoneyOK, NEW t \in Tasks, task[t].pc \in SettlePCs,
           NEW pc \in SettlePCs \cup {task[t].next}, NEW fresh \in BOOLEAN
    PROVE  LET k == [task[t] EXCEPT !.pc = pc, !.fresh = fresh]
           IN  CallOK(k) /\ Admissible(t, k)
  <1>1. CallOK(task[t]) /\ task[t] \in TaskRecords
    BY AtFacts
  <1>2. PICK k : k = [task[t] EXCEPT !.pc = pc, !.fresh = fresh]
    OBVIOUS
  <1>3. CallOK(k) /\ k.x = task[t].x /\ k.pc = pc
    BY <1>1, <1>2, KindFacts DEF CallOK, TaskRecords, PCs, AccruePCs, TopUpPCs, EarlyPCs, LatePCs, SettlePCs
  <1>4. ASSUME NEW w \in Withdrawals, task[t].x = w
        PROVE  /\ withdrawal[w] = "NONE" /\ \A u \in Tasks \ {t} : task[u].x # w
               /\ Exists(ledger, w)
               /\ pc \in SettlePCs \cup {"row"}
    <2>1. On(t, w, EarlyPCs \cup SettlePCs) /\ task[t].pc # "debit"
      BY <1>4 DEF On, SettlePCs
    <2>2. task[t].next = "row"
      BY <1>1, <1>4, KindFacts DEF CallOK
    <2> QED
      BY <2>1, <2>2, EarlyFacts
  <1>5. Admissible(t, k)
    BY <1>3, <1>4 DEF Admissible, LatePCs, SettlePCs
  <1> QED
    BY <1>2, <1>3, <1>5

LEMMA SettleGoto ==
    ASSUME MoneyOK, NEW t \in Tasks, task[t].pc \in SettlePCs,
           NEW pc \in SettlePCs \cup {task[t].next}
    PROVE  LET k == [task[t] EXCEPT !.pc = pc]
           IN  CallOK(k) /\ Admissible(t, k)
  <1>1. task[t] \in TaskRecords
    BY AtFacts
  <1>2. task[t].fresh \in BOOLEAN
    BY <1>1 DEF TaskRecords
  <1>3. [task[t] EXCEPT !.pc = pc] = [task[t] EXCEPT !.pc = pc, !.fresh = task[t].fresh]
    BY <1>1 DEF TaskRecords
  <1> QED
    BY <1>2, <1>3, SettleGoes

\* A step of the call a withdrawal has before its row.
LEMMA EarlyMoves ==
    ASSUME MoneyOK, NEW t \in Tasks, NEW w \in Withdrawals,
           On(t, w, EarlyPCs \cup SettlePCs),
           NEW ref \in {w, SettleRef(w)}, LedgerOK(ledger'), Keeps(ref), UNCHANGED others,
           NEW k, CallOK(k), task' = [task EXCEPT ![t] = k],
           \/ k.x \notin Withdrawals
           \/ k.x = w /\ k.pc \in {"deduct", "row"} \cup SettlePCs /\ Exists(ledger', w)
    PROVE  MoneyOK'
  <1>0. /\ task \in [Tasks -> TaskRecords]
        /\ UNCHANGED <<unsettled, request, charge, withdrawal, transfer, events>>
    BY AtFacts DEF others
  <1>1. MoneyTypeOK'
    BY <1>0 DEF MoneyOK, MoneyTypeOK, LedgerOK, LedgerTypeOK, CallOK
  <1>2. Calls'
    BY <1>0 DEF MoneyOK, Calls, CallOK
  <1>3. LedgerOK(ledger)'
    BY DEF LedgerOK, LedgerTypeOK, NoOverdraftIn, RunningBalanceIn, PostedOnceIn, ConservedIn,
           RefundMatchesIn, Exists
  <1>4. ASSUME NEW v \in Withdrawals, v # w
        PROVE  WithdrawalOK(v)'
    <2>1. ref # v /\ ref # SettleRef(v)
      BY <1>4, KindFacts, ThingFacts
    <2>2. Untouched(v)
      BY <2>1, KeepsUntouched
    <2> QED
      BY <1>0, <1>4, <2>2, Elsewhere DEF MoneyOK
  <1>5. WithdrawalOK(w)'
    <2>1. /\ withdrawal'[w] = "NONE" /\ transfer'[w] = "none" /\ events'[w] = {}
          /\ \A u \in Tasks \ {t} : task'[u].x # w
      <3>1. /\ withdrawal[w] = "NONE" /\ transfer[w] = "none" /\ events[w] = {}
            /\ \A u \in Tasks \ {t} : task[u].x # w
        BY EarlyFacts
      <3>2. \A u \in Tasks \ {t} : task'[u] = task[u]
        BY <1>0
      <3> QED
        BY <1>0, <3>1, <3>2
    <2>2. \A u \in Tasks : u # t => ~ On(u, w, EarlyPCs \cup SettlePCs \cup LatePCs)'
      BY <2>1 DEF On
    <2>3. task'[t] = k
      BY <1>0
    <2>4. ASSUME NEW u \in Tasks
          PROVE  /\ On(u, w, EarlyPCs \cup SettlePCs)' =>
                       withdrawal'[w] = "NONE" /\ \A v \in Tasks \ {u} : task'[v].x # w
                 /\ On(u, w, {"deduct", "row"} \cup SettlePCs)' => (Exists(ledger, w))'
                 /\ ~ On(u, w, LatePCs)'
      <3>1. CASE u # t
        BY <2>2, <3>1 DEF On, EarlyPCs
      <3>2. CASE u = t
        BY <2>1, <2>3, <3>2 DEF On, Exists, LatePCs, SettlePCs
      <3> QED
        BY <3>1, <3>2
    <2> QED
      BY <2>1, <2>4 DEF WithdrawalOK, On, LatePCs, EarlyPCs, SettlePCs
  <1> QED
    BY <1>1, <1>2, <1>3, <1>4, <1>5 DEF MoneyOK

\* A step that leaves a withdrawal with a row, of a call about it.
LEMMA LateMoves ==
    ASSUME MoneyOK, NEW t \in Tasks, NEW w \in Withdrawals, Exists(ledger', w),
           \A u \in Tasks \ {t} : ~ On(u, w, EarlyPCs \cup SettlePCs),
           NEW ref \in {w, SettleRef(w)}, LedgerOK(ledger'), Keeps(ref),
           TxStatus(w) = "REVERSED" => TxStatus(w)' = "REVERSED",
           Undone(w) => Undone(w)',
           UNCHANGED <<unsettled, request, charge>>,
           NEW s \in {"PENDING", "COMPLETED", "FAILED"}, s = "FAILED" => Undone(w)',
           withdrawal' = [withdrawal EXCEPT ![w] = s],
           NEW g \in {"none", "accepted", "paid", "failed"},
           transfer' = [transfer EXCEPT ![w] = g], UNCHANGED events,
           NEW k, CallOK(k), task' = [task EXCEPT ![t] = k],
           \/ k.x \notin Withdrawals
           \/ /\ k.x = w /\ k.pc \in LatePCs
              /\ k.pc = "refund_settle" => TxStatus(w)' = "REVERSED"
              /\ k.pc = "failed" => Undone(w)'
    PROVE  MoneyOK'
  <1>0. task \in [Tasks -> TaskRecords]
    BY AtFacts
  <1>1. MoneyTypeOK'
    BY <1>0 DEF MoneyOK, MoneyTypeOK, LedgerOK, LedgerTypeOK, CallOK
  <1>2. Calls'
    BY <1>0 DEF MoneyOK, Calls, CallOK
  <1>3. LedgerOK(ledger)'
    BY DEF LedgerOK, LedgerTypeOK, NoOverdraftIn, RunningBalanceIn, PostedOnceIn, ConservedIn,
           RefundMatchesIn, Exists
  <1>4. ASSUME NEW v \in Withdrawals, v # w
        PROVE  WithdrawalOK(v)'
    <2>1. ref # v /\ ref # SettleRef(v)
      BY <1>4, KindFacts, ThingFacts
    <2>2. Untouched(v)
      BY <2>1, KeepsUntouched
    <2>3. withdrawal'[v] = withdrawal[v] /\ transfer'[v] = transfer[v] /\ events'[v] = events[v]
      BY <1>4 DEF MoneyOK, MoneyTypeOK
    <2> QED
      BY <1>0, <1>4, <2>2, <2>3, Elsewhere DEF MoneyOK
  <1>5. WithdrawalOK(w)'
    <2>1. withdrawal'[w] = s
      BY DEF MoneyOK, MoneyTypeOK
    <2>2. ASSUME NEW u \in Tasks
          PROVE  /\ ~ On(u, w, EarlyPCs \cup SettlePCs)'
                 /\ On(u, w, {"refund_settle"})' => TxStatus(w)' = "REVERSED"
                 /\ On(u, w, {"failed"})' => Undone(w)'
      <3>1. CASE u = t
        <4>1. task'[u] = k
          BY <1>0, <3>1
        <4> QED
          BY <4>1 DEF On, EarlyPCs, SettlePCs, LatePCs
      <3>2. CASE u # t
        <4>1. task'[u] = task[u]
          BY <1>0, <3>2
        <4>2. WithdrawalOK(w)
          BY DEF MoneyOK
        <4> QED
          BY <3>2, <4>1, <4>2 DEF On, WithdrawalOK
      <3> QED
        BY <3>1, <3>2
    <2> QED
      BY <2>1, <2>2 DEF WithdrawalOK, On, EarlyPCs, SettlePCs
  <1> QED
    BY <1>1, <1>2, <1>3, <1>4, <1>5 DEF MoneyOK

LEMMA SettleOK ==
    ASSUME MoneyOK, NEW t \in Tasks
    PROVE  /\ SettleLook(t) => MoneyOK'
           /\ SettlePost(t) => MoneyOK'
           /\ SettleRead(t) => MoneyOK'
           /\ SettleReset(t) => MoneyOK'
  <1>0. task[t] \in TaskRecords /\ CallOK(task[t])
    BY AtFacts
  <1>1. ASSUME SettleLook(t) PROVE MoneyOK'
    <2>1. PICK k : k = [task[t] EXCEPT !.pc = "settle_post", !.fresh = ~ Exists(ledger, SettleRef(task[t].x))]
      OBVIOUS
    <2>2. CallOK(k) /\ Admissible(t, k)
      BY <1>1, <2>1, SettleGoes DEF SettleLook, At, SettlePCs
    <2>3. k = [task[t] EXCEPT !.fresh = ~ Exists(ledger, SettleRef(task[t].x)), !.pc = "settle_post"]
      BY <1>0, <2>1 DEF TaskRecords
    <2>4. task' = [task EXCEPT ![t] = k] /\ OnlyTask
      BY <1>1, <2>3, AtFacts DEF SettleLook
    <2> QED
      BY <2>2, <2>4, ReadMoves
  <1>2. ASSUME SettlePost(t) PROVE MoneyOK'
    <2> DEFINE x  == task[t].x
               e  == SettlementEntries(OwnerOf[x], task[t].settle)
               pc == IF task[t].fresh THEN "settle_read" ELSE task[t].next
    <2>1. task[t].pc \in SettlePCs /\ task[t].pc = "settle_post" /\ x \in Things
      BY <1>2, AtFacts DEF SettlePost, At, SettlePCs
    <2>2. SettleRef(x) \in BaseRefs /\ SettleRef(x) \notin Things
      BY <2>1, ThingFacts
    <2>3. e \in EntrySets
      BY <1>0, MoveType DEF SettlementEntries, TaskRecords
    <2>4. PostThen(t, SettleRef(x), e, pc)
      BY <1>2 DEF SettlePost
    <2>5. pc \in SettlePCs \cup {task[t].next}
      BY DEF SettlePCs
    <2>6. CallOK([task[t] EXCEPT !.pc = pc])
      BY <2>1, <2>5, SettleGoto
    <2>7. CASE x \notin Withdrawals
      <3>1. \A w \in Withdrawals : SettleRef(x) # w /\ SettleRef(x) # SettleRef(w)
        BY <2>1, <2>2, <2>7, KindFacts, ThingFacts
      <3>2. ~ At(t, "idle")
        BY <2>1 DEF At
      <3> HIDE DEF e, pc
      <3> QED
        BY <2>2, <2>3, <2>4, <2>6, <2>7, <3>1, <3>2, PostMoves
    <2>8. CASE x \in Withdrawals
      <3>1. /\ LedgerOK(ledger') /\ Keeps(SettleRef(x)) /\ UNCHANGED others
            /\ Goto(t, pc) \/ Raise(t)
        BY <2>2, <2>3, <2>4, PostThenEffect DEF MoneyOK
      <3>2. On(t, x, EarlyPCs \cup SettlePCs)
        BY <2>1 DEF On
      <3>3. Exists(ledger', x)
        <4>1. Exists(ledger, x)
          BY <2>1, <2>8, <3>2, EarlyFacts
        <4>2. ledger'.txs[x] = ledger.txs[x]
          BY <2>1, <2>2, <3>1, ThingFacts DEF Keeps
        <4> QED
          BY <4>1, <4>2 DEF Exists
      <3>4. CASE Raise(t)
        <4>1. PICK k : task' = [task EXCEPT ![t] = k] /\ CallOK(k) /\ k.x \notin Withdrawals
          BY <1>0, <2>1, <3>4, RaiseMoves DEF At
        <4> QED
          BY <2>8, <3>1, <3>2, <4>1, EarlyMoves
      <3>5. CASE Goto(t, pc)
        <4>1. PICK k : k = [task[t] EXCEPT !.pc = pc]
          OBVIOUS
        <4>2. task[t].next = "row"
          BY <1>0, <2>1, <2>8, KindFacts DEF CallOK
        <4>3. k.x = x /\ k.pc = pc /\ pc \in {"deduct", "row"} \cup SettlePCs
          BY <1>0, <2>5, <4>1, <4>2 DEF TaskRecords
        <4>4. task' = [task EXCEPT ![t] = k] /\ CallOK(k)
          BY <2>6, <3>5, <4>1 DEF Goto
        <4> HIDE DEF pc
        <4> QED
          BY <2>8, <3>1, <3>2, <3>3, <4>3, <4>4, EarlyMoves
      <3> QED
        BY <3>1, <3>4, <3>5
    <2> QED
      BY <2>7, <2>8
  <1>3. ASSUME NEW pc \in SettlePCs \cup {task[t].next}, task[t].pc \in SettlePCs, Goto(t, pc)
        PROVE  \E k : task' = [task EXCEPT ![t] = k] /\ CallOK(k) /\ Admissible(t, k)
    BY <1>3, SettleGoto DEF Goto
  <1>4. ASSUME SettleRead(t) PROVE MoneyOK'
    <2>1. task[t].pc \in SettlePCs
      BY <1>4 DEF SettleRead, At, SettlePCs
    <2>2. PICK pc \in SettlePCs \cup {task[t].next} : Goto(t, pc) /\ OnlyTask
      BY <1>4 DEF SettleRead, SettlePCs
    <2> QED
      BY <1>3, <2>1, <2>2, ReadMoves
  <1>5. ASSUME SettleReset(t) PROVE MoneyOK'
    <2>1. task[t].pc \in SettlePCs
      BY <1>5 DEF SettleReset, At, SettlePCs
    <2>2. PICK k : task' = [task EXCEPT ![t] = k] /\ CallOK(k) /\ Admissible(t, k)
      BY <1>3, <1>5, <2>1 DEF SettleReset
    <2>3. unsettled' \in [Drivers -> Nat]
      BY <1>5 DEF SettleReset, MoneyOK, MoneyTypeOK
    <2>4. UNCHANGED <<ledger, request, charge, withdrawal, transfer, events>>
      BY <1>5 DEF SettleReset
    <2> QED
      BY <2>2, <2>3, <2>4, SameRows, CallMoves
  <1> QED
    BY <1>1, <1>2, <1>4, <1>5

\* A call about a withdrawal stays about it.
LEMMA WithdrawalGoes ==
    ASSUME NEW k0, CallOK(k0), k0.pc \in EarlyPCs \cup LatePCs \cup SettlePCs,
           k0.x \in Withdrawals, NEW pc \in EarlyPCs \cup LatePCs
    PROVE  LET k == [k0 EXCEPT !.pc = pc]
           IN  CallOK(k) /\ k.x = k0.x /\ k.pc = pc
  BY KindFacts DEF CallOK, TaskRecords, PCs, AccruePCs, TopUpPCs, EarlyPCs, LatePCs, SettlePCs

\* initiateWithdrawal, as far as the row of the request.
LEMMA WithdrawOK ==
    ASSUME MoneyOK, NEW t \in Tasks
    PROVE  /\ \A w \in Withdrawals : WithdrawRead(t, w) => MoneyOK'
           /\ WithdrawDebit(t) => MoneyOK'
           /\ WithdrawDeduct(t) => MoneyOK'
           /\ WithdrawRow(t) => MoneyOK'
  <1>0. task[t] \in TaskRecords /\ CallOK(task[t])
    BY AtFacts
  <1>1. ASSUME NEW w \in Withdrawals, WithdrawRead(t, w) PROVE MoneyOK'
    <2>1. Lesser(Debt(w), AmountOf[w]) \in Nat
      BY DebtIsNat, LesserIsNat, KindFacts, ThingFacts DEF MoneyOK
    <2>2. PICK k : k = [Idle EXCEPT !.pc = "debit", !.x = w, !.settle = Lesser(Debt(w), AmountOf[w])]
      OBVIOUS
    <2>3. CallOK(k) /\ k.x = w /\ k.pc = "debit"
      BY <2>1, <2>2, KindFacts DEF CallOK, Idle, TaskRecords, PCs, AccruePCs, TopUpPCs, EarlyPCs,
         LatePCs, SettlePCs
    <2>4. withdrawal[w] = "NONE"
      BY <1>1 DEF WithdrawRead, MoneyOK, WithdrawalOK
    <2>5. Admissible(t, k)
      BY <1>1, <2>3, <2>4 DEF WithdrawRead, Admissible, LatePCs, SettlePCs
    <2>6. task' = [task EXCEPT ![t] = k] /\ OnlyTask
      BY <1>1, <2>2 DEF WithdrawRead
    <2> QED
      BY <2>3, <2>5, <2>6, ReadMoves
  <1>2. ASSUME WithdrawDebit(t) PROVE MoneyOK'
    <2> DEFINE w == task[t].x
               e == WithdrawalEntries(OwnerOf[w], AmountOf[w])
    <2>1. w \in Withdrawals /\ task[t].pc = "debit" /\ w \in BaseRefs /\ AmountOf[w] \in Int
      BY <1>2, AtFacts, KindFacts, ThingFacts DEF WithdrawDebit, At, EarlyPCs
    <2>2. e \in EntrySets
      BY <2>1, MoveType DEF WithdrawalEntries
    <2>3. PostThen(t, w, e, "deduct")
      BY <1>2 DEF WithdrawDebit
    <2>4. On(t, w, EarlyPCs \cup SettlePCs)
      BY <2>1 DEF On, EarlyPCs
    <2>5. /\ LedgerOK(ledger') /\ Keeps(w) /\ UNCHANGED others
          /\ (Goto(t, "deduct") /\ Exists(ledger', w)) \/ Raise(t)
      BY <2>1, <2>2, <2>3, PostThenEffect DEF MoneyOK
    <2>6. CASE Raise(t)
      <3>1. PICK k : task' = [task EXCEPT ![t] = k] /\ CallOK(k) /\ k.x \notin Withdrawals
        BY <1>0, <2>1, <2>6, RaiseMoves DEF At
      <3> QED
        BY <2>1, <2>4, <2>5, <3>1, EarlyMoves
    <2>7. CASE Goto(t, "deduct") /\ Exists(ledger', w)
      <3>1. PICK k : k = [task[t] EXCEPT !.pc = "deduct"]
        OBVIOUS
      <3>2. CallOK(k) /\ k.x = w /\ k.pc = "deduct"
        BY <1>0, <2>1, <3>1, WithdrawalGoes DEF EarlyPCs
      <3>3. task' = [task EXCEPT ![t] = k]
        BY <2>7, <3>1 DEF Goto
      <3> HIDE DEF w
      <3> QED
        BY <2>1, <2>4, <2>5, <2>7, <3>2, <3>3, EarlyMoves
    <2> QED
      BY <2>5, <2>6, <2>7
  <1>3. ASSUME WithdrawDeduct(t) PROVE MoneyOK'
    <2> DEFINE w == task[t].x
    <2>1. w \in Withdrawals /\ task[t].pc = "deduct"
      BY <1>3, AtFacts DEF WithdrawDeduct, At, EarlyPCs
    <2>2. PICK k : k = [task[t] EXCEPT !.pc = IF task[t].settle > 0 THEN "settle_look" ELSE "row",
                                       !.next = "row"]
      OBVIOUS
    <2>3. CallOK(k) /\ k.x = w /\ k.pc \in SettlePCs \cup {"row"}
      BY ZenonT(60), <1>0, <2>1, <2>2, KindFacts DEF CallOK, TaskRecords, PCs, AccruePCs, TopUpPCs, EarlyPCs,
         LatePCs, SettlePCs
    <2>4. On(t, w, EarlyPCs \cup SettlePCs)
      BY <2>1 DEF On, EarlyPCs
    <2>5. /\ withdrawal[w] = "NONE" /\ \A u \in Tasks \ {t} : task[u].x # w
          /\ Exists(ledger, w)
      BY <2>1, <2>4, EarlyFacts
    <2>6. Admissible(t, k)
      BY <2>3, <2>5 DEF Admissible, LatePCs, SettlePCs
    <2>7. task' = [task EXCEPT ![t] = k] /\ OnlyTask
      BY <1>3, <2>2 DEF WithdrawDeduct
    <2> QED
      BY <2>3, <2>6, <2>7, ReadMoves
  <1>4. ASSUME WithdrawRow(t) PROVE MoneyOK'
    <2>0. PICK w \in Withdrawals : w = task[t].x
      BY <1>4, AtFacts DEF WithdrawRow, At, EarlyPCs
    <2>1. task[t].pc = "row" /\ w \in BaseRefs
      BY <1>4, KindFacts, ThingFacts DEF WithdrawRow, At
    <2>2. On(t, w, EarlyPCs \cup SettlePCs)
      BY <2>0, <2>1 DEF On, EarlyPCs
    <2>3. /\ \A u \in Tasks \ {t} : ~ On(u, w, EarlyPCs \cup SettlePCs)
          /\ Exists(ledger, w) /\ transfer[w] = "none"
      BY <2>1, <2>2, EarlyFacts DEF On
    <2>4. UNCHANGED <<ledger, unsettled, request, charge, transfer, events>>
      BY <1>4 DEF WithdrawRow
    <2>5. /\ LedgerOK(ledger') /\ Keeps(w) /\ Exists(ledger', w)
          /\ TxStatus(w)' = TxStatus(w) /\ (Undone(w)' <=> Undone(w))
      BY <2>3, <2>4 DEF MoneyOK, Keeps, TxStatus, Undone
    <2>6. PICK s \in {"PENDING", "COMPLETED"} : withdrawal' = [withdrawal EXCEPT ![w] = s]
      BY <1>4, <2>0 DEF WithdrawRow
    <2>7. transfer' = [transfer EXCEPT ![w] = "none"]
      BY <2>3, <2>4 DEF MoneyOK, MoneyTypeOK
    <2>8. PICK k : /\ CallOK(k) /\ task' = [task EXCEPT ![t] = k]
                   /\ k.x \notin Withdrawals \/ (k.x = w /\ k.pc = "send")
      <3>1. CASE Return(t)
        BY <3>1, IdleOK DEF Return
      <3>2. CASE Goto(t, "send")
        <4>1. PICK k : k = [task[t] EXCEPT !.pc = "send"]
          OBVIOUS
        <4>2. CallOK(k) /\ k.x = w /\ k.pc = "send"
          BY <1>0, <2>0, <2>1, <4>1, WithdrawalGoes DEF EarlyPCs, LatePCs
        <4> QED
          BY <3>2, <4>1, <4>2 DEF Goto
      <3> QED
        BY <1>4, <3>1, <3>2 DEF WithdrawRow
    <2>9. k.x \notin Withdrawals \/ (k.x = w /\ k.pc \in LatePCs /\ k.pc # "refund_settle" /\ k.pc # "failed")
      BY <2>8 DEF LatePCs
    <2> QED
      BY <2>1, <2>3, <2>4, <2>5, <2>6, <2>7, <2>8, <2>9, LateMoves
  <1> QED
    BY <1>1, <1>2, <1>3, <1>4

\* What the invariant says of a withdrawal that has a row.
LEMMA LateFacts ==
    ASSUME MoneyOK, NEW w \in Withdrawals, withdrawal[w] # "NONE"
    PROVE  /\ Exists(ledger, w)
           /\ \A u \in Tasks : ~ On(u, w, EarlyPCs \cup SettlePCs)
           /\ withdrawal[w] \in {"PENDING", "COMPLETED", "FAILED"}
           /\ withdrawal = [withdrawal EXCEPT ![w] = withdrawal[w]]
           /\ transfer[w] \in {"none", "accepted", "paid", "failed"}
           /\ transfer = [transfer EXCEPT ![w] = transfer[w]]
           /\ withdrawal[w] = "FAILED" => Undone(w)
  <1>1. WithdrawalOK(w) /\ MoneyTypeOK
    BY DEF MoneyOK
  <1>2. \A u \in Tasks : ~ On(u, w, EarlyPCs \cup SettlePCs)
    BY <1>1 DEF WithdrawalOK
  <1>3. /\ withdrawal[w] \in {"PENDING", "COMPLETED", "FAILED"}
        /\ withdrawal = [withdrawal EXCEPT ![w] = withdrawal[w]]
        /\ transfer[w] \in {"none", "accepted", "paid", "failed"}
        /\ transfer = [transfer EXCEPT ![w] = transfer[w]]
    BY <1>1 DEF MoneyTypeOK
  <1> QED
    BY <1>1, <1>2, <1>3 DEF WithdrawalOK

\* A refunding call that goes on.
LEMMA RefundGoes ==
    ASSUME MoneyOK, NEW t \in Tasks, NEW w \in Withdrawals, withdrawal[w] # "NONE",
           task[t].x = w, task[t].pc \in LatePCs,
           NEW ref \in {w, SettleRef(w)}, LedgerOK(ledger'), Keeps(ref),
           UNCHANGED <<unsettled, request, charge, withdrawal, transfer, events>>,
           NEW pc \in LatePCs, Goto(t, pc),
           TxStatus(w) = "REVERSED" => TxStatus(w)' = "REVERSED",
           Undone(w) => Undone(w)',
           pc = "refund_settle" => TxStatus(w)' = "REVERSED",
           pc = "failed" => Undone(w)'
    PROVE  MoneyOK'
  <1>1. PICK k : k = [task[t] EXCEPT !.pc = pc]
    OBVIOUS
  <1>2. CallOK(k) /\ k.x = w /\ k.pc = pc
    BY <1>1, AtFacts, WithdrawalGoes
  <1>3. task' = [task EXCEPT ![t] = k]
    BY <1>1 DEF Goto
  <1>4. Exists(ledger', w)
    <2>1. w \in BaseRefs /\ SettleRef(w) # w /\ Exists(ledger, w)
      BY LateFacts, KindFacts, ThingFacts
    <2>2. CASE ref = w
      BY <2>1, <2>2 DEF Keeps, Exists, TxStatus
    <2>3. CASE ref # w
      BY <2>1, <2>3 DEF Keeps, Exists
    <2> QED
      BY <2>2, <2>3
  <1>5. PICK s \in {"PENDING", "COMPLETED", "FAILED"} :
           withdrawal' = [withdrawal EXCEPT ![w] = s] /\ (s = "FAILED" => Undone(w)')
    BY LateFacts
  <1>6. PICK g \in {"none", "accepted", "paid", "failed"} : transfer' = [transfer EXCEPT ![w] = g]
    BY LateFacts
  <1>7. \A u \in Tasks \ {t} : ~ On(u, w, EarlyPCs \cup SettlePCs)
    BY LateFacts
  <1> QED
    BY <1>2, <1>3, <1>4, <1>5, <1>6, <1>7, LateMoves, ZenonT(60)

\* Refunding the withdrawal or its settlement: the reference is REVERSED and
\* nothing of the other changes, or the call ends.
LEMMA RefundOf ==
    ASSUME MoneyOK, NEW t \in Tasks, NEW w \in Withdrawals, On(t, w, LatePCs),
           NEW ref \in {w, SettleRef(w)}, NEW pc \in LatePCs, RefundThen(t, ref, pc),
           pc = "refund_settle" => ref = w,
           pc = "failed" => \/ ref = w /\ ~ Exists(ledger, SettleRef(w))
                            \/ ref = SettleRef(w) /\ TxStatus(w) = "REVERSED"
    PROVE  MoneyOK'
  <1>1. w \in BaseRefs /\ SettleRef(w) \in BaseRefs /\ SettleRef(w) # w
    BY KindFacts, ThingFacts
  <1>2. /\ withdrawal[w] # "NONE" /\ task[t].x = w /\ task[t].pc \in LatePCs
        /\ CallOK(task[t])
    BY AtFacts DEF MoneyOK, WithdrawalOK, On
  <1>3. /\ LedgerOK(ledger') /\ Keeps(ref) /\ UNCHANGED others
        /\ \/ Goto(t, pc) /\ ledger'.txs[ref].status = "REVERSED"
           \/ Return(t) /\ UNCHANGED ledger
    BY <1>1, RefundThenEffect DEF MoneyOK
  <1>4. UNCHANGED <<unsettled, request, charge, withdrawal, transfer, events>>
    BY <1>3 DEF others
  <1>5. CASE Return(t) /\ UNCHANGED ledger
    BY <1>4, <1>5, ReturnOK DEF OnlyTask, others
  <1>6. CASE Goto(t, pc) /\ ledger'.txs[ref].status = "REVERSED"
    <2>1. /\ TxStatus(w)' = ledger'.txs[w].status
          /\ Undone(w)' <=> TxStatus(w)' = "REVERSED" /\ ledger'.txs[SettleRef(w)].status # "COMPLETED"
      BY DEF TxStatus, Undone
    <2>2. CASE ref = w
      <3>1. ledger'.txs[SettleRef(w)] = ledger.txs[SettleRef(w)]
        BY <1>1, <1>3, <2>2 DEF Keeps
      <3>2. TxStatus(w)' = "REVERSED" /\ (Undone(w) => Undone(w)')
        BY <1>6, <2>1, <2>2, <3>1 DEF Undone, TxStatus
      <3>3. pc = "failed" => Undone(w)'
        BY <2>1, <2>2, <1>1, <3>1, <3>2 DEF Exists
      <3> QED
        BY <1>1, <1>2, <1>3, <1>4, <1>6, <2>2, <3>2, <3>3, LateFacts, RefundGoes
    <2>3. CASE ref = SettleRef(w)
      <3>1. ledger'.txs[w] = ledger.txs[w]
        BY <1>1, <1>3, <2>3 DEF Keeps
      <3>2. /\ TxStatus(w)' = TxStatus(w)
            /\ Undone(w) => Undone(w)'
            /\ pc = "failed" => Undone(w)'
        BY <1>1, <1>6, <2>1, <2>3, <3>1 DEF Undone, TxStatus
      <3> QED
        BY <1>1, <1>2, <1>3, <1>4, <1>6, <2>3, <3>2, LateFacts, RefundGoes
    <2> QED
      BY <2>2, <2>3
  <1> QED
    BY <1>3, <1>5, <1>6

LEMMA PayoutOK ==
    ASSUME MoneyOK, NEW t \in Tasks
    PROVE  /\ WithdrawSend(t) => MoneyOK'
           /\ RefundWithdrawal(t) => MoneyOK'
           /\ RefundSettlement(t) => MoneyOK'
           /\ WithdrawFailed(t) => MoneyOK'
           /\ WithdrawPaid(t) => MoneyOK'
           /\ \A w \in Withdrawals, event \in {"success", "failed"} :
                 TransferWebhook(t, w, event) => MoneyOK'
  <1>1. ASSUME task[t].pc \in LatePCs
        PROVE  \E w \in Withdrawals :
                  /\ w = task[t].x /\ On(t, w, LatePCs) /\ withdrawal[w] # "NONE"
                  /\ task[t].pc = "refund_settle" => TxStatus(w) = "REVERSED"
                  /\ task[t].pc = "failed" => Undone(w)
    <2>1. PICK w \in Withdrawals : w = task[t].x
      BY <1>1, AtFacts
    <2>2. On(t, w, LatePCs) /\ WithdrawalOK(w)
      BY <1>1, <2>1 DEF On, MoneyOK
    <2> QED
      BY <2>1, <2>2 DEF WithdrawalOK, On
  <1>2. ASSUME WithdrawSend(t) PROVE MoneyOK'
    <2>1. PICK w \in Withdrawals : w = task[t].x /\ On(t, w, LatePCs) /\ withdrawal[w] # "NONE"
      BY <1>1, <1>2 DEF WithdrawSend, At, LatePCs
    <2>2. UNCHANGED <<ledger, unsettled, request, charge, withdrawal, events>>
      BY <1>2 DEF WithdrawSend
    <2>3. PICK g \in {"none", "accepted", "paid", "failed"} : transfer' = [transfer EXCEPT ![w] = g]
      BY <1>2, <2>1, LateFacts DEF WithdrawSend
    <2>4. /\ LedgerOK(ledger') /\ Keeps(w) /\ Exists(ledger', w)
          /\ TxStatus(w)' = TxStatus(w) /\ (Undone(w)' <=> Undone(w))
      BY <2>1, <2>2, LateFacts DEF MoneyOK, Keeps, TxStatus, Undone
    <2>5. CASE Return(t)
      BY <2>1, <2>2, <2>3, <2>4, <2>5, IdleOK, LateFacts, LateMoves DEF Return
    <2>6. CASE Goto(t, "refund")
      <3>1. PICK k : k = [task[t] EXCEPT !.pc = "refund"]
        OBVIOUS
      <3>2. CallOK(k) /\ k.x = w /\ k.pc = "refund"
        BY <2>1, <3>1, AtFacts, WithdrawalGoes DEF On, LatePCs
      <3>3. task' = [task EXCEPT ![t] = k]
        BY <2>6, <3>1 DEF Goto
      <3>4. k.pc \in LatePCs /\ k.pc # "refund_settle" /\ k.pc # "failed"
        BY <3>2 DEF LatePCs
      <3> QED
        BY ZenonT(60), <2>1, <2>2, <2>3, <2>4, <3>2, <3>3, <3>4, LateFacts, LateMoves
    <2> QED
      BY <1>2, <2>5, <2>6 DEF WithdrawSend
  <1>3. ASSUME RefundWithdrawal(t) PROVE MoneyOK'
    <2>1. PICK w \in Withdrawals : w = task[t].x /\ On(t, w, LatePCs)
      BY <1>1, <1>3 DEF RefundWithdrawal, At, LatePCs
    <2>2. PICK pc \in LatePCs : /\ RefundThen(t, w, pc)
                                /\ pc = "failed" => ~ Exists(ledger, SettleRef(w))
      BY <1>3, <2>1 DEF RefundWithdrawal, LatePCs
    <2> QED
      BY <2>1, <2>2, RefundOf
  <1>4. ASSUME RefundSettlement(t) PROVE MoneyOK'
    <2>1. PICK w \in Withdrawals : /\ w = task[t].x /\ On(t, w, LatePCs)
                                   /\ TxStatus(w) = "REVERSED"
      BY <1>1, <1>4 DEF RefundSettlement, At, LatePCs
    <2>2. RefundThen(t, SettleRef(w), "failed")
      BY <1>4, <2>1 DEF RefundSettlement
    <2> QED
      BY <2>1, <2>2, RefundOf DEF LatePCs
  <1>5. ASSUME NEW w \in Withdrawals, withdrawal[w] # "NONE", Return(t),
               NEW s \in {"COMPLETED", "FAILED"}, s = "FAILED" => Undone(w),
               withdrawal' = [withdrawal EXCEPT ![w] = s],
               UNCHANGED <<ledger, unsettled, request, charge, transfer, events>>
        PROVE  MoneyOK'
    <2>1. /\ LedgerOK(ledger') /\ Keeps(w) /\ Exists(ledger', w)
          /\ TxStatus(w)' = TxStatus(w) /\ (Undone(w)' <=> Undone(w))
      BY <1>5, LateFacts DEF MoneyOK, Keeps, TxStatus, Undone
    <2> QED
      BY <1>5, <2>1, IdleOK, LateFacts, LateMoves DEF Return
  <1>6. ASSUME WithdrawFailed(t) PROVE MoneyOK'
    <2>1. PICK w \in Withdrawals : w = task[t].x /\ withdrawal[w] # "NONE" /\ Undone(w)
      BY <1>1, <1>6 DEF WithdrawFailed, At, LatePCs
    <2> QED
      BY <1>5, <1>6, <2>1 DEF WithdrawFailed
  <1>7. ASSUME WithdrawPaid(t) PROVE MoneyOK'
    <2>1. PICK w \in Withdrawals : w = task[t].x /\ withdrawal[w] # "NONE"
      BY <1>1, <1>7 DEF WithdrawPaid, At, LatePCs
    <2> QED
      BY <1>5, <1>7, <2>1 DEF WithdrawPaid
  <1>8. ASSUME NEW w \in Withdrawals, NEW event \in {"success", "failed"},
               TransferWebhook(t, w, event)
        PROVE  MoneyOK'
    <2>1. withdrawal[w] # "NONE"
      BY <1>8 DEF TransferWebhook, MoneyOK, WithdrawalOK
    <2>2. PICK pc \in {"paid", "refund"} : Call(t, pc, w, FALSE) /\ OnlyTask
      BY <1>8 DEF TransferWebhook
    <2>3. PICK k : k = [Idle EXCEPT !.pc = pc, !.x = w, !.saved = FALSE]
      OBVIOUS
    <2>4. CallOK(k) /\ k.x = w /\ k.pc = pc
      BY <2>3, KindFacts DEF CallOK, Idle, TaskRecords, PCs, AccruePCs, TopUpPCs, EarlyPCs,
         LatePCs, SettlePCs
    <2>5. Admissible(t, k)
      BY <2>1, <2>4 DEF Admissible, EarlyPCs, SettlePCs, LatePCs
    <2>6. task' = [task EXCEPT ![t] = k]
      BY <2>2, <2>3 DEF Call
    <2> QED
      BY <2>2, <2>4, <2>5, <2>6, ReadMoves
  <1> QED
    BY <1>2, <1>3, <1>4, <1>6, <1>7, <1>8

-----------------------------------------------------------------------------
(* The gateway, faults, and the theorems.                                  *)

LEMMA GatewayOK ==
    ASSUME MoneyOK, Gateway
    PROVE  MoneyOK'
  <1>0. LedgerOK(ledger) /\ MoneyTypeOK /\ Calls
    BY DEF MoneyOK
  <1>1. ASSUME NEW p \in Payments, NEW outcome \in {"success", "failed"},
               GatewayCharges(p, outcome)
        PROVE  MoneyOK'
    <2>1. /\ UNCHANGED <<ledger, unsettled, request, withdrawal, transfer, events, task>>
          /\ charge' \in [Payments -> {"none", "open", "success", "failed"}]
      BY <1>0, <1>1 DEF GatewayCharges, MoneyTypeOK
    <2>2. MoneyTypeOK' /\ Calls'
      BY <1>0, <2>1 DEF MoneyTypeOK, LedgerTypeOK, Calls
    <2>3. LedgerOK(ledger)'
      BY <1>0, <2>1 DEF LedgerOK, LedgerTypeOK, NoOverdraftIn, RunningBalanceIn, PostedOnceIn, ConservedIn,
         RefundMatchesIn, Exists
    <2>4. \A w \in Withdrawals : WithdrawalOK(w)'
      BY <2>1, Elsewhere DEF MoneyOK, Untouched
    <2> QED
      BY <2>2, <2>3, <2>4 DEF MoneyOK
  <1>2. ASSUME NEW w \in Withdrawals, NEW from \in {"accepted", "paid"},
               NEW to \in {"paid", "failed"}, NEW event \in {"success", "failed"},
               GatewayTransfers(w, from, to, event)
        PROVE  MoneyOK'
    <2>1. /\ UNCHANGED <<ledger, unsettled, request, charge, withdrawal, task>>
          /\ transfer' \in [Withdrawals -> {"none", "accepted", "paid", "failed"}]
          /\ events' \in [Withdrawals -> SUBSET {"success", "failed"}]
          /\ \A v \in Withdrawals : v # w => transfer'[v] = transfer[v] /\ events'[v] = events[v]
      BY <1>0, <1>2 DEF GatewayTransfers, MoneyTypeOK
    <2>2. MoneyTypeOK' /\ Calls'
      BY SMTT(40), <1>0, <2>1 DEF MoneyTypeOK, LedgerTypeOK, Calls
    <2>3. LedgerOK(ledger)'
      BY <1>0, <2>1 DEF LedgerOK, LedgerTypeOK, NoOverdraftIn, RunningBalanceIn, PostedOnceIn, ConservedIn,
         RefundMatchesIn, Exists
    <2>4. ASSUME NEW v \in Withdrawals, v # w PROVE WithdrawalOK(v)'
      BY <2>1, <2>4, Elsewhere DEF MoneyOK, Untouched
    <2>5. WithdrawalOK(w)'
      <3>1. WithdrawalOK(w) /\ withdrawal[w] # "NONE"
        BY <1>2 DEF MoneyOK, WithdrawalOK, GatewayTransfers
      <3> QED
        BY <2>1, <3>1 DEF WithdrawalOK, Exists, Undone, TxStatus, On
    <2> QED
      BY <2>2, <2>3, <2>4, <2>5 DEF MoneyOK
  <1> QED
    BY <1>1, <1>2 DEF Gateway

LEMMA RestartOK ==
    ASSUME MoneyOK, Restart
    PROVE  MoneyOK'
  <1>0. LedgerOK(ledger) /\ MoneyTypeOK
    BY DEF MoneyOK
  <1>1. /\ UNCHANGED <<ledger, unsettled, request, charge, withdrawal, transfer, events>>
        /\ task' = [t \in Tasks |-> Idle]
    BY DEF Restart, OnlyTask, others
  <1>2. MoneyTypeOK' /\ Calls'
    BY <1>0, <1>1, IdleOK DEF MoneyTypeOK, LedgerTypeOK, Calls, CallOK
  <1>3. LedgerOK(ledger)'
    BY <1>0, <1>1 DEF LedgerOK, LedgerTypeOK, NoOverdraftIn, RunningBalanceIn, PostedOnceIn, ConservedIn,
       RefundMatchesIn, Exists
  <1>4. ASSUME NEW w \in Withdrawals PROVE WithdrawalOK(w)'
    <2>1. \A u \in Tasks : task'[u].x # w
      BY <1>1, IdleOK
    <2> QED
      BY <1>1, <2>1, Elsewhere DEF MoneyOK, Untouched
  <1> QED
    BY <1>2, <1>3, <1>4 DEF MoneyOK

LEMMA MoneyInitOK == MoneyInit => MoneyOK
  <1> SUFFICES ASSUME MoneyInit PROVE MoneyOK
    OBVIOUS
  <1>1. LedgerOK(ledger)
    BY InitOK DEF MoneyInit
  <1>2. MoneyTypeOK /\ Calls
    BY <1>1, IdleOK DEF MoneyInit, MoneyTypeOK, LedgerOK, Calls, CallOK
  <1>3. ASSUME NEW w \in Withdrawals PROVE WithdrawalOK(w)
    <2>1. \A u \in Tasks : task[u].x # w
      BY IdleOK DEF MoneyInit
    <2>2. withdrawal[w] = "NONE" /\ transfer[w] = "none" /\ events[w] = {}
      BY DEF MoneyInit
    <2> QED
      BY <2>1, <2>2 DEF WithdrawalOK, On
  <1> QED
    BY <1>1, <1>2, <1>3 DEF MoneyOK

LEMMA MoneyStepOK == MoneyOK /\ [MoneyNext]_moneyVars => MoneyOK'
  <1> SUFFICES ASSUME MoneyOK, [MoneyNext]_moneyVars PROVE MoneyOK'
    OBVIOUS
  <1>1. ASSUME NEW t \in Tasks, Request(t) PROVE MoneyOK'
    BY <1>1, AccrueOK, TopUpOK, ApplyOK, WithdrawOK DEF Request
  <1>2. ASSUME NEW t \in Tasks, Webhook(t) PROVE MoneyOK'
    BY <1>2, ApplyOK, PayoutOK DEF Webhook
  <1>3. ASSUME NEW t \in Tasks, Step(t) PROVE MoneyOK'
    BY <1>3, AccrueOK, SettleOK, TopUpOK, ApplyOK, WithdrawOK, PayoutOK DEF Step
  <1>4. ASSUME NEW t \in Tasks, Throw(t) PROVE MoneyOK'
    BY <1>4, RaiseOK DEF Throw
  <1>5. CASE UNCHANGED moneyVars
    <2>1. UNCHANGED <<ledger, unsettled, request, charge, withdrawal, transfer, events, task>>
      BY <1>5 DEF moneyVars
    <2>2. LedgerOK(ledger) /\ MoneyTypeOK /\ Calls
      BY DEF MoneyOK
    <2>3. MoneyTypeOK' /\ Calls'
      BY <2>1, <2>2 DEF MoneyTypeOK, LedgerTypeOK, Calls
    <2>4. LedgerOK(ledger)'
      BY <2>1, <2>2 DEF LedgerOK, LedgerTypeOK, NoOverdraftIn, RunningBalanceIn, PostedOnceIn, ConservedIn,
         RefundMatchesIn, Exists
    <2>5. \A w \in Withdrawals : WithdrawalOK(w)'
      BY <2>1, Elsewhere DEF MoneyOK, Untouched
    <2> QED
      BY <2>3, <2>4, <2>5 DEF MoneyOK
  <1> QED
    BY <1>1, <1>2, <1>3, <1>4, <1>5, GatewayOK, RestartOK DEF MoneyNext

\* The invariant holds of every behaviour, with faults or without.
THEOREM MoneyInvariant == MoneySpec => []MoneyOK
  BY MoneyInitOK, MoneyStepOK, PTL DEF MoneySpec

\* Rows, gateway records and calls have their types.
THEOREM MoneyTypeCorrect == MoneySpec => []MoneyTypeOK
  <1>1. MoneyOK => MoneyTypeOK
    BY DEF MoneyOK
  <1> QED
    BY <1>1, MoneyInvariant, PTL

\* Overlapping top-ups, settlements, withdrawals and refunds overdraw no
\* wallet and no debt.
THEOREM MoneyNeverOverdrawn == MoneySpec => []NoOverdraft
  <1>1. MoneyOK => NoOverdraft
    BY DEF MoneyOK, LedgerOK, NoOverdraft
  <1> QED
    BY <1>1, MoneyInvariant, PTL

\* A FAILED withdrawal was given back, debit and settlement, for any number
\* of withdrawals, webhooks, overlapping calls and restarts.
THEOREM FailuresAreRefunded == MoneySpec => []FailedIsRefunded
  <1>1. MoneyOK => FailedIsRefunded
    BY DEF MoneyOK, WithdrawalOK, FailedIsRefunded
  <1> QED
    BY <1>1, MoneyInvariant, PTL

-----------------------------------------------------------------------------
(* Top-ups: what a payment's transactions say of its charge, its request   *)
(* and the calls about it.  The predicates take the rows as arguments, so  *)
(* that a step is two sets of values.                                      *)

Own(p)   == {p, SettleRef(p), CreditRef(p)}
Rider(p) == OwnerOf[p] \notin Drivers
StartPCs == {"charge_card", "checkout"}
PaidPCs  == {"look", "debt", "credit", "topup", "complete"} \cup SettlePCs

\* Nothing is booked before the gateway has the money.
Paid(p, T, c, r) ==
    /\ \A ref \in Own(p) : T[ref] = NoTx \/ T[ref].status = "COMPLETED"
    /\ r = "COMPLETED" \/ (\E ref \in Own(p) : T[ref] # NoTx) => c = "success"

\* A rider has no debt: the payment is booked whole.
OfRider(p, T, r) ==
    Rider(p) =>
        /\ T[SettleRef(p)] = NoTx /\ T[CreditRef(p)] = NoTx
        /\ T[p] = NoTx \/ T[p].entries = TopUpEntries(OwnerOf[p], AmountOf[p])
        /\ r = "COMPLETED" => T[p] # NoTx

Stands(p, T, c, r, k) ==
    k.x = p =>
        /\ k.pc \in StartPCs => c = "none" /\ r # "NONE"
        /\ k.pc \in PaidPCs => c = "success"
        /\ Rider(p) => /\ k.pc \notin {"debt", "credit"} \cup SettlePCs
                       /\ k.pc = "complete" => T[p] # NoTx

Starts(p, k) == k.x = p /\ k.pc \in StartPCs

PaymentOK(p, T, c, r, K) ==
    /\ Paid(p, T, c, r)
    /\ OfRider(p, T, r)
    /\ \A t \in Tasks : Stands(p, T, c, r, K[t])
    /\ \A t, u \in Tasks : Starts(p, K[t]) /\ Starts(p, K[u]) => t = u

PaymentsOK == \A p \in Payments : PaymentOK(p, ledger.txs, charge[p], request[p], task)

LEMMA PaymentMoves ==
    ASSUME NEW p, NEW T, NEW T2, NEW c, NEW c2, NEW r, NEW r2, NEW K, NEW K2,
           PaymentOK(p, T, c, r, K), Paid(p, T2, c2, r2), OfRider(p, T2, r2),
           c = "success" => c2 = "success",
           r # "NONE" => r2 # "NONE",
           T[p] # NoTx => T2[p] # NoTx,
           \A t \in Tasks : K2[t] = K[t] \/ (Stands(p, T2, c2, r2, K2[t]) /\ ~ Starts(p, K2[t])),
           c = "none" => c2 = "none" \/ \A t \in Tasks : ~ Starts(p, K2[t])
    PROVE  PaymentOK(p, T2, c2, r2, K2)
  <1>1. ASSUME NEW t \in Tasks PROVE Stands(p, T2, c2, r2, K2[t])
    <2>1. CASE K2[t] = K[t]
      BY <2>1 DEF PaymentOK, Stands, Starts
    <2> QED
      BY <2>1
  <1>2. ASSUME NEW t \in Tasks, NEW u \in Tasks, Starts(p, K2[t]), Starts(p, K2[u])
        PROVE  t = u
    <2>1. K2[t] = K[t] /\ K2[u] = K[u]
      BY <1>2
    <2> QED
      BY <1>2, <2>1 DEF PaymentOK
  <1> QED
    BY <1>1, <1>2 DEF PaymentOK

\* A step that leaves the money of a payment alone, and at most begins to
\* look at it or gives up.
RestingPCs == {"idle", "late_row", "mark_failed", "verify"}

LEMMA PaymentRests ==
    ASSUME NEW p, NEW T, NEW T2, NEW c, NEW r, NEW r2, NEW K, NEW K2,
           PaymentOK(p, T, c, r, K),
           \A ref \in Own(p) : T2[ref] = T[ref],
           r2 \in {r, "PENDING", "FAILED"},
           \A t \in Tasks : K2[t] = K[t] \/ K2[t].x # p \/ K2[t].pc \in RestingPCs
    PROVE  PaymentOK(p, T2, c, r2, K2)
  <1>1. p \in Own(p) /\ SettleRef(p) \in Own(p) /\ CreditRef(p) \in Own(p)
    BY DEF Own
  <1>2. Paid(p, T2, c, r2) /\ OfRider(p, T2, r2) /\ T2[p] = T[p]
    BY <1>1 DEF PaymentOK, Paid, OfRider
  <1>3. ASSUME NEW t \in Tasks
        PROVE  K2[t] = K[t] \/ (Stands(p, T2, c, r2, K2[t]) /\ ~ Starts(p, K2[t]))
    <2>1. CASE K2[t].x # p
      BY <2>1 DEF Stands, Starts
    <2>2. CASE K2[t].pc \in RestingPCs
      BY <2>2 DEF Stands, Starts, RestingPCs, StartPCs, PaidPCs, SettlePCs
    <2> QED
      BY <2>1, <2>2
  <1>4. r # "NONE" => r2 # "NONE"
    OBVIOUS
  <1> QED
    BY <1>2, <1>3, <1>4, PaymentMoves

-----------------------------------------------------------------------------
(* What a step does to the payments it is not about.                       *)

LEMMA PostThenTxs ==
    ASSUME LedgerOK(ledger), NEW t, NEW ref \in BaseRefs, NEW e, NEW pc,
           PostThen(t, ref, e, pc)
    PROVE  /\ \A r \in BaseRefs \ {ref} : ledger'.txs[r] = ledger.txs[r]
           /\ UNCHANGED others
           /\ \/ Goto(t, pc) /\ Exists(ledger, ref) /\ ledger'.txs[ref] = ledger.txs[ref]
              \/ /\ Goto(t, pc) /\ ~ Exists(ledger, ref)
                 /\ ledger'.txs[ref] = [status |-> "COMPLETED", entries |-> e]
              \/ /\ Raise(t) /\ ~ Exists(ledger, ref) /\ ~ CanPost(ledger, ref, e)
                 /\ ledger'.txs[ref] = ledger.txs[ref]
  <1>1. LedgerTypeOK(ledger) /\ ref \in Refs /\ \A r \in BaseRefs : r \in Refs
    BY RefFacts DEF LedgerOK
  <1>2. CASE CanPost(ledger, ref, e) /\ ledger' = Posted(ledger, ref, e) /\ Goto(t, pc)
    <2>1. ~ Exists(ledger, ref)
      BY <1>2 DEF CanPost
    <2>2. /\ \A r \in BaseRefs \ {ref} : ledger'.txs[r] = ledger.txs[r]
          /\ ledger'.txs[ref] = [status |-> "COMPLETED", entries |-> e]
      BY <1>1, <1>2 DEF Posted, LedgerTypeOK
    <2> QED
      BY <1>2, <2>1, <2>2 DEF PostThen
  <1>3. CASE \/ Exists(ledger, ref) /\ UNCHANGED ledger /\ Goto(t, pc)
             \/ ~ Exists(ledger, ref) /\ ~ CanPost(ledger, ref, e) /\ UNCHANGED ledger /\ Raise(t)
    BY <1>3 DEF PostThen
  <1> QED
    BY <1>2, <1>3 DEF PostThen

\* A transaction that does not exist is the empty one.
LEMMA NoTxIffNew ==
    ASSUME NEW L, LedgerTypeOK(L), NEW p \in Payments, NEW c, NEW r, Paid(p, L.txs, c, r),
           NEW ref \in Own(p)
    PROVE  Exists(L, ref) <=> L.txs[ref] # NoTx
  BY DEF Exists, Paid, NoTx

LEMMA OwnFacts ==
    ASSUME NEW p \in Payments
    PROVE  /\ Own(p) \subseteq BaseRefs
           /\ p # SettleRef(p) /\ p # CreditRef(p) /\ SettleRef(p) # CreditRef(p)
           /\ \A x \in Things : x # p => Own(p) \cap {x, SettleRef(x), CreditRef(x)} = {}
  <1>1. p \in Things
    BY KindFacts
  <1>2. ASSUME NEW x \in Things, x # p
        PROVE  Own(p) \cap {x, SettleRef(x), CreditRef(x)} = {}
    <2>1. x \notin {SettleRef(p), CreditRef(p)} /\ p \notin {SettleRef(x), CreditRef(x)}
      BY <1>1, ThingFacts
    <2>2. SettleRef(p) # SettleRef(x) /\ CreditRef(p) # CreditRef(x)
      BY <1>2 DEF SettleRef, CreditRef
    <2>3. SettleRef(p) # CreditRef(x) /\ CreditRef(p) # SettleRef(x)
      BY DEF SettleRef, CreditRef
    <2> QED
      BY <1>2, <2>1, <2>2, <2>3 DEF Own
  <1> QED
    BY <1>1, <1>2, ThingFacts DEF Own

\* What Raise, Return and Goto make of a call.
LEMMA CallGoes ==
    ASSUME MoneyOK, NEW t \in Tasks
    PROVE  /\ Return(t) => \E k : task' = [task EXCEPT ![t] = k] /\ k = Idle
           /\ \A pc : Goto(t, pc) =>
                 \E k : task' = [task EXCEPT ![t] = k] /\ k = [task[t] EXCEPT !.pc = pc]
                        /\ k.x = task[t].x /\ k.pc = pc
           /\ Raise(t) =>
                 \E k : task' = [task EXCEPT ![t] = k] /\ k.x \in {Null, task[t].x}
                        /\ k.pc \in {"idle", "mark_failed"}
  <1>1. task[t] \in TaskRecords
    BY AtFacts
  <1>2. ASSUME NEW pc, Goto(t, pc)
        PROVE  \E k : task' = [task EXCEPT ![t] = k] /\ k = [task[t] EXCEPT !.pc = pc]
                      /\ k.x = task[t].x /\ k.pc = pc
    <2>1. PICK k : k = [task[t] EXCEPT !.pc = pc]
      OBVIOUS
    <2>2. k.x = task[t].x /\ k.pc = pc
      BY <1>1, <2>1 DEF TaskRecords
    <2> QED
      BY <1>2, <2>1, <2>2 DEF Goto
  <1>3. Return(t) => \E k : task' = [task EXCEPT ![t] = k] /\ k = Idle
    BY DEF Return
  <1>4. Idle.x = Null /\ Idle.pc = "idle"
    BY DEF Idle
  <1>5. ASSUME Raise(t)
        PROVE  \E k : task' = [task EXCEPT ![t] = k] /\ k.x \in {Null, task[t].x}
                      /\ k.pc \in {"idle", "mark_failed"}
    <2>1. CASE Return(t)
      BY <1>3, <1>4, <2>1
    <2>2. CASE Goto(t, "mark_failed")
      BY <1>2, <2>2
    <2> QED
      BY <1>5, <2>1, <2>2 DEF Raise
  <1> QED
    BY <1>2, <1>3, <1>5

\* A step of a call touches the rows and the references of what the call is
\* about, and no other payment's.
Spares(x) ==
    \A p \in Payments \ {x} :
        /\ charge'[p] = charge[p] /\ request'[p] = request[p]
        /\ \A ref \in Own(p) : ledger'.txs[ref] = ledger.txs[ref]

LEMMA StepElsewhere ==
    ASSUME MoneyOK, NEW t \in Tasks, Step(t) \/ Throw(t)
    PROVE  /\ \E k : task' = [task EXCEPT ![t] = k] /\ k.x \in {Null, task[t].x}
           /\ Spares(task[t].x)
  <1> DEFINE x == task[t].x
  <1>0. /\ LedgerOK(ledger)
        /\ request \in [Payments -> {"NONE", "PENDING", "COMPLETED", "FAILED"}]
        /\ charge \in [Payments -> {"none", "open", "success", "failed"}]
        /\ task \in [Tasks -> TaskRecords]
        /\ task[t].pc # "idle" => x \in Things
    BY AtFacts DEF MoneyOK, MoneyTypeOK
  <1>1. /\ Return(t) => \E k : task' = [task EXCEPT ![t] = k] /\ k.x \in {Null, x}
        /\ \A pc : Goto(t, pc) => \E k : task' = [task EXCEPT ![t] = k] /\ k.x \in {Null, x}
        /\ Raise(t) => \E k : task' = [task EXCEPT ![t] = k] /\ k.x \in {Null, x}
    BY CallGoes, IdleOK DEF Idle
  <1>2. OnlyTask => Spares(x)
    BY DEF OnlyTask, others, Spares
  <1>3. UNCHANGED <<ledger, request, charge>> => Spares(x)
    BY DEF Spares
  <1>4. ASSUME UNCHANGED ledger, task[t].pc # "idle",
               UNCHANGED charge \/ \E c : charge' = [charge EXCEPT ![x] = c],
               UNCHANGED request \/ \E r : request' = [request EXCEPT ![x] = r]
        PROVE  Spares(x)
    BY <1>0, <1>4 DEF Spares
  <1>5. ASSUME NEW ref \in {x, SettleRef(x), CreditRef(x)}, x \in Things,
               \A r \in BaseRefs \ {ref} : ledger'.txs[r] = ledger.txs[r],
               UNCHANGED others
        PROVE  Spares(x)
    <2>1. ASSUME NEW p \in Payments \ {x}, NEW r \in Own(p) PROVE r \in BaseRefs \ {ref}
      BY <1>5, OwnFacts
    <2> QED
      BY <1>5, <2>1 DEF Spares, others
  <1>6. ASSUME NEW ref \in {x, SettleRef(x), CreditRef(x)}, x \in Things, NEW e, NEW pc,
               PostThen(t, ref, e, pc)
        PROVE  /\ \E k : task' = [task EXCEPT ![t] = k] /\ k.x \in {Null, x}
               /\ Spares(x)
    <2>1. ref \in BaseRefs
      BY <1>6, ThingFacts
    <2>2. /\ \A r \in BaseRefs \ {ref} : ledger'.txs[r] = ledger.txs[r]
          /\ UNCHANGED others
          /\ Goto(t, pc) \/ Raise(t)
      BY <1>0, <1>6, <2>1, PostThenTxs
    <2> QED
      BY <1>1, <1>5, <1>6, <2>2
  <1>7. ASSUME NEW ref \in {x, SettleRef(x), CreditRef(x)}, x \in Things, NEW pc,
               RefundThen(t, ref, pc)
        PROVE  /\ \E k : task' = [task EXCEPT ![t] = k] /\ k.x \in {Null, x}
               /\ Spares(x)
    <2>1. ref \in BaseRefs
      BY <1>7, ThingFacts
    <2>2. Keeps(ref) /\ UNCHANGED others /\ (Goto(t, pc) \/ Return(t))
      BY <1>0, <1>7, <2>1, RefundThenEffect
    <2> QED
      BY <1>1, <1>5, <1>7, <2>2 DEF Keeps
  <1>8. CASE AccruePost(t) \/ AccrueCount(t) \/ Returned(t)
    <2>1. task[t].pc # "idle"
      BY <1>8 DEF AccruePost, AccrueCount, Returned, At
    <2>2. CASE AccruePost(t)
      BY <1>0, <1>6, <2>1, <2>2 DEF AccruePost
    <2>3. CASE AccrueCount(t) \/ Returned(t)
      BY <1>1, <1>2, <1>3, <2>3 DEF AccrueCount, Returned
    <2> QED
      BY <1>8, <2>2, <2>3
  <1>9. CASE SettleLook(t) \/ SettlePost(t) \/ SettleRead(t) \/ SettleReset(t)
    <2>1. task[t].pc # "idle"
      BY <1>9 DEF SettleLook, SettlePost, SettleRead, SettleReset, At
    <2>2. CASE SettleLook(t)
      <3>1. PICK k : k = [task[t] EXCEPT !.fresh = ~ Exists(ledger, SettleRef(task[t].x)),
                                         !.pc = "settle_post"]
        OBVIOUS
      <3>2. k.x = x
        BY <1>0, <3>1 DEF TaskRecords
      <3>3. task' = [task EXCEPT ![t] = k]
        BY <1>0, <2>2, <3>1 DEF SettleLook
      <3> QED
        BY <1>2, <2>2, <3>2, <3>3 DEF SettleLook
    <2>3. CASE SettlePost(t)
      BY <1>0, <1>6, <2>1, <2>3 DEF SettlePost
    <2>4. CASE SettleRead(t) \/ SettleReset(t)
      BY <1>1, <1>2, <1>3, <2>4 DEF SettleRead, SettleReset
    <2> QED
      BY <1>9, <2>2, <2>3, <2>4
  <1>10. CASE TopUpLateRow(t) \/ TopUpCheckout(t) \/ ChargeCard(t) \/ MarkFailed(t) \/ CompleteTopUp(t)
    <2>1. task[t].pc # "idle"
      BY <1>10 DEF TopUpLateRow, TopUpCheckout, ChargeCard, MarkFailed, CompleteTopUp, At
    <2>2. Spares(x)
      BY <1>4, <1>10, <2>1 DEF TopUpLateRow, TopUpCheckout, ChargeCard, MarkFailed, CompleteTopUp,
         FailPending
    <2> QED
      BY <1>1, <1>10, <2>2 DEF TopUpLateRow, TopUpCheckout, ChargeCard, MarkFailed, CompleteTopUp
  <1>11. CASE Verify(t) \/ LookCredited(t)
    <2>1. task[t].pc # "idle"
      BY <1>11 DEF Verify, LookCredited, At
    <2>2. Spares(x)
      BY <1>2, <1>4, <1>11, <2>1 DEF Verify, LookCredited, FailPending
    <2> QED
      BY <1>1, <1>11, <2>2 DEF Verify, LookCredited
  <1>12. CASE ReadDebt(t)
    <2>1. PICK k : k = IF Debt(x) > 0
                       THEN [task[t] EXCEPT !.settle = Lesser(Debt(x), AmountOf[x]),
                                            !.next = "credit", !.pc = "settle_look"]
                       ELSE [task[t] EXCEPT !.pc = "topup"]
      OBVIOUS
    <2>2. k.x = x
      BY <1>0, <2>1 DEF TaskRecords
    <2>3. task' = [task EXCEPT ![t] = k]
      BY <1>0, <1>12, <2>1 DEF ReadDebt
    <2> QED
      BY <1>2, <1>12, <2>2, <2>3 DEF ReadDebt
  <1>13. CASE CreditRest(t) \/ CreditAll(t)
    <2>1. task[t].pc # "idle"
      BY <1>13 DEF CreditRest, CreditAll, At
    <2>2. CASE CreditAll(t)
      BY <1>0, <1>6, <2>1, <2>2 DEF CreditAll
    <2>3. CASE CreditRest(t)
      BY <1>0, <1>1, <1>2, <1>6, <2>1, <2>3 DEF CreditRest
    <2> QED
      BY <1>13, <2>2, <2>3
  <1>14. CASE WithdrawDebit(t) \/ WithdrawDeduct(t) \/ WithdrawRow(t) \/ WithdrawSend(t)
    <2>1. task[t].pc # "idle"
      BY <1>14 DEF WithdrawDebit, WithdrawDeduct, WithdrawRow, WithdrawSend, At
    <2>2. CASE WithdrawDebit(t)
      BY <1>0, <1>6, <2>1, <2>2 DEF WithdrawDebit
    <2>3. CASE WithdrawDeduct(t)
      <3>1. PICK k : k = [task[t] EXCEPT !.pc = IF task[t].settle > 0 THEN "settle_look" ELSE "row",
                                         !.next = "row"]
        OBVIOUS
      <3>2. k.x = x
        BY <1>0, <3>1 DEF TaskRecords
      <3>3. task' = [task EXCEPT ![t] = k]
        BY <1>0, <2>3, <3>1 DEF WithdrawDeduct
      <3> QED
        BY <1>2, <2>3, <3>2, <3>3 DEF WithdrawDeduct
    <2>4. CASE WithdrawRow(t) \/ WithdrawSend(t)
      BY <1>1, <1>3, <2>4 DEF WithdrawRow, WithdrawSend
    <2> QED
      BY <1>14, <2>2, <2>3, <2>4
  <1>15. CASE RefundWithdrawal(t) \/ RefundSettlement(t) \/ WithdrawFailed(t) \/ WithdrawPaid(t)
    <2>1. task[t].pc # "idle"
      BY <1>15 DEF RefundWithdrawal, RefundSettlement, WithdrawFailed, WithdrawPaid, At
    <2>2. CASE RefundWithdrawal(t) \/ RefundSettlement(t)
      BY <1>0, <1>7, <2>1, <2>2 DEF RefundWithdrawal, RefundSettlement
    <2>3. CASE WithdrawFailed(t) \/ WithdrawPaid(t)
      BY <1>1, <1>3, <2>3 DEF WithdrawFailed, WithdrawPaid
    <2> QED
      BY <1>15, <2>2, <2>3
  <1>16. CASE Throw(t)
    BY <1>1, <1>2, <1>16 DEF Throw
  <1> QED
    BY <1>8, <1>9, <1>10, <1>11, <1>12, <1>13, <1>14, <1>15, <1>16 DEF Step

-----------------------------------------------------------------------------
(* What a step does to the payment it is about.                            *)

LEMMA PaymentReads ==
    ASSUME NEW p, NEW T, NEW c, NEW r, NEW K, NEW K2, PaymentOK(p, T, c, r, K),
           \A t \in Tasks : K2[t] = K[t] \/ (Stands(p, T, c, r, K2[t]) /\ ~ Starts(p, K2[t]))
    PROVE  PaymentOK(p, T, c, r, K2)
  <1>1. Paid(p, T, c, r) /\ OfRider(p, T, r)
    BY DEF PaymentOK
  <1>2. /\ c = "success" => c = "success"
        /\ r # "NONE" => r # "NONE"
        /\ T[p] # NoTx => T[p] # NoTx
        /\ c = "none" => c = "none"
    OBVIOUS
  <1> QED
    BY <1>1, <1>2, PaymentMoves

LEMMA PaymentPosts ==
    ASSUME NEW p \in Payments, NEW T, NEW T2, NEW r, NEW K, NEW K2,
           PaymentOK(p, T, "success", r, K),
           NEW ref \in Own(p), NEW e,
           \A o \in Own(p) \ {ref} : T2[o] = T[o],
           \/ T2[ref] = T[ref]
           \/ T2[ref] = [status |-> "COMPLETED", entries |-> e],
           Rider(p) => ref = p /\ e = TopUpEntries(OwnerOf[p], AmountOf[p]),
           \A t \in Tasks : \/ K2[t] = K[t]
                            \/ Stands(p, T2, "success", r, K2[t]) /\ ~ Starts(p, K2[t])
    PROVE  PaymentOK(p, T2, "success", r, K2)
  <1>1. /\ p \in Own(p) /\ SettleRef(p) \in Own(p) /\ CreditRef(p) \in Own(p)
        /\ p # SettleRef(p) /\ p # CreditRef(p)
    BY OwnFacts DEF Own
  <1>2. [status |-> "COMPLETED", entries |-> e] # NoTx
    BY DEF NoTx
  <1>3. Paid(p, T2, "success", r)
    BY DEF PaymentOK, Paid
  <1>4. T[p] # NoTx => T2[p] # NoTx
    BY <1>1, <1>2
  <1>5. OfRider(p, T2, r)
    BY <1>1, <1>2 DEF PaymentOK, OfRider
  <1> QED
    BY <1>3, <1>4, <1>5, PaymentMoves

\* The calls that give up, end, or only change the request.
LEMMA PaymentGivesUp ==
    ASSUME MoneyOK, PaymentsOK, NEW t \in Tasks, NEW p \in Payments,
           UNCHANGED <<ledger, charge>>,
           request'[p] \in {request[p], "PENDING", "FAILED"},
           NEW k, task' = [task EXCEPT ![t] = k],
           k.x # p \/ k.pc \in RestingPCs
    PROVE  PaymentOK(p, ledger'.txs, charge'[p], request'[p], task')
  <1>1. task \in [Tasks -> TaskRecords]
    BY AtFacts
  <1>2. PaymentOK(p, ledger.txs, charge[p], request[p], task)
    BY DEF PaymentsOK
  <1>3. PICK K, r : K = task' /\ r = request'[p]
    OBVIOUS
  <1>4. \A u \in Tasks : K[u] = task[u] \/ K[u].x # p \/ K[u].pc \in RestingPCs
    BY <1>1, <1>3
  <1>5. \A ref \in Own(p) : ledger.txs[ref] = ledger.txs[ref]
    OBVIOUS
  <1>6. r \in {request[p], "PENDING", "FAILED"}
    BY <1>3
  <1>7. PaymentOK(p, ledger.txs, charge[p], r, K)
    BY <1>2, <1>4, <1>5, <1>6, PaymentRests
  <1> QED
    BY <1>3, <1>7

LEMMA PaymentLooks ==
    ASSUME MoneyOK, PaymentsOK, NEW t \in Tasks, NEW p \in Payments,
           UNCHANGED <<ledger, charge, request>>,
           NEW k, task' = [task EXCEPT ![t] = k],
           Stands(p, ledger.txs, charge[p], request[p], k), ~ Starts(p, k)
    PROVE  PaymentOK(p, ledger'.txs, charge'[p], request'[p], task')
  <1>1. task \in [Tasks -> TaskRecords]
    BY AtFacts
  <1>2. PaymentOK(p, ledger.txs, charge[p], request[p], task)
    BY DEF PaymentsOK
  <1>3. PICK K : K = task'
    OBVIOUS
  <1>4. \A u \in Tasks : \/ K[u] = task[u]
                         \/ Stands(p, ledger.txs, charge[p], request[p], K[u]) /\ ~ Starts(p, K[u])
    BY <1>1, <1>3
  <1>5. PaymentOK(p, ledger.txs, charge[p], request[p], K)
    BY <1>2, <1>4, PaymentReads
  <1> QED
    BY <1>3, <1>5

\* The charge: it succeeds at most once, and nothing is booked before.
LEMMA PaymentCharges ==
    ASSUME MoneyOK, PaymentsOK, NEW t \in Tasks, NEW p \in Payments, Starts(p, task[t]),
           UNCHANGED <<ledger, request>>,
           NEW c, charge'[p] = c,
           NEW k, task' = [task EXCEPT ![t] = k], k.x # p \/ k.pc \in RestingPCs
    PROVE  PaymentOK(p, ledger'.txs, charge'[p], request'[p], task')
  <1>1. task \in [Tasks -> TaskRecords] /\ p \in Own(p)
    BY AtFacts DEF Own
  <1>2. /\ PaymentOK(p, ledger.txs, charge[p], request[p], task)
        /\ charge[p] = "none"
    BY DEF PaymentsOK, PaymentOK, Stands, Starts
  <1>3. PICK K : K = task'
    OBVIOUS
  <1>4. /\ Paid(p, ledger.txs, c, request[p]) /\ OfRider(p, ledger.txs, request[p])
    BY <1>2 DEF PaymentOK, Paid
  <1>5. ~ Starts(p, k) /\ Stands(p, ledger.txs, c, request[p], k)
    <2>1. CASE k.x # p
      BY <2>1 DEF Starts, Stands
    <2>2. CASE k.pc \in RestingPCs
      BY <2>2 DEF Stands, Starts, RestingPCs, StartPCs, PaidPCs, SettlePCs
    <2> QED
      BY <2>1, <2>2
  <1>6. ASSUME NEW u \in Tasks
        PROVE  /\ K[u] = task[u] \/ (Stands(p, ledger.txs, c, request[p], K[u]) /\ ~ Starts(p, K[u]))
               /\ ~ Starts(p, K[u])
    <2>1. CASE u = t
      BY <1>1, <1>3, <1>5, <2>1
    <2>2. CASE u # t
      BY <1>1, <1>2, <1>3, <2>2 DEF PaymentOK
    <2> QED
      BY <2>1, <2>2
  <1>7. PaymentOK(p, ledger.txs, c, request[p], K)
    <2>1. charge[p] = "success" => c = "success"
      BY <1>2
    <2> QED
      BY <1>2, <1>4, <1>6, <2>1, PaymentMoves
  <1> QED
    BY <1>3, <1>7

\* The top-up calls that post nothing.
LEMMA TopUpKeeps ==
    ASSUME MoneyOK, PaymentsOK, NEW t \in Tasks, NEW p \in Payments, p = task[t].x,
           \/ TopUpLateRow(t) \/ TopUpCheckout(t) \/ ChargeCard(t) \/ MarkFailed(t)
           \/ Verify(t) \/ Throw(t)
    PROVE  PaymentOK(p, ledger'.txs, charge'[p], request'[p], task')
  <1>0. /\ charge \in [Payments -> {"none", "open", "success", "failed"}]
        /\ request \in [Payments -> {"NONE", "PENDING", "COMPLETED", "FAILED"}]
        /\ task \in [Tasks -> TaskRecords]
        /\ Idle.pc = "idle"
        /\ PaymentOK(p, ledger.txs, charge[p], request[p], task)
    BY AtFacts DEF MoneyOK, MoneyTypeOK, Idle, PaymentsOK
  <1>1. ASSUME Return(t) PROVE \E k : task' = [task EXCEPT ![t] = k] /\ k.pc \in RestingPCs
    BY <1>0, <1>1 DEF Return, RestingPCs
  <1>2. ASSUME NEW pc, Goto(t, pc)
        PROVE  \E k : task' = [task EXCEPT ![t] = k] /\ k.x = p /\ k.pc = pc
    BY <1>2, CallGoes
  <1>3. CASE TopUpLateRow(t)
    <2>1. UNCHANGED <<ledger, charge>> /\ request'[p] \in {request[p], "PENDING", "FAILED"}
      BY <1>0, <1>3 DEF TopUpLateRow
    <2> QED
      BY <1>1, <1>3, <2>1, PaymentGivesUp DEF TopUpLateRow
  <1>4. CASE MarkFailed(t)
    <2>1. UNCHANGED <<ledger, charge>> /\ request'[p] \in {request[p], "PENDING", "FAILED"}
      BY <1>0, <1>4 DEF MarkFailed, FailPending
    <2> QED
      BY <1>1, <1>4, <2>1, PaymentGivesUp DEF MarkFailed
  <1>5. CASE Throw(t)
    <2>1. UNCHANGED <<ledger, charge>> /\ request'[p] \in {request[p], "PENDING", "FAILED"}
      BY <1>5 DEF Throw, OnlyTask, others
    <2>2. PICK k : task' = [task EXCEPT ![t] = k] /\ k.pc \in RestingPCs
      BY <1>5, CallGoes DEF Throw, RestingPCs
    <2> QED
      BY <2>1, <2>2, PaymentGivesUp
  <1>6. CASE Verify(t)
    <2>1. CASE charge[p] = "success" /\ Goto(t, "look") /\ OnlyTask
      <3>1. PICK k : task' = [task EXCEPT ![t] = k] /\ k.x = p /\ k.pc = "look"
        BY <1>2, <2>1
      <3>2. UNCHANGED <<ledger, charge, request>>
        BY <2>1 DEF OnlyTask, others
      <3>3. Stands(p, ledger.txs, charge[p], request[p], k) /\ ~ Starts(p, k)
        BY <2>1, <3>1 DEF Stands, Starts, StartPCs, PaidPCs, SettlePCs
      <3> QED
        BY <3>1, <3>2, <3>3, PaymentLooks
    <2>2. CASE Return(t) /\ (FailPending(p) \/ OnlyTask)
      <3>1. UNCHANGED <<ledger, charge>> /\ request'[p] \in {request[p], "PENDING", "FAILED"}
        BY <1>0, <2>2 DEF FailPending, OnlyTask, others
      <3> QED
        BY <1>1, <2>2, <3>1, PaymentGivesUp
    <2> QED
      BY <1>6, <2>1, <2>2 DEF Verify
  <1>7. CASE TopUpCheckout(t)
    <2>1. Starts(p, task[t]) /\ UNCHANGED <<ledger, request>>
      BY <1>7 DEF TopUpCheckout, At, Starts, StartPCs
    <2>2. PICK c : charge'[p] = c
      OBVIOUS
    <2>3. PICK k : task' = [task EXCEPT ![t] = k] /\ k.pc \in RestingPCs
      BY <1>1, <1>7 DEF TopUpCheckout
    <2> QED
      BY <2>1, <2>2, <2>3, PaymentCharges
  <1>8. CASE ChargeCard(t)
    <2>1. Starts(p, task[t]) /\ UNCHANGED <<ledger, request>>
      BY <1>8 DEF ChargeCard, At, Starts, StartPCs
    <2>2. PICK c : charge'[p] = c
      OBVIOUS
    <2>3. PICK k : task' = [task EXCEPT ![t] = k] /\ k.pc \in RestingPCs
      <3>1. Return(t) \/ Goto(t, "verify") \/ Goto(t, "mark_failed")
        BY <1>8 DEF ChargeCard
      <3> QED
        BY <1>1, <1>2, <3>1 DEF RestingPCs
    <2> QED
      BY <2>1, <2>2, <2>3, PaymentCharges
  <1> QED
    BY <1>3, <1>4, <1>5, <1>6, <1>7, <1>8

\* The calls that are sure of the charge and look at the ledger.
LEMMA TopUpLooks ==
    ASSUME MoneyOK, PaymentsOK, NEW t \in Tasks, NEW p \in Payments, p = task[t].x,
           LookCredited(t) \/ ReadDebt(t) \/ SettleLook(t) \/ SettleRead(t) \/ SettleReset(t)
    PROVE  PaymentOK(p, ledger'.txs, charge'[p], request'[p], task')
  <1>0. /\ task[t] \in TaskRecords /\ CallOK(task[t]) /\ LedgerTypeOK(ledger)
        /\ PaymentOK(p, ledger.txs, charge[p], request[p], task)
        /\ Stands(p, ledger.txs, charge[p], request[p], task[t])
    BY AtFacts DEF MoneyOK, MoneyTypeOK, PaymentsOK, PaymentOK
  <1>1. UNCHANGED <<ledger, charge, request>>
    BY DEF LookCredited, ReadDebt, SettleLook, SettleRead, SettleReset, OnlyTask, others
  <1>2. task[t].pc \in PaidPCs /\ (task[t].pc \in SettlePCs => task[t].next = "credit")
    BY <1>0, KindFacts DEF LookCredited, ReadDebt, SettleLook, SettleRead, SettleReset, At, PaidPCs,
       SettlePCs, CallOK
  <1>3. charge[p] = "success" /\ (Rider(p) => task[t].pc \notin {"debt", "credit"} \cup SettlePCs)
    BY <1>0, <1>2 DEF Stands
  <1>4. ASSUME NEW k, task' = [task EXCEPT ![t] = k], k.pc \in PaidPCs,
               Rider(p) => /\ k.pc \notin {"debt", "credit"} \cup SettlePCs
                           /\ k.pc = "complete" => ledger.txs[p] # NoTx
        PROVE  PaymentOK(p, ledger'.txs, charge'[p], request'[p], task')
    <2>1. Stands(p, ledger.txs, charge[p], request[p], k) /\ ~ Starts(p, k)
      BY <1>3, <1>4 DEF Stands, Starts, StartPCs, PaidPCs, SettlePCs
    <2> QED
      BY <1>1, <1>4, <2>1, PaymentLooks
  <1>5. CASE LookCredited(t)
    <2>1. ASSUME Rider(p), AlreadyCredited(p) PROVE ledger.txs[p] # NoTx
      <3>1. /\ p \in Own(p) /\ SettleRef(p) \in Own(p) /\ CreditRef(p) \in Own(p)
            /\ Paid(p, ledger.txs, charge[p], request[p])
        BY <1>0 DEF Own, PaymentOK
      <3>2. PICK ref \in Own(p) : ledger.txs[ref] # NoTx
        BY <1>0, <2>1, <3>1, NoTxIffNew DEF AlreadyCredited, Own
      <3> QED
        BY <1>0, <2>1, <3>2 DEF PaymentOK, OfRider, Own
    <2>2. PICK pc : /\ Goto(t, pc) /\ pc \in {"complete", "debt", "topup"}
                    /\ pc = "complete" => AlreadyCredited(p)
                    /\ pc = "debt" => ~ Rider(p)
      BY <1>5 DEF LookCredited, Rider
    <2>3. PICK k : task' = [task EXCEPT ![t] = k] /\ k.x = p /\ k.pc = pc
      BY <2>2, CallGoes
    <2> QED
      BY <1>4, <2>1, <2>2, <2>3 DEF PaidPCs, SettlePCs
  <1>6. CASE ReadDebt(t)
    <2>1. PICK k : k = IF Debt(p) > 0
                       THEN [task[t] EXCEPT !.settle = Lesser(Debt(p), AmountOf[p]),
                                            !.next = "credit", !.pc = "settle_look"]
                       ELSE [task[t] EXCEPT !.pc = "topup"]
      OBVIOUS
    <2>2. k.pc \in {"settle_look", "topup"}
      BY <1>0, <2>1 DEF TaskRecords
    <2>3. task' = [task EXCEPT ![t] = k]
      BY <1>6, <2>1 DEF ReadDebt
    <2>4. ~ Rider(p)
      BY <1>3, <1>6 DEF ReadDebt, At
    <2> QED
      BY <1>4, <2>2, <2>3, <2>4 DEF PaidPCs, SettlePCs
  <1>7. CASE SettleLook(t)
    <2>1. PICK k : k = [task[t] EXCEPT !.fresh = ~ Exists(ledger, SettleRef(task[t].x)),
                                       !.pc = "settle_post"]
      OBVIOUS
    <2>2. k.pc = "settle_post"
      BY <1>0, <2>1 DEF TaskRecords
    <2>3. task' = [task EXCEPT ![t] = k]
      BY <1>7, <2>1 DEF SettleLook
    <2>4. ~ Rider(p)
      BY <1>3, <1>7 DEF SettleLook, At, SettlePCs
    <2> QED
      BY <1>4, <2>2, <2>3, <2>4 DEF PaidPCs, SettlePCs
  <1>8. CASE SettleRead(t) \/ SettleReset(t)
    <2>1. PICK pc \in {"settle_reset", "credit"} : Goto(t, pc)
      BY <1>2, <1>8 DEF SettleRead, SettleReset, At, SettlePCs
    <2>2. PICK k : task' = [task EXCEPT ![t] = k] /\ k.x = p /\ k.pc = pc
      BY <2>1, CallGoes
    <2>3. ~ Rider(p)
      BY <1>3, <1>8 DEF SettleRead, SettleReset, At, SettlePCs
    <2> QED
      BY <1>4, <2>2, <2>3 DEF PaidPCs, SettlePCs
  <1> QED
    BY <1>5, <1>6, <1>7, <1>8

\* The calls that post, and the one that completes the request.
LEMMA TopUpPosts ==
    ASSUME MoneyOK, PaymentsOK, NEW t \in Tasks, NEW p \in Payments, p = task[t].x,
           SettlePost(t) \/ CreditRest(t) \/ CreditAll(t)
    PROVE  PaymentOK(p, ledger'.txs, charge'[p], request'[p], task')
  <1>0. /\ task \in [Tasks -> TaskRecords] /\ CallOK(task[t]) /\ LedgerOK(ledger)
        /\ PaymentOK(p, ledger.txs, charge[p], request[p], task)
        /\ Stands(p, ledger.txs, charge[p], request[p], task[t])
        /\ p \in Things
    BY AtFacts, KindFacts DEF MoneyOK, MoneyTypeOK, PaymentsOK, PaymentOK
  <1>1. task[t].pc \in PaidPCs /\ (task[t].pc \in SettlePCs => task[t].next = "credit")
    BY <1>0, KindFacts DEF SettlePost, CreditRest, CreditAll, At, PaidPCs, SettlePCs, CallOK
  <1>2. charge[p] = "success" /\ (Rider(p) => task[t].pc \notin {"debt", "credit"} \cup SettlePCs)
    BY <1>0, <1>1 DEF Stands
  <1>3. ASSUME NEW ref \in Own(p), NEW e, NEW pc \in {"settle_read", "credit", "complete"},
               PostThen(t, ref, e, pc),
               Rider(p) => /\ ref = p /\ e = TopUpEntries(OwnerOf[p], AmountOf[p])
                           /\ pc = "complete"
        PROVE  PaymentOK(p, ledger'.txs, charge'[p], request'[p], task')
    <2>1. ref \in BaseRefs /\ \A o \in Own(p) : o \in BaseRefs
      BY OwnFacts
    <2>2. /\ \A r \in BaseRefs \ {ref} : ledger'.txs[r] = ledger.txs[r]
          /\ UNCHANGED others
          /\ \/ Goto(t, pc) /\ Exists(ledger, ref) /\ ledger'.txs[ref] = ledger.txs[ref]
             \/ /\ Goto(t, pc) /\ ~ Exists(ledger, ref)
                /\ ledger'.txs[ref] = [status |-> "COMPLETED", entries |-> e]
             \/ /\ Raise(t) /\ ~ Exists(ledger, ref) /\ ~ CanPost(ledger, ref, e)
                /\ ledger'.txs[ref] = ledger.txs[ref]
      BY ZenonT(60), <1>0, <1>3, <2>1, PostThenTxs
    <2>3. PICK T2 : T2 = ledger'.txs
      OBVIOUS
    <2>4. /\ \A o \in Own(p) \ {ref} : T2[o] = ledger.txs[o]
          /\ \/ T2[ref] = ledger.txs[ref]
             \/ T2[ref] = [status |-> "COMPLETED", entries |-> e]
          /\ charge' = charge /\ request' = request
      BY <2>1, <2>2, <2>3 DEF others
    <2>5. PICK k : /\ task' = [task EXCEPT ![t] = k]
                   /\ \/ k.x \in {Null, p} /\ k.pc \in RestingPCs
                      \/ /\ k.x = p /\ k.pc = pc
                         /\ Exists(ledger, ref) \/ T2[ref] = [status |-> "COMPLETED", entries |-> e]
      <3>1. CASE Raise(t)
        BY <3>1, CallGoes DEF RestingPCs
      <3>2. CASE /\ Goto(t, pc)
                 /\ Exists(ledger, ref) \/ T2[ref] = [status |-> "COMPLETED", entries |-> e]
        BY <3>2, CallGoes
      <3> QED
        BY <2>2, <2>3, <3>1, <3>2
    <2>6. [status |-> "COMPLETED", entries |-> e] # NoTx
      BY DEF NoTx
    <2>7. Stands(p, T2, "success", request[p], k) /\ ~ Starts(p, k)
      <3>1. CASE k.pc \in RestingPCs
        BY <3>1 DEF Stands, Starts, RestingPCs, StartPCs, PaidPCs, SettlePCs
      <3>2. CASE /\ k.x = p /\ k.pc = pc
                 /\ Exists(ledger, ref) \/ T2[ref] = [status |-> "COMPLETED", entries |-> e]
        <4>1. Exists(ledger, ref) => ledger.txs[ref] # NoTx
          BY DEF Exists, NoTx
        <4>2. T2[ref] # NoTx
          BY <2>2, <2>3, <2>6, <3>2, <4>1
        <4>3. Rider(p) => ref = p /\ pc = "complete"
          BY <1>3
        <4> QED
          BY <1>3, <3>2, <4>2, <4>3 DEF Stands, Starts, StartPCs, PaidPCs, SettlePCs
      <3> QED
        BY <2>5, <3>1, <3>2
    <2>8. PICK K : K = task'
      OBVIOUS
    <2>9. \A u \in Tasks : \/ K[u] = task[u]
                           \/ Stands(p, T2, "success", request[p], K[u]) /\ ~ Starts(p, K[u])
      BY <1>0, <2>5, <2>7, <2>8
    <2>10. PaymentOK(p, T2, "success", request[p], K)
      BY <1>0, <1>2, <1>3, <2>4, <2>9, PaymentPosts
    <2> QED
      BY <1>2, <2>3, <2>4, <2>8, <2>10
  <1>4. p \in Own(p) /\ SettleRef(p) \in Own(p) /\ CreditRef(p) \in Own(p)
    BY DEF Own
  <1>5. CASE SettlePost(t)
    <2>1. ~ Rider(p)
      BY <1>2, <1>5 DEF SettlePost, At, SettlePCs
    <2>2. PICK pc \in {"settle_read", "credit"} :
             PostThen(t, SettleRef(p), SettlementEntries(OwnerOf[p], task[t].settle), pc)
      BY <1>1, <1>5 DEF SettlePost, At, SettlePCs
    <2> QED
      BY <1>3, <1>4, <2>1, <2>2
  <1>6. CASE CreditAll(t)
    BY <1>3, <1>4, <1>6 DEF CreditAll
  <1>7. CASE CreditRest(t)
    <2>1. ~ Rider(p)
      BY <1>2, <1>7 DEF CreditRest, At
    <2>2. CASE Goto(t, "complete") /\ OnlyTask
      <3>1. PICK k : task' = [task EXCEPT ![t] = k] /\ k.x = p /\ k.pc = "complete"
        BY <2>2, CallGoes
      <3>2. Stands(p, ledger.txs, charge[p], request[p], k) /\ ~ Starts(p, k)
        BY <1>2, <2>1, <3>1 DEF Stands, Starts, StartPCs, PaidPCs, SettlePCs
      <3>3. UNCHANGED <<ledger, charge, request>>
        BY <2>2 DEF OnlyTask, others
      <3> QED
        BY <3>1, <3>2, <3>3, PaymentLooks
    <2>3. ASSUME NEW e, PostThen(t, CreditRef(p), e, "complete")
          PROVE  PaymentOK(p, ledger'.txs, charge'[p], request'[p], task')
      BY <1>3, <1>4, <2>1, <2>3
    <2> QED
      BY <1>7, <2>2, <2>3 DEF CreditRest
  <1> QED
    BY <1>5, <1>6, <1>7

LEMMA TopUpCompletes ==
    ASSUME MoneyOK, PaymentsOK, NEW t \in Tasks, NEW p \in Payments, p = task[t].x,
           CompleteTopUp(t)
    PROVE  PaymentOK(p, ledger'.txs, charge'[p], request'[p], task')
  <1>0. /\ request \in [Payments -> {"NONE", "PENDING", "COMPLETED", "FAILED"}]
        /\ task \in [Tasks -> TaskRecords]
        /\ PaymentOK(p, ledger.txs, charge[p], request[p], task)
        /\ Stands(p, ledger.txs, charge[p], request[p], task[t])
    BY AtFacts DEF MoneyOK, MoneyTypeOK, PaymentsOK, PaymentOK
  <1>1. /\ charge[p] = "success"
        /\ Rider(p) => ledger.txs[p] # NoTx
    BY <1>0 DEF CompleteTopUp, At, Stands, PaidPCs
  <1>2. /\ UNCHANGED <<ledger, charge>>
        /\ request'[p] = IF request[p] = "NONE" THEN "NONE" ELSE "COMPLETED"
        /\ task' = [task EXCEPT ![t] = Idle]
    BY <1>0 DEF CompleteTopUp, Return
  <1>3. PICK r, K : r = request'[p] /\ K = task'
    OBVIOUS
  <1>4. /\ Paid(p, ledger.txs, charge[p], r) /\ OfRider(p, ledger.txs, r)
        /\ request[p] # "NONE" => r # "NONE"
        /\ r \in {request[p], "COMPLETED"}
    BY <1>0, <1>1, <1>2, <1>3 DEF PaymentOK, Paid, OfRider
  <1>5. Stands(p, ledger.txs, charge[p], r, Idle) /\ ~ Starts(p, Idle)
    BY DEF Stands, Starts, Idle, StartPCs, PaidPCs, SettlePCs
  <1>6. \A u \in Tasks : \/ K[u] = task[u]
                         \/ Stands(p, ledger.txs, charge[p], r, K[u]) /\ ~ Starts(p, K[u])
    BY <1>0, <1>2, <1>3, <1>5
  <1>7. PaymentOK(p, ledger.txs, charge[p], r, K)
    BY <1>0, <1>4, <1>6, PaymentMoves
  <1> QED
    BY <1>2, <1>3, <1>7

\* A step of a call about something else.
LEMMA PaymentElsewhere ==
    ASSUME MoneyOK, PaymentsOK, NEW t \in Tasks, Step(t) \/ Throw(t),
           NEW p \in Payments, p # task[t].x
    PROVE  PaymentOK(p, ledger'.txs, charge'[p], request'[p], task')
  <1>1. /\ task \in [Tasks -> TaskRecords]
        /\ PaymentOK(p, ledger.txs, charge[p], request[p], task)
        /\ p # Null
    BY AtFacts, KindFacts, ThingFacts DEF PaymentsOK
  <1>2. PICK k : task' = [task EXCEPT ![t] = k] /\ k.x \in {Null, task[t].x}
    BY StepElsewhere
  <1>3. /\ charge'[p] = charge[p] /\ request'[p] = request[p]
        /\ \A ref \in Own(p) : ledger'.txs[ref] = ledger.txs[ref]
    BY StepElsewhere DEF Spares
  <1>4. PICK T2, K : T2 = ledger'.txs /\ K = task'
    OBVIOUS
  <1>5. \A u \in Tasks : K[u] = task[u] \/ K[u].x # p \/ K[u].pc \in RestingPCs
    BY <1>1, <1>2, <1>4
  <1>6. \A ref \in Own(p) : T2[ref] = ledger.txs[ref]
    BY <1>3, <1>4
  <1>7. request[p] \in {request[p], "PENDING", "FAILED"}
    OBVIOUS
  <1>8. PaymentOK(p, T2, charge[p], request[p], K)
    BY <1>1, <1>5, <1>6, <1>7, PaymentRests
  <1> QED
    BY <1>3, <1>4, <1>8

\* The steps that are about p: the others need a trip or a withdrawal.
LEMMA StepOfPayment ==
    ASSUME MoneyOK, NEW t \in Tasks, task[t].x \in Payments, Step(t)
    PROVE  \/ TopUpLateRow(t) \/ TopUpCheckout(t) \/ ChargeCard(t) \/ MarkFailed(t) \/ Verify(t)
           \/ LookCredited(t) \/ ReadDebt(t) \/ SettleLook(t) \/ SettleRead(t) \/ SettleReset(t)
           \/ SettlePost(t) \/ CreditRest(t) \/ CreditAll(t) \/ CompleteTopUp(t)
  <1>1. task[t].pc \notin AccruePCs /\ task[t].pc \notin EarlyPCs \cup LatePCs
    BY AtFacts, KindFacts
  <1>2. ~ (AccruePost(t) \/ AccrueCount(t) \/ Returned(t))
    BY <1>1 DEF AccruePost, AccrueCount, Returned, At, AccruePCs
  <1>3. ~ (\/ WithdrawDebit(t) \/ WithdrawDeduct(t) \/ WithdrawRow(t) \/ WithdrawSend(t)
           \/ RefundWithdrawal(t) \/ RefundSettlement(t) \/ WithdrawFailed(t) \/ WithdrawPaid(t))
    BY <1>1 DEF WithdrawDebit, WithdrawDeduct, WithdrawRow, WithdrawSend, RefundWithdrawal,
       RefundSettlement, WithdrawFailed, WithdrawPaid, At, EarlyPCs, LatePCs
  <1> QED
    BY <1>2, <1>3 DEF Step

LEMMA PaymentStep ==
    ASSUME MoneyOK, PaymentsOK, NEW t \in Tasks, Step(t) \/ Throw(t), NEW p \in Payments
    PROVE  PaymentOK(p, ledger'.txs, charge'[p], request'[p], task')
  <1>1. CASE p # task[t].x
    BY <1>1, PaymentElsewhere
  <1>2. CASE p = task[t].x
    <2>1. CASE Throw(t)
      BY <1>2, <2>1, TopUpKeeps
    <2>2. CASE Step(t)
      BY <1>2, <2>2, StepOfPayment, TopUpKeeps, TopUpLooks, TopUpPosts, TopUpCompletes
    <2> QED
      BY <2>1, <2>2
  <1> QED
    BY <1>1, <1>2

\* A new call about a payment rests, but the one that starts it.
LEMMA PaymentBegins ==
    ASSUME MoneyOK, PaymentsOK, NEW t \in Tasks, Request(t) \/ Webhook(t), NEW p \in Payments
    PROVE  PaymentOK(p, ledger'.txs, charge'[p], request'[p], task')
  <1>0. /\ task \in [Tasks -> TaskRecords]
        /\ charge \in [Payments -> {"none", "open", "success", "failed"}]
        /\ request \in [Payments -> {"NONE", "PENDING", "COMPLETED", "FAILED"}]
        /\ PaymentOK(p, ledger.txs, charge[p], request[p], task)
        /\ DOMAIN Idle = {"pc", "x", "settle", "next", "fresh", "saved"}
    BY AtFacts DEF MoneyOK, MoneyTypeOK, PaymentsOK, Idle
  <1>1. ASSUME NEW x, NEW pc, NEW saved, Call(t, pc, x, saved)
        PROVE  \E k : task' = [task EXCEPT ![t] = k] /\ k.x = x /\ k.pc = pc
    <2>1. PICK k : k = [Idle EXCEPT !.pc = pc, !.x = x, !.saved = saved]
      OBVIOUS
    <2>2. k.x = x /\ k.pc = pc
      BY <2>1 DEF Idle
    <2>3. task' = [task EXCEPT ![t] = k]
      BY <1>1, <2>1 DEF Call
    <2> QED
      BY <2>2, <2>3
  <1>2. ASSUME NEW x \in Things, NEW pc, NEW saved, Call(t, pc, x, saved), OnlyTask,
               x # p \/ pc \in RestingPCs
        PROVE  PaymentOK(p, ledger'.txs, charge'[p], request'[p], task')
    <2>1. UNCHANGED <<ledger, charge>> /\ request'[p] \in {request[p], "PENDING", "FAILED"}
      BY <1>2 DEF OnlyTask, others
    <2> QED
      BY <1>1, <1>2, <2>1, PaymentGivesUp
  <1>3. ASSUME NEW x \in Trips, AccrueLook(t, x)
        PROVE  PaymentOK(p, ledger'.txs, charge'[p], request'[p], task')
    <2>1. PICK k : k = [Idle EXCEPT !.pc = "accrue_post", !.x = x, !.fresh = ~ Exists(ledger, x)]
      OBVIOUS
    <2>2. k.x # p /\ task' = [task EXCEPT ![t] = k]
      BY <1>3, <2>1, KindFacts DEF AccrueLook, Idle
    <2>3. UNCHANGED <<ledger, charge>> /\ request'[p] \in {request[p], "PENDING", "FAILED"}
      BY <1>3 DEF AccrueLook, OnlyTask, others
    <2> QED
      BY <2>2, <2>3, PaymentGivesUp
  <1>4. ASSUME NEW w \in Withdrawals, WithdrawRead(t, w)
        PROVE  PaymentOK(p, ledger'.txs, charge'[p], request'[p], task')
    <2>1. PICK k : k = [Idle EXCEPT !.pc = "debit", !.x = w,
                                    !.settle = Lesser(Debt(w), AmountOf[w])]
      OBVIOUS
    <2>2. k.x # p /\ task' = [task EXCEPT ![t] = k]
      BY <1>4, <2>1, KindFacts DEF WithdrawRead, Idle
    <2>3. UNCHANGED <<ledger, charge>> /\ request'[p] \in {request[p], "PENDING", "FAILED"}
      BY <1>4 DEF WithdrawRead, OnlyTask, others
    <2> QED
      BY <2>2, <2>3, PaymentGivesUp
  <1>5. ASSUME NEW q \in Payments, NEW saved \in BOOLEAN, TopUpRow(t, q, saved)
        PROVE  PaymentOK(p, ledger'.txs, charge'[p], request'[p], task')
    <2>1. PICK pc \in StartPCs : Call(t, pc, q, saved)
      BY <1>5 DEF TopUpRow, StartPCs
    <2>2. PICK k : task' = [task EXCEPT ![t] = k] /\ k.x = q /\ k.pc = pc
      BY <1>1, <2>1
    <2>3. UNCHANGED <<ledger, charge>> /\ request'[p] \in {request[p], "PENDING", "FAILED"}
      BY <1>0, <1>5 DEF TopUpRow
    <2>4. CASE q # p
      BY <2>2, <2>3, <2>4, PaymentGivesUp
    <2>5. CASE q = p
      <3>1. charge[p] = "none" /\ request[p] = "NONE" /\ request'[p] = "PENDING"
        BY <1>0, <1>5, <2>5 DEF TopUpRow
      <3>2. \A u \in Tasks : ~ Starts(p, task[u])
        BY <1>0, <3>1 DEF PaymentOK, Stands, Starts
      <3>3. PICK K : K = task'
        OBVIOUS
      <3>4. K[t] = k /\ \A u \in Tasks \ {t} : K[u] = task[u]
        BY <1>0, <2>2, <3>3
      <3>5. Paid(p, ledger.txs, "none", "PENDING") /\ OfRider(p, ledger.txs, "PENDING")
        BY <1>0, <3>1 DEF PaymentOK, Paid, OfRider
      <3>6. \A u \in Tasks : Stands(p, ledger.txs, "none", "PENDING", K[u])
        BY <1>0, <2>1, <2>2, <3>1, <3>4 DEF PaymentOK, Stands, StartPCs, PaidPCs, SettlePCs
      <3>7. \A u, v \in Tasks : Starts(p, K[u]) /\ Starts(p, K[v]) => u = v
        BY <3>2, <3>4
      <3>8. PaymentOK(p, ledger.txs, "none", "PENDING", K)
        BY <3>5, <3>6, <3>7 DEF PaymentOK
      <3> QED
        BY <2>3, <3>1, <3>3, <3>8
    <2> QED
      BY <2>4, <2>5
  <1>6. ASSUME NEW q \in Payments, TopUpAccount(t, q)
        PROVE  PaymentOK(p, ledger'.txs, charge'[p], request'[p], task')
    <2>0. Call(t, "late_row", q, FALSE)
      BY <1>6 DEF TopUpAccount
    <2>1. PICK k : task' = [task EXCEPT ![t] = k] /\ k.x = q /\ k.pc = "late_row"
      BY ZenonT(60), <1>1, <2>0
    <2>2. UNCHANGED <<ledger, request>>
      BY <1>6 DEF TopUpAccount
    <2>3. PICK K : K = task'
      OBVIOUS
    <2>4. CASE q # p
      <3>1. charge'[p] = charge[p]
        BY <1>0, <1>6, <2>4 DEF TopUpAccount
      <3>2. \A u \in Tasks : K[u] = task[u] \/ K[u].x # p \/ K[u].pc \in RestingPCs
        BY <1>0, <2>1, <2>3, <2>4
      <3>3. \A ref \in Own(p) : ledger.txs[ref] = ledger.txs[ref]
        OBVIOUS
      <3>4. PaymentOK(p, ledger.txs, charge[p], request[p], K)
        BY <1>0, <3>2, <3>3, PaymentRests
      <3> QED
        BY <2>2, <2>3, <3>1, <3>4
    <2>5. CASE q = p
      <3>1. charge[p] = "none" /\ request[p] = "NONE" /\ charge'[p] = "open"
        BY <1>0, <1>6, <2>5 DEF TopUpAccount
      <3>2. ~ Starts(p, k) /\ Stands(p, ledger.txs, "open", "NONE", k)
        BY <2>1 DEF Starts, Stands, StartPCs, PaidPCs, SettlePCs
      <3>3. Paid(p, ledger.txs, "open", "NONE") /\ OfRider(p, ledger.txs, "NONE")
        BY <1>0, <3>1 DEF PaymentOK, Paid
      <3>4. ASSUME NEW u \in Tasks
            PROVE  /\ \/ K[u] = task[u]
                      \/ Stands(p, ledger.txs, "open", "NONE", K[u]) /\ ~ Starts(p, K[u])
                   /\ ~ Starts(p, K[u])
        <4>1. CASE u = t
          BY <1>0, <2>1, <2>3, <3>2, <4>1
        <4>2. CASE u # t
          <5>1. K[u] = task[u]
            BY <1>0, <2>1, <2>3, <4>2
          <5> QED
            BY <1>0, <3>1, <5>1 DEF PaymentOK, Stands, Starts
        <4> QED
          BY <4>1, <4>2
      <3>5. PaymentOK(p, ledger.txs, "open", "NONE", K)
        BY <1>0, <3>1, <3>3, <3>4, PaymentMoves
      <3> QED
        BY <2>2, <2>3, <3>1, <3>5
    <2> QED
      BY <2>4, <2>5
  <1>7. ASSUME NEW q \in Payments, ChargeWebhook(t, q) \/ PollTopUp(t, q)
        PROVE  PaymentOK(p, ledger'.txs, charge'[p], request'[p], task')
    BY <1>2, <1>7, KindFacts DEF ChargeWebhook, PollTopUp, RestingPCs
  <1>8. ASSUME NEW w \in Withdrawals, NEW event, TransferWebhook(t, w, event)
        PROVE  PaymentOK(p, ledger'.txs, charge'[p], request'[p], task')
    <2>1. w # p /\ w \in Things
      BY KindFacts
    <2> QED
      BY <1>2, <1>8, <2>1 DEF TransferWebhook
  <1> QED
    BY <1>3, <1>4, <1>5, <1>6, <1>7, <1>8 DEF Request, Webhook

LEMMA PaymentGateway ==
    ASSUME MoneyOK, PaymentsOK, Gateway, NEW p \in Payments
    PROVE  PaymentOK(p, ledger'.txs, charge'[p], request'[p], task')
  <1>0. /\ charge \in [Payments -> {"none", "open", "success", "failed"}]
        /\ PaymentOK(p, ledger.txs, charge[p], request[p], task)
    BY DEF MoneyOK, MoneyTypeOK, PaymentsOK
  <1>1. UNCHANGED <<ledger, request, task>>
    BY DEF Gateway, GatewayCharges, GatewayTransfers
  <1>2. \/ charge'[p] = charge[p]
        \/ charge[p] = "open"
    BY <1>0 DEF Gateway, GatewayCharges, GatewayTransfers
  <1>3. PICK c : c = charge'[p]
    OBVIOUS
  <1>4. PaymentOK(p, ledger.txs, c, request[p], task)
    BY <1>0, <1>2, <1>3 DEF PaymentOK, Paid, Stands
  <1> QED
    BY <1>1, <1>3, <1>4

LEMMA PaymentRestart ==
    ASSUME MoneyOK, PaymentsOK, Restart, NEW p \in Payments
    PROVE  PaymentOK(p, ledger'.txs, charge'[p], request'[p], task')
  <1>1. UNCHANGED <<ledger, charge, request>> /\ task' = [t \in Tasks |-> Idle]
    BY DEF Restart, OnlyTask, others
  <1>2. PICK K : K = task'
    OBVIOUS
  <1>3. \A u \in Tasks : K[u] = task[u] \/ K[u].x # p \/ K[u].pc \in RestingPCs
    BY <1>1, <1>2 DEF Idle, RestingPCs
  <1>4. PaymentOK(p, ledger.txs, charge[p], request[p], task)
    BY DEF PaymentsOK
  <1>5. \A ref \in Own(p) : ledger.txs[ref] = ledger.txs[ref]
    OBVIOUS
  <1>6. PaymentOK(p, ledger.txs, charge[p], request[p], K)
    BY <1>3, <1>4, <1>5, PaymentRests
  <1> QED
    BY <1>1, <1>2, <1>6

LEMMA PaymentsStepOK == MoneyOK /\ PaymentsOK /\ [MoneyNext]_moneyVars => PaymentsOK'
  <1> SUFFICES ASSUME MoneyOK, PaymentsOK, [MoneyNext]_moneyVars, NEW p \in Payments
               PROVE  PaymentOK(p, ledger'.txs, charge'[p], request'[p], task')
    BY DEF PaymentsOK, PaymentOK, Paid, OfRider, Stands, Starts
  <1>1. ASSUME NEW t \in Tasks, Request(t) \/ Webhook(t) \/ Step(t) \/ Throw(t)
        PROVE  PaymentOK(p, ledger'.txs, charge'[p], request'[p], task')
    BY <1>1, PaymentStep, PaymentBegins
  <1>2. CASE UNCHANGED moneyVars
    <2>1. UNCHANGED <<ledger, charge, request, task>>
      BY <1>2 DEF moneyVars
    <2> QED
      BY <2>1 DEF PaymentsOK
  <1> QED
    BY <1>1, <1>2, PaymentGateway, PaymentRestart DEF MoneyNext

LEMMA PaymentsInitOK == MoneyInit => PaymentsOK
  <1> SUFFICES ASSUME MoneyInit, NEW p \in Payments
               PROVE  PaymentOK(p, ledger.txs, charge[p], request[p], task)
    BY DEF PaymentsOK
  <1>1. /\ charge[p] = "none" /\ request[p] = "NONE"
        /\ \A t \in Tasks : task[t].pc = "idle"
    BY DEF MoneyInit, Idle
  <1>2. \A ref \in Own(p) : ledger.txs[ref] = NoTx
    BY OwnFacts, RefFacts DEF MoneyInit, LedgerInit, EmptyLedger
  <1> QED
    BY <1>1, <1>2 DEF PaymentOK, Paid, OfRider, Stands, Starts, Own, StartPCs, PaidPCs, SettlePCs

\* What each payment's row, postings and calls have to do with each other, in
\* every behaviour, with faults or without.
THEOREM PaymentsInvariant == MoneySpec => []PaymentsOK
  BY PaymentsInitOK, PaymentsStepOK, MoneyInvariant, PTL DEF MoneySpec

\* What an entry of no transaction is.
LEMMA NoTxEntries ==
    ASSUME NEW a \in Accounts
    PROVE  NoTx.entries[a] = 0
  BY DEF NoTx, NoEntries

LEMMA PaymentAccounts ==
    ASSUME NEW x \in Things
    PROVE  /\ RiderWallet(OwnerOf[x]) \in Accounts /\ Payable(x) \in Accounts
           /\ RiderWallet(OwnerOf[x]) \notin {Clearing, Payable(x), Revenue}
           /\ Payable(x) \notin {Clearing, Revenue}
           /\ Clearing \in Accounts /\ Revenue \in Accounts
  <1>1. OwnerOf[x] \in Owners
    BY ThingFacts
  <1> QED
    BY <1>1 DEF RiderWallet, Payable, CommissionPayable, Clearing, Revenue, Accounts, UserAccounts,
       PlatformAccounts, UserTypes, PlatformTypes

\* Nothing is credited before the gateway has the money, whatever calls
\* overlap, throw, are repeated or lost, for any number of payments.
THEOREM CreditsAreCharged == MoneySpec => []CreditedIsCharged
  <1>1. ASSUME PaymentsOK PROVE CreditedIsCharged
    <2> SUFFICES ASSUME NEW p \in Payments, Credited(p) > 0 \/ request[p] = "COMPLETED"
                 PROVE  charge[p] = "success"
      BY DEF CreditedIsCharged
    <2>1. Paid(p, ledger.txs, charge[p], request[p])
      BY <1>1 DEF PaymentsOK, PaymentOK
    <2>2. ASSUME \A ref \in Own(p) : ledger.txs[ref] = NoTx PROVE Credited(p) = 0
      BY <2>2, KindFacts, PaymentAccounts, NoTxEntries DEF Credited, Entry, SettledBy, Own
    <2> QED
      BY <2>1, <2>2 DEF Paid
  <1> QED
    BY <1>1, PaymentsInvariant, PTL

\* A rider's payment is credited once and whole.
THEOREM RidersCreditedExactly == MoneySpec => []RiderCreditedExactly
  <1>1. ASSUME PaymentsOK PROVE RiderCreditedExactly
    <2> SUFFICES ASSUME NEW p \in Payments, OwnerOf[p] \notin Drivers
                 PROVE  /\ Credited(p) <= AmountOf[p]
                        /\ request[p] = "COMPLETED" => Credited(p) = AmountOf[p]
      BY DEF RiderCreditedExactly, CreditedExactlyFor
    <2>1. OfRider(p, ledger.txs, request[p]) /\ Rider(p)
      BY <1>1 DEF PaymentsOK, PaymentOK, Rider
    <2>2. p \in Things /\ AmountOf[p] \in Nat
      BY KindFacts, ThingFacts
    <2>3. Credited(p) = Entry(p, RiderWallet(OwnerOf[p]))
      <3>1. /\ Entry(CreditRef(p), RiderWallet(OwnerOf[p])) = 0
            /\ Entry(SettleRef(p), Payable(p)) = 0
        BY <2>1, <2>2, PaymentAccounts, NoTxEntries DEF OfRider, Entry
      <3>2. Entry(p, RiderWallet(OwnerOf[p])) \in Int
        BY <2>1, <2>2, PaymentAccounts, NoTxEntries DEF OfRider, Entry, TopUpEntries, Move, NoEntries
      <3> QED
        BY <3>1, <3>2 DEF Credited, SettledBy
    <2>4. CASE ledger.txs[p] = NoTx
      BY <2>1, <2>2, <2>3, <2>4, PaymentAccounts, NoTxEntries DEF OfRider, Entry
    <2>5. CASE ledger.txs[p].entries = TopUpEntries(OwnerOf[p], AmountOf[p])
      BY <2>2, <2>3, <2>5, PaymentAccounts DEF Entry, TopUpEntries, Move, NoEntries
    <2> QED
      BY <2>1, <2>4, <2>5 DEF OfRider
  <1> QED
    BY <1>1, PaymentsInvariant, PTL

-----------------------------------------------------------------------------
(* Credited exactly, without faults and with the calls about a payment one *)
(* after the other, which is what CreditedExactly is stated for.           *)

\* No two calls about one payment overlap.
Turns == \A t, u \in Tasks : task[t].x = task[u].x /\ task[t].x \in Payments => t = u

Settled(p, T) == -T[SettleRef(p)].entries[Payable(p)]

\* The payment is credited in full: to the wallet, to the debt, or to both.
Whole(p, T) ==
    \/ T[p] # NoTx
    \/ T[SettleRef(p)] # NoTx /\ (T[CreditRef(p)] # NoTx \/ Settled(p, T) = AmountOf[p])

\* Where the call stands that settled a part and has the rest to credit.
RestPCs == {"settle_read", "settle_reset", "credit"}
Owes(p, k) == k.x = p /\ k.pc \in RestPCs

TurnRows(p, T, r) ==
    /\ T[p] # NoTx => /\ T[p].entries = TopUpEntries(OwnerOf[p], AmountOf[p])
                      /\ T[SettleRef(p)] = NoTx
    /\ T[SettleRef(p)] # NoTx =>
          \E s \in 1..AmountOf[p] :
             /\ T[SettleRef(p)].entries = SettlementEntries(OwnerOf[p], s)
             /\ T[CreditRef(p)] # NoTx =>
                   /\ s < AmountOf[p]
                   /\ T[CreditRef(p)].entries = TopUpEntries(OwnerOf[p], AmountOf[p] - s)
    /\ T[CreditRef(p)] # NoTx => T[SettleRef(p)] # NoTx
    /\ r = "COMPLETED" => Whole(p, T)

TurnOf(p, T, k) ==
    k.x = p =>
        /\ k.pc \in {"debt", "topup", "settle_look", "settle_post"} =>
              \A ref \in Own(p) : T[ref] = NoTx
        /\ k.pc \in SettlePCs \cup {"credit"} => k.settle \in 1..AmountOf[p]
        /\ k.pc = "settle_post" => k.fresh
        /\ k.pc \in RestPCs => /\ T[SettleRef(p)] # NoTx /\ T[p] = NoTx /\ T[CreditRef(p)] = NoTx
                               /\ Settled(p, T) = k.settle
        /\ k.pc = "complete" => Whole(p, T)

TurnOK(p, T, r, K) ==
    /\ TurnRows(p, T, r)
    /\ T[SettleRef(p)] # NoTx /\ ~ Whole(p, T) => \E t \in Tasks : Owes(p, K[t])
    /\ \A t \in Tasks : TurnOf(p, T, K[t])

TurnsOK == \A p \in Payments : TurnOK(p, ledger.txs, request[p], task)

\* A call that owes nothing comes to where nothing is asked of it.
FreePCs == RestingPCs \cup {"look"}

LEMMA TurnRests ==
    ASSUME NEW p, NEW T, NEW T2, NEW r, NEW r2, NEW K, NEW K2, TurnOK(p, T, r, K),
           \A ref \in Own(p) : T2[ref] = T[ref],
           r2 \in {r, "PENDING", "FAILED"},
           \A t \in Tasks : \/ K2[t] = K[t]
                            \/ ~ Owes(p, K[t]) /\ (K2[t].x # p \/ K2[t].pc \in FreePCs)
    PROVE  TurnOK(p, T2, r2, K2)
  <1>1. T2[p] = T[p] /\ T2[SettleRef(p)] = T[SettleRef(p)] /\ T2[CreditRef(p)] = T[CreditRef(p)]
    BY DEF Own
  <1>2. Settled(p, T2) = Settled(p, T) /\ (Whole(p, T2) <=> Whole(p, T))
    BY <1>1 DEF Settled, Whole
  <1>3. TurnRows(p, T2, r2)
    BY <1>1, <1>2 DEF TurnOK, TurnRows
  <1>4. ASSUME T2[SettleRef(p)] # NoTx, ~ Whole(p, T2) PROVE \E t \in Tasks : Owes(p, K2[t])
    <2>1. PICK t \in Tasks : Owes(p, K[t])
      BY <1>1, <1>2, <1>4 DEF TurnOK
    <2>2. K2[t] = K[t]
      BY <2>1
    <2> QED
      BY <2>1, <2>2
  <1>5. ASSUME NEW t \in Tasks PROVE TurnOf(p, T2, K2[t])
    <2>1. CASE K2[t] = K[t]
      <3>1. TurnOf(p, T, K[t])
        BY DEF TurnOK
      <3> QED
        BY <1>1, <1>2, <2>1, <3>1 DEF TurnOf, Own
    <2>2. CASE K2[t].x # p
      BY <2>2 DEF TurnOf
    <2>3. CASE K2[t].pc \in FreePCs
      BY <2>3 DEF TurnOf, FreePCs, RestingPCs, SettlePCs, RestPCs
    <2> QED
      BY <2>1, <2>2, <2>3
  <1> QED
    BY <1>3, <1>4, <1>5 DEF TurnOK

\* The one call about p moves.
LEMMA TurnMoves ==
    ASSUME NEW p, NEW T, NEW r, NEW K, NEW t \in Tasks,
           \A u \in Tasks \ {t} : K[u].x # p,
           TurnRows(p, T, r), TurnOf(p, T, K[t]),
           T[SettleRef(p)] # NoTx /\ ~ Whole(p, T) => Owes(p, K[t])
    PROVE  TurnOK(p, T, r, K)
  <1>1. ASSUME NEW u \in Tasks PROVE TurnOf(p, T, K[u])
    BY DEF TurnOf
  <1> QED
    BY <1>1 DEF TurnOK

\* A top-up never throws: it takes from the platform's clearing account.
LEMMA TopUpCanPost ==
    ASSUME LedgerOK(ledger), NEW ref \in BaseRefs, ~ Exists(ledger, ref),
           NEW o \in Owners, NEW x \in Nat, x > 0
    PROVE  CanPost(ledger, ref, TopUpEntries(o, x))
  <1> DEFINE e == TopUpEntries(o, x)
             W == RiderWallet(o)
  <1>1. /\ W \in UserAccounts /\ W # Clearing /\ Clearing \in Accounts /\ W \in Accounts
        /\ Clearing \notin UserAccounts
    BY LedgerAssumption DEF RiderWallet, Clearing, UserAccounts, PlatformAccounts, Accounts,
       UserTypes, PlatformTypes, LedgerAssumption
  <1>2. e \in EntrySets
    BY MoveType DEF TopUpEntries
  <1>3. /\ e[Clearing] = -x /\ e[W] = x
        /\ \A a \in Accounts : a # Clearing /\ a # W => e[a] = 0
    BY <1>1 DEF TopUpEntries, Move, NoEntries
  <1> HIDE DEF e
  <1>4. {a \in Accounts : e[a] # 0} = {Clearing} \cup {W}
    BY <1>1, <1>3
  <1>5. SumFunctionOnSet(e, {Clearing} \cup {W}) = 0
    <2>1. IsFiniteSet({Clearing}) /\ IsFiniteSet({}) /\ W \notin {Clearing} /\ Clearing \notin {}
      BY <1>1, FS_Singleton, FS_EmptySet
    <2>2. Ints(e, {Clearing} \cup {W}) /\ Ints(e, {} \cup {Clearing})
      BY <1>3 DEF Ints
    <2>3. SumFunctionOnSet(e, {Clearing} \cup {W}) = e[W] + SumFunctionOnSet(e, {Clearing})
      BY <2>1, <2>2, SumAdd
    <2>4. SumFunctionOnSet(e, {} \cup {Clearing}) = e[Clearing] + SumFunctionOnSet(e, {})
      BY <2>1, <2>2, SumAdd
    <2>5. SumFunctionOnSet(e, {}) = 0
      BY SumEmpty
    <2>6. {} \cup {Clearing} = {Clearing}
      BY Zenon
    <2>7. SumFunctionOnSet(e, {Clearing}) = e[Clearing] + SumFunctionOnSet(e, {})
      BY <2>4, <2>6, Zenon
    <2>8. PICK whole, part, none : /\ whole = SumFunctionOnSet(e, {Clearing} \cup {W})
                                  /\ part = SumFunctionOnSet(e, {Clearing})
                                  /\ none = SumFunctionOnSet(e, {})
      BY Zenon
    <2>9. whole = e[W] + part /\ part = e[Clearing] + none /\ none = 0
      BY <2>3, <2>5, <2>7, <2>8, Zenon
    <2>10. whole = x + (-x + 0)
      BY <1>3, <2>9, Zenon
    <2>11. x + (-x + 0) = 0
      OBVIOUS
    <2> QED
      BY <2>8, <2>10, <2>11, Zenon
  <1>6. Sufficient(ledger.balance, e)
    BY <1>1, <1>3 DEF Sufficient, Accounts
  <1> QED
    BY <1>4, <1>5, <1>6 DEF CanPost, Balanced, e

\* The call about p moves to k, where what is asked of it holds.
LEMMA TurnGoes ==
    ASSUME MoneyOK, TurnsOK, Turns, NEW t \in Tasks, NEW p \in Payments, p = task[t].x,
           NEW k, task' = [task EXCEPT ![t] = k],
           TurnRows(p, ledger'.txs, request'[p]), TurnOf(p, ledger'.txs, k),
           ledger'.txs[SettleRef(p)] # NoTx /\ ~ Whole(p, ledger'.txs) => Owes(p, k)
    PROVE  TurnOK(p, ledger'.txs, request'[p], task')
  <1>1. PICK T, r, K : T = ledger'.txs /\ r = request'[p] /\ K = task'
    OBVIOUS
  <1>2. task \in [Tasks -> TaskRecords]
    BY AtFacts
  <1>3. K[t] = k /\ \A u \in Tasks \ {t} : K[u].x # p
    BY <1>1, <1>2 DEF Turns
  <1>4. TurnOK(p, T, r, K)
    BY <1>1, <1>3, TurnMoves
  <1> QED
    BY <1>1, <1>4

\* It comes to where nothing is asked of it.
LEMMA TurnFrees ==
    ASSUME MoneyOK, TurnsOK, NEW t \in Tasks, NEW p \in Payments, ~ Owes(p, task[t]),
           UNCHANGED ledger, request'[p] \in {request[p], "PENDING", "FAILED"},
           NEW k, task' = [task EXCEPT ![t] = k], k.x # p \/ k.pc \in FreePCs
    PROVE  TurnOK(p, ledger'.txs, request'[p], task')
  <1>1. PICK r, K : r = request'[p] /\ K = task'
    OBVIOUS
  <1>2. task \in [Tasks -> TaskRecords] /\ TurnOK(p, ledger.txs, request[p], task)
    BY AtFacts DEF TurnsOK
  <1>3. \A u \in Tasks : \/ K[u] = task[u]
                         \/ ~ Owes(p, task[u]) /\ (K[u].x # p \/ K[u].pc \in FreePCs)
    BY <1>1, <1>2
  <1>4. /\ \A ref \in Own(p) : ledger.txs[ref] = ledger.txs[ref]
        /\ r \in {request[p], "PENDING", "FAILED"}
    BY <1>1
  <1>5. TurnOK(p, ledger.txs, r, K)
    BY <1>2, <1>3, <1>4, TurnRests
  <1> QED
    BY <1>1, <1>5

LEMMA TurnKeeps ==
    ASSUME MoneyOK, TurnsOK, Turns, NEW t \in Tasks, NEW p \in Payments, p = task[t].x,
           TopUpLateRow(t) \/ TopUpCheckout(t) \/ ChargeCard(t) \/ MarkFailed(t) \/ Verify(t)
    PROVE  TurnOK(p, ledger'.txs, request'[p], task')
  <1>0. /\ request \in [Payments -> {"NONE", "PENDING", "COMPLETED", "FAILED"}]
        /\ ~ Owes(p, task[t])
    BY DEF MoneyOK, MoneyTypeOK, Owes, RestPCs, TopUpLateRow, TopUpCheckout, ChargeCard, MarkFailed,
       Verify, At
  <1>1. /\ UNCHANGED ledger
        /\ request'[p] \in {request[p], "PENDING", "FAILED"}
    BY <1>0 DEF TopUpLateRow, TopUpCheckout, ChargeCard, MarkFailed, Verify, FailPending,
       OnlyTask, others
  <1>2. Return(t) \/ Goto(t, "verify") \/ Goto(t, "mark_failed") \/ Goto(t, "look")
    BY DEF TopUpLateRow, TopUpCheckout, ChargeCard, MarkFailed, Verify
  <1>3. PICK k : task' = [task EXCEPT ![t] = k] /\ k.pc \in FreePCs
    <2>1. CASE Return(t)
      BY <2>1, CallGoes DEF Idle, FreePCs, RestingPCs
    <2>2. ASSUME NEW pc \in FreePCs, Goto(t, pc)
          PROVE  \E k : task' = [task EXCEPT ![t] = k] /\ k.pc \in FreePCs
      BY <2>2, CallGoes
    <2> QED
      BY <1>2, <2>1, <2>2 DEF FreePCs, RestingPCs
  <1> QED
    BY <1>0, <1>1, <1>3, TurnFrees

\* What is known of the payment whose one call t is.
LEMMA TurnFacts ==
    ASSUME MoneyOK, PaymentsOK, TurnsOK, Turns, NEW t \in Tasks, NEW p \in Payments, p = task[t].x
    PROVE  /\ task[t] \in TaskRecords /\ CallOK(task[t]) /\ LedgerOK(ledger)
           /\ TurnRows(p, ledger.txs, request[p]) /\ TurnOf(p, ledger.txs, task[t])
           /\ ledger.txs[SettleRef(p)] # NoTx /\ ~ Whole(p, ledger.txs) => Owes(p, task[t])
           /\ p \in Things /\ AmountOf[p] \in Nat /\ AmountOf[p] > 0 /\ OwnerOf[p] \in Owners
           /\ \A ref \in Own(p) : Exists(ledger, ref) <=> ledger.txs[ref] # NoTx
           /\ p \in Own(p) /\ SettleRef(p) \in Own(p) /\ CreditRef(p) \in Own(p)
           /\ Own(p) \subseteq BaseRefs
           /\ p # SettleRef(p) /\ p # CreditRef(p) /\ SettleRef(p) # CreditRef(p)
           /\ task[t].pc \in SettlePCs => task[t].next = "credit"
  <1>1. TurnOK(p, ledger.txs, request[p], task)
    BY DEF TurnsOK
  <1>2. ASSUME NEW u \in Tasks, Owes(p, task[u]) PROVE u = t
    BY <1>2 DEF Turns, Owes
  <1>3. /\ TurnRows(p, ledger.txs, request[p]) /\ TurnOf(p, ledger.txs, task[t])
        /\ ledger.txs[SettleRef(p)] # NoTx /\ ~ Whole(p, ledger.txs) => Owes(p, task[t])
    BY <1>1, <1>2 DEF TurnOK
  <1>4. Paid(p, ledger.txs, charge[p], request[p]) /\ LedgerTypeOK(ledger)
    BY DEF PaymentsOK, PaymentOK, MoneyOK, LedgerOK
  <1>5. \A ref \in Own(p) : Exists(ledger, ref) <=> ledger.txs[ref] # NoTx
    BY <1>4, NoTxIffNew
  <1>6. /\ task[t] \in TaskRecords /\ CallOK(task[t]) /\ LedgerOK(ledger)
        /\ p \in Own(p) /\ SettleRef(p) \in Own(p) /\ CreditRef(p) \in Own(p)
    BY AtFacts DEF MoneyOK, Own
  <1>7. task[t].pc \in SettlePCs => task[t].next = "credit"
    BY <1>6, KindFacts DEF CallOK
  <1> QED
    BY <1>3, <1>5, <1>6, <1>7, KindFacts, ThingFacts, OwnFacts

LEMMA TurnLooks ==
    ASSUME MoneyOK, PaymentsOK, TurnsOK, Turns, NEW t \in Tasks, NEW p \in Payments, p = task[t].x,
           LookCredited(t) \/ ReadDebt(t) \/ SettleLook(t) \/ SettleRead(t) \/ SettleReset(t)
    PROVE  TurnOK(p, ledger'.txs, request'[p], task')
  <1>0. UNCHANGED <<ledger, request>>
    BY DEF LookCredited, ReadDebt, SettleLook, SettleRead, SettleReset, OnlyTask, others
  <1> DEFINE T == ledger.txs
  <1>1. ASSUME NEW k, task' = [task EXCEPT ![t] = k], TurnOf(p, T, k),
               T[SettleRef(p)] # NoTx /\ ~ Whole(p, T) => Owes(p, k)
        PROVE  TurnOK(p, ledger'.txs, request'[p], task')
    BY <1>0, <1>1, TurnFacts, TurnGoes
  <1>2. CASE LookCredited(t)
    <2>1. PICK pc : /\ Goto(t, pc) /\ pc \in {"complete", "debt", "topup"}
                    /\ pc = "complete" <=> AlreadyCredited(p)
      BY <1>2 DEF LookCredited
    <2>2. PICK k : task' = [task EXCEPT ![t] = k] /\ k.x = p /\ k.pc = pc
      BY <2>1, CallGoes
    <2>3. ~ (T[SettleRef(p)] # NoTx /\ ~ Whole(p, T))
      BY <1>2, TurnFacts DEF LookCredited, At, Owes, RestPCs
    <2>4. CASE AlreadyCredited(p)
      <3>1. \E ref \in Own(p) : T[ref] # NoTx
        BY <2>4, TurnFacts DEF AlreadyCredited, Own
      <3>2. Whole(p, T)
        BY <2>3, <3>1, TurnFacts DEF TurnRows, Whole, Own
      <3>3. TurnOf(p, T, k)
        BY <2>1, <2>2, <2>4, <3>2 DEF TurnOf, SettlePCs, RestPCs
      <3> QED
        BY <1>1, <2>2, <3>2, <3>3
    <2>5. CASE ~ AlreadyCredited(p)
      <3>1. \A ref \in Own(p) : T[ref] = NoTx
        BY <2>5, TurnFacts DEF AlreadyCredited, Own
      <3>2. TurnOf(p, T, k)
        BY <2>1, <2>2, <2>5, <3>1 DEF TurnOf, SettlePCs, RestPCs
      <3> QED
        BY <1>1, <2>2, <2>3, <3>2
    <2> QED
      BY <2>4, <2>5
  <1>3. CASE ReadDebt(t)
    <2>1. PICK k : k = IF Debt(p) > 0
                       THEN [task[t] EXCEPT !.settle = Lesser(Debt(p), AmountOf[p]),
                                            !.next = "credit", !.pc = "settle_look"]
                       ELSE [task[t] EXCEPT !.pc = "topup"]
      OBVIOUS
    <2>2. task' = [task EXCEPT ![t] = k]
      BY <1>3, <2>1 DEF ReadDebt
    <2>3. Debt(p) \in Nat
      BY DebtIsNat, TurnFacts
    <2>4. \/ k.pc = "topup"
          \/ k.pc = "settle_look" /\ k.settle \in 1..AmountOf[p]
      BY <2>1, <2>3, TurnFacts DEF TaskRecords, Lesser
    <2>5. \A ref \in Own(p) : T[ref] = NoTx
      BY <1>3, TurnFacts DEF ReadDebt, At, TurnOf
    <2>6. TurnOf(p, T, k)
      BY <2>4, <2>5 DEF TurnOf, SettlePCs, RestPCs
    <2>7. T[SettleRef(p)] = NoTx
      BY <2>5, TurnFacts
    <2> QED
      BY <1>1, <2>2, <2>6, <2>7
  <1>4. CASE SettleLook(t)
    <2>1. PICK k : k = [task[t] EXCEPT !.fresh = ~ Exists(ledger, SettleRef(task[t].x)),
                                       !.pc = "settle_post"]
      OBVIOUS
    <2>2. task' = [task EXCEPT ![t] = k]
      BY <1>4, <2>1 DEF SettleLook
    <2>3. /\ \A ref \in Own(p) : T[ref] = NoTx
          /\ task[t].settle \in 1..AmountOf[p]
      BY <1>4, TurnFacts DEF SettleLook, At, TurnOf, SettlePCs
    <2>4. ~ Exists(ledger, SettleRef(p))
      BY <2>3, TurnFacts
    <2>5. k.pc = "settle_post" /\ k.fresh /\ k.settle = task[t].settle
      BY <2>1, <2>4, TurnFacts DEF TaskRecords
    <2>6. TurnOf(p, T, k)
      BY <2>3, <2>5 DEF TurnOf, SettlePCs, RestPCs
    <2>7. T[SettleRef(p)] = NoTx
      BY <2>3, TurnFacts
    <2> QED
      BY <1>1, <2>2, <2>6, <2>7
  <1>5. CASE SettleRead(t) \/ SettleReset(t)
    <2>1. PICK pc \in {"settle_reset", "credit"} : Goto(t, pc)
      BY <1>5, TurnFacts DEF SettleRead, SettleReset, At, SettlePCs
    <2>2. PICK k : k = [task[t] EXCEPT !.pc = pc]
      OBVIOUS
    <2>3. k.x = p /\ k.pc = pc /\ k.settle = task[t].settle /\ task' = [task EXCEPT ![t] = k]
      BY <2>1, <2>2, TurnFacts DEF TaskRecords, Goto
    <2>4. task[t].pc \in SettlePCs /\ task[t].pc \in RestPCs
      BY <1>5 DEF SettleRead, SettleReset, At, SettlePCs, RestPCs
    <2>5. /\ task[t].settle \in 1..AmountOf[p]
          /\ T[SettleRef(p)] # NoTx /\ T[p] = NoTx /\ T[CreditRef(p)] = NoTx
          /\ Settled(p, T) = task[t].settle
      BY <2>4, TurnFacts DEF TurnOf
    <2>6. TurnOf(p, T, k) /\ Owes(p, k)
      BY <2>3, <2>5 DEF TurnOf, Owes, SettlePCs, RestPCs
    <2> QED
      BY <1>1, <2>3, <2>6
  <1> QED
    BY <1>2, <1>3, <1>4, <1>5

\* What a settlement and a top-up put on the accounts a payment is read from.
LEMMA PaymentEntries ==
    ASSUME NEW x \in Things, NEW s \in Int
    PROVE  /\ SettlementEntries(OwnerOf[x], s)[Payable(x)] = -s
           /\ TopUpEntries(OwnerOf[x], s)[RiderWallet(OwnerOf[x])] = s
           /\ SettlementEntries(OwnerOf[x], s) \in EntrySets
  <1>1. SettlementEntries(OwnerOf[x], s) \in EntrySets
    BY MoveType DEF SettlementEntries
  <1>2. CommissionPayable(OwnerOf[x]) = Payable(x)
    BY DEF Payable
  <1> QED
    BY <1>1, <1>2, PaymentAccounts DEF SettlementEntries, TopUpEntries, Move, NoEntries

LEMMA TurnPosts ==
    ASSUME MoneyOK, PaymentsOK, TurnsOK, Turns, NEW t \in Tasks, NEW p \in Payments, p = task[t].x,
           SettlePost(t) \/ CreditRest(t) \/ CreditAll(t)
    PROVE  TurnOK(p, ledger'.txs, request'[p], task')
  <1> DEFINE T == ledger.txs
  <1>0. PICK T2 : T2 = ledger'.txs
    OBVIOUS
  <1>1. ASSUME NEW ref \in Own(p), NEW e, NEW pc, PostThen(t, ref, e, pc), T[ref] = NoTx
        PROVE  /\ request' = request
               /\ \A o \in Own(p) \ {ref} : T2[o] = T[o]
               /\ \/ /\ Goto(t, pc)
                     /\ T2[ref] = [status |-> "COMPLETED", entries |-> e] /\ T2[ref] # NoTx
                     /\ T2[ref].entries = e
                  \/ Raise(t) /\ ~ CanPost(ledger, ref, e) /\ T2[ref] = T[ref]
    <2>1. ref \in BaseRefs /\ Own(p) \subseteq BaseRefs /\ ~ Exists(ledger, ref) /\ LedgerOK(ledger)
      BY <1>1, TurnFacts
    <2>2. [status |-> "COMPLETED", entries |-> e] # NoTx
      BY DEF NoTx
    <2>3. /\ \A r \in BaseRefs \ {ref} : ledger'.txs[r] = ledger.txs[r]
          /\ UNCHANGED others
          /\ \/ Goto(t, pc) /\ Exists(ledger, ref) /\ ledger'.txs[ref] = ledger.txs[ref]
             \/ /\ Goto(t, pc) /\ ~ Exists(ledger, ref)
                /\ ledger'.txs[ref] = [status |-> "COMPLETED", entries |-> e]
             \/ /\ Raise(t) /\ ~ Exists(ledger, ref) /\ ~ CanPost(ledger, ref, e)
                /\ ledger'.txs[ref] = ledger.txs[ref]
      BY <1>1, <2>1, PostThenTxs
    <2>4. request' = request /\ \A o \in Own(p) \ {ref} : T2[o] = T[o]
      BY <1>0, <2>1, <2>3 DEF others
    <2>5. CASE /\ Goto(t, pc)
               /\ ledger'.txs[ref] = [status |-> "COMPLETED", entries |-> e]
      BY <1>0, <2>2, <2>4, <2>5
    <2>6. CASE /\ Raise(t) /\ ~ CanPost(ledger, ref, e) /\ ledger'.txs[ref] = ledger.txs[ref]
      BY <1>0, <2>4, <2>6
    <2> QED
      BY <2>1, <2>3, <2>5, <2>6
  <1>2. CASE SettlePost(t)
    <2> DEFINE s == task[t].settle
               e == SettlementEntries(OwnerOf[p], s)
    <2>1. /\ \A ref \in Own(p) : T[ref] = NoTx
          /\ s \in 1..AmountOf[p] /\ task[t].fresh
      BY <1>2, TurnFacts DEF SettlePost, At, TurnOf, SettlePCs
    <2>2. PostThen(t, SettleRef(p), e, "settle_read")
      BY <1>2, <2>1 DEF SettlePost
    <2>0. /\ request' = request
          /\ \A o \in Own(p) \ {SettleRef(p)} : T2[o] = T[o]
          /\ \/ Goto(t, "settle_read") /\ T2[SettleRef(p)] # NoTx /\ T2[SettleRef(p)].entries = e
             \/ Raise(t) /\ T2[SettleRef(p)] = T[SettleRef(p)]
      <3> HIDE DEF e
      <3>1. SettleRef(p) \in Own(p) /\ T[SettleRef(p)] = NoTx
        BY <2>1, TurnFacts
      <3> QED
        BY <1>1, <2>2, <3>1
    <2>3. request' = request /\ T2[p] = NoTx /\ T2[CreditRef(p)] = NoTx
      BY <2>0, <2>1, TurnFacts
    <2>4. s \in Int /\ s > 0 /\ s <= AmountOf[p]
      BY <2>1, TurnFacts
    <2>5. CASE /\ Goto(t, "settle_read") /\ T2[SettleRef(p)] # NoTx
               /\ T2[SettleRef(p)].entries = e
      <3>1. PICK k : k = [task[t] EXCEPT !.pc = "settle_read"]
        OBVIOUS
      <3>2. /\ k.x = p /\ k.pc = "settle_read" /\ k.settle = s
            /\ task' = [task EXCEPT ![t] = k]
        BY <2>5, <3>1, TurnFacts DEF TaskRecords, Goto
      <3>3. Settled(p, T2) = s
        BY <2>4, <2>5, TurnFacts, PaymentEntries DEF Settled
      <3>4. TurnOf(p, T2, k) /\ Owes(p, k)
        BY <2>1, <2>3, <2>5, <3>2, <3>3 DEF TurnOf, Owes, SettlePCs, RestPCs
      <3>5. request[p] # "COMPLETED"
        BY <2>1, TurnFacts DEF TurnRows, Whole
      <3>6. TurnRows(p, T2, request'[p])
        BY <2>1, <2>3, <2>5, <3>5 DEF TurnRows
      <3> QED
        BY <1>0, <3>2, <3>4, <3>6, TurnGoes
    <2>6. CASE Raise(t) /\ T2[SettleRef(p)] = NoTx
      <3>1. PICK k : task' = [task EXCEPT ![t] = k] /\ k.pc \in FreePCs
        BY <2>6, CallGoes DEF FreePCs, RestingPCs
      <3>2. TurnOf(p, T2, k)
        BY <3>1 DEF TurnOf, FreePCs, RestingPCs, SettlePCs, RestPCs
      <3>3. TurnRows(p, T2, request'[p])
        BY <2>1, <2>3, <2>6, TurnFacts DEF TurnRows, Whole
      <3> QED
        BY <1>0, <2>6, <3>1, <3>2, <3>3, TurnGoes
    <2> QED
      BY <2>0, <2>1, <2>5, <2>6, TurnFacts
  <1>3. ASSUME NEW k, task' = [task EXCEPT ![t] = k], k.pc = "complete", Whole(p, T2),
               TurnRows(p, T2, request'[p])
        PROVE  TurnOK(p, ledger'.txs, request'[p], task')
    <2>1. TurnOf(p, T2, k)
      BY <1>3 DEF TurnOf, SettlePCs, RestPCs
    <2> QED
      BY <1>0, <1>3, <2>1, TurnGoes
  <1>4. CASE CreditAll(t)
    <2> DEFINE e == TopUpEntries(OwnerOf[p], AmountOf[p])
    <2>1. \A ref \in Own(p) : T[ref] = NoTx
      BY <1>4, TurnFacts DEF CreditAll, At, TurnOf
    <2>2. PostThen(t, p, e, "complete")
      BY <1>4 DEF CreditAll
    <2>3. CanPost(ledger, p, e)
      BY <2>1, TurnFacts, TopUpCanPost
    <2>4. /\ request' = request /\ Goto(t, "complete")
          /\ T2[p] # NoTx /\ T2[p].entries = e
          /\ T2[SettleRef(p)] = NoTx /\ T2[CreditRef(p)] = NoTx
      <3> HIDE DEF e
      <3>1. p \in Own(p) /\ T[p] = NoTx
        BY <2>1, TurnFacts
      <3>2. /\ request' = request
            /\ \A o \in Own(p) \ {p} : T2[o] = T[o]
            /\ Goto(t, "complete") /\ T2[p] # NoTx /\ T2[p].entries = e
        BY <1>1, <2>2, <2>3, <3>1
      <3> QED
        BY <2>1, <3>2, TurnFacts
    <2>5. PICK k : task' = [task EXCEPT ![t] = k] /\ k.pc = "complete"
      BY <2>4, CallGoes
    <2>6. Whole(p, T2) /\ TurnRows(p, T2, request'[p])
      BY <2>4 DEF Whole, TurnRows
    <2> QED
      BY <1>3, <2>5, <2>6
  <1>5. CASE CreditRest(t)
    <2> DEFINE s == task[t].settle
               e == TopUpEntries(OwnerOf[p], AmountOf[p] - s)
    <2>1. /\ T[SettleRef(p)] # NoTx /\ T[p] = NoTx /\ T[CreditRef(p)] = NoTx
          /\ Settled(p, T) = s /\ s \in 1..AmountOf[p]
      BY <1>5, TurnFacts DEF CreditRest, At, TurnOf, RestPCs
    <2>2. PICK z \in 1..AmountOf[p] : T[SettleRef(p)].entries = SettlementEntries(OwnerOf[p], z)
      BY <2>1, TurnFacts DEF TurnRows
    <2>3. z = s /\ s \in Nat /\ s <= AmountOf[p] /\ z \in Int
      BY <2>1, <2>2, TurnFacts, PaymentEntries DEF Settled
    <2>4. CASE AmountOf[p] - s > 0
      <3>1. PostThen(t, CreditRef(p), e, "complete")
        BY <1>5, <2>4 DEF CreditRest
      <3>2. CanPost(ledger, CreditRef(p), e)
        BY <2>1, <2>3, <2>4, TurnFacts, TopUpCanPost
      <3>3. /\ request' = request /\ Goto(t, "complete")
            /\ T2[CreditRef(p)] # NoTx /\ T2[CreditRef(p)].entries = e
            /\ T2[SettleRef(p)] = T[SettleRef(p)] /\ T2[p] = NoTx
        <4> HIDE DEF e
        <4>1. CreditRef(p) \in Own(p) /\ T[CreditRef(p)] = NoTx
          BY <2>1, TurnFacts
        <4>2. /\ request' = request
              /\ \A o \in Own(p) \ {CreditRef(p)} : T2[o] = T[o]
              /\ Goto(t, "complete") /\ T2[CreditRef(p)] # NoTx /\ T2[CreditRef(p)].entries = e
          BY <1>1, <3>1, <3>2, <4>1
        <4> QED
          BY <2>1, <4>2, TurnFacts
      <3>4. PICK k : task' = [task EXCEPT ![t] = k] /\ k.pc = "complete"
        BY <3>3, CallGoes
      <3>5. Whole(p, T2)
        BY <2>1, <3>3 DEF Whole
      <3>6. s < AmountOf[p]
        BY <2>3, <2>4, TurnFacts
      <3>7. TurnRows(p, T2, request'[p])
        BY <2>1, <2>2, <2>3, <3>3, <3>5, <3>6 DEF TurnRows
      <3> QED
        BY <1>3, <3>4, <3>5, <3>7
    <2>5. CASE ~ (AmountOf[p] - s > 0)
      <3>1. Goto(t, "complete") /\ OnlyTask
        BY <1>5, <2>5 DEF CreditRest
      <3>2. UNCHANGED <<ledger, request>>
        BY <3>1 DEF OnlyTask, others
      <3>3. PICK k : task' = [task EXCEPT ![t] = k] /\ k.pc = "complete"
        BY <3>1, CallGoes
      <3>4. s = AmountOf[p]
        BY <2>3, <2>5, TurnFacts
      <3>5. Whole(p, T2)
        BY <1>0, <2>1, <3>2, <3>4 DEF Whole
      <3>6. TurnRows(p, T2, request'[p])
        BY <1>0, <3>2, TurnFacts
      <3> QED
        BY <1>3, <3>3, <3>5, <3>6
    <2> QED
      BY <2>4, <2>5
  <1> QED
    BY <1>2, <1>4, <1>5

LEMMA TurnCompletes ==
    ASSUME MoneyOK, PaymentsOK, TurnsOK, Turns, NEW t \in Tasks, NEW p \in Payments, p = task[t].x,
           CompleteTopUp(t)
    PROVE  TurnOK(p, ledger'.txs, request'[p], task')
  <1>0. /\ UNCHANGED ledger
        /\ request'[p] \in {request[p], "COMPLETED"}
        /\ task' = [task EXCEPT ![t] = Idle]
        /\ request \in [Payments -> {"NONE", "PENDING", "COMPLETED", "FAILED"}]
    BY DEF CompleteTopUp, Return, MoneyOK, MoneyTypeOK
  <1>1. Whole(p, ledger.txs)
    BY TurnFacts DEF CompleteTopUp, At, TurnOf
  <1>2. TurnRows(p, ledger'.txs, request'[p])
    BY <1>0, <1>1, TurnFacts DEF TurnRows
  <1>3. TurnOf(p, ledger'.txs, Idle)
    BY DEF TurnOf, Idle, SettlePCs, RestPCs
  <1>4. Whole(p, ledger'.txs)
    BY <1>0, <1>1
  <1> QED
    BY <1>0, <1>2, <1>3, <1>4, TurnGoes

LEMMA TurnElsewhere ==
    ASSUME MoneyOK, TurnsOK, NEW t \in Tasks, Step(t), NEW p \in Payments, p # task[t].x
    PROVE  TurnOK(p, ledger'.txs, request'[p], task')
  <1>1. /\ task \in [Tasks -> TaskRecords] /\ TurnOK(p, ledger.txs, request[p], task)
        /\ p # Null
    BY AtFacts, KindFacts, ThingFacts DEF TurnsOK
  <1>2. PICK k : task' = [task EXCEPT ![t] = k] /\ k.x \in {Null, task[t].x}
    BY StepElsewhere
  <1>3. /\ request'[p] = request[p]
        /\ \A ref \in Own(p) : ledger'.txs[ref] = ledger.txs[ref]
    BY StepElsewhere DEF Spares
  <1>4. PICK T2, K : T2 = ledger'.txs /\ K = task'
    OBVIOUS
  <1>5. \A u \in Tasks : \/ K[u] = task[u]
                         \/ ~ Owes(p, task[u]) /\ (K[u].x # p \/ K[u].pc \in FreePCs)
    BY <1>1, <1>2, <1>4 DEF Owes
  <1>6. \A ref \in Own(p) : T2[ref] = ledger.txs[ref]
    BY <1>3, <1>4
  <1>7. request[p] \in {request[p], "PENDING", "FAILED"}
    OBVIOUS
  <1>8. TurnOK(p, T2, request[p], K)
    BY <1>1, <1>5, <1>6, <1>7, TurnRests
  <1> QED
    BY <1>3, <1>4, <1>8

LEMMA TurnBegins ==
    ASSUME MoneyOK, TurnsOK, NEW t \in Tasks, Request(t) \/ Webhook(t), NEW p \in Payments
    PROVE  TurnOK(p, ledger'.txs, request'[p], task')
  <1>1. /\ UNCHANGED ledger
        /\ request'[p] \in {request[p], "PENDING", "FAILED"}
    <2>1. request \in [Payments -> {"NONE", "PENDING", "COMPLETED", "FAILED"}]
      BY SMTT(40) DEF MoneyOK, MoneyTypeOK
    <2> QED
      BY <2>1 DEF Request, Webhook, AccrueLook, TopUpRow, TopUpAccount, PollTopUp, WithdrawRead,
         ChargeWebhook, TransferWebhook, OnlyTask, others
  <1>2. ASSUME NEW x, NEW pc, NEW saved, Call(t, pc, x, saved)
        PROVE  \E k : task' = [task EXCEPT ![t] = k] /\ k.x = x /\ k.pc = pc
    <2>1. PICK k : k = [Idle EXCEPT !.pc = pc, !.x = x, !.saved = saved]
      OBVIOUS
    <2>2. k.x = x /\ k.pc = pc
      BY <2>1 DEF Idle
    <2>3. task' = [task EXCEPT ![t] = k]
      BY <1>2, <2>1 DEF Call
    <2> QED
      BY <2>2, <2>3
  <1>3. task[t] = Idle
    BY DEF Request, Webhook, AccrueLook, TopUpRow, TopUpAccount, PollTopUp, WithdrawRead,
       ChargeWebhook, TransferWebhook, Call
  <1>4. ~ Owes(p, task[t])
    BY <1>3 DEF Owes, Idle, RestPCs
  <1>5. \E k : /\ task' = [task EXCEPT ![t] = k]
               /\ k.x # p \/ k.pc \in FreePCs \cup StartPCs
    <2>1. ASSUME NEW x \in Trips, AccrueLook(t, x)
          PROVE  \E k : task' = [task EXCEPT ![t] = k] /\ k.x # p
      <3>1. PICK k : k = [Idle EXCEPT !.pc = "accrue_post", !.x = x, !.fresh = ~ Exists(ledger, x)]
        OBVIOUS
      <3>2. k.x # p /\ task' = [task EXCEPT ![t] = k]
        BY <2>1, <3>1, KindFacts DEF AccrueLook, Idle
      <3> QED
        BY <3>2
    <2>2. ASSUME NEW w \in Withdrawals, WithdrawRead(t, w)
          PROVE  \E k : task' = [task EXCEPT ![t] = k] /\ k.x # p
      <3>1. PICK k : k = [Idle EXCEPT !.pc = "debit", !.x = w,
                                      !.settle = Lesser(Debt(w), AmountOf[w])]
        OBVIOUS
      <3>2. k.x # p /\ task' = [task EXCEPT ![t] = k]
        BY <2>2, <3>1, KindFacts DEF WithdrawRead, Idle
      <3> QED
        BY <3>2
    <2>3. ASSUME NEW q \in Payments, NEW saved \in BOOLEAN,
                 TopUpRow(t, q, saved) \/ TopUpAccount(t, q) \/ PollTopUp(t, q) \/ ChargeWebhook(t, q)
          PROVE  \E k : task' = [task EXCEPT ![t] = k] /\ k.pc \in FreePCs \cup StartPCs
      <3>1. \E pc \in FreePCs \cup StartPCs : \E sv : Call(t, pc, q, sv)
        <4>1. CASE TopUpRow(t, q, saved)
          BY <4>1 DEF TopUpRow, StartPCs
        <4>2. CASE TopUpAccount(t, q)
          <5>1. Call(t, "late_row", q, FALSE)
            BY <4>2 DEF TopUpAccount
          <5> QED
            BY <5>1 DEF FreePCs, RestingPCs
        <4>3. CASE PollTopUp(t, q) \/ ChargeWebhook(t, q)
          <5>1. Call(t, "verify", q, FALSE)
            BY <4>3 DEF PollTopUp, ChargeWebhook
          <5> QED
            BY <5>1 DEF FreePCs, RestingPCs
        <4> QED
          BY <2>3, <4>1, <4>2, <4>3
      <3> QED
        BY <1>2, <3>1
    <2>4. ASSUME NEW w \in Withdrawals, NEW event, TransferWebhook(t, w, event)
          PROVE  \E k : task' = [task EXCEPT ![t] = k] /\ k.x # p
      <3>1. \E pc : Call(t, pc, w, FALSE)
        BY <2>4 DEF TransferWebhook
      <3> QED
        BY ZenonT(60), <1>2, <3>1, KindFacts
    <2> QED
      BY <2>1, <2>2, <2>3, <2>4 DEF Request, Webhook
  <1>6. PICK k : /\ task' = [task EXCEPT ![t] = k]
                 /\ k.x # p \/ k.pc \in FreePCs \cup StartPCs
    BY <1>5
  <1>7. CASE k.x # p \/ k.pc \in FreePCs
    BY <1>1, <1>4, <1>6, <1>7, TurnFrees
  <1>8. CASE k.pc \in StartPCs
    <2>1. task \in [Tasks -> TaskRecords] /\ TurnOK(p, ledger.txs, request[p], task)
      BY AtFacts DEF TurnsOK
    <2>2. PICK r, K : r = request'[p] /\ K = task'
      OBVIOUS
    <2>3. TurnRows(p, ledger.txs, r)
      BY <1>1, <2>1, <2>2 DEF TurnOK, TurnRows
    <2>4. TurnOf(p, ledger.txs, k)
      BY <1>8 DEF TurnOf, StartPCs, SettlePCs, RestPCs
    <2>5. K[t] = k /\ \A u \in Tasks \ {t} : K[u] = task[u]
      BY <1>6, <2>1, <2>2
    <2>6. \A u \in Tasks : TurnOf(p, ledger.txs, K[u])
      BY <2>1, <2>4, <2>5 DEF TurnOK
    <2>7. ledger.txs[SettleRef(p)] # NoTx /\ ~ Whole(p, ledger.txs) => \E u \in Tasks : Owes(p, K[u])
      BY <1>4, <2>1, <2>5 DEF TurnOK
    <2>8. TurnOK(p, ledger.txs, r, K)
      BY <2>3, <2>6, <2>7 DEF TurnOK
    <2> QED
      BY <1>1, <2>2, <2>8
  <1> QED
    BY <1>6, <1>7, <1>8

LEMMA TurnsStepOK ==
    ~ Faults /\ MoneyOK /\ PaymentsOK /\ TurnsOK /\ Turns /\ [MoneyNext]_moneyVars => TurnsOK'
  <1> SUFFICES ASSUME ~ Faults, MoneyOK, PaymentsOK, TurnsOK, Turns, [MoneyNext]_moneyVars,
                      NEW p \in Payments
               PROVE  TurnOK(p, ledger'.txs, request'[p], task')
    BY DEF TurnsOK, TurnOK, TurnRows, TurnOf, Whole, Settled, Owes
  <1>1. ASSUME NEW t \in Tasks, Step(t)
        PROVE  TurnOK(p, ledger'.txs, request'[p], task')
    <2>1. CASE p # task[t].x
      BY <1>1, <2>1, TurnElsewhere
    <2>2. CASE p = task[t].x
      BY <1>1, <2>2, StepOfPayment, TurnKeeps, TurnLooks, TurnPosts, TurnCompletes
    <2> QED
      BY <2>1, <2>2
  <1>2. CASE Gateway \/ UNCHANGED moneyVars
    <2>1. UNCHANGED <<ledger, request, task>>
      BY <1>2 DEF Gateway, GatewayCharges, GatewayTransfers, moneyVars
    <2> QED
      BY <2>1 DEF TurnsOK
  <1> QED
    BY <1>1, <1>2, TurnBegins DEF MoneyNext, Throw, Restart

LEMMA TurnsInitOK == MoneyInit => TurnsOK
  <1> SUFFICES ASSUME MoneyInit, NEW p \in Payments
               PROVE  TurnOK(p, ledger.txs, request[p], task)
    BY DEF TurnsOK
  <1>1. /\ request[p] = "NONE"
        /\ \A t \in Tasks : task[t].pc = "idle"
    BY DEF MoneyInit, Idle
  <1>2. \A ref \in Own(p) : ledger.txs[ref] = NoTx
    BY OwnFacts, RefFacts DEF MoneyInit, LedgerInit, EmptyLedger
  <1>3. ledger.txs[p] = NoTx /\ ledger.txs[SettleRef(p)] = NoTx /\ ledger.txs[CreditRef(p)] = NoTx
    BY <1>2 DEF Own
  <1>4. TurnRows(p, ledger.txs, request[p])
    BY <1>1, <1>3 DEF TurnRows
  <1>5. \A t \in Tasks : TurnOf(p, ledger.txs, task[t])
    BY <1>1 DEF TurnOf, SettlePCs, RestPCs
  <1> QED
    BY <1>3, <1>4, <1>5 DEF TurnOK

\* What the invariant says of the amounts.
LEMMA CreditedAmount ==
    ASSUME PaymentsOK, TurnsOK, NEW p \in Payments
    PROVE  /\ Credited(p) \in Int /\ 0 <= Credited(p) /\ Credited(p) <= AmountOf[p]
           /\ Whole(p, ledger.txs) => Credited(p) = AmountOf[p]
           /\ (\A ref \in Own(p) : ledger.txs[ref] = NoTx) => Credited(p) = 0
  <1> DEFINE T == ledger.txs
             W == RiderWallet(OwnerOf[p])
  <1>1. /\ TurnRows(p, T, request[p])
        /\ p \in Things /\ AmountOf[p] \in Nat
        /\ W \in Accounts /\ Payable(p) \in Accounts
        /\ p \in Own(p) /\ SettleRef(p) \in Own(p) /\ CreditRef(p) \in Own(p)
    BY KindFacts, ThingFacts, PaymentAccounts DEF TurnsOK, TurnOK, Own
  <1>2. /\ \A ref \in Own(p) : T[ref] = NoTx => Entry(ref, W) = 0 /\ Entry(ref, Payable(p)) = 0
    BY <1>1, NoTxEntries DEF Entry
  <1>3. CASE T[p] # NoTx
    <2>1. T[SettleRef(p)] = NoTx /\ T[CreditRef(p)] = NoTx
      BY <1>1, <1>3 DEF TurnRows
    <2>2. /\ Entry(p, W) = AmountOf[p]
          /\ Entry(CreditRef(p), W) = 0
          /\ Entry(SettleRef(p), Payable(p)) = 0
      BY <1>1, <1>2, <1>3, <2>1, PaymentEntries DEF TurnRows, Entry
    <2>3. Credited(p) = AmountOf[p]
      BY <1>1, <2>2 DEF Credited, SettledBy
    <2> QED
      BY <1>1, <1>3, <2>3
  <1>4. CASE T[p] = NoTx /\ T[SettleRef(p)] # NoTx
    <2>1. PICK s \in 1..AmountOf[p] :
             /\ T[SettleRef(p)].entries = SettlementEntries(OwnerOf[p], s)
             /\ T[CreditRef(p)] # NoTx =>
                   /\ s < AmountOf[p]
                   /\ T[CreditRef(p)].entries = TopUpEntries(OwnerOf[p], AmountOf[p] - s)
      BY <1>1, <1>4 DEF TurnRows
    <2>2. s \in Int /\ AmountOf[p] - s \in Int /\ s >= 1 /\ s <= AmountOf[p]
      BY <1>1, <2>1
    <2>3. /\ Entry(p, W) = 0
          /\ Entry(SettleRef(p), Payable(p)) = -s
          /\ T[SettleRef(p)].entries[Payable(p)] = -s
      BY <1>1, <1>2, <1>4, <2>1, <2>2, PaymentEntries DEF Entry
    <2>4. Settled(p, T) = s
      BY <2>2, <2>3 DEF Settled
    <2>5. CASE T[CreditRef(p)] # NoTx
      <3>1. Entry(CreditRef(p), W) = AmountOf[p] - s
        BY <1>1, <2>1, <2>2, <2>5, PaymentEntries DEF Entry
      <3>2. Credited(p) = AmountOf[p]
        BY <1>1, <2>2, <2>3, <3>1 DEF Credited, SettledBy
      <3> QED
        BY <1>1, <1>4, <3>2
    <2>6. CASE T[CreditRef(p)] = NoTx
      <3>1. Entry(CreditRef(p), W) = 0
        BY <1>1, <1>2, <2>6
      <3>2. Credited(p) = s
        BY <1>1, <2>2, <2>3, <3>1 DEF Credited, SettledBy
      <3> QED
        BY <1>1, <1>4, <2>2, <2>4, <2>6, <3>2 DEF Whole
    <2> QED
      BY <2>5, <2>6
  <1>5. CASE T[p] = NoTx /\ T[SettleRef(p)] = NoTx
    <2>1. T[CreditRef(p)] = NoTx
      BY <1>1, <1>5 DEF TurnRows
    <2>2. Credited(p) = 0
      BY <1>1, <1>2, <1>5, <2>1 DEF Credited, SettledBy
    <2> QED
      BY <1>1, <1>5, <2>2 DEF Whole
  <1> QED
    BY <1>3, <1>4, <1>5

\* Without faults, as long as the calls about a payment do not overlap, every
\* payment is credited once, and in full before its request is COMPLETED; the
\* calls of different payments, trips and withdrawals interleave freely.
THEOREM PaymentsCreditedExactly ==
    ASSUME ~ Faults
    PROVE  MoneySpec /\ []Turns => []CreditedExactly
  <1>1. MoneyInit => PaymentsOK /\ TurnsOK
    BY PaymentsInitOK, TurnsInitOK
  <1>2. MoneyOK /\ PaymentsOK /\ TurnsOK /\ Turns /\ [MoneyNext]_moneyVars => TurnsOK'
    BY TurnsStepOK
  <1>3. PaymentsOK /\ TurnsOK => CreditedExactly
    <2> SUFFICES ASSUME PaymentsOK, TurnsOK, NEW p \in Payments
                 PROVE  /\ Credited(p) <= AmountOf[p]
                        /\ request[p] = "COMPLETED" => Credited(p) = AmountOf[p]
      BY DEF CreditedExactly, CreditedExactlyFor
    <2>1. request[p] = "COMPLETED" => Whole(p, ledger.txs)
      BY DEF TurnsOK, TurnOK, TurnRows
    <2> QED
      BY <2>1, CreditedAmount
  <1> QED
    BY <1>1, <1>2, <1>3, MoneyInvariant, PaymentsInvariant, PTL DEF MoneySpec

-----------------------------------------------------------------------------
(* What crossed the gateway.  A posting moves the clearing account and the *)
(* debts together by the money it takes from the gateway or owes to it;    *)
(* the transactions of the payments and withdrawals account for all of it. *)

InOut == Payments \cup Withdrawals

\* The entries a call about a thing of o posts: no other driver's debt moves.
OwnEntries(o) == {e \in EntrySets : \A d \in Owners \ {o} : e[CommissionPayable(d)] = 0}

\* What a posting moves on the clearing account and the debts.
Owing(b)   == [d \in Drivers |-> b[CommissionPayable(d)]]
Through(e) == e[Clearing] + SumFunctionOnSet(Owing(e), Drivers)

Net(T, ref)  == IF T[ref].status = "COMPLETED" THEN Through(T[ref].entries) ELSE 0
NetOf(x, T)  == Net(T, x) + Net(T, SettleRef(x)) + Net(T, CreditRef(x))
Booked(T)    == SumFunctionOnSet([x \in InOut |-> NetOf(x, T)], InOut)

BooksOK(L) ==
    /\ \A x \in Things : \A ref \in Own(x) : L.txs[ref].entries \in OwnEntries(OwnerOf[x])
    /\ Through(L.balance) = Through(Opening) + Booked(L.txs)

\* What a step about x does to the ledger.
Moves(x, L, L2) ==
    \/ L2 = L
    \/ x \in InOut /\ \E ref \in Own(x), e \in OwnEntries(OwnerOf[x]) :
          CanPost(L, ref, e) /\ L2 = Posted(L, ref, e)
    \/ x \in Trips /\ LET e == CashRideEntries(OwnerOf[x], AmountOf[x])
                      IN  CanPost(L, x, e) /\ L2 = Posted(L, x, e)
    \/ x \in Withdrawals /\ \E ref \in {x, SettleRef(x)} :
          CanRefund(L, ref) /\ L2 = Refunded(L, ref)

LEMMA OwnRefs ==
    ASSUME NEW x \in Things
    PROVE  /\ Own(x) \subseteq BaseRefs
           /\ x \in Own(x) /\ SettleRef(x) \in Own(x) /\ CreditRef(x) \in Own(x)
           /\ x # SettleRef(x) /\ x # CreditRef(x) /\ SettleRef(x) # CreditRef(x)
           /\ \A y \in Things : y # x => Own(y) \cap Own(x) = {}
  <1>1. ASSUME NEW y \in Things, y # x
        PROVE  Own(y) \cap Own(x) = {}
    <2>1. y \notin {SettleRef(x), CreditRef(x)} /\ x \notin {SettleRef(y), CreditRef(y)}
      BY ThingFacts
    <2>2. SettleRef(x) # SettleRef(y) /\ CreditRef(x) # CreditRef(y)
      BY <1>1 DEF SettleRef, CreditRef
    <2>3. SettleRef(x) # CreditRef(y) /\ CreditRef(x) # SettleRef(y)
      BY DEF SettleRef, CreditRef
    <2> QED
      BY <1>1, <2>1, <2>2, <2>3 DEF Own
  <1> QED
    BY <1>1, ThingFacts DEF Own

LEMMA DriversFinite == IsFiniteSet(Drivers) /\ Drivers \subseteq Owners
  BY LedgerAssumption, MoneyAssumption, FS_Subset DEF LedgerAssumption, MoneyAssumption

LEMMA InOutFinite == IsFiniteSet(InOut) /\ InOut \subseteq Things
  BY MoneyAssumption, FS_Union DEF MoneyAssumption, InOut, Things

LEMMA AccountFacts ==
    /\ Clearing \in Accounts
    /\ \A o \in Owners : /\ CommissionPayable(o) \in UserAccounts
                         /\ CommissionPayable(o) \in Accounts
                         /\ CommissionPayable(o) \notin {Clearing, Revenue}
                         /\ CommissionPayable(o) \notin {RiderWallet(p) : p \in Owners}
                         /\ CommissionPayable(o) \notin {DriverWallet(p) : p \in Owners}
    /\ \A o, p \in Owners : CommissionPayable(o) = CommissionPayable(p) => o = p
  BY DEF Clearing, Revenue, CommissionPayable, RiderWallet, DriverWallet, Accounts, UserAccounts,
     PlatformAccounts, UserTypes, PlatformTypes

\* The entries of the calls, read on the clearing account and the debts.
LEMMA GatewayEntries ==
    ASSUME NEW o \in Owners, NEW s \in Int
    PROVE  /\ TopUpEntries(o, s) \in OwnEntries(o)
           /\ TopUpEntries(o, s)[Clearing] = -s /\ TopUpEntries(o, s)[CommissionPayable(o)] = 0
           /\ SettlementEntries(o, s) \in OwnEntries(o)
           /\ SettlementEntries(o, s)[Clearing] = 0 /\ SettlementEntries(o, s)[CommissionPayable(o)] = -s
           /\ CashRideEntries(o, s) \in OwnEntries(o)
           /\ CashRideEntries(o, s)[Clearing] = -s /\ CashRideEntries(o, s)[CommissionPayable(o)] = s
           /\ WithdrawalEntries(o, s) \in OwnEntries(o)
           /\ WithdrawalEntries(o, s)[Clearing] = s /\ WithdrawalEntries(o, s)[CommissionPayable(o)] = 0
  <1>1. /\ TopUpEntries(o, s) \in EntrySets /\ SettlementEntries(o, s) \in EntrySets
        /\ CashRideEntries(o, s) \in EntrySets /\ WithdrawalEntries(o, s) \in EntrySets
    BY MoveType DEF TopUpEntries, SettlementEntries, CashRideEntries, WithdrawalEntries
  <1>2. Clearing # Revenue /\ \A p \in Owners : Clearing # RiderWallet(p) /\ Clearing # DriverWallet(p)
    BY DEF Clearing, Revenue, RiderWallet, DriverWallet
  <1>3. \A d \in Owners \ {o} :
           /\ TopUpEntries(o, s)[CommissionPayable(d)] = 0
           /\ SettlementEntries(o, s)[CommissionPayable(d)] = 0
           /\ CashRideEntries(o, s)[CommissionPayable(d)] = 0
           /\ WithdrawalEntries(o, s)[CommissionPayable(d)] = 0
    BY AccountFacts, MoveElsewhere DEF TopUpEntries, SettlementEntries, CashRideEntries, WithdrawalEntries
  <1>4. /\ TopUpEntries(o, s)[Clearing] = -s /\ TopUpEntries(o, s)[CommissionPayable(o)] = 0
        /\ SettlementEntries(o, s)[Clearing] = 0 /\ SettlementEntries(o, s)[CommissionPayable(o)] = -s
        /\ CashRideEntries(o, s)[Clearing] = -s /\ CashRideEntries(o, s)[CommissionPayable(o)] = s
        /\ WithdrawalEntries(o, s)[Clearing] = s /\ WithdrawalEntries(o, s)[CommissionPayable(o)] = 0
    BY <1>2, AccountFacts
       DEF Move, NoEntries, TopUpEntries, SettlementEntries, CashRideEntries, WithdrawalEntries
  <1> QED
    BY <1>1, <1>3, <1>4 DEF OwnEntries

LEMMA NoEntriesOwn ==
    ASSUME NEW o
    PROVE  NoEntries \in OwnEntries(o)
  BY AccountFacts, NoEntriesType DEF OwnEntries, NoEntries

LEMMA FlipOwn ==
    ASSUME NEW o, NEW e \in OwnEntries(o)
    PROVE  Flip(e) \in OwnEntries(o)
  BY AccountFacts, FlipType DEF OwnEntries, Flip

-----------------------------------------------------------------------------
(* Sums over the drivers.                                                  *)

LEMMA OwingInts ==
    ASSUME NEW e \in EntrySets
    PROVE  Ints(Owing(e), Drivers) /\ Through(e) \in Int /\ e[Clearing] \in Int
           /\ SumFunctionOnSet(Owing(e), Drivers) \in Int
  <1>1. Ints(Owing(e), Drivers) /\ e[Clearing] \in Int
    BY AccountFacts, DriversFinite DEF Ints, Owing, EntrySets
  <1>2. SumFunctionOnSet(Owing(e), Drivers) \in Int
    BY <1>1, DriversFinite, SumInt
  <1> QED
    BY <1>1, <1>2 DEF Through

LEMMA ThroughOwn ==
    ASSUME NEW o \in Owners, NEW e \in OwnEntries(o)
    PROVE  /\ o \in Drivers => Through(e) = e[Clearing] + e[CommissionPayable(o)]
           /\ o \notin Drivers => Through(e) = e[Clearing]
  <1>1. /\ e \in EntrySets /\ e[Clearing] \in Int
        /\ \A d \in Drivers : d # o => Owing(e)[d] = 0
    BY DriversFinite, OwingInts DEF OwnEntries, Owing
  <1>2. CASE o \in Drivers
    <2>1. Owing(e)[o] = e[CommissionPayable(o)] /\ Owing(e)[o] \in Int
      BY <1>1, <1>2, OwingInts DEF Owing, Ints
    <2>2. SumFunctionOnSet(Owing(e), Drivers) = Owing(e)[o]
      BY <1>1, <1>2, <2>1, DriversFinite, SumOne
    <2> QED
      BY <1>2, <2>1, <2>2 DEF Through
  <1>3. CASE o \notin Drivers
    <2>1. SumFunctionOnSet(Owing(e), Drivers) = 0
      BY <1>1, <1>3, DriversFinite, SumZero
    <2> QED
      BY <1>1, <1>3, <2>1 DEF Through
  <1> QED
    BY <1>2, <1>3

LEMMA ThroughFlip ==
    ASSUME NEW o \in Drivers, NEW e \in OwnEntries(o)
    PROVE  Through(Flip(e)) = -Through(e)
  <1>1. o \in Owners /\ Flip(e) \in OwnEntries(o) /\ e \in EntrySets
    BY DriversFinite, FlipOwn DEF OwnEntries
  <1>2. /\ Flip(e)[Clearing] = -e[Clearing] /\ Flip(e)[CommissionPayable(o)] = -e[CommissionPayable(o)]
        /\ e[Clearing] \in Int /\ e[CommissionPayable(o)] \in Int
    BY <1>1, AccountFacts DEF Flip, EntrySets
  <1>3. /\ Through(e) = e[Clearing] + e[CommissionPayable(o)]
        /\ Through(Flip(e)) = Flip(e)[Clearing] + Flip(e)[CommissionPayable(o)]
    BY <1>1, ThroughOwn
  <1> QED
    BY <1>2, <1>3

\* A posting moves the balances by what goes through it.
LEMMA ThroughPosted ==
    ASSUME NEW L, LedgerTypeOK(L), NEW ref, NEW e \in EntrySets
    PROVE  Through(Posted(L, ref, e).balance) = Through(L.balance) + Through(e)
  <1> DEFINE b == L.balance
             c == Posted(L, ref, e).balance
  <1>1. b \in EntrySets /\ c = [a \in Accounts |-> b[a] + e[a]]
    BY DEF LedgerTypeOK, EntrySets, Posted
  <1>2. c \in EntrySets /\ \A a \in Accounts : c[a] = b[a] + e[a]
    BY <1>1 DEF EntrySets
  <1> HIDE DEF b, c
  <1>3. \A d \in Drivers : Owing(c)[d] = Owing(b)[d] + Owing(e)[d]
    BY <1>2, AccountFacts, DriversFinite DEF Owing
  <1>4. SumFunctionOnSet(Owing(c), Drivers) =
           SumFunctionOnSet(Owing(b), Drivers) + SumFunctionOnSet(Owing(e), Drivers)
    BY <1>1, <1>3, DriversFinite, OwingInts, SumPlus
  <1>5. c[Clearing] = b[Clearing] + e[Clearing]
    BY <1>2, AccountFacts
  <1>6. Through(c) = Through(b) + Through(e)
    BY <1>1, <1>2, <1>4, <1>5, OwingInts DEF Through
  <1> QED
    BY <1>6 DEF b, c

-----------------------------------------------------------------------------
(* The transactions account for it.                                        *)

TxsTyped(T) == \A ref \in BaseRefs : T[ref].entries \in EntrySets

LEMMA NetInt ==
    ASSUME NEW T, TxsTyped(T), NEW x \in Things
    PROVE  NetOf(x, T) \in Int /\ \A ref \in Own(x) : Net(T, ref) \in Int
  <1>1. \A ref \in Own(x) : Net(T, ref) \in Int
    BY OwnRefs, OwingInts DEF Net, TxsTyped
  <1> QED
    BY <1>1, OwnRefs DEF NetOf

\* One reference of x changes what it accounts for.
LEMMA BookedUpdate ==
    ASSUME NEW T, NEW T2, TxsTyped(T), TxsTyped(T2), NEW x \in InOut, NEW ref \in Own(x),
           \A r \in BaseRefs \ {ref} : T2[r].status = T[r].status /\ T2[r].entries = T[r].entries
    PROVE  Booked(T2) = Booked(T) + Net(T2, ref) - Net(T, ref)
  <1> DEFINE f == [y \in InOut |-> NetOf(y, T)]
             g == [y \in InOut |-> NetOf(y, T2)]
  <1>0. x \in Things /\ \A y \in InOut : y \in Things
    BY InOutFinite
  <1>1. ASSUME NEW y \in Things, NEW r \in Own(y), r # ref
        PROVE  Net(T2, r) = Net(T, r)
    BY <1>1, OwnRefs DEF Net
  <1>2. Ints(f, InOut) /\ g[x] \in Int /\ f[x] \in Int
    BY <1>0, NetInt DEF Ints
  <1>3. ASSUME NEW y \in InOut \ {x} PROVE g[y] = f[y]
    <2>1. y \in Things /\ ref \notin Own(y)
      BY <1>0, <1>3, OwnRefs
    <2>2. /\ Net(T2, y) = Net(T, y) /\ Net(T2, SettleRef(y)) = Net(T, SettleRef(y))
          /\ Net(T2, CreditRef(y)) = Net(T, CreditRef(y))
      BY <1>1, <2>1, OwnRefs
    <2> QED
      BY <2>2 DEF NetOf
  <1>4. g[x] = f[x] + Net(T2, ref) - Net(T, ref)
    <2>1. /\ \A r \in Own(x) : Net(T, r) \in Int /\ Net(T2, r) \in Int
          /\ \A r \in Own(x) : r # ref => Net(T2, r) = Net(T, r)
      BY <1>0, <1>1, NetInt
    <2>2. /\ x \in Own(x) /\ SettleRef(x) \in Own(x) /\ CreditRef(x) \in Own(x)
          /\ x # SettleRef(x) /\ x # CreditRef(x) /\ SettleRef(x) # CreditRef(x)
      BY <1>0, OwnRefs
    <2>3. ref = x \/ ref = SettleRef(x) \/ ref = CreditRef(x)
      BY DEF Own
    <2> QED
      BY <2>1, <2>2, <2>3 DEF NetOf
  <1> HIDE DEF f, g
  <1>5. SumFunctionOnSet(g, InOut) = SumFunctionOnSet(f, InOut) + g[x] - f[x]
    BY <1>2, <1>3, InOutFinite, SumUpdate
  <1>6. SumFunctionOnSet(f, InOut) \in Int
    BY <1>2, InOutFinite, SumInt
  <1>7. Net(T2, ref) \in Int /\ Net(T, ref) \in Int
    BY <1>0, NetInt
  <1>8. SumFunctionOnSet(g, InOut) = SumFunctionOnSet(f, InOut) + Net(T2, ref) - Net(T, ref)
    BY <1>2, <1>4, <1>5, <1>6, <1>7
  <1> QED
    BY <1>8 DEF Booked, f, g

LEMMA BookedSame ==
    ASSUME NEW T, NEW T2, TxsTyped(T),
           \A x \in InOut : \A ref \in Own(x) :
              T2[ref].status = T[ref].status /\ T2[ref].entries = T[ref].entries
    PROVE  Booked(T2) = Booked(T)
  <1> DEFINE f == [y \in InOut |-> NetOf(y, T)]
             g == [y \in InOut |-> NetOf(y, T2)]
  <1>1. ASSUME NEW y \in InOut PROVE g[y] = f[y]
    <2>1. y \in Things
      BY InOutFinite
    <2>2. \A r \in Own(y) : Net(T2, r) = Net(T, r)
      BY DEF Net
    <2> QED
      BY <2>1, <2>2, OwnRefs DEF NetOf
  <1>2. Ints(f, InOut)
    BY InOutFinite, NetInt DEF Ints
  <1> HIDE DEF f, g
  <1>3. SumFunctionOnSet(g, InOut) = SumFunctionOnSet(f, InOut)
    BY <1>1, <1>2, InOutFinite, SumSame
  <1> QED
    BY <1>3 DEF Booked, f, g

LEMMA BookedInt ==
    ASSUME NEW T, TxsTyped(T)
    PROVE  Booked(T) \in Int
  <1> DEFINE f == [y \in InOut |-> NetOf(y, T)]
  <1>1. Ints(f, InOut)
    BY InOutFinite, NetInt DEF Ints
  <1> HIDE DEF f
  <1>2. SumFunctionOnSet(f, InOut) \in Int
    BY <1>1, InOutFinite, SumInt
  <1> QED
    BY <1>2 DEF Booked, f

LEMMA OpeningThrough == Through(Opening) \in Int
  BY LedgerAssumption, OwingInts DEF LedgerAssumption, EntrySets

LEMMA TypedTxs ==
    ASSUME NEW L, LedgerTypeOK(L)
    PROVE  /\ TxsTyped(L.txs)
           /\ \A r \in Refs : L.txs[r].status \in {"NONE", "COMPLETED", "REVERSED"}
  BY RefFacts DEF TxsTyped, LedgerTypeOK, TxRecords

\* A posting of what a call about x posts, and its refund.
LEMMA PostedBooks ==
    ASSUME NEW L, LedgerTypeOK(L), BooksOK(L), NEW x \in InOut, NEW ref \in Own(x),
           NEW e \in OwnEntries(OwnerOf[x]), ~ Exists(L, ref)
    PROVE  BooksOK(Posted(L, ref, e))
  <1> DEFINE P == Posted(L, ref, e)
  <1>1. /\ x \in Things /\ ref \in BaseRefs /\ ref \in Refs /\ e \in EntrySets
        /\ \A r \in BaseRefs : r \in Refs
    BY InOutFinite, OwnRefs, RefFacts DEF OwnEntries
  <1>2. LedgerTypeOK(P)
    BY <1>1, PostedType
  <1>3. /\ P.txs[ref].status = "COMPLETED" /\ P.txs[ref].entries = e
        /\ \A r \in BaseRefs \ {ref} : P.txs[r] = L.txs[r]
    BY <1>1, PostedTxs
  <1>4. Through(P.balance) = Through(L.balance) + Through(e)
    BY <1>1, ThroughPosted
  <1> HIDE DEF P
  <1>5. TxsTyped(L.txs) /\ TxsTyped(P.txs)
    BY <1>2, TypedTxs
  <1>6. Booked(P.txs) = Booked(L.txs) + Net(P.txs, ref) - Net(L.txs, ref)
    BY <1>3, <1>5, BookedUpdate
  <1>7. Net(P.txs, ref) = Through(e) /\ Net(L.txs, ref) = 0 /\ Through(e) \in Int
    BY <1>1, <1>3, OwingInts DEF Net, Exists
  <1>8. Booked(L.txs) \in Int /\ Through(Opening) \in Int
    BY <1>5, BookedInt, OpeningThrough
  <1>9. \A y \in Things : \A r \in Own(y) : P.txs[r].entries \in OwnEntries(OwnerOf[y])
    <2> SUFFICES ASSUME NEW y \in Things, NEW r \in Own(y)
                 PROVE  P.txs[r].entries \in OwnEntries(OwnerOf[y])
      OBVIOUS
    <2>1. CASE r = ref
      <3>1. y = x
        BY <1>1, <2>1, OwnRefs
      <3> QED
        BY <1>3, <2>1, <3>1
    <2>2. CASE r # ref
      BY <1>3, <2>2, OwnRefs DEF BooksOK
    <2> QED
      BY <2>1, <2>2
  <1>10. Through(P.balance) = Through(Opening) + Booked(P.txs)
    BY <1>4, <1>6, <1>7, <1>8 DEF BooksOK
  <1> QED
    BY <1>9, <1>10 DEF BooksOK, P

LEMMA CashBooks ==
    ASSUME NEW L, LedgerTypeOK(L), BooksOK(L), NEW x \in Trips,
           ~ Exists(L, x)
    PROVE  BooksOK(Posted(L, x, CashRideEntries(OwnerOf[x], AmountOf[x])))
  <1> DEFINE e == CashRideEntries(OwnerOf[x], AmountOf[x])
             P == Posted(L, x, e)
  <1>1. /\ x \in Things /\ x \in BaseRefs /\ x \in Refs /\ x \in Own(x)
        /\ OwnerOf[x] \in Drivers /\ OwnerOf[x] \in Owners /\ AmountOf[x] \in Int
        /\ \A r \in BaseRefs : r \in Refs
    BY KindFacts, ThingFacts, OwnRefs, RefFacts
  <1>2. /\ e \in OwnEntries(OwnerOf[x]) /\ e \in EntrySets
        /\ e[Clearing] = -AmountOf[x] /\ e[CommissionPayable(OwnerOf[x])] = AmountOf[x]
    BY <1>1, GatewayEntries DEF OwnEntries
  <1> HIDE DEF e
  <1>3. Through(e) = 0
    BY <1>1, <1>2, ThroughOwn
  <1>4. /\ P.txs[x].entries = e
        /\ \A r \in BaseRefs \ {x} : P.txs[r] = L.txs[r]
    BY <1>1, <1>2, PostedTxs
  <1>5. Through(P.balance) = Through(L.balance) + 0
    BY <1>2, <1>3, ThroughPosted
  <1> HIDE DEF P
  <1>6. \A y \in InOut : \A r \in Own(y) : P.txs[r] = L.txs[r]
    BY <1>1, <1>4, InOutFinite, OwnRefs, KindFacts DEF InOut
  <1>7. TxsTyped(L.txs)
    BY TypedTxs
  <1>8. Booked(P.txs) = Booked(L.txs)
    BY <1>6, <1>7, BookedSame
  <1>9. Booked(L.txs) \in Int /\ Through(Opening) \in Int
    BY <1>7, BookedInt, OpeningThrough
  <1>10. \A y \in Things : \A r \in Own(y) : P.txs[r].entries \in OwnEntries(OwnerOf[y])
    <2> SUFFICES ASSUME NEW y \in Things, NEW r \in Own(y)
                 PROVE  P.txs[r].entries \in OwnEntries(OwnerOf[y])
      OBVIOUS
    <2>1. CASE r = x
      <3>1. y = x
        BY <1>1, <2>1, OwnRefs
      <3> QED
        BY <1>2, <1>4, <2>1, <3>1
    <2>2. CASE r # x
      BY <1>4, <2>2, OwnRefs DEF BooksOK
    <2> QED
      BY <2>1, <2>2
  <1>11. Through(P.balance) = Through(Opening) + Booked(P.txs)
    BY <1>5, <1>8, <1>9 DEF BooksOK
  <1> QED
    BY <1>10, <1>11 DEF BooksOK, P, e

LEMMA RefundedBooks ==
    ASSUME NEW L, LedgerTypeOK(L), BooksOK(L), NEW x \in Withdrawals, NEW ref \in Own(x),
           CanRefund(L, ref)
    PROVE  BooksOK(Refunded(L, ref))
  <1> DEFINE e == L.txs[ref].entries
             R == Refunded(L, ref)
  <1>1. /\ x \in Things /\ x \in InOut /\ ref \in BaseRefs /\ ref \in Refs
        /\ OwnerOf[x] \in Drivers
        /\ RefundRef(ref) \in Refs /\ RefundRef(ref) # ref
        /\ \A r \in BaseRefs : r \in Refs /\ r # RefundRef(ref)
    BY KindFacts, OwnRefs, RefFacts DEF InOut
  <1>2. e \in OwnEntries(OwnerOf[x]) /\ Flip(e) \in EntrySets /\ e \in EntrySets
    BY <1>1, FlipType DEF BooksOK, OwnEntries
  <1>3. R.balance = Posted(L, RefundRef(ref), Flip(e)).balance
    BY DEF Refunded, Posted
  <1>4. /\ \A r \in BaseRefs \ {ref} : R.txs[r] = L.txs[r]
        /\ R.txs[ref] = [L.txs[ref] EXCEPT !.status = "REVERSED"]
    BY <1>1, RefundedTxs
  <1>5. L.txs[ref] \in TxRecords /\ L.txs[ref].status = "COMPLETED"
    BY <1>1 DEF LedgerTypeOK, CanRefund
  <1>6. R.txs[ref].status = "REVERSED" /\ R.txs[ref].entries = e
    BY <1>4, <1>5 DEF TxRecords
  <1>7. TxsTyped(L.txs)
    BY TypedTxs
  <1> HIDE DEF R
  <1>8. TxsTyped(R.txs)
    BY <1>2, <1>4, <1>6, <1>7 DEF TxsTyped
  <1>9. Through(R.balance) = Through(L.balance) + Through(Flip(e))
    BY <1>2, <1>3, ThroughPosted
  <1>10. Through(Flip(e)) = -Through(e) /\ Through(e) \in Int
    BY <1>1, <1>2, ThroughFlip, OwingInts
  <1>11. Booked(R.txs) = Booked(L.txs) + Net(R.txs, ref) - Net(L.txs, ref)
    BY <1>1, <1>4, <1>7, <1>8, BookedUpdate
  <1>12. Net(R.txs, ref) = 0 /\ Net(L.txs, ref) = Through(e)
    BY <1>5, <1>6 DEF Net
  <1>13. Booked(L.txs) \in Int /\ Through(Opening) \in Int
    BY <1>7, BookedInt, OpeningThrough
  <1>14. \A y \in Things : \A r \in Own(y) : R.txs[r].entries \in OwnEntries(OwnerOf[y])
    BY <1>4, <1>6, OwnRefs DEF BooksOK
  <1>15. Through(R.balance) = Through(Opening) + Booked(R.txs)
    BY <1>9, <1>10, <1>11, <1>12, <1>13 DEF BooksOK
  <1> QED
    BY <1>14, <1>15 DEF BooksOK, R

LEMMA MovesBooks ==
    ASSUME NEW L, NEW L2, LedgerTypeOK(L), BooksOK(L), NEW x \in Things, Moves(x, L, L2)
    PROVE  BooksOK(L2)
  BY PostedBooks, CashBooks, RefundedBooks, OwnRefs DEF Moves, CanPost

LEMMA InitBooks ==
    BooksOK(EmptyLedger)
  <1> DEFINE L == EmptyLedger
  <1>1. /\ L.balance = Opening
        /\ \A r \in BaseRefs : L.txs[r] = NoTx
    BY RefFacts DEF EmptyLedger
  <1> HIDE DEF L
  <1>2. \A x \in Things : \A r \in Own(x) : L.txs[r] = NoTx
    BY <1>1, OwnRefs
  <1>3. \A x \in InOut : NetOf(x, L.txs) = 0
    <2>1. \A x \in Things : \A r \in Own(x) : Net(L.txs, r) = 0
      BY <1>2 DEF Net, NoTx
    <2> QED
      BY <2>1, OwnRefs, InOutFinite DEF NetOf
  <1>4. Booked(L.txs) = 0
    <2> DEFINE f == [x \in InOut |-> NetOf(x, L.txs)]
    <2>1. \A x \in InOut : f[x] = 0
      BY <1>3
    <2> HIDE DEF f
    <2>2. SumFunctionOnSet(f, InOut) = 0
      BY <2>1, InOutFinite, SumZero
    <2> QED
      BY <2>2 DEF Booked, f
  <1>5. \A x \in Things : \A r \in Own(x) : L.txs[r].entries \in OwnEntries(OwnerOf[x])
    BY <1>2, NoEntriesOwn DEF NoTx
  <1> QED
    BY <1>1, <1>4, <1>5, OpeningThrough DEF BooksOK, L

LEMMA PostThenMoves ==
    ASSUME NEW t, NEW x, NEW ref, NEW e, NEW pc, PostThen(t, ref, e, pc),
           \/ x \in InOut /\ ref \in Own(x) /\ e \in OwnEntries(OwnerOf[x])
           \/ x \in Trips /\ ref = x /\ e = CashRideEntries(OwnerOf[x], AmountOf[x])
    PROVE  Moves(x, ledger, ledger')
  <1>1. ledger' = ledger \/ (CanPost(ledger, ref, e) /\ ledger' = Posted(ledger, ref, e))
    BY DEF PostThen
  <1> QED
    BY <1>1 DEF Moves

\* Every step moves the ledger by what the call is about.
LEMMA StepMoves ==
    ASSUME MoneyOK, NEW t \in Tasks, Step(t) \/ Throw(t)
    PROVE  /\ task[t].x \in Things
           /\ Moves(task[t].x, ledger, ledger')
  <1> DEFINE x == task[t].x
  <1>0. /\ task[t] \in TaskRecords /\ CallOK(task[t])
        /\ task[t].pc \in AccruePCs => x \in Trips
        /\ task[t].pc \in TopUpPCs => x \in Payments
        /\ task[t].pc \in EarlyPCs \cup LatePCs => x \in Withdrawals
        /\ task[t].pc \in SettlePCs => x \in InOut
        /\ task[t].pc # "idle" => x \in Things
        /\ x \in Things => /\ OwnerOf[x] \in Owners /\ AmountOf[x] \in Int
                           /\ x \in Own(x) /\ SettleRef(x) \in Own(x) /\ CreditRef(x) \in Own(x)
    BY AtFacts, ThingFacts, OwnRefs DEF CallOK, InOut
  <1>1. UNCHANGED ledger => Moves(x, ledger, ledger')
    BY DEF Moves
  <1>2. CASE \/ AccrueCount(t) \/ Returned(t) \/ SettleLook(t) \/ SettleRead(t) \/ SettleReset(t)
             \/ TopUpLateRow(t) \/ TopUpCheckout(t) \/ ChargeCard(t) \/ MarkFailed(t)
             \/ Verify(t) \/ LookCredited(t) \/ ReadDebt(t) \/ CompleteTopUp(t)
             \/ WithdrawDeduct(t) \/ WithdrawRow(t) \/ WithdrawSend(t)
             \/ WithdrawFailed(t) \/ WithdrawPaid(t) \/ Throw(t)
    <2>1. UNCHANGED ledger
      BY <1>2 DEF AccrueCount, Returned, SettleLook, SettleRead, SettleReset, TopUpLateRow,
         TopUpCheckout, ChargeCard, MarkFailed, Verify, LookCredited, ReadDebt, CompleteTopUp,
         WithdrawDeduct, WithdrawRow, WithdrawSend, WithdrawFailed, WithdrawPaid, Throw,
         FailPending, OnlyTask
    <2>2. task[t].pc # "idle"
      BY <1>2 DEF AccrueCount, Returned, SettleLook, SettleRead, SettleReset, TopUpLateRow,
         TopUpCheckout, ChargeCard, MarkFailed, Verify, LookCredited, ReadDebt, CompleteTopUp,
         WithdrawDeduct, WithdrawRow, WithdrawSend, WithdrawFailed, WithdrawPaid, Throw, At
    <2> QED
      BY <1>0, <1>1, <2>1, <2>2
  <1>3. CASE AccruePost(t)
    <2>1. task[t].pc = "accrue_post" /\ x \in Trips
      BY <1>0, <1>3 DEF AccruePost, At, AccruePCs
    <2>2. \E pc : PostThen(t, x, CashRideEntries(OwnerOf[x], AmountOf[x]), pc)
      BY <1>3 DEF AccruePost
    <2> QED
      BY <1>0, <2>1, <2>2, PostThenMoves
  <1>4. CASE SettlePost(t)
    <2>1. task[t].pc = "settle_post" /\ x \in InOut /\ x \in Things
      BY <1>0, <1>4 DEF SettlePost, At, SettlePCs
    <2>2. \E pc : PostThen(t, SettleRef(x), SettlementEntries(OwnerOf[x], task[t].settle), pc)
      BY <1>4 DEF SettlePost
    <2>3. SettlementEntries(OwnerOf[x], task[t].settle) \in OwnEntries(OwnerOf[x])
      BY <1>0, <2>1, GatewayEntries DEF TaskRecords
    <2> QED
      BY <1>0, <2>1, <2>2, <2>3, PostThenMoves
  <1>5. CASE CreditRest(t)
    <2>1. task[t].pc = "credit" /\ x \in Payments /\ x \in Things /\ x \in InOut
      BY <1>0, <1>5 DEF CreditRest, At, TopUpPCs, InOut
    <2>2. CASE UNCHANGED ledger
      BY <1>1, <2>1, <2>2
    <2>3. CASE \E pc : PostThen(t, CreditRef(x), TopUpEntries(OwnerOf[x], AmountOf[x] - task[t].settle), pc)
      <3>1. AmountOf[x] - task[t].settle \in Int
        BY <1>0, <2>1 DEF TaskRecords
      <3>2. TopUpEntries(OwnerOf[x], AmountOf[x] - task[t].settle) \in OwnEntries(OwnerOf[x])
        BY <1>0, <2>1, <3>1, GatewayEntries
      <3> QED
        BY <1>0, <2>1, <2>3, <3>2, PostThenMoves
    <2> QED
      BY <1>5, <2>2, <2>3 DEF CreditRest, OnlyTask
  <1>6. CASE CreditAll(t)
    <2>1. task[t].pc = "topup" /\ x \in Payments /\ x \in Things /\ x \in InOut
      BY <1>0, <1>6 DEF CreditAll, At, TopUpPCs, InOut
    <2>2. \E pc : PostThen(t, x, TopUpEntries(OwnerOf[x], AmountOf[x]), pc)
      BY <1>6 DEF CreditAll
    <2>3. TopUpEntries(OwnerOf[x], AmountOf[x]) \in OwnEntries(OwnerOf[x])
      BY <1>0, <2>1, GatewayEntries
    <2> QED
      BY <1>0, <2>1, <2>2, <2>3, PostThenMoves
  <1>7. CASE WithdrawDebit(t)
    <2>1. task[t].pc = "debit" /\ x \in Withdrawals /\ x \in Things /\ x \in InOut
      BY <1>0, <1>7 DEF WithdrawDebit, At, EarlyPCs, InOut
    <2>2. \E pc : PostThen(t, x, WithdrawalEntries(OwnerOf[x], AmountOf[x]), pc)
      BY <1>7 DEF WithdrawDebit
    <2>3. WithdrawalEntries(OwnerOf[x], AmountOf[x]) \in OwnEntries(OwnerOf[x])
      BY <1>0, <2>1, GatewayEntries
    <2> QED
      BY <1>0, <2>1, <2>2, <2>3, PostThenMoves
  <1>8. CASE RefundWithdrawal(t) \/ RefundSettlement(t)
    <2>1. task[t].pc \in {"refund", "refund_settle"} /\ x \in Withdrawals /\ x \in Things
      BY <1>0, <1>8 DEF RefundWithdrawal, RefundSettlement, At, LatePCs
    <2>2. PICK ref \in {x, SettleRef(x)} : \E pc : RefundThen(t, ref, pc)
      BY <1>8 DEF RefundWithdrawal, RefundSettlement
    <2>3. ledger' = ledger \/ (CanRefund(ledger, ref) /\ ledger' = Refunded(ledger, ref))
      BY <2>2 DEF RefundThen
    <2> QED
      BY <1>1, <2>1, <2>3 DEF Moves
  <1> QED
    BY <1>2, <1>3, <1>4, <1>5, <1>6, <1>7, <1>8 DEF Step

LEMMA OtherLedger ==
    ASSUME [MoneyNext]_moneyVars, ~ \E t \in Tasks : Step(t)
    PROVE  UNCHANGED ledger
  BY DEF MoneyNext, moneyVars, Request, Webhook, Throw, Gateway, Restart, GatewayCharges,
     GatewayTransfers, AccrueLook, TopUpRow, TopUpAccount, PollTopUp, WithdrawRead, ChargeWebhook,
     TransferWebhook, OnlyTask

\* Whatever is posted, settled, undone or left half done: what the clearing
\* account and the debts moved together is what the transactions of the
\* payments and the withdrawals that stand took in and paid out.
THEOREM GatewayIsBooked == MoneySpec => []BooksOK(ledger)
  <1>1. MoneyInit => BooksOK(ledger)
    BY InitBooks DEF MoneyInit, LedgerInit
  <1>2. ASSUME MoneyOK, BooksOK(ledger), [MoneyNext]_moneyVars PROVE BooksOK(ledger')
    <2>1. ASSUME NEW t \in Tasks, Step(t) PROVE BooksOK(ledger')
      BY <1>2, <2>1, StepMoves, MovesBooks DEF MoneyOK, LedgerOK
    <2>2. CASE UNCHANGED ledger
      BY <1>2, <2>2 DEF BooksOK
    <2> QED
      BY <1>2, <2>1, <2>2, OtherLedger
  <1>3. BooksOK(ledger') => BooksOK(ledger)'
    BY DEF BooksOK, Through, Owing, Booked, NetOf, Net
  <1> QED
    BY <1>1, <1>2, <1>3, MoneyInvariant, PTL DEF MoneySpec

-----------------------------------------------------------------------------
(* Withdrawals in turn, without faults: what was debited, settled and      *)
(* given back agrees with what the gateway paid out.                       *)

\* Of one owner's trips, payments and withdrawals one call at a time.
OwnTurns ==
    \A t, u \in Tasks :
        task[t].x \in Things /\ task[u].x \in Things /\ OwnerOf[task[t].x] = OwnerOf[task[u].x]
            => t = u

Made(T, ref) == T[ref].status = "COMPLETED"
Undo(T, ref) == T[ref].status = "REVERSED"

\* The transactions a withdrawal may have.
Shape(w, T) ==
    /\ \/ T[w] = NoTx
       \/ (Made(T, w) \/ Undo(T, w)) /\ T[w].entries = WithdrawalEntries(OwnerOf[w], AmountOf[w])
    /\ \/ T[SettleRef(w)] = NoTx
       \/ /\ Made(T, SettleRef(w)) \/ Undo(T, SettleRef(w))
          /\ \E s \in 1..AmountOf[w] :
                T[SettleRef(w)].entries = SettlementEntries(OwnerOf[w], s)
    /\ T[CreditRef(w)] = NoTx

\* s of it was settled.
Taken(w, T, s) ==
    IF s = 0 THEN T[SettleRef(w)] = NoTx
    ELSE Made(T, SettleRef(w)) /\ T[SettleRef(w)].entries = SettlementEntries(OwnerOf[w], s)

\* A withdrawal no call is about: untouched, undone, sent, or all settled.
Rest(w, T, g) ==
    \/ g = "none" /\ T[w] = NoTx /\ T[SettleRef(w)] = NoTx
    \/ g \in {"none", "failed"} /\ Undo(T, w) /\ ~ Made(T, SettleRef(w))
    \/ g \in {"accepted", "paid", "failed"} /\ Made(T, w) /\ ~ Undo(T, SettleRef(w))
    \/ g = "none" /\ Made(T, w) /\ Taken(w, T, AmountOf[w])

\* The one call about it; b is what its driver owes.
InTurn(w, T, b, g, k) ==
    /\ k.pc \in EarlyPCs \cup SettlePCs \cup {"send"} => g = "none" /\ k.settle \in 0..AmountOf[w]
    /\ k.pc \in {"debit", "deduct", "settle_look", "settle_post"} =>
          k.settle <= b /\ T[SettleRef(w)] = NoTx
    /\ k.pc = "debit" => T[w] = NoTx
    /\ k.pc \in {"deduct", "row", "send"} \cup SettlePCs => Made(T, w)
    /\ k.pc \in SettlePCs => k.settle > 0
    /\ k.pc = "settle_post" => k.fresh
    /\ k.pc \in {"settle_read", "settle_reset", "row", "send"} => Taken(w, T, k.settle)
    /\ k.pc = "send" => k.settle < AmountOf[w]
    /\ k.pc \in {"refund", "refund_settle", "failed"} => g \in {"none", "failed"}
    /\ k.pc = "refund" => \/ Made(T, w) /\ ~ Undo(T, SettleRef(w))
                          \/ g = "failed" /\ Undo(T, w) /\ ~ Made(T, SettleRef(w))
    /\ k.pc = "refund_settle" => Undo(T, w) /\ Made(T, SettleRef(w))
    /\ k.pc = "failed" => Undo(T, w) /\ ~ Made(T, SettleRef(w))
    /\ k.pc = "paid" => Rest(w, T, g)

SentOK(w, T, b, g, ev, K) ==
    /\ Shape(w, T)
    /\ \A t \in Tasks : K[t].x = w => InTurn(w, T, b, g, K[t])
    /\ (\A t \in Tasks : K[t].x # w) => Rest(w, T, g)
    /\ ev # {} => g \in {"paid", "failed"}
    /\ "failed" \in ev => g = "failed"

SentAllOK ==
    \A w \in Withdrawals :
        SentOK(w, ledger.txs, ledger.balance[Payable(w)], transfer[w], events[w], task)

LEMMA MoveBalanced ==
    ASSUME NEW from \in Accounts, NEW to \in Accounts, from # to, NEW x \in Int, x # 0
    PROVE  Balanced(Move(from, to, x))
  <1> DEFINE e == Move(from, to, x)
  <1>1. /\ e[from] = -x /\ e[to] = x
        /\ \A a \in Accounts : a # from /\ a # to => e[a] = 0
    BY DEF Move, NoEntries
  <1> HIDE DEF e
  <1>2. {a \in Accounts : e[a] # 0} = {from} \cup {to}
    BY <1>1
  <1>3. SumFunctionOnSet(e, {from} \cup {to}) = 0
    <2>1. IsFiniteSet({from}) /\ IsFiniteSet({}) /\ to \notin {from} /\ from \notin {}
      BY FS_Singleton, FS_EmptySet
    <2>2. Ints(e, {from} \cup {to}) /\ Ints(e, {} \cup {from})
      BY <1>1 DEF Ints
    <2>3. SumFunctionOnSet(e, {from} \cup {to}) = e[to] + SumFunctionOnSet(e, {from})
      BY <2>1, <2>2, SumAdd
    <2>4. SumFunctionOnSet(e, {} \cup {from}) = e[from] + SumFunctionOnSet(e, {})
      BY <2>1, <2>2, SumAdd
    <2>5. SumFunctionOnSet(e, {}) = 0 /\ {} \cup {from} = {from}
      BY SumEmpty
    <2> QED
      BY <1>1, <2>3, <2>4, <2>5
  <1> QED
    BY <1>2, <1>3 DEF Balanced, e

\* A settlement of at most the debt goes through.
LEMMA SettlementCanPost ==
    ASSUME NEW L, LedgerTypeOK(L), NEW ref, ~ Exists(L, ref), NEW o \in Owners, NEW s \in Nat, s > 0,
           s <= L.balance[CommissionPayable(o)]
    PROVE  CanPost(L, ref, SettlementEntries(o, s))
  <1> DEFINE e == SettlementEntries(o, s)
             C == CommissionPayable(o)
  <1>1. /\ C \in Accounts /\ Revenue \in Accounts /\ C # Revenue /\ Revenue \notin UserAccounts
        /\ UserAccounts \subseteq Accounts
    BY LedgerAssumption, AccountFacts DEF Revenue, UserAccounts, PlatformAccounts, Accounts,
       PlatformTypes, LedgerAssumption
  <1>2. Balanced(e)
    BY <1>1, MoveBalanced DEF SettlementEntries
  <1>3. e[C] = -s /\ \A a \in UserAccounts : a # C => e[a] = 0
    BY <1>1 DEF SettlementEntries, Move, NoEntries
  <1>4. L.balance[C] \in Int
    BY <1>1 DEF LedgerTypeOK
  <1> HIDE DEF e
  <1>5. Sufficient(L.balance, e)
    BY <1>3, <1>4 DEF Sufficient
  <1> QED
    BY <1>2, <1>5 DEF CanPost, e

\* A move that took from a user's account can be refunded once.
LEMMA MoveCanRefund ==
    ASSUME NEW L, LedgerOK(L), NEW ref \in BaseRefs, L.txs[ref].status = "COMPLETED",
           NEW from \in UserAccounts, NEW to \in PlatformAccounts, NEW x \in Nat, x > 0,
           L.txs[ref].entries = Move(from, to, x)
    PROVE  CanRefund(L, ref)
  <1> DEFINE e == Flip(Move(from, to, x))
  <1>1. /\ from \in Accounts /\ to \in Accounts /\ from # to /\ to \notin UserAccounts
        /\ \A a \in UserAccounts : a \in Accounts
    BY LedgerAssumption DEF UserAccounts, PlatformAccounts, Accounts, LedgerAssumption
  <1> DEFINE m == Move(from, to, x)
             n == Move(from, to, -x)
  <1>7. /\ m[from] = -x /\ m[to] = x /\ n[from] = x /\ n[to] = -x
        /\ \A a \in Accounts : a # from /\ a # to => m[a] = 0 /\ n[a] = 0
    BY <1>1 DEF Move, NoEntries
  <1>8. m \in EntrySets /\ n \in EntrySets /\ e \in EntrySets
    BY MoveType, FlipType
  <1>9. \A a \in Accounts : e[a] = -m[a]
    BY DEF Flip
  <1> HIDE DEF e, m, n
  <1>2. e = n
    <2>1. \A a \in Accounts : e[a] = n[a]
      BY <1>1, <1>7, <1>9
    <2> QED
      BY <1>8, <2>1 DEF EntrySets
  <1>3. Balanced(e)
    BY <1>1, <1>2, MoveBalanced DEF n
  <1>4. e[from] = x /\ \A a \in UserAccounts : a # from => e[a] = 0
    BY <1>1, <1>2, <1>7
  <1>5. Sufficient(L.balance, e)
    BY <1>4 DEF Sufficient
  <1>6. ~ Exists(L, RefundRef(ref))
    BY DEF LedgerOK, RefundMatchesIn
  <1> QED
    BY <1>3, <1>5, <1>6 DEF CanRefund, CanPost, e

LEMMA WithdrawalCanRefund ==
    ASSUME LedgerOK(ledger), NEW w \in Withdrawals, Shape(w, ledger.txs)
    PROVE  /\ Made(ledger.txs, w) => CanRefund(ledger, w)
           /\ Made(ledger.txs, SettleRef(w)) => CanRefund(ledger, SettleRef(w))
  <1>1. /\ w \in Things /\ w \in BaseRefs /\ SettleRef(w) \in BaseRefs /\ OwnerOf[w] \in Owners
        /\ AmountOf[w] \in Nat /\ AmountOf[w] > 0
    BY KindFacts, ThingFacts
  <1>2. /\ DriverWallet(OwnerOf[w]) \in UserAccounts /\ CommissionPayable(OwnerOf[w]) \in UserAccounts
        /\ Clearing \in PlatformAccounts /\ Revenue \in PlatformAccounts
    BY <1>1 DEF DriverWallet, CommissionPayable, Clearing, Revenue, UserAccounts, PlatformAccounts,
       UserTypes, PlatformTypes
  <1>3. ASSUME Made(ledger.txs, w) PROVE CanRefund(ledger, w)
    <2>1. ledger.txs[w].entries = WithdrawalEntries(OwnerOf[w], AmountOf[w])
      BY <1>3 DEF Shape, Made, NoTx
    <2> QED
      BY <1>1, <1>2, <1>3, <2>1, MoveCanRefund DEF WithdrawalEntries, Made
  <1>4. ASSUME Made(ledger.txs, SettleRef(w)) PROVE CanRefund(ledger, SettleRef(w))
    <2>1. PICK s \in 1..AmountOf[w] :
             ledger.txs[SettleRef(w)].entries = SettlementEntries(OwnerOf[w], s)
      BY <1>4 DEF Shape, Made, NoTx
    <2>2. s \in Nat /\ s > 0
      BY <1>1, <2>1
    <2> QED
      BY <1>1, <1>2, <1>4, <2>1, <2>2, MoveCanRefund DEF SettlementEntries, Made
  <1> QED
    BY <1>3, <1>4

\* A step about x leaves the transactions of other things and the debts of
\* other drivers alone.
LEMMA MovesSpare ==
    ASSUME NEW L, NEW L2, LedgerTypeOK(L), BooksOK(L), NEW x \in Things, Moves(x, L, L2),
           NEW w \in Things, w # x
    PROVE  /\ \A ref \in Own(w) : L2.txs[ref] = L.txs[ref]
           /\ OwnerOf[w] # OwnerOf[x] => L2.balance[Payable(w)] = L.balance[Payable(w)]
  <1>0. /\ Own(x) \subseteq BaseRefs /\ Own(w) \subseteq BaseRefs /\ Own(w) \cap Own(x) = {}
        /\ x \in Own(x) /\ SettleRef(x) \in Own(x)
        /\ OwnerOf[w] \in Owners /\ OwnerOf[x] \in Owners /\ AmountOf[x] \in Int
        /\ Payable(w) \in Accounts /\ Payable(w) = CommissionPayable(OwnerOf[w])
    BY OwnRefs, ThingFacts, AccountFacts DEF Payable
  <1>1. ASSUME NEW ref \in Refs, NEW e \in OwnEntries(OwnerOf[x]), ref \notin Own(w)
        PROVE  /\ \A r \in Own(w) : Posted(L, ref, e).txs[r] = L.txs[r]
               /\ OwnerOf[w] # OwnerOf[x] =>
                     Posted(L, ref, e).balance[Payable(w)] = L.balance[Payable(w)]
    <2>1. e \in EntrySets /\ (OwnerOf[w] # OwnerOf[x] => e[Payable(w)] = 0)
      BY <1>0 DEF OwnEntries
    <2>2. \A r \in Own(w) : Posted(L, ref, e).txs[r] = L.txs[r]
      BY <1>0, <1>1, <2>1, RefFacts, PostedTxs
    <2>3. Posted(L, ref, e).balance[Payable(w)] = L.balance[Payable(w)] + e[Payable(w)]
      BY <1>0 DEF Posted
    <2>4. L.balance[Payable(w)] \in Int
      BY <1>0 DEF LedgerTypeOK
    <2> QED
      BY <2>1, <2>2, <2>3, <2>4
  <1>2. ASSUME NEW ref \in Own(x), NEW e \in OwnEntries(OwnerOf[x]), L2 = Posted(L, ref, e)
        PROVE  /\ \A r \in Own(w) : L2.txs[r] = L.txs[r]
               /\ OwnerOf[w] # OwnerOf[x] => L2.balance[Payable(w)] = L.balance[Payable(w)]
    BY <1>0, <1>1, <1>2, RefFacts
  <1>3. CASE x \in Trips /\ L2 = Posted(L, x, CashRideEntries(OwnerOf[x], AmountOf[x]))
    BY <1>0, <1>2, <1>3, GatewayEntries
  <1>4. ASSUME NEW ref \in Own(x), CanRefund(L, ref), L2 = Refunded(L, ref)
        PROVE  /\ \A r \in Own(w) : L2.txs[r] = L.txs[r]
               /\ OwnerOf[w] # OwnerOf[x] => L2.balance[Payable(w)] = L.balance[Payable(w)]
    <2> DEFINE e == Flip(L.txs[ref].entries)
    <2>1. /\ ref \in BaseRefs /\ RefundRef(ref) \in Refs /\ RefundRef(ref) \notin Own(w)
          /\ \A r \in Own(w) : r \in Refs \ {ref, RefundRef(ref)}
      BY <1>0, RefFacts
    <2>2. e \in OwnEntries(OwnerOf[x])
      BY FlipOwn DEF BooksOK
    <2>3. \A r \in Own(w) : L2.txs[r] = L.txs[r]
      <3>1. LedgerTypeOK(L) /\ ref \in Refs
        BY <1>0, <2>1, RefFacts
      <3>2. \A r \in Refs \ {ref, RefundRef(ref)} : Refunded(L, ref).txs[r] = L.txs[r]
        BY <1>4, <2>1, <3>1, RefundedTxs
      <3> HIDE DEF e
      <3> QED
        BY <1>4, <2>1, <3>2
    <2>4. L2.balance = Posted(L, RefundRef(ref), e).balance
      BY <1>4 DEF Refunded, Posted
    <2> HIDE DEF e
    <2> QED
      BY <1>1, <2>1, <2>2, <2>3, <2>4
  <1> QED
    BY <1>0, <1>2, <1>3, <1>4 DEF Moves

\* It leaves the gateway's transfers of others alone too.
LEMMA TransfersSpare ==
    ASSUME MoneyOK, NEW t \in Tasks, Step(t)
    PROVE  /\ UNCHANGED events
           /\ \A w \in Withdrawals : w # task[t].x \/ ~ WithdrawSend(t) => transfer'[w] = transfer[w]
  <1>0. transfer \in [Withdrawals -> {"none", "accepted", "paid", "failed"}]
    BY DEF MoneyOK, MoneyTypeOK
  <1>1. CASE WithdrawSend(t)
    BY <1>0, <1>1 DEF WithdrawSend
  <1>2. CASE /\ ~ WithdrawSend(t)
             /\ UNCHANGED <<transfer, events>>
    BY <1>2
  <1> QED
    BY <1>1, <1>2 DEF Step, AccruePost, AccrueCount, Returned, SettleLook, SettlePost, SettleRead,
       SettleReset, TopUpLateRow, TopUpCheckout, ChargeCard, MarkFailed, Verify, LookCredited,
       ReadDebt, CreditRest, CreditAll, CompleteTopUp, WithdrawDebit, WithdrawDeduct, WithdrawRow,
       RefundWithdrawal, RefundSettlement, WithdrawFailed, WithdrawPaid, FailPending, PostThen,
       RefundThen, OnlyTask, others

\* A call about another thing.
LEMMA SentRests ==
    ASSUME NEW w \in Withdrawals, NEW T, NEW T2, NEW b, NEW b2, NEW g, NEW ev, NEW K, NEW K2,
           SentOK(w, T, b, g, ev, K),
           \A ref \in Own(w) : T2[ref] = T[ref],
           b2 = b \/ \A t \in Tasks : K[t].x # w,
           \A t \in Tasks : K2[t] = K[t] \/ (K[t].x # w /\ K2[t].x # w)
    PROVE  SentOK(w, T2, b2, g, ev, K2)
  <1>1. /\ T2[w] = T[w] /\ T2[SettleRef(w)] = T[SettleRef(w)] /\ T2[CreditRef(w)] = T[CreditRef(w)]
    BY DEF Own
  <1>2. Shape(w, T2) /\ (Rest(w, T, g) <=> Rest(w, T2, g))
    BY <1>1 DEF SentOK, Shape, Rest, Made, Undo, Taken
  <1>3. ASSUME NEW t \in Tasks, K2[t].x = w PROVE InTurn(w, T2, b2, g, K2[t])
    <2>1. K2[t] = K[t] /\ b2 = b /\ InTurn(w, T, b, g, K[t])
      BY <1>3 DEF SentOK
    <2> QED
      BY <1>1, <1>2, <2>1 DEF InTurn, Taken, Made, Undo
  <1>4. ASSUME \A t \in Tasks : K2[t].x # w PROVE Rest(w, T2, g)
    <2>1. \A t \in Tasks : K[t].x # w
      BY <1>4
    <2> QED
      BY <1>2, <2>1 DEF SentOK
  <1> QED
    BY <1>2, <1>3, <1>4 DEF SentOK

LEMMA SentElsewhere ==
    ASSUME MoneyOK, BooksOK(ledger), SentAllOK, OwnTurns, NEW t \in Tasks, Step(t),
           NEW w \in Withdrawals, w # task[t].x
    PROVE  SentOK(w, ledger'.txs, ledger'.balance[Payable(w)], transfer'[w], events'[w], task')
  <1>1. PICK T2, b2, K : T2 = ledger'.txs /\ b2 = ledger'.balance[Payable(w)] /\ K = task'
    OBVIOUS
  <1>2. /\ SentOK(w, ledger.txs, ledger.balance[Payable(w)], transfer[w], events[w], task)
        /\ task[t].x \in Things /\ Moves(task[t].x, ledger, ledger') /\ w \in Things
        /\ LedgerTypeOK(ledger) /\ task \in [Tasks -> TaskRecords] /\ w # Null
    BY StepMoves, KindFacts, ThingFacts DEF SentAllOK, MoneyOK, LedgerOK, MoneyTypeOK
  <1>3. /\ \A ref \in Own(w) : T2[ref] = ledger.txs[ref]
        /\ OwnerOf[w] # OwnerOf[task[t].x] => b2 = ledger.balance[Payable(w)]
    BY <1>1, <1>2, MovesSpare
  <1>4. OwnerOf[w] = OwnerOf[task[t].x] => \A u \in Tasks : task[u].x # w
    BY <1>2 DEF OwnTurns
  <1>5. \A u \in Tasks : K[u] = task[u] \/ (task[u].x # w /\ K[u].x # w)
    <2>1. PICK k : task' = [task EXCEPT ![t] = k] /\ k.x \in {Null, task[t].x}
      BY StepElsewhere
    <2>2. k.x # w /\ task[t].x # w
      BY <1>2, <2>1
    <2> QED
      BY <1>1, <1>2, <2>1, <2>2
  <1>6. SentOK(w, T2, b2, transfer[w], events[w], K)
    BY <1>2, <1>3, <1>4, <1>5, SentRests
  <1>7. transfer'[w] = transfer[w] /\ events'[w] = events[w]
    BY TransfersSpare
  <1> QED
    BY <1>1, <1>6, <1>7

\* The one call about w moves, or ends.
LEMMA SentGoes ==
    ASSUME MoneyOK, SentAllOK, OwnTurns, NEW t \in Tasks, NEW w \in Withdrawals, w = task[t].x,
           NEW k, task' = [task EXCEPT ![t] = k], UNCHANGED events,
           events[w] = {} \/ transfer'[w] = transfer[w],
           Shape(w, ledger'.txs),
           \/ k.x = w /\ InTurn(w, ledger'.txs, ledger'.balance[Payable(w)], transfer'[w], k)
           \/ k.x # w /\ Rest(w, ledger'.txs, transfer'[w])
    PROVE  SentOK(w, ledger'.txs, ledger'.balance[Payable(w)], transfer'[w], events'[w], task')
  <1>1. PICK T, b, g, K : /\ T = ledger'.txs /\ b = ledger'.balance[Payable(w)]
                          /\ g = transfer'[w] /\ K = task'
    OBVIOUS
  <1>2. task \in [Tasks -> TaskRecords] /\ w \in Things
    BY AtFacts, KindFacts
  <1>3. K[t] = k /\ \A u \in Tasks \ {t} : K[u].x # w
    BY <1>1, <1>2 DEF OwnTurns
  <1>4. /\ events[w] # {} => g \in {"paid", "failed"}
        /\ "failed" \in events[w] => g = "failed"
    BY <1>1 DEF SentAllOK, SentOK
  <1>5. SentOK(w, T, b, g, events[w], K)
    BY <1>1, <1>3, <1>4 DEF SentOK
  <1> QED
    BY <1>1, <1>5

\* What is known of the withdrawal call t is about.
LEMMA SentFacts ==
    ASSUME MoneyOK, SentAllOK, NEW t \in Tasks, NEW w \in Withdrawals, w = task[t].x
    PROVE  /\ Shape(w, ledger.txs)
           /\ InTurn(w, ledger.txs, ledger.balance[Payable(w)], transfer[w], task[t])
           /\ transfer[w] = "none" => events[w] = {}
           /\ task[t] \in TaskRecords /\ LedgerOK(ledger) /\ LedgerTypeOK(ledger)
           /\ w \in BaseRefs /\ SettleRef(w) \in BaseRefs /\ CreditRef(w) \in BaseRefs
           /\ w # SettleRef(w) /\ w # CreditRef(w) /\ SettleRef(w) # CreditRef(w)
           /\ OwnerOf[w] \in Owners /\ AmountOf[w] \in Nat /\ AmountOf[w] > 0
           /\ Payable(w) \in Accounts /\ Payable(w) = CommissionPayable(OwnerOf[w])
           /\ ledger.balance[Payable(w)] \in Int
           /\ task[t].pc # "idle" => ~ task[t].saved
           /\ task[t].pc \in SettlePCs => task[t].next = "row"
           /\ \A ref \in {w, SettleRef(w)} : Exists(ledger, ref) <=> ledger.txs[ref] # NoTx
  <1>1. SentOK(w, ledger.txs, ledger.balance[Payable(w)], transfer[w], events[w], task)
    BY DEF SentAllOK
  <1>2. /\ Shape(w, ledger.txs)
        /\ InTurn(w, ledger.txs, ledger.balance[Payable(w)], transfer[w], task[t])
        /\ transfer[w] = "none" => events[w] = {}
    BY <1>1 DEF SentOK
  <1>3. /\ task[t] \in TaskRecords /\ LedgerOK(ledger) /\ LedgerTypeOK(ledger)
        /\ task[t].pc # "idle" => ~ task[t].saved
        /\ task[t].pc \in SettlePCs => task[t].next = "row"
    BY AtFacts, KindFacts DEF MoneyOK, LedgerOK, CallOK
  <1>4. \A ref \in {w, SettleRef(w)} : Exists(ledger, ref) <=> ledger.txs[ref] # NoTx
    BY <1>2 DEF Shape, Made, Undo, Exists, NoTx
  <1>5. w \in Things
    BY KindFacts
  <1>6. /\ w \in BaseRefs /\ SettleRef(w) \in BaseRefs /\ CreditRef(w) \in BaseRefs
        /\ w # SettleRef(w) /\ w # CreditRef(w) /\ SettleRef(w) # CreditRef(w)
        /\ OwnerOf[w] \in Owners /\ AmountOf[w] \in Nat /\ AmountOf[w] > 0
    BY <1>5, ThingFacts
  <1>7. Payable(w) \in Accounts /\ Payable(w) = CommissionPayable(OwnerOf[w])
    BY <1>6, AccountFacts DEF Payable
  <1>8. ledger.balance[Payable(w)] \in Int
    BY <1>3, <1>7 DEF LedgerTypeOK
  <1> QED
    BY <1>2, <1>3, <1>4, <1>6, <1>7, <1>8

\* The steps that leave the ledger alone.
LEMMA SentReads ==
    ASSUME MoneyOK, SentAllOK, OwnTurns, NEW t \in Tasks, NEW w \in Withdrawals, w = task[t].x,
           SettleLook(t) \/ SettleRead(t) \/ SettleReset(t) \/ WithdrawDeduct(t) \/ WithdrawRow(t)
    PROVE  SentOK(w, ledger'.txs, ledger'.balance[Payable(w)], transfer'[w], events'[w], task')
  <1> DEFINE T == ledger.txs
             b == ledger.balance[Payable(w)]
  <1>1. UNCHANGED <<ledger, transfer, events>>
    BY DEF SettleLook, SettleRead, SettleReset, WithdrawDeduct, WithdrawRow, OnlyTask, others
  <1>2. /\ Shape(w, T) /\ InTurn(w, T, b, transfer[w], task[t]) /\ task[t] \in TaskRecords
        /\ AmountOf[w] \in Nat /\ b \in Int
    BY SentFacts
  <1>3. ASSUME NEW k, task' = [task EXCEPT ![t] = k],
               \/ k.x = w /\ InTurn(w, T, b, transfer[w], k)
               \/ k.x # w /\ Rest(w, T, transfer[w])
        PROVE  SentOK(w, ledger'.txs, ledger'.balance[Payable(w)], transfer'[w], events'[w], task')
    BY <1>1, <1>2, <1>3, SentGoes
  <1> HIDE DEF T, b
  <1>4. CASE SettleLook(t)
    <2>1. PICK k : k = [task[t] EXCEPT !.fresh = ~ Exists(ledger, SettleRef(w)), !.pc = "settle_post"]
      OBVIOUS
    <2>2. task' = [task EXCEPT ![t] = k]
      BY <1>4, <2>1, AtFacts DEF SettleLook
    <2>3. /\ k.x = w /\ k.pc = "settle_post" /\ k.settle = task[t].settle
          /\ k.fresh = ~ Exists(ledger, SettleRef(w)) /\ task[t].pc = "settle_look"
      BY <1>2, <1>4, <2>1 DEF TaskRecords, SettleLook, At
    <2>4. T[SettleRef(w)] = NoTx
      BY <1>2, <2>3 DEF InTurn
    <2>5. k.fresh
      BY <2>3, <2>4, SentFacts DEF T
    <2>6. InTurn(w, T, b, transfer[w], k)
      BY <1>2, <2>3, <2>5 DEF InTurn, EarlyPCs, SettlePCs
    <2> QED
      BY <1>3, <2>2, <2>3, <2>6
  <1>5. CASE SettleRead(t) \/ SettleReset(t)
    <2>1. task[t].pc \in {"settle_read", "settle_reset"} /\ task[t].next = "row"
      BY <1>5, SentFacts DEF SettleRead, SettleReset, At, SettlePCs
    <2>2. PICK pc \in {"settle_reset", "row"} : Goto(t, pc)
      BY <1>5, <2>1 DEF SettleRead, SettleReset
    <2>3. PICK k : k = [task[t] EXCEPT !.pc = pc]
      OBVIOUS
    <2>4. /\ task' = [task EXCEPT ![t] = k]
          /\ k.x = w /\ k.pc = pc /\ k.settle = task[t].settle
      BY <1>2, <2>2, <2>3 DEF TaskRecords, Goto
    <2>5. InTurn(w, T, b, transfer[w], k)
      BY <1>2, <2>1, <2>4 DEF InTurn, EarlyPCs, SettlePCs
    <2> QED
      BY <1>3, <2>4, <2>5
  <1>6. CASE WithdrawDeduct(t)
    <2>1. PICK k : k = [task[t] EXCEPT !.pc = IF task[t].settle > 0 THEN "settle_look" ELSE "row",
                                       !.next = "row"]
      OBVIOUS
    <2>2. task' = [task EXCEPT ![t] = k] /\ task[t].pc = "deduct"
      BY <1>6, <2>1 DEF WithdrawDeduct, At
    <2>3. /\ k.x = w /\ k.settle = task[t].settle
          /\ k.pc = IF task[t].settle > 0 THEN "settle_look" ELSE "row"
      BY <1>2, <2>1 DEF TaskRecords
    <2>4. task[t].settle \in 0..AmountOf[w]
      BY <1>2, <2>2 DEF InTurn, EarlyPCs
    <2>5. InTurn(w, T, b, transfer[w], k)
      <3>1. CASE task[t].settle > 0
        BY <1>2, <2>2, <2>3, <3>1 DEF InTurn, EarlyPCs, SettlePCs
      <3>2. CASE task[t].settle = 0
        BY <1>2, <2>2, <2>3, <3>2 DEF InTurn, EarlyPCs, SettlePCs, Taken
      <3> QED
        BY <1>2, <2>4, <3>1, <3>2
    <2> QED
      BY <1>3, <2>2, <2>3, <2>5
  <1>7. CASE WithdrawRow(t)
    <2>1. task[t].pc = "row"
      BY <1>7 DEF WithdrawRow, At
    <2>2. /\ task[t].settle \in 0..AmountOf[w] /\ Made(T, w) /\ Taken(w, T, task[t].settle)
          /\ transfer[w] = "none"
      BY <1>2, <2>1 DEF InTurn, EarlyPCs
    <2>3. CASE task[t].settle = AmountOf[w]
      <3>1. Return(t)
        BY <1>2, <1>7, <2>3 DEF WithdrawRow, ToSend
      <3>2. PICK k : task' = [task EXCEPT ![t] = k] /\ k = Idle
        BY <3>1 DEF Return
      <3>3. k.x # w /\ Rest(w, T, transfer[w])
        BY <2>2, <2>3, <3>2, KindFacts, ThingFacts DEF Idle, Rest
      <3> QED
        BY <1>3, <3>2, <3>3
    <2>4. CASE task[t].settle # AmountOf[w]
      <3>1. Goto(t, "send") /\ task[t].settle < AmountOf[w]
        BY <1>2, <1>7, <2>2, <2>4 DEF WithdrawRow, ToSend
      <3>2. PICK k : k = [task[t] EXCEPT !.pc = "send"]
        OBVIOUS
      <3>3. /\ task' = [task EXCEPT ![t] = k]
            /\ k.x = w /\ k.pc = "send" /\ k.settle = task[t].settle
        BY <1>2, <3>1, <3>2 DEF TaskRecords, Goto
      <3>4. InTurn(w, T, b, transfer[w], k)
        BY <2>2, <3>1, <3>3 DEF InTurn, EarlyPCs, SettlePCs
      <3> QED
        BY <1>3, <3>3, <3>4
    <2> QED
      BY <2>3, <2>4
  <1> QED
    BY <1>4, <1>5, <1>6, <1>7

\* The debit and the settlement.
LEMMA SentPosts ==
    ASSUME MoneyOK, SentAllOK, OwnTurns, NEW t \in Tasks, NEW w \in Withdrawals, w = task[t].x,
           WithdrawDebit(t) \/ SettlePost(t)
    PROVE  SentOK(w, ledger'.txs, ledger'.balance[Payable(w)], transfer'[w], events'[w], task')
  <1> DEFINE T == ledger.txs
             b == ledger.balance[Payable(w)]
  <1>0. PICK T2, b2 : T2 = ledger'.txs /\ b2 = ledger'.balance[Payable(w)]
    OBVIOUS
  <1>1. /\ UNCHANGED <<transfer, events>>
        /\ task[t].pc # "idle"
    BY DEF WithdrawDebit, SettlePost, PostThen, others, At
  <1>2. /\ Shape(w, T) /\ InTurn(w, T, b, transfer[w], task[t]) /\ task[t] \in TaskRecords
        /\ AmountOf[w] \in Nat /\ AmountOf[w] > 0 /\ b \in Int /\ ~ task[t].saved
        /\ OwnerOf[w] \in Owners
    BY <1>1, SentFacts
  <1>3. ASSUME NEW k, task' = [task EXCEPT ![t] = k], Shape(w, T2),
               \/ k.x = w /\ InTurn(w, T2, b2, transfer[w], k)
               \/ k.x # w /\ Rest(w, T2, transfer[w])
        PROVE  SentOK(w, ledger'.txs, ledger'.balance[Payable(w)], transfer'[w], events'[w], task')
    BY <1>0, <1>1, <1>2, <1>3, SentGoes
  <1>4. ASSUME NEW ref \in {w, SettleRef(w)}, NEW e, NEW pc, PostThen(t, ref, e, pc), ~ Exists(ledger, ref)
        PROVE  /\ \A r \in Own(w) \ {ref} : T2[r] = T[r]
               /\ \/ Goto(t, pc) /\ T2[ref] = [status |-> "COMPLETED", entries |-> e]
                     /\ b2 = b + e[Payable(w)]
                  \/ Return(t) /\ ~ CanPost(ledger, ref, e) /\ T2[ref] = T[ref]
    <2>1. ref \in BaseRefs /\ Own(w) \subseteq BaseRefs /\ LedgerOK(ledger) /\ Payable(w) \in Accounts
      BY SentFacts DEF Own
    <2>2. \A r \in Own(w) \ {ref} : T2[r] = T[r]
      BY <1>0, <1>4, <2>1, PostThenTxs
    <2>3. CASE CanPost(ledger, ref, e) /\ ledger' = Posted(ledger, ref, e) /\ Goto(t, pc)
      <3>1. ref \in DOMAIN ledger.txs
        BY <2>1, RefFacts DEF LedgerOK, LedgerTypeOK
      <3>2. T2[ref] = [status |-> "COMPLETED", entries |-> e] /\ b2 = b + e[Payable(w)]
        BY <1>0, <2>1, <2>3, <3>1 DEF Posted
      <3> QED
        BY <2>2, <2>3, <3>2
    <2>4. CASE ~ CanPost(ledger, ref, e) /\ UNCHANGED ledger /\ Raise(t)
      BY <1>0, <1>2, <2>2, <2>4 DEF Raise
    <2> QED
      BY <1>4, <2>3, <2>4 DEF PostThen
  <1>5. w \in Own(w) /\ SettleRef(w) \in Own(w) /\ CreditRef(w) \in Own(w)
    BY DEF Own
  <1>6. w # SettleRef(w) /\ w # CreditRef(w) /\ SettleRef(w) # CreditRef(w)
    BY SentFacts
  <1>7. CASE WithdrawDebit(t)
    <2> DEFINE e == WithdrawalEntries(OwnerOf[w], AmountOf[w])
    <2>1. task[t].pc = "debit" /\ PostThen(t, w, e, "deduct")
      BY <1>7 DEF WithdrawDebit, At
    <2>2. /\ T[w] = NoTx /\ T[SettleRef(w)] = NoTx /\ T[CreditRef(w)] = NoTx
          /\ transfer[w] = "none" /\ task[t].settle \in 0..AmountOf[w] /\ task[t].settle <= b
      BY <1>2, <2>1 DEF InTurn, EarlyPCs, Shape
    <2>3. ~ Exists(ledger, w)
      BY <2>2, SentFacts
    <2>4. e[Payable(w)] = 0
      BY <1>2, GatewayEntries, SentFacts
    <2> HIDE DEF e, T, b
    <2>5. T2[SettleRef(w)] = NoTx /\ T2[CreditRef(w)] = NoTx
      BY <1>4, <1>5, <1>6, <2>1, <2>2, <2>3
    <2>6. CASE Goto(t, "deduct") /\ T2[w] = [status |-> "COMPLETED", entries |-> e] /\ b2 = b + e[Payable(w)]
      <3>1. PICK k : k = [task[t] EXCEPT !.pc = "deduct"]
        OBVIOUS
      <3>2. /\ task' = [task EXCEPT ![t] = k]
            /\ k.x = w /\ k.pc = "deduct" /\ k.settle = task[t].settle
        BY <1>2, <2>6, <3>1 DEF TaskRecords, Goto
      <3>3. b2 = b
        BY <1>2, <2>4, <2>6
      <3>4. Shape(w, T2) /\ Made(T2, w)
        BY <2>5, <2>6 DEF Shape, Made, e
      <3>5. InTurn(w, T2, b2, transfer[w], k)
        BY <2>2, <2>5, <3>2, <3>3, <3>4 DEF InTurn, EarlyPCs, SettlePCs
      <3> QED
        BY <1>3, <3>2, <3>4, <3>5
    <2>7. CASE Return(t) /\ T2[w] = T[w]
      <3>1. PICK k : task' = [task EXCEPT ![t] = k] /\ k = Idle
        BY <2>7 DEF Return
      <3>2. k.x # w /\ Shape(w, T2) /\ Rest(w, T2, transfer[w])
        BY <2>2, <2>5, <2>7, <3>1, KindFacts, ThingFacts DEF Idle, Rest, Shape
      <3> QED
        BY <1>3, <3>1, <3>2
    <2> QED
      BY <1>4, <2>1, <2>3, <2>6, <2>7
  <1>8. CASE SettlePost(t)
    <2> DEFINE s == task[t].settle
               e == SettlementEntries(OwnerOf[w], s)
    <2>1. task[t].pc = "settle_post"
      BY <1>8 DEF SettlePost, At
    <2>2. /\ T[SettleRef(w)] = NoTx /\ T[CreditRef(w)] = NoTx /\ Made(T, w) /\ task[t].fresh
          /\ transfer[w] = "none" /\ s \in 0..AmountOf[w] /\ s <= b /\ s > 0
      BY <1>2, <2>1 DEF InTurn, SettlePCs, Shape
    <2>3. ~ Exists(ledger, SettleRef(w)) /\ PostThen(t, SettleRef(w), e, "settle_read")
      BY <1>8, <2>2, SentFacts DEF SettlePost
    <2>4. CanPost(ledger, SettleRef(w), e)
      <3>1. s \in Nat /\ b = ledger.balance[CommissionPayable(OwnerOf[w])] /\ LedgerTypeOK(ledger)
        BY <2>2, SentFacts
      <3> QED
        BY <1>2, <2>2, <2>3, <3>1, SettlementCanPost
    <2> HIDE DEF e, T, b
    <2>5. /\ Goto(t, "settle_read") /\ T2[SettleRef(w)] = [status |-> "COMPLETED", entries |-> e]
          /\ T2[w] = T[w] /\ T2[CreditRef(w)] = NoTx
      BY <1>4, <1>5, <1>6, <2>2, <2>3, <2>4
    <2>6. PICK k : k = [task[t] EXCEPT !.pc = "settle_read"]
      OBVIOUS
    <2>7. /\ task' = [task EXCEPT ![t] = k]
          /\ k.x = w /\ k.pc = "settle_read" /\ k.settle = s
      BY <1>2, <2>5, <2>6 DEF TaskRecords, Goto
    <2>8. Made(T2, w) /\ Made(T2, SettleRef(w)) /\ s \in 1..AmountOf[w]
      BY <2>2, <2>5 DEF Made
    <2>9. Shape(w, T2)
      BY <1>2, <2>5, <2>8 DEF Shape, Made, Undo, e
    <2>10. Taken(w, T2, s)
      BY <2>2, <2>5, <2>8 DEF Taken, e
    <2>11. InTurn(w, T2, b2, transfer[w], k)
      BY <2>2, <2>7, <2>8, <2>10 DEF InTurn, EarlyPCs, SettlePCs
    <2> QED
      BY <1>3, <2>7, <2>9, <2>11
  <1> QED
    BY <1>7, <1>8

\* The transfer and what follows it.
LEMMA SentPays ==
    ASSUME ~ Faults, MoneyOK, SentAllOK, OwnTurns, NEW t \in Tasks, NEW w \in Withdrawals, w = task[t].x,
           \/ WithdrawSend(t) \/ RefundWithdrawal(t) \/ RefundSettlement(t)
           \/ WithdrawFailed(t) \/ WithdrawPaid(t)
    PROVE  SentOK(w, ledger'.txs, ledger'.balance[Payable(w)], transfer'[w], events'[w], task')
  <1> DEFINE T == ledger.txs
  <1>0. PICK T2, b2, g2 : T2 = ledger'.txs /\ b2 = ledger'.balance[Payable(w)] /\ g2 = transfer'[w]
    OBVIOUS
  <1>1. UNCHANGED events
    BY DEF WithdrawSend, RefundWithdrawal, RefundSettlement, WithdrawFailed, WithdrawPaid,
       RefundThen, others
  <1>2. /\ Shape(w, T) /\ InTurn(w, T, ledger.balance[Payable(w)], transfer[w], task[t])
        /\ task[t] \in TaskRecords
        /\ transfer[w] = "none" => events[w] = {}
    BY SentFacts
  <1>3. ASSUME NEW k, task' = [task EXCEPT ![t] = k], Shape(w, T2),
               events[w] = {} \/ g2 = transfer[w],
               \/ k.x = w /\ InTurn(w, T2, b2, g2, k)
               \/ k.x # w /\ Rest(w, T2, g2)
        PROVE  SentOK(w, ledger'.txs, ledger'.balance[Payable(w)], transfer'[w], events'[w], task')
    BY <1>0, <1>1, <1>3, SentGoes
  <1>4. ASSUME Return(t), Shape(w, T2), Rest(w, T2, g2), events[w] = {} \/ g2 = transfer[w]
        PROVE  SentOK(w, ledger'.txs, ledger'.balance[Payable(w)], transfer'[w], events'[w], task')
    <2>1. PICK k : task' = [task EXCEPT ![t] = k] /\ k = Idle
      BY <1>4 DEF Return
    <2>2. k.x # w
      BY <2>1, KindFacts, ThingFacts DEF Idle
    <2> QED
      BY <1>3, <1>4, <2>1, <2>2
  <1>5. ASSUME NEW pc \in {"refund", "refund_settle", "failed"}, Goto(t, pc), Shape(w, T2),
               g2 \in {"none", "failed"}, events[w] = {} \/ g2 = transfer[w],
               pc = "refund" => Made(T2, w) /\ ~ Undo(T2, SettleRef(w)),
               pc = "refund_settle" => Undo(T2, w) /\ Made(T2, SettleRef(w)),
               pc = "failed" => Undo(T2, w) /\ ~ Made(T2, SettleRef(w))
        PROVE  SentOK(w, ledger'.txs, ledger'.balance[Payable(w)], transfer'[w], events'[w], task')
    <2>1. PICK k : k = [task[t] EXCEPT !.pc = pc]
      OBVIOUS
    <2>2. task' = [task EXCEPT ![t] = k] /\ k.x = w /\ k.pc = pc
      BY <1>2, <1>5, <2>1 DEF TaskRecords, Goto
    <2>3. InTurn(w, T2, b2, g2, k)
      BY <1>5, <2>2 DEF InTurn, EarlyPCs, SettlePCs
    <2> QED
      BY <1>3, <1>5, <2>2, <2>3
  <1>6. ASSUME NEW ref \in {w, SettleRef(w)}, NEW pc, RefundThen(t, ref, pc)
        PROVE  /\ g2 = transfer[w]
               /\ \/ Return(t) /\ ~ CanRefund(ledger, ref) /\ T2 = T
                  \/ /\ Goto(t, pc) /\ CanRefund(ledger, ref)
                     /\ Undo(T2, ref) /\ T2[ref].entries = T[ref].entries
                     /\ \A r \in Own(w) \ {ref} : T2[r] = T[r]
    <2>1. g2 = transfer[w]
      BY <1>0, <1>6 DEF RefundThen, others
    <2>2. CASE ~ CanRefund(ledger, ref) /\ UNCHANGED ledger /\ Return(t)
      BY <1>0, <2>1, <2>2
    <2>3. CASE CanRefund(ledger, ref) /\ ledger' = Refunded(ledger, ref) /\ Goto(t, pc)
      <3>1. /\ ref \in BaseRefs /\ ref \in Refs /\ LedgerTypeOK(ledger)
            /\ \A r \in Own(w) : r \in Refs /\ r # RefundRef(ref)
        BY SentFacts, RefFacts DEF Own
      <3>2. /\ \A r \in Own(w) \ {ref} : T2[r] = T[r]
            /\ T2[ref] = [T[ref] EXCEPT !.status = "REVERSED"]
        BY <1>0, <2>3, <3>1, RefundedTxs
      <3>3. T[ref] \in TxRecords
        BY <3>1 DEF LedgerTypeOK
      <3>4. Undo(T2, ref) /\ T2[ref].entries = T[ref].entries
        BY <3>2, <3>3 DEF Undo, TxRecords
      <3> QED
        BY <2>1, <2>3, <3>2, <3>4
    <2> QED
      BY <1>6, <2>2, <2>3 DEF RefundThen
  <1>7. /\ w \in Own(w) /\ SettleRef(w) \in Own(w) /\ CreditRef(w) \in Own(w)
        /\ w # SettleRef(w) /\ w # CreditRef(w) /\ SettleRef(w) # CreditRef(w)
    BY SentFacts DEF Own
  <1>8. \A ref \in {w, SettleRef(w)} : Undo(T2, ref) => ~ Made(T2, ref) /\ T2[ref] # NoTx
    BY DEF Made, Undo, NoTx
  <1>9. CASE WithdrawSend(t)
    <2>1. task[t].pc = "send" /\ T2 = T
      BY <1>0, <1>9 DEF WithdrawSend, At
    <2>2. /\ transfer[w] = "none" /\ events[w] = {} /\ Made(T, w) /\ task[t].settle \in 0..AmountOf[w]
          /\ Taken(w, T, task[t].settle)
      BY <1>2, <2>1 DEF InTurn
    <2>3. ~ Undo(T, SettleRef(w))
      BY <2>2 DEF Taken, Undo, Made, NoTx
    <2>4. CASE transfer' = [transfer EXCEPT ![w] = "accepted"] /\ Return(t)
      <3>1. g2 = "accepted"
        BY <1>0, <2>4 DEF MoneyOK, MoneyTypeOK
      <3> QED
        BY <1>2, <1>4, <2>1, <2>2, <2>3, <2>4, <3>1 DEF Rest
    <2>5. CASE UNCHANGED transfer /\ Goto(t, "refund")
      BY <1>0, <1>2, <1>5, <2>1, <2>2, <2>3, <2>5
    <2> QED
      BY <1>9, <2>4, <2>5 DEF WithdrawSend
  <1>10. CASE RefundWithdrawal(t)
    <2>1. PICK pc : /\ RefundThen(t, w, pc)
                    /\ pc = IF Exists(ledger, SettleRef(w)) THEN "refund_settle" ELSE "failed"
      BY <1>10 DEF RefundWithdrawal
    <2>2. task[t].pc = "refund"
      BY <1>10 DEF RefundWithdrawal, At
    <2>3. /\ transfer[w] \in {"none", "failed"}
          /\ \/ Made(T, w) /\ ~ Undo(T, SettleRef(w))
             \/ transfer[w] = "failed" /\ Undo(T, w) /\ ~ Made(T, SettleRef(w))
      BY <1>2, <2>2 DEF InTurn
    <2>4. CASE Return(t) /\ ~ CanRefund(ledger, w) /\ T2 = T
      <3>1. ~ Made(T, w)
        BY <1>2, <2>4, WithdrawalCanRefund, SentFacts
      <3> QED
        BY <1>2, <1>4, <1>6, <2>1, <2>3, <2>4, <3>1 DEF Rest
    <2>5. CASE /\ Goto(t, pc) /\ CanRefund(ledger, w)
               /\ Undo(T2, w) /\ T2[w].entries = T[w].entries
               /\ \A r \in Own(w) \ {w} : T2[r] = T[r]
      <3>1. Made(T, w) /\ ~ Undo(T, SettleRef(w))
        BY <2>3, <2>5 DEF CanRefund, Made, Undo
      <3>2. T2[SettleRef(w)] = T[SettleRef(w)] /\ T2[CreditRef(w)] = T[CreditRef(w)]
        BY SMTT(40), <1>7, <2>5
      <3>3. Shape(w, T2)
        BY <1>2, <2>5, <3>1, <3>2 DEF Shape, Made, Undo, NoTx
      <3>4. CASE Exists(ledger, SettleRef(w))
        <4>1. Made(T2, SettleRef(w)) /\ pc = "refund_settle"
          BY <1>2, <2>1, <3>1, <3>2, <3>4, SentFacts DEF Shape, Made, Undo
        <4> QED
          BY SMTT(40), <1>5, <1>6, <2>1, <2>3, <2>5, <3>3, <4>1
      <3>5. CASE ~ Exists(ledger, SettleRef(w))
        <4>1. ~ Made(T2, SettleRef(w)) /\ pc = "failed"
          BY <2>1, <3>2, <3>5 DEF Exists, Made
        <4> QED
          BY <1>5, <1>6, <2>1, <2>3, <2>5, <3>3, <4>1
      <3> QED
        BY <3>4, <3>5
    <2> QED
      BY <1>6, <2>1, <2>4, <2>5
  <1>11. CASE RefundSettlement(t)
    <2>1. task[t].pc = "refund_settle" /\ RefundThen(t, SettleRef(w), "failed")
      BY <1>11 DEF RefundSettlement, At
    <2>2. transfer[w] \in {"none", "failed"} /\ Undo(T, w) /\ Made(T, SettleRef(w))
      BY <1>2, <2>1 DEF InTurn
    <2>3. CanRefund(ledger, SettleRef(w))
      BY <1>2, <2>2, WithdrawalCanRefund, SentFacts
    <2>4. /\ g2 = transfer[w] /\ Goto(t, "failed")
          /\ Undo(T2, SettleRef(w)) /\ T2[SettleRef(w)].entries = T[SettleRef(w)].entries
          /\ T2[w] = T[w] /\ T2[CreditRef(w)] = T[CreditRef(w)]
      BY SMTT(40), <1>6, <1>7, <2>1, <2>3
    <2>5. Shape(w, T2)
      BY <1>2, <2>2, <2>4 DEF Shape, Made, Undo, NoTx
    <2>6. Undo(T2, w) /\ ~ Made(T2, SettleRef(w))
      BY <1>8, <2>2, <2>4 DEF Undo
    <2> QED
      BY <1>5, <2>2, <2>4, <2>5, <2>6
  <1>12. CASE WithdrawFailed(t) \/ WithdrawPaid(t)
    <2>1. /\ task[t].pc \in {"failed", "paid"} /\ T2 = T /\ g2 = transfer[w] /\ Return(t)
      BY <1>0, <1>12 DEF WithdrawFailed, WithdrawPaid, At
    <2>2. Rest(w, T, transfer[w])
      BY <1>2, <2>1 DEF InTurn, Rest
    <2> QED
      BY <1>2, <1>4, <2>1, <2>2
  <1> QED
    BY <1>9, <1>10, <1>11, <1>12

\* A call begins.
LEMMA SentBegins ==
    ASSUME MoneyOK, SentAllOK, OwnTurns, OwnTurns', NEW t \in Tasks, Request(t) \/ Webhook(t),
           NEW w \in Withdrawals
    PROVE  SentOK(w, ledger'.txs, ledger'.balance[Payable(w)], transfer'[w], events'[w], task')
  <1> DEFINE T == ledger.txs
             b == ledger.balance[Payable(w)]
  <1>1. UNCHANGED <<ledger, transfer, events>>
    BY ZenonT(60) DEF Request, Webhook, AccrueLook, TopUpRow, TopUpAccount, PollTopUp, WithdrawRead,
       ChargeWebhook, TransferWebhook, OnlyTask, others
  <1>2. /\ SentOK(w, T, b, transfer[w], events[w], task)
        /\ task \in [Tasks -> TaskRecords] /\ task[t] = Idle
        /\ w \in Things /\ w # Null
    BY AtFacts, KindFacts, ThingFacts
       DEF SentAllOK, Request, Webhook, AccrueLook, TopUpRow, TopUpAccount, PollTopUp,
           WithdrawRead, ChargeWebhook, TransferWebhook, Call
  <1>3. task[t].x # w
    BY <1>2 DEF Idle
  <1>4. PICK K : K = task'
    OBVIOUS
  <1>5. ASSUME NEW k, task' = [task EXCEPT ![t] = k], k.x # w
        PROVE  SentOK(w, T, b, transfer[w], events[w], K)
    <2>1. \A u \in Tasks : K[u] = task[u] \/ (task[u].x # w /\ K[u].x # w)
      BY <1>2, <1>3, <1>4, <1>5
    <2>2. \A ref \in Own(w) : T[ref] = T[ref]
      OBVIOUS
    <2>3. b = b \/ \A u \in Tasks : task[u].x # w
      OBVIOUS
    <2> QED
      BY <1>2, <2>1, <2>2, <2>3, SentRests
  <1>6. ASSUME NEW k, task' = [task EXCEPT ![t] = k], k.x = w,
               Rest(w, T, transfer[w]) => InTurn(w, T, b, transfer[w], k)
        PROVE  SentOK(w, T, b, transfer[w], events[w], K)
    <2>1. K[t] = k /\ \A u \in Tasks \ {t} : K[u] = task[u]
      BY <1>2, <1>4, <1>6
    <2>2. \A u \in Tasks \ {t} : K[u].x # w
      BY <1>2, <1>4, <1>6, <2>1 DEF OwnTurns
    <2>3. Rest(w, T, transfer[w])
      BY <1>2, <1>3, <2>1, <2>2 DEF SentOK
    <2> QED
      BY <1>2, <1>6, <2>1, <2>2, <2>3 DEF SentOK
  <1>7. ASSUME NEW x, NEW pc, NEW saved, Call(t, pc, x, saved)
        PROVE  \E k : task' = [task EXCEPT ![t] = k] /\ k.x = x /\ k.pc = pc
    <2>1. PICK k : k = [Idle EXCEPT !.pc = pc, !.x = x, !.saved = saved]
      OBVIOUS
    <2>2. k.x = x /\ k.pc = pc
      BY <2>1 DEF Idle
    <2> QED
      BY <1>7, <2>1, <2>2 DEF Call
  <1> HIDE DEF T, b
  <1>8. ASSUME NEW x \in Trips, AccrueLook(t, x)
        PROVE  SentOK(w, T, b, transfer[w], events[w], K)
    <2>1. PICK k : k = [Idle EXCEPT !.pc = "accrue_post", !.x = x, !.fresh = ~ Exists(ledger, x)]
      OBVIOUS
    <2>2. k.x # w /\ task' = [task EXCEPT ![t] = k]
      BY <1>8, <2>1, KindFacts DEF AccrueLook, Idle
    <2> QED
      BY <1>5, <2>2
  <1>9. ASSUME NEW p \in Payments, NEW saved \in BOOLEAN,
               TopUpRow(t, p, saved) \/ TopUpAccount(t, p) \/ PollTopUp(t, p) \/ ChargeWebhook(t, p)
        PROVE  SentOK(w, T, b, transfer[w], events[w], K)
    <2>1. \E pc, sv : Call(t, pc, p, sv)
      BY <1>9 DEF TopUpRow, TopUpAccount, PollTopUp, ChargeWebhook
    <2>2. PICK k : task' = [task EXCEPT ![t] = k] /\ k.x = p
      BY <1>7, <2>1
    <2>3. p # w
      BY KindFacts
    <2> QED
      BY <1>5, <2>2, <2>3
  <1>10. ASSUME NEW v \in Withdrawals, WithdrawRead(t, v)
         PROVE  SentOK(w, T, b, transfer[w], events[w], K)
    <2>1. PICK k : k = [Idle EXCEPT !.pc = "debit", !.x = v, !.settle = Lesser(Debt(v), AmountOf[v])]
      OBVIOUS
    <2>2. /\ task' = [task EXCEPT ![t] = k]
          /\ k.x = v /\ k.pc = "debit" /\ k.settle = Lesser(Debt(v), AmountOf[v])
      BY <1>10, <2>1 DEF WithdrawRead, Idle
    <2>3. CASE v # w
      BY <1>5, <2>2, <2>3
    <2>4. CASE v = w
      <3>1. Debt(v) \in Nat /\ AmountOf[w] \in Nat /\ Debt(v) = b
        BY <1>2, <2>4, DebtIsNat, ThingFacts DEF MoneyOK, Debt, b
      <3>2. k.settle \in 0..AmountOf[w] /\ k.settle <= b
        BY <2>2, <2>4, <3>1 DEF Lesser
      <3>3. ~ Exists(ledger, w)
        BY <1>10, <2>4 DEF WithdrawRead
      <3>4. ~ Made(T, w) /\ ~ Undo(T, w)
        BY <3>3 DEF Exists, Made, Undo, T
      <3>5. Rest(w, T, transfer[w]) => InTurn(w, T, b, transfer[w], k)
        BY <2>2, <3>2, <3>4 DEF InTurn, Rest, EarlyPCs, SettlePCs
      <3> QED
        BY <1>6, <2>2, <2>4, <3>5
    <2> QED
      BY <2>3, <2>4
  <1>11. ASSUME NEW v \in Withdrawals, NEW event \in {"success", "failed"}, TransferWebhook(t, v, event)
         PROVE  SentOK(w, T, b, transfer[w], events[w], K)
    <2>0. PICK pc : pc = IF event = "success" THEN "paid" ELSE "refund"
      OBVIOUS
    <2>1. /\ event \in events[v] /\ Call(t, pc, v, FALSE)
          /\ pc = IF event = "success" THEN "paid" ELSE "refund"
      BY <1>11, <2>0 DEF TransferWebhook
    <2>5. PICK k : k = [Idle EXCEPT !.pc = pc, !.x = v, !.saved = FALSE]
      OBVIOUS
    <2>2. task' = [task EXCEPT ![t] = k] /\ k.x = v /\ k.pc = pc
      <3>1. k.x = v /\ k.pc = pc
        BY <2>5 DEF Idle
      <3>2. task' = [task EXCEPT ![t] = k]
        BY <2>1, <2>5 DEF Call
      <3> QED
        BY <3>1, <3>2
    <2>3. CASE v # w
      BY <1>5, <2>2, <2>3
    <2>4. CASE v = w
      <3>1. /\ transfer[w] \in {"paid", "failed"}
            /\ event = "failed" => transfer[w] = "failed"
        BY <1>2, <2>1, <2>4 DEF SentOK
      <3>2. Rest(w, T, transfer[w]) => InTurn(w, T, b, transfer[w], k)
        BY <2>1, <2>2, <3>1 DEF InTurn, Rest, EarlyPCs, SettlePCs
      <3> QED
        BY <1>6, <2>2, <2>4, <3>2
    <2> QED
      BY <2>3, <2>4
  <1>12. SentOK(w, T, b, transfer[w], events[w], K)
    BY <1>8, <1>9, <1>10, <1>11 DEF Request, Webhook
  <1> QED
    BY <1>1, <1>4, <1>12 DEF T, b

\* The gateway moves.
LEMMA SentGateway ==
    ASSUME MoneyOK, SentAllOK, Gateway, NEW w \in Withdrawals
    PROVE  SentOK(w, ledger'.txs, ledger'.balance[Payable(w)], transfer'[w], events'[w], task')
  <1>1. SentOK(w, ledger.txs, ledger.balance[Payable(w)], transfer[w], events[w], task)
    BY DEF SentAllOK
  <1>2. /\ UNCHANGED <<ledger, task>>
        /\ transfer \in [Withdrawals -> {"none", "accepted", "paid", "failed"}]
        /\ events \in [Withdrawals -> SUBSET {"success", "failed"}]
    BY DEF Gateway, GatewayCharges, GatewayTransfers, MoneyOK, MoneyTypeOK
  <1>3. CASE transfer'[w] = transfer[w] /\ events'[w] = events[w]
    BY <1>1, <1>2, <1>3
  <1>4. ASSUME NEW from \in {"accepted", "paid"}, NEW to \in {"paid", "failed"}, NEW event,
               GatewayTransfers(w, from, to, event),
               event = "failed" <=> to = "failed", to = "paid" => from = "accepted"
        PROVE  SentOK(w, ledger'.txs, ledger'.balance[Payable(w)], transfer'[w], events'[w], task')
    <2>1. transfer[w] = from /\ transfer'[w] = to /\ events'[w] = events[w] \cup {event}
      BY <1>2, <1>4 DEF GatewayTransfers
    <2>2. Rest(w, ledger.txs, from) => Rest(w, ledger.txs, to)
      BY DEF Rest
    <2>3. ASSUME NEW t \in Tasks, task[t].x = w
          PROVE  InTurn(w, ledger.txs, ledger.balance[Payable(w)], to, task[t])
      <3>1. InTurn(w, ledger.txs, ledger.balance[Payable(w)], from, task[t])
        BY <1>1, <2>1, <2>3 DEF SentOK
      <3> QED
        BY <2>2, <3>1 DEF InTurn
    <2>4. "failed" \in events'[w] => to = "failed"
      BY <1>1, <1>4, <2>1 DEF SentOK
    <2>5. PICK g, ev : g = to /\ ev = events'[w]
      OBVIOUS
    <2>6. SentOK(w, ledger.txs, ledger.balance[Payable(w)], g, ev, task)
      BY <1>1, <2>1, <2>2, <2>3, <2>4, <2>5 DEF SentOK
    <2> QED
      BY <1>2, <2>1, <2>5, <2>6
  <1>5. ASSUME NEW v \in Withdrawals, v # w, NEW from, NEW to, NEW event, GatewayTransfers(v, from, to, event)
        PROVE  transfer'[w] = transfer[w] /\ events'[w] = events[w]
    BY <1>2, <1>5 DEF GatewayTransfers
  <1>6. ASSUME NEW p, NEW outcome, GatewayCharges(p, outcome)
        PROVE  transfer'[w] = transfer[w] /\ events'[w] = events[w]
    BY <1>6 DEF GatewayCharges
  <1> QED
    BY <1>3, <1>4, <1>5, <1>6 DEF Gateway

LEMMA SentStepOK ==
    ~ Faults /\ MoneyOK /\ BooksOK(ledger) /\ SentAllOK /\ OwnTurns /\ OwnTurns'
        /\ [MoneyNext]_moneyVars => SentAllOK'
  <1> SUFFICES ASSUME ~ Faults, MoneyOK, BooksOK(ledger), SentAllOK, OwnTurns, OwnTurns',
                      [MoneyNext]_moneyVars, NEW w \in Withdrawals
               PROVE  SentOK(w, ledger'.txs, ledger'.balance[Payable(w)], transfer'[w], events'[w], task')
    BY DEF SentAllOK, SentOK, Shape, Rest, InTurn, Taken, Made, Undo, Payable
  <1>1. ASSUME NEW t \in Tasks, Step(t)
        PROVE  SentOK(w, ledger'.txs, ledger'.balance[Payable(w)], transfer'[w], events'[w], task')
    <2>1. CASE w # task[t].x
      BY <1>1, <2>1, SentElsewhere
    <2>2. CASE w = task[t].x
      <3>1. \/ SettleLook(t) \/ SettleRead(t) \/ SettleReset(t) \/ WithdrawDeduct(t) \/ WithdrawRow(t)
            \/ WithdrawDebit(t) \/ SettlePost(t)
            \/ WithdrawSend(t) \/ RefundWithdrawal(t) \/ RefundSettlement(t)
            \/ WithdrawFailed(t) \/ WithdrawPaid(t)
        <4>1. w \notin Trips /\ w \notin Payments
          BY KindFacts
        <4>2. task[t].pc \notin AccruePCs \cup TopUpPCs
          BY <2>2, <4>1, AtFacts
        <4> QED
          BY <1>1, <4>2 DEF Step, AccruePost, AccrueCount, Returned, TopUpLateRow, TopUpCheckout,
             ChargeCard, MarkFailed, Verify, LookCredited, ReadDebt, CreditRest, CreditAll,
             CompleteTopUp, At, AccruePCs, TopUpPCs
      <3> QED
        BY <2>2, <3>1, SentReads, SentPosts, SentPays
    <2> QED
      BY <2>1, <2>2
  <1>2. CASE UNCHANGED moneyVars
    <2>1. UNCHANGED <<ledger, transfer, events, task>>
      BY <1>2 DEF moneyVars
    <2> QED
      BY <2>1 DEF SentAllOK
  <1> QED
    BY <1>1, <1>2, SentBegins, SentGateway DEF MoneyNext, Throw, Restart

LEMMA SentInitOK == MoneyInit => SentAllOK
  <1> SUFFICES ASSUME MoneyInit, NEW w \in Withdrawals
               PROVE  SentOK(w, ledger.txs, ledger.balance[Payable(w)], transfer[w], events[w], task)
    BY DEF SentAllOK
  <1>1. /\ transfer[w] = "none" /\ events[w] = {}
        /\ \A t \in Tasks : task[t].x # w
    BY KindFacts, ThingFacts DEF MoneyInit, Idle
  <1>2. w \in BaseRefs /\ SettleRef(w) \in BaseRefs /\ CreditRef(w) \in BaseRefs
    BY KindFacts, ThingFacts
  <1>3. ledger.txs[w] = NoTx /\ ledger.txs[SettleRef(w)] = NoTx /\ ledger.txs[CreditRef(w)] = NoTx
    BY <1>2, RefFacts DEF MoneyInit, LedgerInit, EmptyLedger
  <1> QED
    BY <1>1, <1>3 DEF SentOK, Shape, Rest

-----------------------------------------------------------------------------
(* The sums, when every call is over and every charge and every failed     *)
(* transfer was reported.                                                  *)

\* A payment took in what it credited.
LEMMA PaymentNet ==
    ASSUME PaymentsOK, TurnsOK, Quiet, NEW p \in Payments, charge[p] = "success" => Credited(p) > 0
    PROVE  NetOf(p, ledger.txs) = IF charge[p] = "success" THEN -AmountOf[p] ELSE 0
  <1> DEFINE T == ledger.txs
             o == OwnerOf[p]
  <1>1. /\ p \in Things /\ o \in Owners /\ AmountOf[p] \in Nat
        /\ Paid(p, T, charge[p], request[p]) /\ OfRider(p, T, request[p])
        /\ TurnRows(p, T, request[p])
        /\ p \in Own(p) /\ SettleRef(p) \in Own(p) /\ CreditRef(p) \in Own(p)
    BY KindFacts, ThingFacts DEF PaymentsOK, PaymentOK, TurnsOK, TurnOK, Own
  <1>2. T[SettleRef(p)] # NoTx => Whole(p, T)
    <2>1. \A t \in Tasks : ~ Owes(p, task[t])
      BY DEF Quiet, Idle, Owes, RestPCs
    <2> QED
      BY <2>1 DEF TurnsOK, TurnOK
  <1>3. ASSUME NEW ref \in Own(p)
        PROVE  /\ T[ref] = NoTx => Net(T, ref) = 0
               /\ T[ref] # NoTx => Net(T, ref) = Through(T[ref].entries)
    BY <1>1 DEF Net, NoTx, Paid
  <1>4. ASSUME NEW s \in Int
        PROVE  /\ Through(TopUpEntries(o, s)) = -s
               /\ o \in Drivers => Through(SettlementEntries(o, s)) = -s
    <2>1. /\ TopUpEntries(o, s) \in OwnEntries(o) /\ SettlementEntries(o, s) \in OwnEntries(o)
          /\ TopUpEntries(o, s)[Clearing] = -s /\ TopUpEntries(o, s)[CommissionPayable(o)] = 0
          /\ SettlementEntries(o, s)[Clearing] = 0 /\ SettlementEntries(o, s)[CommissionPayable(o)] = -s
      BY <1>1, GatewayEntries
    <2>2. /\ o \in Drivers => Through(TopUpEntries(o, s)) =
                                TopUpEntries(o, s)[Clearing] + TopUpEntries(o, s)[CommissionPayable(o)]
          /\ o \notin Drivers => Through(TopUpEntries(o, s)) = TopUpEntries(o, s)[Clearing]
          /\ o \in Drivers => Through(SettlementEntries(o, s)) =
                                SettlementEntries(o, s)[Clearing]
                                  + SettlementEntries(o, s)[CommissionPayable(o)]
      BY <1>1, <2>1, ThroughOwn
    <2> QED
      BY <2>1, <2>2
  <1>5. CASE T[p] # NoTx
    <2>1. T[SettleRef(p)] = NoTx /\ T[CreditRef(p)] = NoTx /\ charge[p] = "success"
          /\ T[p].entries = TopUpEntries(o, AmountOf[p])
      BY <1>1, <1>5 DEF TurnRows, Paid
    <2>2. Net(T, p) = -AmountOf[p] /\ Net(T, SettleRef(p)) = 0 /\ Net(T, CreditRef(p)) = 0
      BY <1>1, <1>3, <1>4, <1>5, <2>1
    <2> QED
      BY <1>1, <2>1, <2>2 DEF NetOf
  <1>6. CASE T[p] = NoTx /\ T[SettleRef(p)] # NoTx
    <2>1. charge[p] = "success" /\ o \in Drivers
      BY <1>1, <1>6 DEF Paid, OfRider, Rider
    <2>2. PICK s \in 1..AmountOf[p] :
             /\ T[SettleRef(p)].entries = SettlementEntries(o, s)
             /\ T[CreditRef(p)] # NoTx => T[CreditRef(p)].entries = TopUpEntries(o, AmountOf[p] - s)
      BY <1>1, <1>6 DEF TurnRows
    <2>3. s \in Int /\ AmountOf[p] - s \in Int
      BY <1>1
    <2>4. Net(T, p) = 0 /\ Net(T, SettleRef(p)) = -s
      BY <1>1, <1>3, <1>4, <1>6, <2>1, <2>2, <2>3
    <2>5. CASE T[CreditRef(p)] # NoTx
      <3>1. Net(T, CreditRef(p)) = -(AmountOf[p] - s)
        BY <1>1, <1>3, <1>4, <2>2, <2>3, <2>5
      <3> QED
        BY <1>1, <2>1, <2>3, <2>4, <3>1 DEF NetOf
    <2>6. CASE T[CreditRef(p)] = NoTx
      <3>1. Settled(p, T) = AmountOf[p]
        BY <1>2, <1>6, <2>6 DEF Whole
      <3>2. SettlementEntries(o, s)[Payable(p)] = -s
        BY <1>1, <2>3, PaymentEntries
      <3>3. s = AmountOf[p]
        BY <1>1, <2>2, <2>3, <3>1, <3>2 DEF Settled
      <3>4. Net(T, CreditRef(p)) = 0
        BY <1>1, <1>3, <2>6
      <3> QED
        BY <1>1, <2>1, <2>4, <3>3, <3>4 DEF NetOf
    <2> QED
      BY <2>5, <2>6
  <1>7. CASE T[p] = NoTx /\ T[SettleRef(p)] = NoTx
    <2>1. T[CreditRef(p)] = NoTx
      BY <1>1, <1>7 DEF TurnRows
    <2>2. \A ref \in Own(p) : T[ref] = NoTx
      BY <1>7, <2>1 DEF Own
    <2>3. charge[p] # "success"
      BY <2>2, CreditedAmount
    <2>4. Net(T, p) = 0 /\ Net(T, SettleRef(p)) = 0 /\ Net(T, CreditRef(p)) = 0
      BY <1>1, <1>3, <2>2
    <2> QED
      BY <2>3, <2>4 DEF NetOf
  <1> QED
    BY <1>5, <1>6, <1>7

\* A withdrawal paid out what was neither settled nor given back.
LEMMA WithdrawalNet ==
    ASSUME MoneyOK, SentAllOK, Quiet, NEW w \in Withdrawals,
           transfer[w] = "failed" => TxStatus(w) = "REVERSED"
    PROVE  /\ AmountOf[w] - SettledBy(w) \in Int
           /\ NetOf(w, ledger.txs) = IF transfer[w] \in {"accepted", "paid"}
                                     THEN AmountOf[w] - SettledBy(w) ELSE 0
  <1> DEFINE T == ledger.txs
             o == OwnerOf[w]
             g == transfer[w]
  <1>1. /\ w \in Things /\ o \in Owners /\ o \in Drivers /\ AmountOf[w] \in Nat /\ AmountOf[w] > 0
        /\ Payable(w) \in Accounts
    BY KindFacts, ThingFacts, PaymentAccounts, MoneyAssumption, LedgerAssumption
       DEF MoneyAssumption, LedgerAssumption, Things
  <1>2. /\ Shape(w, T)
        /\ Rest(w, T, g)
    BY <1>1, ThingFacts DEF SentAllOK, SentOK, Quiet, Idle
  <1>3. g = "failed" => Undo(T, w)
    BY DEF TxStatus, Undo
  <1>4. g \in {"none", "accepted", "paid", "failed"}
    BY DEF MoneyOK, MoneyTypeOK
  <1>5. ASSUME NEW s \in Int
        PROVE  /\ Through(WithdrawalEntries(o, s)) = s
               /\ Through(SettlementEntries(o, s)) = -s
    <2>1. /\ WithdrawalEntries(o, s) \in OwnEntries(o) /\ SettlementEntries(o, s) \in OwnEntries(o)
          /\ WithdrawalEntries(o, s)[Clearing] = s /\ WithdrawalEntries(o, s)[CommissionPayable(o)] = 0
          /\ SettlementEntries(o, s)[Clearing] = 0 /\ SettlementEntries(o, s)[CommissionPayable(o)] = -s
      BY <1>1, GatewayEntries
    <2>2. /\ Through(WithdrawalEntries(o, s)) =
                WithdrawalEntries(o, s)[Clearing] + WithdrawalEntries(o, s)[CommissionPayable(o)]
          /\ Through(SettlementEntries(o, s)) =
                SettlementEntries(o, s)[Clearing] + SettlementEntries(o, s)[CommissionPayable(o)]
      BY <1>1, <2>1, ThroughOwn
    <2> QED
      BY <2>1, <2>2
  <1>6. /\ Made(T, w) => Net(T, w) = AmountOf[w]
        /\ ~ Made(T, w) => Net(T, w) = 0
        /\ Net(T, CreditRef(w)) = 0
    <2>1. T[CreditRef(w)].status = "NONE"
      BY <1>2 DEF Shape, NoTx
    <2>2. Made(T, w) => T[w].entries = WithdrawalEntries(o, AmountOf[w])
      BY <1>2 DEF Shape, Made, NoTx
    <2> QED
      BY <1>1, <1>5, <2>1, <2>2 DEF Net, Made
  <1>7. /\ SettledBy(w) \in Int
        /\ T[SettleRef(w)] = NoTx => SettledBy(w) = 0
        /\ Made(T, SettleRef(w)) => Net(T, SettleRef(w)) = -SettledBy(w)
        /\ ~ Made(T, SettleRef(w)) => Net(T, SettleRef(w)) = 0
    <2>1. CASE T[SettleRef(w)] = NoTx
      <3>1. Entry(SettleRef(w), Payable(w)) = 0
        BY <1>1, <2>1, NoTxEntries DEF Entry
      <3>2. SettledBy(w) = 0
        <4>1. PICK n : n = Entry(SettleRef(w), Payable(w))
          OBVIOUS
        <4>2. SettledBy(w) = -n /\ n \in Int /\ n <= 0 /\ n >= 0
          BY <3>1, <4>1 DEF SettledBy
        <4>3. \A m \in Int : m <= 0 /\ m >= 0 => -m = 0
          OBVIOUS
        <4> QED
          BY <4>2, <4>3
      <3>3. ~ Made(T, SettleRef(w))
        BY <2>1 DEF Made, NoTx
      <3>4. Net(T, SettleRef(w)) = 0
        BY <3>3 DEF Made, Net
      <3> QED
        BY <3>2, <3>3, <3>4
    <2>2. CASE T[SettleRef(w)] # NoTx
      <3>1. PICK s \in 1..AmountOf[w] : T[SettleRef(w)].entries = SettlementEntries(o, s)
        BY <1>2, <2>2 DEF Shape
      <3>2. s \in Int
        BY <1>1
      <3>3. SettlementEntries(o, s)[Payable(w)] = -s
        BY <1>1, <3>2, PaymentEntries
      <3>4. SettledBy(w) = s
        BY <3>1, <3>2, <3>3 DEF SettledBy, Entry
      <3>5. Made(T, SettleRef(w)) => Net(T, SettleRef(w)) = -s
        BY <1>5, <3>1, <3>2 DEF Made, Net
      <3>6. ~ Made(T, SettleRef(w)) => Net(T, SettleRef(w)) = 0
        BY DEF Made, Net
      <3> QED
        BY <2>2, <3>2, <3>4, <3>5, <3>6
    <2> QED
      BY <2>1, <2>2
  <1>8. CASE g \in {"accepted", "paid"}
    <2>1. Made(T, w) /\ ~ Undo(T, SettleRef(w))
      BY <1>2, <1>8 DEF Rest
    <2>2. T[SettleRef(w)] = NoTx \/ Made(T, SettleRef(w))
      BY <1>2, <2>1 DEF Shape
    <2>3. T[SettleRef(w)] = NoTx => ~ Made(T, SettleRef(w))
      BY DEF NoTx, Made
    <2>4. NetOf(w, T) = AmountOf[w] - SettledBy(w)
      BY <1>1, <1>6, <1>7, <2>1, <2>2, <2>3 DEF NetOf
    <2> QED
      BY <1>1, <1>7, <1>8, <2>4
  <1>9. CASE g \notin {"accepted", "paid"}
    <2>1. CASE T[w] = NoTx /\ T[SettleRef(w)] = NoTx
      <3>1. ~ Made(T, w) /\ ~ Made(T, SettleRef(w))
        BY <2>1 DEF Made, NoTx
      <3> QED
        BY <1>1, <1>6, <1>7, <1>9, <3>1 DEF NetOf
    <2>2. CASE Undo(T, w) /\ ~ Made(T, SettleRef(w))
      <3>1. ~ Made(T, w)
        BY <2>2 DEF Made, Undo
      <3> QED
        BY <1>1, <1>6, <1>7, <1>9, <2>2, <3>1 DEF NetOf
    <2>3. CASE Made(T, w) /\ Taken(w, T, AmountOf[w])
      <3>1. Made(T, SettleRef(w)) /\ T[SettleRef(w)].entries = SettlementEntries(o, AmountOf[w])
        BY <1>1, <2>3 DEF Taken
      <3>2. Net(T, SettleRef(w)) = -AmountOf[w]
        BY <1>1, <1>5, <3>1 DEF Net, Made
      <3> QED
        BY <1>1, <1>6, <1>7, <1>9, <2>3, <3>2 DEF NetOf
    <2>4. ~ (Undo(T, w) /\ Made(T, w))
      BY DEF Undo, Made
    <2> QED
      BY <1>2, <1>3, <1>4, <1>9, <2>1, <2>2, <2>3, <2>4 DEF Rest
  <1> QED
    BY <1>8, <1>9

\* What crossed the gateway, from the transactions.
LEMMA BookedIsSent ==
    ASSUME MoneyOK, PaymentsOK, TurnsOK, SentAllOK, Reported
    PROVE  LET in   == {p \in Payments : charge[p] = "success"}
               out  == {w \in Withdrawals : transfer[w] \in {"accepted", "paid"}}
               Sent == [w \in Withdrawals |-> AmountOf[w] - SettledBy(w)]
           IN  /\ Booked(ledger.txs) = SumFunctionOnSet(Sent, out) - SumFunctionOnSet(AmountOf, in)
               /\ SumFunctionOnSet(Sent, out) \in Int /\ SumFunctionOnSet(AmountOf, in) \in Int
  <1> DEFINE T    == ledger.txs
             in   == {p \in Payments : charge[p] = "success"}
             out  == {w \in Withdrawals : transfer[w] \in {"accepted", "paid"}}
             Sent == [w \in Withdrawals |-> AmountOf[w] - SettledBy(w)]
             net  == [x \in InOut |-> NetOf(x, T)]
             took == [x \in InOut |-> IF x \in in THEN AmountOf[x] ELSE 0]
             paid == [x \in InOut |-> IF x \in out THEN Sent[x] ELSE 0]
  <1>1. /\ Quiet
        /\ \A p \in Payments : charge[p] = "success" => Credited(p) > 0
        /\ \A w \in Withdrawals : transfer[w] = "failed" => TxStatus(w) = "REVERSED"
    BY DEF Reported
  <1>2. /\ in \in SUBSET InOut /\ out \in SUBSET InOut /\ Payments \cap Withdrawals = {}
        /\ IsFiniteSet(InOut) /\ IsFiniteSet(in) /\ IsFiniteSet(out)
        /\ \A x \in InOut : AmountOf[x] \in Int
    BY InOutFinite, ThingFacts, FS_Subset, MoneyAssumption DEF MoneyAssumption, InOut
  <1>3. ASSUME NEW p \in Payments
        PROVE  net[p] \in Int /\ net[p] = IF p \in in THEN -AmountOf[p] ELSE 0
    <2>1. NetOf(p, T) = IF charge[p] = "success" THEN -AmountOf[p] ELSE 0
      BY <1>1, PaymentNet
    <2>2. p \in InOut
      BY DEF InOut
    <2> QED
      BY <1>2, <2>1, <2>2
  <1>4. ASSUME NEW w \in Withdrawals
        PROVE  /\ net[w] \in Int /\ Sent[w] \in Int
               /\ net[w] = IF w \in out THEN Sent[w] ELSE 0
    <2>1. /\ AmountOf[w] - SettledBy(w) \in Int
          /\ NetOf(w, T) = IF transfer[w] \in {"accepted", "paid"} THEN AmountOf[w] - SettledBy(w) ELSE 0
      BY <1>1, WithdrawalNet
    <2>2. w \in InOut
      BY DEF InOut
    <2> QED
      BY <2>1, <2>2
  <1>5. ASSUME NEW x \in InOut
        PROVE  /\ net[x] \in Int /\ took[x] \in Int /\ paid[x] \in Int
               /\ paid[x] = net[x] + took[x]
    <2>1. CASE x \in Payments
      <3>1. x \notin out
        BY <1>2, <2>1
      <3>2. net[x] \in Int /\ net[x] = IF x \in in THEN -AmountOf[x] ELSE 0
        BY <1>3, <2>1
      <3>3. paid[x] = 0 /\ took[x] = IF x \in in THEN AmountOf[x] ELSE 0
        BY <3>1
      <3> HIDE DEF net, took, paid, in, out
      <3> QED
        BY <1>2, <3>2, <3>3
    <2>2. CASE x \in Withdrawals
      <3>1. x \notin in
        BY <1>2, <2>2
      <3>2. net[x] \in Int /\ Sent[x] \in Int /\ net[x] = IF x \in out THEN Sent[x] ELSE 0
        BY <1>4, <2>2
      <3>3. took[x] = 0 /\ paid[x] = IF x \in out THEN Sent[x] ELSE 0
        BY <3>1
      <3> HIDE DEF net, took, paid, Sent, in, out
      <3> QED
        BY <3>2, <3>3
    <2> QED
      BY <2>1, <2>2 DEF InOut
  <1>6. /\ \A x \in in : took[x] = AmountOf[x]
        /\ \A x \in InOut \ in : took[x] = 0
        /\ \A x \in out : paid[x] = Sent[x]
        /\ \A x \in InOut \ out : paid[x] = 0
        /\ Ints(AmountOf, in) /\ Ints(Sent, out)
    BY <1>2, <1>4 DEF Ints
  <1>7. Booked(T) = SumFunctionOnSet(net, InOut)
    BY DEF Booked
  <1> HIDE DEF net, took, paid, Sent, in, out, T
  <1>8. Ints(net, InOut) /\ Ints(took, InOut)
    BY <1>5 DEF Ints
  <1>9. SumFunctionOnSet(paid, InOut) = SumFunctionOnSet(net, InOut) + SumFunctionOnSet(took, InOut)
    BY <1>2, <1>5, <1>8, SumPlus
  <1>10. SumFunctionOnSet(took, InOut) = SumFunctionOnSet(AmountOf, in)
    BY <1>2, <1>6, SumPart
  <1>11. SumFunctionOnSet(paid, InOut) = SumFunctionOnSet(Sent, out)
    BY <1>2, <1>6, SumPart
  <1>12. SumFunctionOnSet(net, InOut) \in Int /\ SumFunctionOnSet(AmountOf, in) \in Int
         /\ SumFunctionOnSet(Sent, out) \in Int
    BY <1>2, <1>6, <1>8, SumInt
  <1>13. /\ Booked(T) = SumFunctionOnSet(Sent, out) - SumFunctionOnSet(AmountOf, in)
         /\ SumFunctionOnSet(Sent, out) \in Int /\ SumFunctionOnSet(AmountOf, in) \in Int
    BY <1>7, <1>9, <1>10, <1>11, <1>12
  <1> QED
    BY <1>13 DEF T, Sent, in, out

LEMMA ReconcileState ==
    ASSUME MoneyOK, BooksOK(ledger), PaymentsOK, TurnsOK, SentAllOK
    PROVE  GatewayReconciles
  <1> DEFINE in   == {p \in Payments : charge[p] = "success"}
             out  == {w \in Withdrawals : transfer[w] \in {"accepted", "paid"}}
             Sent == [w \in Withdrawals |-> AmountOf[w] - SettledBy(w)]
             debt == [d \in Drivers |-> ledger.balance[CommissionPayable(d)]
                                           - Opening[CommissionPayable(d)]]
             b    == ledger.balance
  <1> SUFFICES ASSUME Reported
               PROVE  b[Clearing] - Opening[Clearing] + SumFunction(debt)
                        = SumFunctionOnSet(Sent, out) - SumFunctionOnSet(AmountOf, in)
    BY DEF GatewayReconciles
  <1>1. b \in EntrySets /\ Opening \in EntrySets
    BY LedgerAssumption DEF MoneyOK, LedgerOK, LedgerTypeOK, EntrySets, LedgerAssumption
  <1>2. /\ Ints(Owing(b), Drivers) /\ Ints(Owing(Opening), Drivers)
        /\ b[Clearing] \in Int /\ Opening[Clearing] \in Int
    BY <1>1, OwingInts
  <1>3. \A d \in Drivers : debt[d] \in Int /\ Owing(b)[d] = debt[d] + Owing(Opening)[d]
    BY <1>2 DEF Owing, Ints
  <1>4. SumFunction(debt) = SumFunctionOnSet(debt, Drivers)
    BY DEF SumFunction
  <1>5. /\ Booked(ledger.txs) = SumFunctionOnSet(Sent, out) - SumFunctionOnSet(AmountOf, in)
        /\ SumFunctionOnSet(Sent, out) \in Int /\ SumFunctionOnSet(AmountOf, in) \in Int
    BY BookedIsSent
  <1>6. Through(b) = Through(Opening) + Booked(ledger.txs)
    BY DEF BooksOK
  <1> HIDE DEF debt, Sent, in, out, b
  <1>7. SumFunctionOnSet(Owing(b), Drivers) =
           SumFunctionOnSet(debt, Drivers) + SumFunctionOnSet(Owing(Opening), Drivers)
    BY <1>2, <1>3, DriversFinite, SumPlus DEF Ints
  <1>8. /\ SumFunctionOnSet(debt, Drivers) \in Int
        /\ SumFunctionOnSet(Owing(b), Drivers) \in Int
        /\ SumFunctionOnSet(Owing(Opening), Drivers) \in Int
    BY <1>2, <1>3, DriversFinite, SumInt DEF Ints
  <1>9. /\ Through(b) = b[Clearing] + SumFunctionOnSet(Owing(b), Drivers)
        /\ Through(Opening) = Opening[Clearing] + SumFunctionOnSet(Owing(Opening), Drivers)
    BY DEF Through
  <1> QED
    BY <1>2, <1>4, <1>5, <1>6, <1>7, <1>8, <1>9

\* Without faults, as long as the calls about one owner's trips, payments and
\* withdrawals do not overlap, the clearing account and the debts add up to
\* what crossed the gateway, whatever the gateway does and however often and
\* late it reports it; the calls of different owners interleave freely.
THEOREM GatewayIsReconciled ==
    ASSUME ~ Faults
    PROVE  MoneySpec /\ []OwnTurns => []GatewayReconciles
  <1>1. MoneyInit => TurnsOK /\ SentAllOK
    BY TurnsInitOK, SentInitOK
  <1>2. OwnTurns => Turns
    BY KindFacts DEF OwnTurns, Turns
  <1>3. MoneyOK /\ PaymentsOK /\ TurnsOK /\ Turns /\ [MoneyNext]_moneyVars => TurnsOK'
    BY TurnsStepOK
  <1>4. MoneyOK /\ BooksOK(ledger) /\ SentAllOK /\ OwnTurns /\ OwnTurns' /\ [MoneyNext]_moneyVars
           => SentAllOK'
    BY SentStepOK
  <1>5. MoneyOK /\ BooksOK(ledger) /\ PaymentsOK /\ TurnsOK /\ SentAllOK => GatewayReconciles
    BY ReconcileState
  <1> QED
    BY <1>1, <1>2, <1>3, <1>4, <1>5, MoneyInvariant, PaymentsInvariant, GatewayIsBooked, PTL
       DEF MoneySpec
=============================================================================
