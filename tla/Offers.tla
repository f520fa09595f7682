------------------------------- MODULE Offers -------------------------------
(***************************************************************************)
(* What the platform hands out against a limit: discounts by promo code    *)
(* (src/src/promo/promo.service.ts), referral bonuses and partners' offers *)
(* (src/src/partnerships), batteries at swap stations                      *)
(* (src/src/kilowatt/battery-swap.service.ts).  One code, one station, one *)
(* offer, one fleet: nothing here relates two.                             *)
(*                                                                         *)
(* A call in progress is a task, one action per database statement.  The   *)
(* wallet is what Ledger promises of it: a posting may be refused, and a   *)
(* reference is posted once.  Abstracted: amounts, dates (in `active`),    *)
(* and the booking between a code's validation and its redemption.         *)
(***************************************************************************)
EXTENDS Naturals, FiniteSets, FiniteSetsExt

CONSTANTS
    Users,
    None,
    Tasks,          \* slots for calls in progress (a bound on concurrency)
    Limits,         \* the usageLimitTotal an administrator sets
    UserLimit,      \* usageLimitPerUser
    MaxRedeemed,    \* bound on the redemptions of the code
    MaxStock        \* bound on the batteries of the station

\* What the constants are taken to be (the models that use this module assume it).
OffersAssumption ==
    /\ None \notin Users
    /\ Limits \subseteq Nat \ {0} /\ Limits # {}
    /\ UserLimit \in Nat \ {0}
    /\ MaxRedeemed \in Nat /\ MaxStock \in Nat
    /\ IsFiniteSet(Users) /\ IsFiniteSet(Tasks)

VARIABLES
    promo,          \* the Promo row, and the highest limit it has had
    redeemed,       \* the PromoRedemption rows, counted by user
    referral,       \* the ReferralRedemption of each referred user
    accruals,       \* referral accruals posted, by reference
    payouts,        \* referral payouts posted: for whom, by which reference
    claims,         \* the users with a PartnerOfferClaim or FleetPartnerDriver
    station,        \* the station, and the batteries it was given (history)
    sold,           \* the BatterySwapReservation rows
    task            \* the calls in progress

vars == <<promo, redeemed, referral, accruals, payouts, claims, station, sold, task>>
promoVars == <<promo, redeemed>>
partnerVars == <<referral, accruals, payouts, claims>>
swapVars == <<station, sold>>

Idle == [pc |-> "idle", u |-> None, todo |-> {}]

Call(t, pc, u, todo) ==
    /\ task[t] = Idle
    /\ task' = [task EXCEPT ![t] = [pc |-> pc, u |-> u, todo |-> todo]]
At(t, pc) == task[t].pc = pc
Goto(t, pc) == task' = [task EXCEPT ![t].pc = pc]
Return(t) == task' = [task EXCEPT ![t] = Idle]
OnlyTask == UNCHANGED <<promoVars, partnerVars, swapVars>>

Redeemed == SumFunction(redeemed)

Init ==
    /\ promo \in {[active |-> TRUE, limit |-> l, highest |-> l] : l \in Limits}
    /\ redeemed = [u \in Users |-> 0]
    /\ referral = [u \in Users |-> "NONE"]
    /\ accruals = {} /\ payouts = {} /\ claims = {}
    /\ station \in {[available |-> n, active |-> TRUE, given |-> n] : n \in 0 .. MaxStock}
    /\ sold = 0
    /\ task = [t \in Tasks |-> Idle]

-----------------------------------------------------------------------------
(* Promo codes.                                                            *)

\* validate: the code, then the count of all redemptions ...
Validate(t, u) ==
    /\ promo.active
    /\ Call(t, "total", u, {})
    /\ OnlyTask

\* Mutant of WithinTotal: an off-by-one.
WithinTotalOrOver == Redeemed <= promo.limit + 1

WithinTotal == Redeemed < promo.limit

CountTotal(t) ==
    /\ At(t, "total") /\ WithinTotal
    /\ Goto(t, "user")
    /\ OnlyTask

\* ... then of the user's, and the booking is made.
CountUser(t) ==
    /\ At(t, "user") /\ redeemed[task[t].u] < UserLimit
    /\ Goto(t, "redeem")
    /\ OnlyTask

\* recordRedemption, once the booking exists.
Redeem(t) ==
    /\ At(t, "redeem")
    /\ Redeemed < MaxRedeemed
    /\ redeemed' = [redeemed EXCEPT ![task[t].u] = @ + 1]
    /\ Return(t)
    /\ UNCHANGED <<promo, partnerVars, swapVars>>

UpdatePromo(l, on) ==
    /\ promo' = [active |-> on, limit |-> l, highest |-> Max({l, promo.highest})]
    /\ promo' # promo
    /\ UNCHANGED <<redeemed, partnerVars, swapVars, task>>

-----------------------------------------------------------------------------
(* Referrals and partners.                                                 *)

\* redeem: one redemption per referred user.
RedeemCode(t, u) ==
    /\ referral[u] = "NONE"
    /\ Call(t, "refer", u, {})
    /\ OnlyTask

\* The row, unique for the user.
Refer(t) ==
    /\ At(t, "refer") /\ referral[task[t].u] = "NONE"
    /\ referral' = [referral EXCEPT ![task[t].u] = "QUALIFIED"]
    /\ Goto(t, "accrue")
    /\ UNCHANGED <<promoVars, accruals, payouts, claims, swapVars>>

Accrue(t) ==
    /\ At(t, "accrue")
    /\ accruals' = accruals \cup {task[t].u}
    /\ Return(t)
    /\ UNCHANGED <<promoVars, referral, payouts, claims, swapVars>>

\* processPayouts: the QUALIFIED redemptions as read, one after another.
ProcessPayouts(t) ==
    LET qualified == {u \in Users : referral[u] = "QUALIFIED"}
    IN  /\ qualified # {}
        /\ Call(t, "payouts", None, qualified)
        /\ OnlyTask

\* Mutant of PayoutRef: a reference of the call's own.
PayoutRefOfCall(t, u) == [of |-> u, by |-> t]

\* `referral-payout:${redemption.id}`
PayoutRef(t, u) == [of |-> u, by |-> None]

Payout(t, u) ==
    /\ At(t, "payouts") /\ u \in task[t].todo
    /\ payouts' = payouts \cup {PayoutRef(t, u)}
    /\ task' = [task EXCEPT ![t].pc = "paid", ![t].u = u]
    /\ UNCHANGED <<promoVars, referral, accruals, claims, swapVars>>

MarkPaid(t) ==
    LET u == task[t].u
        rest == task[t].todo \ {u}
    IN  /\ At(t, "paid")
        /\ referral' = [referral EXCEPT ![u] = "PAID"]
        /\ task' = [task EXCEPT ![t] = IF rest = {} THEN Idle
                                       ELSE [pc |-> "payouts", u |-> None, todo |-> rest]]
        /\ UNCHANGED <<promoVars, accruals, payouts, claims, swapVars>>

\* claim of an offer, attachDriver: a lookup, then a row unique for the user.
Claim(t, u) ==
    /\ u \notin claims
    /\ Call(t, "claim", u, {})
    /\ OnlyTask

ClaimWrite(t) ==
    /\ At(t, "claim") /\ task[t].u \notin claims
    /\ claims' = claims \cup {task[t].u}
    /\ Return(t)
    /\ UNCHANGED <<promoVars, referral, accruals, payouts, swapVars>>

-----------------------------------------------------------------------------
(* Battery swaps.                                                          *)

Reserve(t, u) ==
    /\ station.active
    /\ Call(t, "take", u, {})
    /\ OnlyTask

\* The conditional decrement.
Take(t) ==
    /\ At(t, "take") /\ station.available > 0
    /\ station' = [station EXCEPT !.available = @ - 1]
    /\ Goto(t, "pay")
    /\ UNCHANGED <<promoVars, partnerVars, sold>>

\* payForKilowattService, or the reservation, fails: the catch releases.
Pay(t) ==
    /\ At(t, "pay")
    /\ Goto(t, "reserve")
    /\ OnlyTask

PayFails(t) ==
    /\ At(t, "pay") \/ At(t, "reserve")
    /\ Goto(t, "release")
    /\ OnlyTask

\* Mutant of Reserved: the battery is released although it was sold.
ReservedReleased(t) ==
    /\ At(t, "reserve")
    /\ sold' = sold + 1
    /\ Goto(t, "release")
    /\ UNCHANGED <<promoVars, partnerVars, station>>

Reserved(t) ==
    /\ At(t, "reserve")
    /\ sold' = sold + 1
    /\ Return(t)
    /\ UNCHANGED <<promoVars, partnerVars, station>>

Release(t) ==
    /\ At(t, "release")
    /\ station' = [station EXCEPT !.available = @ + 1]
    /\ Return(t)
    /\ UNCHANGED <<promoVars, partnerVars, sold>>

\* The calls that hold a battery.
Holding == {t \in Tasks : task[t].pc \in {"pay", "reserve", "release"}}

\* updateStation writes the number it was given; deleteStation.
UpdateStation(n, on) ==
    /\ sold + Cardinality(Holding) + n <= MaxStock
    /\ station' = [available |-> n, active |-> on, given |-> sold + Cardinality(Holding) + n]
    /\ station' # station
    /\ UNCHANGED <<promoVars, partnerVars, sold, task>>

-----------------------------------------------------------------------------
\* A statement is refused or fails, or the process stops: the call ends.
Throw(t) ==
    /\ task[t] # Idle
    /\ Return(t)
    /\ OnlyTask

PromoNext(t) ==
    \/ \E u \in Users : Validate(t, u)
    \/ CountTotal(t) \/ CountUser(t) \/ Redeem(t)
PartnerNext(t) ==
    \/ \E u \in Users : RedeemCode(t, u) \/ Payout(t, u) \/ Claim(t, u)
    \/ Refer(t) \/ Accrue(t) \/ ProcessPayouts(t) \/ MarkPaid(t) \/ ClaimWrite(t)
SwapNext(t) ==
    \/ \E u \in Users : Reserve(t, u)
    \/ Take(t) \/ Pay(t) \/ PayFails(t) \/ Reserved(t) \/ Release(t)

Next ==
    \/ \E t \in Tasks : PromoNext(t) \/ PartnerNext(t) \/ SwapNext(t) \/ Throw(t)
    \/ \E l \in Limits, on \in BOOLEAN : UpdatePromo(l, on)
    \/ \E n \in 0 .. MaxStock, on \in BOOLEAN : UpdateStation(n, on)

Spec == Init /\ [][Next]_vars

-----------------------------------------------------------------------------
(* Properties.                                                             *)

\* Every row and every call in progress has its type.
OffersTypeOK ==
    /\ promo \in [active : BOOLEAN, limit : Limits, highest : Limits]
    /\ redeemed \in [Users -> 0 .. MaxRedeemed]
    /\ referral \in [Users -> {"NONE", "QUALIFIED", "PAID"}]
    /\ accruals \subseteq Users /\ claims \subseteq Users
    /\ station.available \in Nat /\ station.given \in 0 .. MaxStock
    /\ sold \in Nat
    /\ \A t \in Tasks : task[t].u \in Users \cup {None} /\ task[t].todo \subseteq Users

\* A referral is paid out once, however many payout runs overlap, fail or are
\* repeated, and is PAID only if it was (referrals.service.ts:142-166).
PayoutOnce ==
    \A u \in Users :
        LET postings == {p \in payouts : p.of = u}
        IN  /\ Cardinality(postings) <= 1
            /\ referral[u] = "PAID" => postings # {}
            /\ postings # {} => referral[u] # "NONE"

\* What is limited stays limited.  Batteries sold, held by a call or still
\* available are never more than the station was given ("two concurrent
\* reservations can't both claim the last battery",
\* battery-swap.service.ts:72-74).  Redemptions are counted before the booking
\* and recorded after it (promo.service.ts:71-88, 103-114), so calls at once
\* may exceed the limit, by as many as were under way and no more.
LimitsHold ==
    /\ sold + Cardinality(Holding) + station.available <= station.given
    /\ Redeemed <= promo.highest + Cardinality(Tasks) - 1
=============================================================================
