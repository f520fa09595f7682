------------------------------ MODULE Services ------------------------------
(* What the platform offers around a trip: codes, referrals and batteries, *)
(* the prices' tables, notifications, support.  They share no row, so each *)
(* runs on its own: the initial state says which of them a behaviour is    *)
(* about.                                                                  *)
EXTENDS Naturals

CONSTANTS
    Tasks, None,
    Users, Limits, UserLimit, MaxRedeemed, MaxStock,    \* of Offers
    Areas, MaxWrites,                                   \* of Pricing
    Recipients, Tokens, Senders, Worker, MaxNotes,      \* of Notices
    MaxReplies                                          \* of Tickets

VARIABLES
    part,
    promo, redeemed, referral, accruals, payouts, claims, station, sold, offerTask,
    table, entry, writes, pricingTask,
    users, device, muted, inbox, campaign, noticeTask,
    ticket, thread, reply

offerVars == <<promo, redeemed, referral, accruals, payouts, claims, station, sold, offerTask>>
pricingVars == <<table, entry, writes, pricingTask>>
noticeVars == <<users, device, muted, inbox, campaign, noticeTask>>
ticketVars == <<ticket, thread, reply>>
vars == <<part, offerVars, pricingVars, noticeVars, ticketVars>>

F == INSTANCE Offers WITH task <- offerTask
P == INSTANCE Pricing WITH task <- pricingTask
N == INSTANCE Notices WITH Users <- Recipients, Tasks <- Senders, task <- noticeTask
T == INSTANCE Tickets

ASSUME ServicesAssumption ==
    F!OffersAssumption /\ P!PricingAssumption /\ N!NoticesAssumption /\ T!TicketsAssumption

Init ==
    /\ part \in {"offers", "pricing", "notices", "tickets"}
    /\ F!Init /\ P!Init /\ N!Init /\ T!Init
    /\ part = "offers" \/ station.available = 0

OffersStep == part = "offers" /\ F!Next /\ UNCHANGED <<part, pricingVars, noticeVars, ticketVars>>
PricingStep == part = "pricing" /\ P!Next /\ UNCHANGED <<part, offerVars, noticeVars, ticketVars>>
NoticesStep == part = "notices" /\ N!Next /\ UNCHANGED <<part, offerVars, pricingVars, ticketVars>>
TicketsStep == part = "tickets" /\ T!Next /\ UNCHANGED <<part, offerVars, pricingVars, noticeVars>>
Next == OffersStep \/ PricingStep \/ NoticesStep \/ TicketsStep

Spec == Init /\ [][Next]_vars

\* Redis drops the entries whose time has come (see Pricing).
FairSpec == Spec /\ P!Fairness

\* Every variable of the four components has its type.
ServicesTypeOK == F!OffersTypeOK /\ P!PricingTypeOK /\ N!NoticesTypeOK /\ T!TicketsTypeOK

\* A referral is paid out once (referrals.service.ts:142-166).
PayoutOnce == F!PayoutOnce

\* Batteries are not sold twice, and redemptions pass their limit by no more
\* than the calls under way (battery-swap.service.ts:72-98, promo.service.ts:71-114).
LimitsHold == F!LimitsHold

\* A trip is priced by the tariff made for it (pricing.service.ts:110-127).
TariffFits == P!TariffFits

\* Once writing stops every cache serves what the database holds
\* (pricing.service.ts:251-285, platform-config.service.ts:19-37).
CatchesUp == P!CatchesUp

\* A campaign marked as sent reached its audience, however often its job ran
\* (notifications.processor.ts:32-56).
SentToAll == N!SentToAll

\* A resolved or escalated ticket went through resolve or escalate
\* (support.service.ts:281-387).
TicketStamped == T!TicketStamped

\* "Push failure never blocks or fails this call" (notifications.service.ts:31).
PushNeverFails == N!PushNeverFails

\* "Mean time ... over resolved tickets" (support.service.ts:248).
MeanIsOfResolved == T!MeanIsOfResolved

\* "both terminal statuses block further replies here" (support.service.ts:103).
ResolvedStaysResolved == T!ResolvedStaysResolved
=============================================================================
