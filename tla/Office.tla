------------------------------- MODULE Office -------------------------------
(* What is around the trips: the back office's figures, fares, people,     *)
(* things there is one of, charts, tracking.  They share no row, so each   *)
(* runs on its own: the initial state says which of them a behaviour is    *)
(* about.                                                                  *)
EXTENDS Naturals

CONSTANTS
    None, Tasks,
    Riders, Drivers, Businesses, FareOf, Fee, Amounts, Opening,     \* of Figures
    MaxTrips, MaxOthers, MaxDay, Evening,
    Vehicles, Tariffs, Routes, Percents, Promos,                    \* of Fares
    Types, Assigned, MaxDocuments,                                  \* of Roster
    Plates, Partners, Signatures, MaxRows,                          \* of Uniques
    BaseYear, Years, Starts, Ticks, MaxTicks, MaxBars               \* of Charts

VARIABLES
    part,
    trips, invoices, withdrawals, posted, others, today,
    tables, quote, booking, money,
    user, avail, geo, leaving, documents, day,
    places, cards, vehicle, fleets, ride, links, key, ran, made, task, lapsed, lost,
    now, rows, ticks,
    status, stamped, verified, onMap, followTask

bookVars == <<trips, invoices, withdrawals, posted, others, today>>
fareVars == <<tables, quote, booking, money>>
rosterVars == <<user, avail, geo, leaving, documents, day>>
uniqueVars == <<places, cards, vehicle, fleets, ride, links, key, ran, made, task, lapsed, lost>>
chartVars == <<now, rows, ticks>>
trackVars == <<status, stamped, verified, onMap, followTask>>
screenVars == <<chartVars, trackVars>>
vars == <<part, bookVars, fareVars, rosterVars, uniqueVars, screenVars>>

B == INSTANCE Figures
F == INSTANCE Fares
R == INSTANCE Roster WITH Users <- Drivers
U == INSTANCE Uniques
C == INSTANCE Charts WITH MaxRows <- MaxBars
T == INSTANCE Tracking WITH task <- followTask

ASSUME OfficeAssumption ==
    /\ B!BooksAssumption /\ F!FaresAssumption /\ R!RosterAssumption /\ U!UniquesAssumption
    /\ C!ChartsAssumption

Init ==
    /\ part \in {"books", "fares", "roster", "places", "cards", "drivers", "rides", "keys",
                "charts", "tracking"}
    /\ B!Init /\ F!Init /\ R!Init /\ U!Init /\ C!Init /\ T!Init
    /\ part = "fares" \/ tables = CHOOSE t \in F!Tables : TRUE
    /\ part = "charts" \/ now = CHOOSE h \in C!Openings : TRUE
    /\ part = "tracking" \/ ~ onMap

BooksStep ==
    part = "books" /\ B!Next /\ UNCHANGED <<part, fareVars, rosterVars, uniqueVars, screenVars>>
FaresStep ==
    part = "fares" /\ F!Next /\ UNCHANGED <<part, bookVars, rosterVars, uniqueVars, screenVars>>
RosterStep ==
    part = "roster" /\ R!Next /\ UNCHANGED <<part, bookVars, fareVars, uniqueVars, screenVars>>
UniquesStep ==
    /\ \/ part = "places" /\ U!PlaceNext
       \/ part = "cards" /\ U!CardNext
       \/ part = "drivers" /\ U!DriverNext
       \/ part = "rides" /\ U!RideNext
       \/ part = "keys" /\ U!KeyNext
       \/ \E t \in Tasks : U!Throw(t)
    /\ UNCHANGED <<part, bookVars, fareVars, rosterVars, screenVars>>
ChartsStep ==
    part = "charts" /\ C!Next
        /\ UNCHANGED <<part, bookVars, fareVars, rosterVars, uniqueVars, trackVars>>
TrackingStep ==
    part = "tracking" /\ T!Next
        /\ UNCHANGED <<part, bookVars, fareVars, rosterVars, uniqueVars, chartVars>>
Next == BooksStep \/ FaresStep \/ RosterStep \/ UniquesStep \/ ChartsStep \/ TrackingStep

Spec == Init /\ [][Next]_vars

\* A fare adds up and is divided whole (pricing.service.ts:94-108,
\* wallet.service.ts:89-121).
FareIsWhole == part = "fares" => F!FareIsWhole

\* A booking costs what its quote said (quote.service.ts:34-120).
QuoteIsCharged == part = "fares" => F!QuoteIsCharged

\* Figures of the same thing are the same on every screen: of money and trips
\* (admin-ops.service.ts, admin-finance.service.ts, reports.service.ts), and of
\* people (admin-ops.service.ts, analytics.service.ts, kyc.service.ts), in
\* charts and cards (time-bucket.util.ts), and on the screens of a delivery
\* (logistics.service.ts).
ScreensAgree ==
    /\ part = "books" => B!FiguresAgree
    /\ part = "roster" => R!RosterAgrees
    /\ part = "charts" => C!ChartsAgree
    /\ part = "tracking" => T!TimelineHolds

\* The ledger and the rows of trips tell the same story
\* (wallet.service.ts, admin-ops.service.ts:698-757, business.service.ts:381-464).
BooksExplained == part = "books" => B!BooksExplained

\* Homes, default cards, links and runs of a request are as few as the calls
\* that overlap, whatever fails (saved-places.service.ts, payments.service.ts:191-214).
OverlapIsBounded == U!OverlapIsBounded

\* The comments that the code does not keep: see the modules.
DiscountIsHonoured == F!DiscountIsHonoured
FeeBalances == F!FeeBalances
FleetEarnsFromTrips == B!FleetEarnsFromTrips
SettledAgrees == B!SettledAgrees
RiderBalancesAgree == B!RiderBalancesAgree
EarnedIsReceived == B!EarnedIsReceived
OnlineAgrees == R!OnlineAgrees
OfflineHasNoPosition == R!OfflineHasNoPosition
OneHomeAlways == U!OneHomeAlways
OneDefaultAlways == U!OneDefaultAlways
OneLinkAlways == U!OneLinkAlways
OneRunAlways == U!OneRunAlways
CurrentIsNext == T!CurrentIsNext
=============================================================================
