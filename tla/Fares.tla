------------------------------- MODULE Fares -------------------------------
(***************************************************************************)
(* The price of a trip from its quote to its payment                       *)
(* (src/src/pricing/pricing.service.ts, quote.service.ts): what the picker *)
(* shows, what the booking keeps, what completion divides among driver,    *)
(* platform and tax, and what a late cancellation costs.  The tables it is *)
(* computed from may be changed by an administrator at any moment.         *)
(*                                                                         *)
(* One ride or delivery.  Amounts are integers in the smallest unit, so a  *)
(* rounding to two decimals is a rounding to an integer; distances are     *)
(* tenths of a kilometre, rates percents.  Each handler is one step: its   *)
(* interleavings are in RideDispatch and Delivery, the choice of a tariff  *)
(* among the active rows in Pricing, the limits of a code in Offers.       *)
(***************************************************************************)
EXTENDS Integers, FiniteSetsExt

CONSTANTS
    Vehicles,       \* the vehicle types
    Tariffs,        \* what a tariff may be
    Routes,         \* distance and minutes of a route
    Percents,       \* what the tax rate and the commission rate may be
    Promos,         \* what the promo code may give
    None            \* no code, no vehicle

FaresAssumption ==
    /\ Tariffs \subseteq [base : Nat, perKm : Nat, perMinute : Nat, minimum : Nat, fee : Nat]
    /\ Routes \subseteq [km : Nat, minutes : Nat]
    /\ Percents \subseteq 0 .. 100
    /\ Promos \subseteq [type : {"PERCENTAGE", "FIXED"}, value : Nat, max : Nat]
    /\ None \notin Promos

VARIABLES
    tables,     \* the active tariffs, tax rate, commission rate and promo code
    quote,      \* the quote on the customer's screen
    booking,    \* the ride or delivery
    money       \* what was posted for it

vars == <<tables, quote, booking, money>>

NoQuote == [shown |-> FALSE]
NoBooking == [status |-> "NONE"]
NoMoney == [from |-> 0, driver |-> 0, platform |-> 0, tax |-> 0]

Tables == [tariff : [Vehicles -> Tariffs], taxRate : Percents,
           commission : Percents, promo : Promos \cup {None}]

Init ==
    /\ tables \in Tables
    /\ quote = NoQuote
    /\ booking = NoBooking
    /\ money = NoMoney

-----------------------------------------------------------------------------
(* The formulas.                                                           *)

Least(a, b) == IF a < b THEN a ELSE b
Greatest(a, b) == IF a > b THEN a ELSE b

\* roundMoney of the fraction n / d: half up.
Rounded(n, d) == (2 * n + d) \div (2 * d)

\* calculateFare.
Subtotal(tariff, route) ==
    Rounded(Greatest(10 * (tariff.base + tariff.perMinute * route.minutes) + tariff.perKm * route.km,
                     10 * tariff.minimum),
            10)

\* The discount of a code on a fare, not rounded: in hundredths.
Discount(promo, fare) ==
    IF promo.type = "FIXED" THEN 100 * Least(promo.value, fare)
    ELSE IF promo.max > 0 THEN Least(promo.value * fare, 100 * promo.max)
    ELSE promo.value * fare

\* Mutant of Breakdown: the discount is not capped at what is left to pay.
BreakdownUncapped(subtotal, discount) ==
    LET less == Rounded(discount, 100)
        tax == Rounded((subtotal - less) * tables.taxRate, 100)
    IN  [subtotal |-> subtotal, discount |-> less, tax |-> tax, total |-> subtotal - less + tax]

\* buildFareBreakdown: the tax is on the discounted amount.
Breakdown(subtotal, discount) ==
    LET less == Rounded(Least(discount, 100 * subtotal), 100)
        tax == Rounded((subtotal - less) * tables.taxRate, 100)
    IN  [subtotal |-> subtotal, discount |-> less, tax |-> tax, total |-> subtotal - less + tax]

\* The platform's part of a fare: never of the tax.
Commission(total, tax) == Rounded((total - tax) * tables.commission, 100)

-----------------------------------------------------------------------------
(* Quote and booking.                                                      *)

\* Mutant of TryPromo: the discount of one vehicle's fare is used for all.
TryPromoOnce(code, fare, route) ==
    IF code /\ tables.promo # None
    THEN Discount(tables.promo, Subtotal(tables.tariff[CHOOSE v \in Vehicles : TRUE], route)) ELSE 0

\* A code that does not apply does not fail the quote.
TryPromo(code, fare, route) ==
    IF code /\ tables.promo # None THEN Discount(tables.promo, fare) ELSE 0

\* quoteVehicles: every vehicle's price; which one is recommended is left out.
QuoteVehicles(route, code) ==
    [v \in Vehicles |-> LET s == Subtotal(tables.tariff[v], route)
                        IN  Breakdown(s, TryPromo(code, s, route)).total]

Show(kind, route, code) ==
    /\ booking = NoBooking
    /\ quote' = [shown |-> TRUE, kind |-> kind, route |-> route, code |-> code,
                 total |-> QuoteVehicles(route, code)]
    /\ UNCHANGED <<tables, booking, money>>

\* A code counts for a signed-in caller only; the others are told so.
EstimateFare(route, code, signedIn) == Show("RIDE", route, code /\ signedIn)
QuoteDelivery(route, code, signedIn) == Show("DELIVERY", route, code /\ signedIn)

\* createRide and createDelivery: a code that does not apply fails the
\* booking, and a business's delivery takes none.  `quoted` is what the
\* customer's screen said, when it was about this trip and code.
Book(kind, method, v, route, code) ==
    LET promo == code /\ method # "INVOICE"
        s == Subtotal(tables.tariff[v], route)
        fare == Breakdown(s, IF promo THEN Discount(tables.promo, s) ELSE 0)
        seen == quote.shown /\ quote.kind = kind /\ quote.route = route /\ quote.code = code
    IN  /\ booking = NoBooking
        /\ promo => tables.promo # None
        /\ kind = "RIDE" => method # "INVOICE"
        /\ booking' = [status |-> "BOOKED", kind |-> kind, method |-> method, vehicle |-> v,
                       fare |-> fare, commission |-> 0,
                       redeemed |-> IF promo THEN fare.discount ELSE 0,
                       quoted |-> IF seen THEN <<quote.total[v]>> ELSE <<>>]
        /\ quote' = NoQuote
        /\ UNCHANGED <<tables, money>>

\* updateStops: another route, and the discount that the row holds.
UpdateStops(route) ==
    LET s == Subtotal(tables.tariff[booking.vehicle], route)
    IN  /\ booking.status = "BOOKED" /\ booking.kind = "DELIVERY"
        /\ booking' = [booking EXCEPT !.fare = Breakdown(s, 100 * booking.fare.discount),
                                      !.quoted = <<>>]
        /\ UNCHANGED <<tables, quote, money>>

-----------------------------------------------------------------------------
(* Payment.  What the driver, the platform and the tax account get, whether *)
(* from a wallet, from the driver's cash, or from a company's wallet.      *)

Divided(total, commission, tax) ==
    [from |-> total, driver |-> total - commission - tax, platform |-> commission, tax |-> tax]

\* What a driver who was paid in cash owes.
Owed(commission, tax) == commission + tax

\* completeTrip and completeDelivery: at the fare of the booking and the
\* commission of the day.  A cash driver keeps the fare and owes commission
\* and tax; a company's delivery is invoiced.
Complete ==
    LET total == booking.fare.total
        commission == Commission(total, booking.fare.tax)
        owed == Owed(commission, booking.fare.tax)
    IN  /\ booking.status = "BOOKED"
        /\ booking' = [booking EXCEPT !.status = IF booking.method = "INVOICE" THEN "INVOICED"
                                                                              ELSE "COMPLETED",
                                      !.commission = commission]
        /\ money' = CASE booking.method = "INVOICE" -> money
                      [] booking.method = "CASH" ->
                           [from |-> total, driver |-> total - owed,
                            platform |-> commission, tax |-> owed - commission]
                      [] OTHER -> Divided(total, commission, booking.fare.tax)
        /\ UNCHANGED <<tables, quote>>

\* getReceipt, of a completed ride: the row's amounts.
Receipt ==
    [subtotal |-> booking.fare.subtotal, discount |-> booking.fare.discount,
     tax |-> booking.fare.tax, total |-> booking.fare.total, commission |-> booking.commission]

\* emailReceipt: the lines above the total, each printed when it is not zero.
ReceiptLines ==
    {line \in {<<"fare", booking.fare.subtotal>>, <<"promo", -booking.fare.discount>>,
               <<"tax", booking.fare.tax>>} : line[2] # 0}

\* payInvoice: the amount and the commission of the invoice, the tax of the
\* delivery's row.
PayInvoice ==
    /\ booking.status = "INVOICED"
    /\ booking' = [booking EXCEPT !.status = "COMPLETED"]
    /\ money' = Divided(booking.fare.total, booking.commission, booking.fare.tax)
    /\ UNCHANGED <<tables, quote>>

\* cancel once a driver has accepted: the fee is divided without rounding, and
\* each part is rounded where it is stored.
CancelLate ==
    LET fee == tables.tariff[booking.vehicle].fee
    IN  /\ booking.status = "BOOKED"
        /\ booking' = [booking EXCEPT !.status = "CANCELLED"]
        /\ money' = [from |-> fee, tax |-> 0,
                     platform |-> Rounded(fee * tables.commission, 100),
                     driver |-> Rounded(fee * (100 - tables.commission), 100)]
        /\ UNCHANGED <<tables, quote>>

-----------------------------------------------------------------------------
\* An administrator changes a tariff, the tax, the commission or the code: a
\* quote shown before is not a promise any more.
SetTables(new) ==
    /\ tables' = new
    /\ quote' = NoQuote
    /\ UNCHANGED <<booking, money>>

UpdateTariff(v, tariff) == SetTables([tables EXCEPT !.tariff[v] = tariff])
SetTaxRate(r) == SetTables([tables EXCEPT !.taxRate = r])
UpdateCommissionRule(r) == SetTables([tables EXCEPT !.commission = r])
UpdatePromo(promo) == SetTables([tables EXCEPT !.promo = promo])

Next ==
    \/ \E route \in Routes :
          \/ UpdateStops(route)
          \/ \E code \in BOOLEAN :
                \/ \E signedIn \in BOOLEAN : EstimateFare(route, code, signedIn)
                                            \/ QuoteDelivery(route, code, signedIn)
                \/ \E kind \in {"RIDE", "DELIVERY"}, method \in {"WALLET", "CASH", "INVOICE"} :
                      \E v \in Vehicles : Book(kind, method, v, route, code)
    \/ Complete \/ PayInvoice \/ CancelLate
    \/ \E v \in Vehicles, tariff \in Tariffs : UpdateTariff(v, tariff)
    \/ \E r \in Percents : SetTaxRate(r) \/ UpdateCommissionRule(r)
    \/ \E promo \in Promos \cup {None} : UpdatePromo(promo)

Spec == Init /\ [][Next]_vars

-----------------------------------------------------------------------------
(* Properties.                                                             *)

Booked == booking # NoBooking

\* A fare adds up and nobody's part is negative, for any tariff, route, code
\* and rates, after any edit and change of the tables, and whichever way it
\* is paid: a discount is never more than the fare it is taken from, the tax
\* is on what is left, the commission never on the tax, and what is paid is
\* exactly what driver, platform and tax account get
\* (trip.service.ts:155-223, pricing.service.ts:94-108, wallet.service.ts:98).
FareAddsUp ==
    Booked =>
        LET fare == booking.fare
        IN  /\ fare.total = fare.subtotal - fare.discount + fare.tax
            /\ fare.discount \in 0 .. fare.subtotal
            /\ fare.tax \in 0 .. fare.total
            /\ booking.status = "COMPLETED" =>
                  /\ money.from = fare.total
                  /\ money.from = money.driver + money.platform + money.tax
                  /\ money.tax = fare.tax
                  /\ money.driver >= 0 /\ money.platform >= 0

\* The receipt says what was paid, and its lines add up to it
\* (trip.service.ts:89-104).
ReceiptAddsUp ==
    booking.status = "COMPLETED" =>
        /\ Receipt.total = money.from /\ Receipt.commission = money.platform
        /\ MapThenSumSet(LAMBDA line : line[2], ReceiptLines) = Receipt.total

\* A fare is whole from the booking to the receipt.
FareIsWhole == FareAddsUp /\ ReceiptAddsUp

\* "what the picker shows is what gets charged" (quote.service.ts:34-35): who
\* books what the screen shows, pays what it shows.  A company's delivery
\* takes no code, whatever the screen said.
QuoteIsCharged ==
    Booked /\ booking.quoted # <<>> /\ booking.method # "INVOICE"
        => booking.fare.total = booking.quoted[1]

\* Doc: logistics.service.ts:345-346: "The promo was redeemed at booking for a
\* fixed amount -- keep honouring it, capped at the new subtotal".
DiscountIsHonoured ==
    Booked => booking.fare.discount = Least(booking.redeemed, booking.fare.subtotal)

\* Doc: wallet.service.ts:33 of every posting: "Double-entry (debits ===
\* credits, checked below)".
FeeBalances == money.from = money.driver + money.platform + money.tax
=============================================================================
