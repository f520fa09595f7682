---------------------------- MODULE OfficeProofs ----------------------------
(***************************************************************************)
(* Theorems about Office: a fare adds up, is divided whole and is what its *)
(* quote said, for any vehicles, tariffs, routes, codes and rates, whatever *)
(* an administrator changes in between; of what there should be one of     *)
(* there are no more than calls at once; and the ledger and the rows of    *)
(* the books tell the same story.                                          *)
(***************************************************************************)
EXTENDS Office, Sums, Sequences, TLAPS

-----------------------------------------------------------------------------
(* The arithmetic.                                                         *)

LEMMA ProductsAreNatural == \A a, b \in Nat : a * b \in Nat
  OBVIOUS

\* A percentage of an amount is at most the amount.
LEMMA PartOfAmount ==
    ASSUME NEW a \in Nat, NEW r \in 0 .. 100
    PROVE  a * r \in 0 .. 100 * a
  <1>1. PICK q \in Nat : q = 100 - r
    OBVIOUS
  <1>2. a * r \in Nat /\ a * q \in Nat
    BY ProductsAreNatural
  <1>3. a * r + a * q = 100 * a
    BY <1>1
  <1> QED
    BY <1>2, <1>3

\* Rounding to the unit goes no further than the next unit.
LEMMA RoundedHundredths ==
    ASSUME NEW n \in Nat, NEW m \in Nat, n <= 100 * m
    PROVE  F!Rounded(n, 100) \in 0 .. m
  BY DEF F!Rounded

LEMMA RoundedTenths ==
    ASSUME NEW n \in Nat
    PROVE  F!Rounded(n, 10) \in Nat
  BY DEF F!Rounded

-----------------------------------------------------------------------------
(* The formulas.                                                           *)

FareRecords == [subtotal : Nat, discount : Nat, tax : Nat, total : Nat]
Whole(fare) ==
    /\ fare \in FareRecords
    /\ fare.total = fare.subtotal - fare.discount + fare.tax
    /\ fare.discount <= fare.subtotal
    /\ fare.tax <= fare.total

LEMMA SubtotalIsNatural ==
    ASSUME F!FaresAssumption, NEW tariff \in Tariffs, NEW route \in Routes
    PROVE  F!Subtotal(tariff, route) \in Nat
  <1>1. PICK b \in Nat, k \in Nat, p \in Nat, m \in Nat :
            b = tariff.base /\ k = tariff.perKm /\ p = tariff.perMinute /\ m = tariff.minimum
    BY DEF F!FaresAssumption
  <1>2. PICK d \in Nat, w \in Nat : d = route.km /\ w = route.minutes
    BY DEF F!FaresAssumption
  <1>3. PICK x \in Nat, y \in Nat : x = p * w /\ y = k * d
    BY ProductsAreNatural
  <1>4. PICK n \in Nat : n = F!Greatest(10 * (b + x) + y, 10 * m)
    BY DEF F!Greatest
  <1>5. F!Subtotal(tariff, route) = F!Rounded(n, 10)
    BY <1>1, <1>2, <1>3, <1>4 DEF F!Subtotal
  <1> QED
    BY <1>5, RoundedTenths

LEMMA DiscountIsNatural ==
    ASSUME F!FaresAssumption, NEW promo \in Promos, NEW fare \in Nat
    PROVE  F!Discount(promo, fare) \in Nat
  <1>1. PICK v \in Nat, m \in Nat : v = promo.value /\ m = promo.max
    BY DEF F!FaresAssumption
  <1>2. PICK x \in Nat : x = v * fare
    BY ProductsAreNatural
  <1> QED
    BY <1>1, <1>2 DEF F!Discount, F!Least

LEMMA BreakdownIsWhole ==
    ASSUME NEW subtotal \in Nat, NEW discount \in Nat, tables.taxRate \in 0 .. 100
    PROVE  Whole(F!Breakdown(subtotal, discount))
  <1>1. PICK n \in Nat : n = F!Least(discount, 100 * subtotal) /\ n <= 100 * subtotal
    BY DEF F!Least
  <1>2. PICK less \in Nat : less = F!Rounded(n, 100) /\ less <= subtotal
    BY <1>1, RoundedHundredths
  <1>3. PICK left \in Nat : left = subtotal - less
    BY <1>2
  <1>4. PICK x \in Nat : x = left * tables.taxRate /\ x <= 100 * left
    BY PartOfAmount
  <1>5. PICK tax \in Nat : tax = F!Rounded(x, 100)
    BY <1>4, RoundedHundredths
  <1>6. F!Breakdown(subtotal, discount) =
            [subtotal |-> subtotal, discount |-> less, tax |-> tax, total |-> left + tax]
    BY <1>1, <1>2, <1>3, <1>4, <1>5 DEF F!Breakdown
  <1> QED
    BY <1>2, <1>3, <1>6 DEF Whole, FareRecords

LEMMA CommissionIsAPart ==
    ASSUME NEW total \in Nat, NEW tax \in Nat, tax <= total, tables.commission \in 0 .. 100
    PROVE  F!Commission(total, tax) \in 0 .. (total - tax)
  <1>1. PICK left \in Nat : left = total - tax
    OBVIOUS
  <1>2. PICK x \in Nat : x = left * tables.commission /\ x <= 100 * left
    BY PartOfAmount
  <1> QED
    BY <1>1, <1>2, RoundedHundredths DEF F!Commission

-----------------------------------------------------------------------------
(* The invariant: the tables are tables, a fare is whole, and the          *)
(* commission of a trip that is over is a part of it.                      *)

BookingRecords == [status : {"BOOKED", "INVOICED", "COMPLETED", "CANCELLED"},
                   kind : {"RIDE", "DELIVERY"}, method : {"WALLET", "CASH", "INVOICE"},
                   vehicle : Vehicles, fare : FareRecords, commission : Nat,
                   redeemed : Nat, quoted : Seq(Int)]

BookingOK(b) ==
    /\ b \in BookingRecords
    /\ Whole(b.fare)
    /\ b.quoted # <<>> /\ b.method # "INVOICE" => b.fare.total = b.quoted[1]
    /\ b.status \in {"INVOICED", "COMPLETED"} => b.commission <= b.fare.total - b.fare.tax

Paid(b, m) ==
    m = [from |-> b.fare.total, driver |-> b.fare.total - b.commission - b.fare.tax,
         platform |-> b.commission, tax |-> b.fare.tax]

FaresInv ==
    /\ tables \in F!Tables
    /\ quote.shown => /\ quote.total \in [Vehicles -> Nat]
                      /\ quote.total = F!QuoteVehicles(quote.route, quote.code)
    /\ booking = F!NoBooking \/ BookingOK(booking)
    /\ booking.status = "COMPLETED" => Paid(booking, money)

LEMMA TablesAre ==
    ASSUME F!FaresAssumption, tables \in F!Tables
    PROVE  /\ tables.taxRate \in 0 .. 100 /\ tables.commission \in 0 .. 100
           /\ \A v \in Vehicles : tables.tariff[v] \in Tariffs
           /\ tables.promo # None => tables.promo \in Promos
  BY DEF F!FaresAssumption, F!Tables

LEMMA ShowKeeps ==
    ASSUME F!FaresAssumption, FaresInv, NEW kind, NEW route \in Routes, NEW code \in BOOLEAN,
           F!Show(kind, route, code)
    PROVE  FaresInv'
  <1>1. tables \in F!Tables
    BY DEF FaresInv
  <1>2. ASSUME NEW v \in Vehicles
        PROVE  LET s == F!Subtotal(tables.tariff[v], route)
               IN  F!Breakdown(s, F!TryPromo(code, s, route)).total \in Nat
    <2>1. PICK s \in Nat : s = F!Subtotal(tables.tariff[v], route)
      BY <1>1, TablesAre, SubtotalIsNatural
    <2>2. PICK d \in Nat : d = F!TryPromo(code, s, route)
      BY <1>1, TablesAre, DiscountIsNatural DEF F!TryPromo
    <2>3. Whole(F!Breakdown(s, d))
      BY <1>1, TablesAre, BreakdownIsWhole
    <2> QED
      BY <2>1, <2>2, <2>3 DEF Whole, FareRecords
  <1>3. F!QuoteVehicles(route, code) \in [Vehicles -> Nat]
    BY <1>2 DEF F!QuoteVehicles
  <1>4. quote'.total = F!QuoteVehicles(route, code)
    BY DEF F!Show
  <1>5. tables' = tables /\ booking' = booking /\ money' = money
    BY DEF F!Show
  <1>6. quote'.route = route /\ quote'.code = code
    BY DEF F!Show
  <1>7. F!QuoteVehicles(quote.route, quote.code)' = F!QuoteVehicles(route, code)
    BY <1>5, <1>6 DEF F!QuoteVehicles, F!Breakdown, F!TryPromo
  <1>8. tables' \in F!Tables
    BY <1>1, <1>5 DEF F!Tables
  <1>9. booking' = F!NoBooking \/ BookingOK(booking)'
    BY <1>5 DEF FaresInv, BookingOK, BookingRecords, Whole, FareRecords
  <1>10. booking'.status = "COMPLETED" => Paid(booking, money)'
    BY <1>5 DEF FaresInv, Paid
  <1> QED
    BY <1>3, <1>4, <1>7, <1>8, <1>9, <1>10 DEF FaresInv

LEMMA BookKeeps ==
    ASSUME F!FaresAssumption, FaresInv, NEW kind \in {"RIDE", "DELIVERY"},
           NEW method \in {"WALLET", "CASH", "INVOICE"}, NEW v \in Vehicles,
           NEW route \in Routes, NEW code \in BOOLEAN,
           F!Book(kind, method, v, route, code)
    PROVE  FaresInv'
  <1>1. tables \in F!Tables /\ (quote.shown => quote.total \in [Vehicles -> Nat])
    BY DEF FaresInv
  <1>2. PICK promo \in BOOLEAN : promo = (code /\ method # "INVOICE")
    OBVIOUS
  <1>3. promo => tables.promo # None
    BY <1>2 DEF F!Book
  <1>4. PICK s \in Nat : s = F!Subtotal(tables.tariff[v], route)
    BY <1>1, TablesAre, SubtotalIsNatural
  <1>5. PICK d \in Nat : d = IF promo THEN F!Discount(tables.promo, s) ELSE 0
    BY <1>1, <1>3, TablesAre, DiscountIsNatural
  <1>6. PICK fare \in FareRecords : fare = F!Breakdown(s, d) /\ Whole(fare)
    BY <1>1, TablesAre, BreakdownIsWhole DEF Whole
  <1>7. PICK red \in Nat : red = IF promo THEN fare.discount ELSE 0
    BY <1>6 DEF FareRecords
  <1>8. PICK seen \in Seq(Int) :
            seen = IF quote.shown /\ quote.kind = kind /\ quote.route = route /\ quote.code = code
                   THEN <<quote.total[v]>> ELSE <<>>
    <2>1. CASE quote.shown
      <3>1. PICK n \in Int : n = quote.total[v]
        BY <1>1, <2>1
      <3>2. <<n>> \in Seq(Int) /\ <<>> \in Seq(Int)
        OBVIOUS
      <3> QED
        BY <3>1, <3>2
    <2>2. CASE ~ quote.shown
      <3>1. <<>> \in Seq(Int)
        OBVIOUS
      <3> QED
        BY <2>2, <3>1, Zenon
    <2> QED
      BY <2>1, <2>2
  <1> DEFINE b == [status |-> "BOOKED", kind |-> kind, method |-> method, vehicle |-> v,
                   fare |-> fare, commission |-> 0, redeemed |-> red, quoted |-> seen]
  <1>9. booking' = b
    BY <1>2, <1>4, <1>5, <1>6, <1>7, <1>8 DEF F!Book
  <1>10. BookingOK(b) /\ b.status = "BOOKED"
    <2>1. b \in BookingRecords /\ b.fare = fare /\ b.quoted = seen /\ b.method = method
      BY DEF BookingRecords
    <2>2. ASSUME seen # <<>>, method # "INVOICE" PROVE fare.total = seen[1]
      <3>1. quote.shown /\ quote.route = route /\ quote.code = code /\ seen = <<quote.total[v]>>
        BY <1>8, <2>2
      <3>2. quote.total = F!QuoteVehicles(route, code)
        BY <3>1 DEF FaresInv
      <3>3. quote.total[v] = F!Breakdown(s, F!TryPromo(code, s, route)).total
        BY <1>4, <3>2 DEF F!QuoteVehicles
      <3>4. F!TryPromo(code, s, route) = d
        BY <1>2, <1>3, <1>5, <2>2 DEF F!TryPromo
      <3> QED
        BY <1>6, <3>1, <3>3, <3>4
    <2> QED
      BY <1>6, <2>1, <2>2 DEF BookingOK
  <1> HIDE DEF b
  <1>11. tables' = tables /\ quote' = F!NoQuote
    BY DEF F!Book
  <1>12. quote'.shown = FALSE
    BY <1>11 DEF F!NoQuote
  <1>13. BookingOK(booking') /\ booking'.status = "BOOKED"
    BY <1>9, <1>10
  <1> QED
    BY <1>1, <1>11, <1>12, <1>13 DEF FaresInv, BookingOK, BookingRecords, Whole, FareRecords

\* The booking is the same row with some columns written, and its fare whole.
LEMMA RowWritten ==
    ASSUME FaresInv, UNCHANGED <<tables, quote>>, BookingOK(booking'),
           booking'.status = "COMPLETED" => Paid(booking', money')
    PROVE  FaresInv'
  BY DEF FaresInv, BookingOK, BookingRecords, Whole, FareRecords, Paid,
         F!QuoteVehicles, F!Breakdown, F!TryPromo

LEMMA BookedIs ==
    ASSUME FaresInv, booking.status # "NONE"
    PROVE  BookingOK(booking)
  BY DEF FaresInv, F!NoBooking

LEMMA UpdateStopsKeeps ==
    ASSUME F!FaresAssumption, FaresInv, NEW route \in Routes, F!UpdateStops(route)
    PROVE  FaresInv'
  <1>1. tables \in F!Tables /\ BookingOK(booking) /\ booking.status = "BOOKED"
    BY BookedIs DEF F!UpdateStops, FaresInv
  <1>2. PICK s \in Nat : s = F!Subtotal(tables.tariff[booking.vehicle], route)
    BY <1>1, TablesAre, SubtotalIsNatural DEF BookingOK, BookingRecords
  <1>3. PICK d \in Nat : d = 100 * booking.fare.discount
    BY <1>1 DEF BookingOK, BookingRecords, FareRecords
  <1>4. PICK fare \in FareRecords : fare = F!Breakdown(s, d) /\ Whole(fare)
    BY <1>1, TablesAre, BreakdownIsWhole DEF Whole
  <1>5. booking' = [booking EXCEPT !.fare = fare, !.quoted = <<>>]
    BY <1>2, <1>3, <1>4 DEF F!UpdateStops
  <1>6. PICK none \in Seq(Int) : none = <<>>
    <2>1. <<>> \in Seq(Int)
      OBVIOUS
    <2> QED
      BY <2>1, Zenon
  <1>7. /\ booking' \in BookingRecords /\ booking'.fare = fare /\ booking'.status = "BOOKED"
        /\ booking'.quoted = <<>>
    BY <1>1, <1>5, <1>6 DEF BookingOK, BookingRecords
  <1>8. BookingOK(booking')
    BY <1>4, <1>7 DEF BookingOK
  <1> QED
    BY <1>7, <1>8, RowWritten DEF F!UpdateStops

LEMMA CompleteKeeps ==
    ASSUME F!FaresAssumption, FaresInv, F!Complete
    PROVE  FaresInv'
  <1>1. tables \in F!Tables /\ BookingOK(booking) /\ booking.status = "BOOKED"
    BY BookedIs DEF F!Complete, FaresInv
  <1>2. PICK total \in Nat, tax \in Nat :
            total = booking.fare.total /\ tax = booking.fare.tax /\ tax <= total
    BY <1>1 DEF BookingOK, Whole, FareRecords
  <1>3. PICK c \in Nat : c = F!Commission(total, tax) /\ c <= total - tax
    <2>1. tables.commission \in 0 .. 100
      BY <1>1, TablesAre
    <2>2. F!Commission(total, tax) \in 0 .. (total - tax)
      BY <1>2, <2>1, CommissionIsAPart
    <2>3. PICK left \in Nat : left = total - tax
      BY <1>2
    <2> QED
      BY <2>2, <2>3
  <1>4. PICK s \in {"INVOICED", "COMPLETED"} :
            /\ s = IF booking.method = "INVOICE" THEN "INVOICED" ELSE "COMPLETED"
            /\ booking' = [booking EXCEPT !.status = s, !.commission = c]
    BY <1>2, <1>3 DEF F!Complete
  <1>5. /\ booking' \in BookingRecords /\ booking'.status = s
        /\ booking'.fare = booking.fare /\ booking'.commission = c
        /\ booking'.quoted = booking.quoted /\ booking'.method = booking.method
    BY <1>1, <1>4 DEF BookingOK, BookingRecords
  <1>6. BookingOK(booking')
    BY <1>1, <1>2, <1>3, <1>5 DEF BookingOK
  <1>7. ASSUME s = "COMPLETED" PROVE Paid(booking', money')
    <2>1. booking.method \in {"WALLET", "CASH"}
      BY <1>1, <1>4, <1>7 DEF BookingOK, BookingRecords
    <2>2. money' = IF booking.method = "CASH"
                   THEN [from |-> total, driver |-> total - F!Owed(c, tax), platform |-> c,
                         tax |-> F!Owed(c, tax) - c]
                   ELSE F!Divided(total, c, tax)
      BY <1>2, <1>3, <2>1 DEF F!Complete
    <2>3. money' = [from |-> total, driver |-> total - c - tax, platform |-> c, tax |-> tax]
      BY <2>2 DEF F!Owed, F!Divided
    <2> QED
      BY <1>2, <1>5, <2>3 DEF Paid
  <1> QED
    BY <1>5, <1>6, <1>7, RowWritten DEF F!Complete

LEMMA PayInvoiceKeeps ==
    ASSUME F!FaresAssumption, FaresInv, F!PayInvoice
    PROVE  FaresInv'
  <1>1. BookingOK(booking) /\ booking.status = "INVOICED"
    BY BookedIs DEF F!PayInvoice
  <1>2. booking' = [booking EXCEPT !.status = "COMPLETED"]
    BY DEF F!PayInvoice
  <1>3. /\ booking' \in BookingRecords /\ booking'.status = "COMPLETED"
        /\ booking'.fare = booking.fare /\ booking'.commission = booking.commission
        /\ booking'.quoted = booking.quoted /\ booking'.method = booking.method
    BY <1>1, <1>2 DEF BookingOK, BookingRecords
  <1>4. BookingOK(booking')
    BY <1>1, <1>3 DEF BookingOK
  <1>5. Paid(booking', money')
    BY <1>3 DEF F!PayInvoice, F!Divided, Paid
  <1> QED
    BY <1>4, <1>5, RowWritten DEF F!PayInvoice

LEMMA CancelLateKeeps ==
    ASSUME F!FaresAssumption, FaresInv, F!CancelLate
    PROVE  FaresInv'
  <1>1. BookingOK(booking) /\ booking.status = "BOOKED"
    BY BookedIs DEF F!CancelLate
  <1>2. booking' = [booking EXCEPT !.status = "CANCELLED"]
    BY DEF F!CancelLate
  <1>3. BookingOK(booking') /\ booking'.status = "CANCELLED"
    BY <1>1, <1>2 DEF BookingOK, BookingRecords
  <1> QED
    BY <1>3, RowWritten DEF F!CancelLate

LEMMA TablesKeep ==
    ASSUME F!FaresAssumption, FaresInv, NEW new \in F!Tables, F!SetTables(new)
    PROVE  FaresInv'
  <1>1. tables' \in F!Tables /\ quote'.shown = FALSE /\ booking' = booking /\ money' = money
    BY DEF F!SetTables, F!NoQuote
  <1> QED
    BY <1>1 DEF FaresInv, BookingOK, BookingRecords, Whole, FareRecords, Paid

LEMMA AdministratorKeeps ==
    ASSUME F!FaresAssumption, FaresInv,
           \/ \E v \in Vehicles, tariff \in Tariffs : F!UpdateTariff(v, tariff)
           \/ \E r \in Percents : F!SetTaxRate(r) \/ F!UpdateCommissionRule(r)
           \/ \E promo \in Promos \cup {None} : F!UpdatePromo(promo)
    PROVE  FaresInv'
  <1>0. tables \in F!Tables
    BY DEF FaresInv
  <1>1. ASSUME NEW v \in Vehicles, NEW tariff \in Tariffs, F!UpdateTariff(v, tariff)
        PROVE  FaresInv'
    <2>1. [tables EXCEPT !.tariff[v] = tariff] \in F!Tables
      BY <1>0 DEF F!Tables
    <2> QED
      BY <1>1, <2>1, TablesKeep DEF F!UpdateTariff
  <1>2. ASSUME NEW r \in Percents, F!SetTaxRate(r) PROVE FaresInv'
    <2>1. [tables EXCEPT !.taxRate = r] \in F!Tables
      BY <1>0 DEF F!Tables
    <2> QED
      BY <1>2, <2>1, TablesKeep DEF F!SetTaxRate
  <1>3. ASSUME NEW r \in Percents, F!UpdateCommissionRule(r) PROVE FaresInv'
    <2>1. [tables EXCEPT !.commission = r] \in F!Tables
      BY <1>0 DEF F!Tables
    <2> QED
      BY <1>3, <2>1, TablesKeep DEF F!UpdateCommissionRule
  <1>4. ASSUME NEW promo \in Promos \cup {None}, F!UpdatePromo(promo) PROVE FaresInv'
    <2>1. [tables EXCEPT !.promo = promo] \in F!Tables
      BY <1>0 DEF F!Tables
    <2> QED
      BY <1>4, <2>1, TablesKeep DEF F!UpdatePromo
  <1> QED
    BY <1>1, <1>2, <1>3, <1>4

LEMMA FaresInvNext == FaresInv /\ [Next]_vars => FaresInv'
  <1> SUFFICES ASSUME FaresInv, [Next]_vars PROVE FaresInv'
    OBVIOUS
  <1>0. F!FaresAssumption
    BY OfficeAssumption
  <1>1. ASSUME NEW route \in Routes, NEW code \in BOOLEAN, NEW signedIn \in BOOLEAN,
               F!EstimateFare(route, code, signedIn) \/ F!QuoteDelivery(route, code, signedIn)
        PROVE  FaresInv'
    BY <1>0, <1>1, ShowKeeps DEF F!EstimateFare, F!QuoteDelivery
  <1>2. CASE F!Next
    BY <1>0, <1>1, <1>2, BookKeeps, UpdateStopsKeeps, CompleteKeeps, PayInvoiceKeeps,
       CancelLateKeeps, AdministratorKeeps DEF F!Next
  <1>3. CASE UNCHANGED fareVars
    BY <1>3 DEF fareVars, FaresInv, BookingOK, BookingRecords, Whole, FareRecords, Paid,
                F!QuoteVehicles, F!Breakdown, F!TryPromo
  <1> QED
    BY <1>2, <1>3 DEF Next, BooksStep, FaresStep, RosterStep, UniquesStep, ChartsStep,
                      TrackingStep, vars

LEMMA FaresInvAlways == Spec => []FaresInv
  <1>1. Init => FaresInv
    BY DEF Init, F!Init, FaresInv, F!NoQuote, F!NoBooking
  <1> QED
    BY <1>1, FaresInvNext, PTL DEF Spec

LEMMA InvFareAddsUp == FaresInv => F!FareAddsUp
  <1> SUFFICES ASSUME FaresInv, booking # F!NoBooking PROVE F!FareAddsUp
    BY DEF F!FareAddsUp, F!Booked
  <1>1. BookingOK(booking)
    BY DEF FaresInv
  <1>2. PICK s \in Nat, d \in Nat, x \in Nat, total \in Nat, c \in Nat :
            /\ s = booking.fare.subtotal /\ d = booking.fare.discount /\ x = booking.fare.tax
            /\ total = booking.fare.total /\ c = booking.commission
            /\ total = s - d + x /\ d <= s /\ x <= total
    BY <1>1 DEF BookingOK, BookingRecords, Whole, FareRecords
  <1>3. ASSUME booking.status = "COMPLETED"
        PROVE  /\ money.from = total /\ money.driver = total - c - x
               /\ money.platform = c /\ money.tax = x /\ c <= total - x
    BY <1>1, <1>2, <1>3 DEF FaresInv, Paid, BookingOK
  <1> QED
    BY <1>2, <1>3 DEF F!FareAddsUp

\* Who books what the screen shows pays what it shows, whatever an
\* administrator changes before and after: a quote is shown again when the
\* tables change (quote.service.ts:34-120).
THEOREM QuotesAreCharged == Spec => []QuoteIsCharged
  <1>1. FaresInv => QuoteIsCharged
    BY DEF FaresInv, BookingOK, QuoteIsCharged, F!QuoteIsCharged, F!Booked
  <1> QED
    BY <1>1, FaresInvAlways, PTL

-----------------------------------------------------------------------------
(* The receipt.  The sum of its lines is a fold of its own to the provers. *)

LinesFold(S) ==
    CHOOSE it : it = [s \in SUBSET S |-> IF s = {} THEN 0 ELSE Chosen(s)[2] + it[s \ {Chosen(s)}]]

LEMMA SumOfLines ==
    ASSUME NEW S, IsFiniteSet(S), \A line \in S : line[2] \in Int
    PROVE  F!MapThenSumSet(LAMBDA line : line[2], S)
               = SumFunctionOnSet([line \in S |-> line[2]], S)
  <1> DEFINE f == [line \in S |-> line[2]]
             Step(it, s) == IF s = {} THEN 0 ELSE Chosen(s)[2] + it[s \ {Chosen(s)}]
  <1>1. Ints(f, S)
    BY DEF Ints
  <1>2. ASSUME NEW it, NEW s \in SUBSET S PROVE FoldStep(f, it, s) = Step(it, s)
    BY ChosenIn DEF FoldStep
  <1>3. PICK it : FoldsOn(f, it, S)
    BY <1>1, FoldExists
  <1>4. it = [s \in SUBSET S |-> Step(it, s)]
    BY <1>2, <1>3 DEF FoldsOn
  <1>5. LinesFold(S) = [s \in SUBSET S |-> Step(LinesFold(S), s)]
    BY <1>4 DEF LinesFold
  <1>6. LinesFold(S) = [s \in SUBSET S |-> FoldStep(f, LinesFold(S), s)]
    BY <1>2, <1>5
  <1> HIDE DEF f
  <1>7. LinesFold(S)[S] = SumFunctionOnSet(f, S)
    BY <1>1, <1>6, SumOfFold
  <1>8. F!MapThenSumSet(LAMBDA line : line[2], S) = LinesFold(S)[S]
    BY DEF F!MapThenSumSet, F!MapThenFoldSet, LinesFold, Chosen
  <1> QED
    BY <1>7, <1>8 DEF f

\* What f is on three things is summed term by term.
ThreeSum(f, a, b, c) ==
    (/\ a # b /\ a # c /\ b # c
     /\ f[a] \in Int /\ f[b] \in Int /\ f[c] \in Int)
        => /\ IsFiniteSet({a, b, c}) /\ Ints(f, {a, b, c})
           /\ SumFunctionOnSet(f, {a, b, c}) = f[a] + f[b] + f[c]

LEMMA SumOfThree ==
    ASSUME NEW f, NEW a, NEW b, NEW c PROVE ThreeSum(f, a, b, c)
  <1> SUFFICES ASSUME a # b, a # c, b # c, f[a] \in Int, f[b] \in Int, f[c] \in Int
               PROVE  /\ IsFiniteSet({a, b, c}) /\ Ints(f, {a, b, c})
                      /\ SumFunctionOnSet(f, {a, b, c}) = f[a] + f[b] + f[c]
    BY DEF ThreeSum
  <1>1. IsFiniteSet({}) /\ IsFiniteSet({c})
    BY FS_EmptySet, FS_Singleton
  <1>2. IsFiniteSet({b, c}) /\ {b, c} = {c} \cup {b}
    <2>1. IsFiniteSet({c} \cup {b})
      BY <1>1, FS_AddElement
    <2>2. {c} \cup {b} = {b, c}
      OBVIOUS
    <2> QED
      BY <2>1, <2>2
  <1>3. IsFiniteSet({a, b, c}) /\ {a, b, c} = {b, c} \cup {a}
    <2>1. IsFiniteSet({b, c} \cup {a})
      BY <1>2, FS_AddElement
    <2>2. {b, c} \cup {a} = {a, b, c}
      OBVIOUS
    <2> QED
      BY <2>1, <2>2
  <1>4. Ints(f, {c}) /\ Ints(f, {b, c}) /\ Ints(f, {a, b, c})
    BY DEF Ints
  <1>5. SumFunctionOnSet(f, {c}) = f[c]
    BY <1>1, SumOne
  <1>6. SumFunctionOnSet(f, {c} \cup {b}) = f[b] + SumFunctionOnSet(f, {c})
    BY <1>1, <1>2, <1>4, SumAdd
  <1>7. SumFunctionOnSet(f, {b, c} \cup {a}) = f[a] + SumFunctionOnSet(f, {b, c})
    BY <1>2, <1>3, <1>4, SumAdd
  <1>8. SumFunctionOnSet(f, {b, c}) = f[b] + f[c]
    BY <1>2, <1>5, <1>6
  <1>9. SumFunctionOnSet(f, {a, b, c}) = f[a] + (f[b] + f[c])
    BY <1>3, <1>7, <1>8
  <1>10. f[a] + (f[b] + f[c]) = f[a] + f[b] + f[c]
    OBVIOUS
  <1> QED
    BY <1>3, <1>4, <1>9, <1>10

\* The lines above the total, with those that are zero left out.
LEMMA LinesAddUp ==
    ASSUME NEW s \in Nat, NEW d \in Nat, NEW x \in Nat
    PROVE  F!MapThenSumSet(LAMBDA line : line[2],
                           {line \in {<<"fare", s>>, <<"promo", -d>>, <<"tax", x>>} : line[2] # 0})
               = s - d + x
  <1> DEFINE a == <<"fare", s>>
             b == <<"promo", -d>>
             c == <<"tax", x>>
             All == {a, b, c}
             f == [line \in All |-> line[2]]
             L == {line \in All : line[2] # 0}
             g == [line \in L |-> line[2]]
  <1>1. a # b /\ a # c /\ b # c /\ a[2] = s /\ b[2] = -d /\ c[2] = x
    OBVIOUS
  <1>2. f[a] = s /\ f[b] = -d /\ f[c] = x /\ -d \in Int
    BY <1>1
  <1>3. L = {line \in All : f[line] # 0} /\ L \subseteq All
    OBVIOUS
  <1>4. \A line \in L : f[line] = g[line] /\ line[2] \in Int
    BY <1>1
  <1>5. IsFiniteSet(All) /\ Ints(f, All) /\ SumFunctionOnSet(f, All) = s - d + x
    <2>1. f[a] \in Int /\ f[b] \in Int /\ f[c] \in Int
      BY <1>2
    <2>2. a # b /\ a # c /\ b # c
      BY <1>1
    <2> HIDE DEF f, a, b, c, All
    <2>3. ThreeSum(f, a, b, c)
      BY SumOfThree
    <2>4. IsFiniteSet({a, b, c}) /\ Ints(f, {a, b, c})
            /\ SumFunctionOnSet(f, {a, b, c}) = f[a] + f[b] + f[c]
      BY <2>1, <2>2, <2>3 DEF ThreeSum
    <2>5. f[a] + f[b] + f[c] = s - d + x
      BY <1>2
    <2> QED
      BY <2>4, <2>5 DEF All
  <1> HIDE DEF f, g, All, L
  <1>6. IsFiniteSet(L) /\ Ints(f, L) /\ Ints(g, L)
    <2>1. IsFiniteSet(L)
      BY <1>3, <1>5, FS_Subset
    <2>2. Ints(f, L)
      BY <1>3, <1>5 DEF Ints
    <2> QED
      BY <1>4, <2>1, <2>2 DEF Ints
  <1>7. SumFunctionOnSet(f, All) = SumFunctionOnSet(f, L)
    BY <1>3, <1>5, SumSupport
  <1>8. SumFunctionOnSet(g, L) = SumFunctionOnSet(f, L)
    BY <1>4, <1>6, SumSame
  <1>9. F!MapThenSumSet(LAMBDA line : line[2], L) = SumFunctionOnSet(g, L)
    BY <1>4, <1>6, SumOfLines DEF g
  <1>10. F!MapThenSumSet(LAMBDA line : line[2], L) = s - d + x
    BY <1>5, <1>7, <1>8, <1>9
  <1> QED
    BY <1>10 DEF L, All

\* A fare adds up, nobody's part is negative, what is paid is exactly what
\* driver, platform and tax account get, by wallet, cash or invoice, and the
\* lines of the receipt add up to it (createRide, updateStops, completeTrip,
\* payInvoice, emailReceipt).
THEOREM FaresAreWhole == Spec => []FareIsWhole
  <1>1. FaresInv => F!ReceiptAddsUp
    <2> SUFFICES ASSUME FaresInv, booking.status = "COMPLETED"
                 PROVE  /\ F!Receipt.total = money.from /\ F!Receipt.commission = money.platform
                        /\ F!MapThenSumSet(LAMBDA line : line[2], F!ReceiptLines) = F!Receipt.total
      BY DEF F!ReceiptAddsUp
    <2>1. BookingOK(booking) /\ Paid(booking, money)
      BY DEF FaresInv, F!NoBooking
    <2>2. PICK s \in Nat, d \in Nat, x \in Nat :
              /\ s = booking.fare.subtotal /\ d = booking.fare.discount /\ x = booking.fare.tax
              /\ booking.fare.total = s - d + x
      BY <2>1 DEF BookingOK, Whole, FareRecords
    <2>3. F!Receipt.total = money.from /\ F!Receipt.commission = money.platform
      BY <2>1 DEF F!Receipt, Paid
    <2>4. F!ReceiptLines
              = {line \in {<<"fare", s>>, <<"promo", -d>>, <<"tax", x>>} : line[2] # 0}
      BY <2>2 DEF F!ReceiptLines
    <2>5. F!MapThenSumSet(LAMBDA line : line[2], F!ReceiptLines) = s - d + x
      BY <2>4, LinesAddUp
    <2> QED
      BY <2>2, <2>3, <2>5 DEF F!Receipt
  <1>2. FaresInv => FareIsWhole
    BY <1>1, InvFareAddsUp DEF FareIsWhole, F!FareIsWhole
  <1> QED
    BY <1>2, FaresInvAlways, PTL

-----------------------------------------------------------------------------
(* What there is one of.  A row that is what there should be one of, or    *)
(* that a call is bound to make so, has a call of its own which made it    *)
(* so, or gave its place to another row: counted together with the calls   *)
(* that are about to make one more, there are no more than calls at once.  *)

LEMMA TasksAreFinite == IsFiniteSet(Tasks) /\ Cardinality(Tasks) \in Nat
  <1>1. IsFiniteSet(Tasks)
    BY OfficeAssumption DEF U!UniquesAssumption, U!IsFiniteSet, IsFiniteSet
  <1> QED
    BY <1>1, FS_CardinalityType

\* The counts of the specification are those of the library.
LEMMA CountsAgree == \A S : U!Cardinality(S) = Cardinality(S)
  BY DEF U!Cardinality, Cardinality, U!IsFiniteSet, IsFiniteSet

\* The rows in S, and one for each call in K, are no more than calls at once.
Room(S, K) ==
    /\ IsFiniteSet(S) /\ K \subseteq Tasks
    /\ Cardinality(S) + Cardinality(K) <= Cardinality(Tasks)

LEMMA RoomCounts ==
    ASSUME NEW S, NEW K, Room(S, K)
    PROVE  /\ IsFiniteSet(K) /\ Cardinality(S) \in Nat /\ Cardinality(K) \in Nat
           /\ Cardinality(S) <= Cardinality(Tasks)
  <1>1. IsFiniteSet(S) /\ IsFiniteSet(K)
    BY TasksAreFinite, FS_Subset DEF Room
  <1>2. Cardinality(S) \in Nat /\ Cardinality(K) \in Nat
    BY <1>1, FS_CardinalityType
  <1> QED
    BY <1>1, <1>2, TasksAreFinite DEF Room

LEMMA RoomLess ==
    ASSUME NEW S, NEW K, Room(S, K), NEW P \in SUBSET S, NEW Q \in SUBSET K
    PROVE  Room(P, Q)
  <1>1. /\ IsFiniteSet(S) /\ IsFiniteSet(K)
        /\ Cardinality(S) \in Nat /\ Cardinality(K) \in Nat
    BY RoomCounts DEF Room
  <1>2. IsFiniteSet(P) /\ Cardinality(P) <= Cardinality(S)
    BY <1>1, FS_Subset
  <1>3. IsFiniteSet(Q) /\ Cardinality(Q) <= Cardinality(K)
    BY <1>1, FS_Subset
  <1>4. Cardinality(P) \in Nat /\ Cardinality(Q) \in Nat
    BY <1>2, <1>3, FS_CardinalityType
  <1> QED
    BY <1>1, <1>2, <1>3, <1>4, TasksAreFinite DEF Room

\* A call that was about to make a row makes it.
LEMMA RoomMoved ==
    ASSUME NEW S, NEW K, Room(S, K), NEW t \in K, NEW x
    PROVE  Room(S \cup {x}, K \ {t})
  <1>1. /\ IsFiniteSet(S) /\ IsFiniteSet(K)
        /\ Cardinality(S) \in Nat /\ Cardinality(K) \in Nat
    BY RoomCounts DEF Room
  <1>2. IsFiniteSet(S \cup {x}) /\ Cardinality(S \cup {x}) <= Cardinality(S) + 1
    <2>1. /\ IsFiniteSet(S \cup {x})
          /\ Cardinality(S \cup {x}) = IF x \in S THEN Cardinality(S) ELSE Cardinality(S) + 1
      BY <1>1, FS_AddElement, Zenon
    <2> QED
      BY <1>1, <2>1
  <1>3. Cardinality(K \ {t}) = Cardinality(K) - 1
    BY <1>1, FS_RemoveElement
  <1>4. Cardinality(S \cup {x}) \in Nat
    BY <1>2, FS_CardinalityType
  <1> QED
    BY <1>1, <1>2, <1>3, <1>4, TasksAreFinite DEF Room

\* A row is gone, and a call is to make another in its place.
LEMMA RoomGiven ==
    ASSUME NEW S, NEW K, Room(S, K), NEW x \in S, NEW t \in Tasks
    PROVE  Room(S \ {x}, K \cup {t})
  <1>1. /\ IsFiniteSet(S) /\ IsFiniteSet(K)
        /\ Cardinality(S) \in Nat /\ Cardinality(K) \in Nat
    BY RoomCounts DEF Room
  <1>2. IsFiniteSet(S \ {x}) /\ Cardinality(S \ {x}) = Cardinality(S) - 1
    BY <1>1, FS_RemoveElement
  <1>3. IsFiniteSet(K \cup {t}) /\ Cardinality(K \cup {t}) <= Cardinality(K) + 1
    <2>1. /\ IsFiniteSet(K \cup {t})
          /\ Cardinality(K \cup {t}) = IF t \in K THEN Cardinality(K) ELSE Cardinality(K) + 1
      BY <1>1, FS_AddElement, Zenon
    <2> QED
      BY <1>1, <2>1
  <1>4. Cardinality(K \cup {t}) \in Nat /\ K \cup {t} \subseteq Tasks
    BY <1>3, FS_CardinalityType DEF Room
  <1> QED
    BY <1>1, <1>2, <1>3, <1>4, TasksAreFinite DEF Room

\* The rows that calls are bound to are no more than those calls.
LEMMA RoomOf ==
    ASSUME NEW tk, NEW P \in SUBSET Tasks, NEW K \in SUBSET Tasks, P \cap K = {},
           NEW S, S \subseteq {tk[t].row : t \in P}
    PROVE  Room(S, K)
  <1> DEFINE V == {tk[t].row : t \in P}
             f == [t \in P |-> tk[t].row]
  <1>1. IsFiniteSet(P) /\ IsFiniteSet(K)
    BY TasksAreFinite, FS_Subset
  <1>2. f \in Surjection(P, V)
    BY DEF Surjection
  <1> HIDE DEF f, V
  <1>3. IsFiniteSet(V) /\ Cardinality(V) <= Cardinality(P)
    BY <1>1, <1>2, FS_Surjection
  <1>4. IsFiniteSet(S) /\ Cardinality(S) <= Cardinality(V)
    BY <1>3, FS_Subset DEF V
  <1>5. Cardinality(P \cap K) = 0
    BY FS_EmptySet
  <1>6. /\ IsFiniteSet(P \cup K)
        /\ Cardinality(P \cup K) = Cardinality(P) + Cardinality(K) - Cardinality(P \cap K)
    BY <1>1, FS_Union
  <1>7. Cardinality(P \cup K) <= Cardinality(Tasks)
    BY TasksAreFinite, FS_Subset
  <1>8. /\ Cardinality(S) \in Nat /\ Cardinality(V) \in Nat /\ Cardinality(P) \in Nat
        /\ Cardinality(K) \in Nat
    BY <1>1, <1>3, <1>4, FS_CardinalityType
  <1> QED
    BY <1>3, <1>4, <1>5, <1>6, <1>7, <1>8, TasksAreFinite DEF Room

\* The calls in progress, and how a step moves one of them.
TasksAre(tk) == tk = [t \in Tasks |-> tk[t]]
Moves(t, call) ==
    /\ TasksAre(task')
    /\ task'[t] = call
    /\ \A s \in Tasks : s # t => task'[s] = task[s]

LEMMA Goes ==
    ASSUME TasksAre(task), NEW t \in Tasks, NEW call, U!Goto(t, call)
    PROVE  Moves(t, call)
  <1>1. task' = [s \in Tasks |-> IF s = t THEN call ELSE task[s]]
    BY DEF U!Goto, TasksAre
  <1> QED
    BY <1>1 DEF Moves, TasksAre

LEMMA Begins ==
    ASSUME TasksAre(task), NEW t \in Tasks, NEW call, U!Begin(t, call)
    PROVE  Moves(t, call) /\ task[t].pc = "idle"
  <1>1. task' = [s \in Tasks |-> IF s = t THEN call ELSE task[s]]
    BY DEF U!Begin, TasksAre
  <1>2. task[t].pc = "idle"
    BY DEF U!Begin, U!Idle
  <1> QED
    BY <1>1, <1>2 DEF Moves, TasksAre

LEMMA Returns ==
    ASSUME TasksAre(task), NEW t \in Tasks, U!Return(t)
    PROVE  Moves(t, U!Idle) /\ U!Idle.pc = "idle"
  <1>1. U!Idle.pc = "idle"
    BY DEF U!Idle
  <1> QED
    BY <1>1, Goes DEF U!Return

-----------------------------------------------------------------------------
(* Saved places.  A call that is to write a label on a row, or to make a   *)
(* row with it.                                                            *)

Places(call, label, i) == call.pc = "place" /\ call.row = i /\ call.label = label
Creators(tk, label) == {t \in Tasks : Places(tk[t], label, 0)}
Prospects(pl, tk, label) ==
    {i \in DOMAIN pl : pl[i] = label \/ \E t \in Tasks : Places(tk[t], label, i)}

PlacesOK(pl, tk, n) ==
    /\ n \in Nat /\ DOMAIN pl \subseteq 1 .. n /\ TasksAre(tk)
    /\ \A t \in Tasks : tk[t].pc \in {"place", "displace"} => tk[t].row \in 0 .. n
    /\ \A label \in U!Singletons : Room(Prospects(pl, tk, label), Creators(tk, label))
PlacesInv == PlacesOK(places, task, made)

LEMMA PlacesMove ==
    ASSUME PlacesInv, NEW t \in Tasks, NEW call, Moves(t, call),
           made' \in Nat, made <= made', DOMAIN places' \subseteq 1 .. made',
           call.pc \in {"place", "displace"} => call.row \in 0 .. made',
           \A label \in U!Singletons :
               Room(Prospects(places', task', label), Creators(task', label))
    PROVE  PlacesInv'
  <1>1. \A s \in Tasks : task'[s].pc \in {"place", "displace"} => task'[s].row \in 0 .. made'
    BY DEF PlacesInv, PlacesOK, Moves
  <1> QED
    BY <1>1 DEF PlacesInv, PlacesOK, Moves

\* A step after which no more rows and calls count.
LEMMA PlacesLess ==
    ASSUME PlacesInv, NEW label \in U!Singletons,
           Prospects(places', task', label) \subseteq Prospects(places, task, label),
           Creators(task', label) \subseteq Creators(task, label)
    PROVE  Room(Prospects(places', task', label), Creators(task', label))
  BY RoomLess DEF PlacesInv, PlacesOK

LEMMA CreateLookKeeps ==
    ASSUME PlacesInv, NEW t \in Tasks, NEW label \in U!Labels, U!CreateLook(t, label)
    PROVE  PlacesInv'
  <1>1. PICK held \in IF label \in U!Singletons /\ U!Labelled(label) # {}
                      THEN U!Labelled(label) ELSE {0} :
            U!Begin(t, [pc |-> "place", label |-> label, row |-> held])
    BY DEF U!CreateLook
  <1> DEFINE call == [pc |-> "place", label |-> label, row |-> held]
  <1>2. Moves(t, call) /\ task[t].pc = "idle"
    BY <1>1, Begins DEF PlacesInv, PlacesOK
  <1>3. call.pc = "place" /\ call.label = label /\ call.row = held
    OBVIOUS
  <1> HIDE DEF call
  <1>4. places' = places /\ made' = made /\ made \in Nat /\ DOMAIN places \subseteq 1 .. made
    BY DEF U!CreateLook, PlacesInv, PlacesOK
  <1>5. held \in 0 .. made
    BY <1>1, <1>4 DEF U!Labelled
  <1>6. ASSUME NEW L \in U!Singletons
        PROVE  Room(Prospects(places', task', L), Creators(task', L))
    <2>1. CASE L # label
      <3>1. Prospects(places', task', L) \subseteq Prospects(places, task, L)
        BY <1>2, <1>3, <1>4, <2>1 DEF Prospects, Places, Moves
      <3>2. Creators(task', L) \subseteq Creators(task, L)
        BY <1>2, <1>3, <2>1 DEF Creators, Places, Moves
      <3> QED
        BY <3>1, <3>2, PlacesLess
    <2>2. CASE L = label /\ U!Labelled(label) # {}
      <3>1. held \in DOMAIN places /\ places[held] = label /\ held # 0
        BY <1>1, <1>4, <2>2 DEF U!Labelled
      <3>2. Prospects(places', task', L) \subseteq Prospects(places, task, L)
        BY <1>2, <1>3, <1>4, <2>2, <3>1 DEF Prospects, Places, Moves
      <3>3. Creators(task', L) \subseteq Creators(task, L)
        BY <1>2, <1>3, <3>1 DEF Creators, Places, Moves
      <3> QED
        BY <3>2, <3>3, PlacesLess
    <2>3. CASE L = label /\ U!Labelled(label) = {}
      <3> DEFINE P == {s \in Tasks : Places(task'[s], L, task'[s].row) /\ task'[s].row # 0}
      <3>1. P \cap Creators(task', L) = {}
        BY DEF Creators, Places
      <3>2. \A i \in DOMAIN places : places[i] # L /\ i # 0
        BY <1>4, <2>3 DEF U!Labelled
      <3>3. Prospects(places', task', L) \subseteq {task'[s].row : s \in P}
        BY <1>4, <3>2 DEF Prospects, Places
      <3>4. Creators(task', L) \in SUBSET Tasks /\ P \in SUBSET Tasks
        BY DEF Creators
      <3> HIDE DEF P
      <3> QED
        BY <3>1, <3>3, <3>4, RoomOf
    <2> QED
      BY <2>1, <2>2, <2>3
  <1> QED
    BY <1>2, <1>3, <1>4, <1>5, <1>6, PlacesMove

LEMMA CreateWriteKeeps ==
    ASSUME PlacesInv, NEW t \in Tasks, U!CreateWrite(t)
    PROVE  PlacesInv'
  <1>1. task[t].pc = "place" /\ task[t].row = 0
    BY DEF U!CreateWrite, U!At
  <1>2. Moves(t, U!Idle) /\ U!Idle.pc = "idle"
    BY Returns DEF U!CreateWrite, PlacesInv, PlacesOK
  <1>3. PICK n \in Nat : n = made + 1 /\ made' = n /\ n # 0 /\ made \in Nat /\ made <= n
    BY DEF U!CreateWrite, U!Create, U!New, PlacesInv, PlacesOK
  <1>4. PICK label : label = task[t].label
    OBVIOUS
  <1>5. places' = [i \in DOMAIN places \cup {n} |-> IF i = n THEN label ELSE places[i]]
    BY <1>3, <1>4 DEF U!CreateWrite, U!With, U!New
  <1>6. n \notin DOMAIN places /\ DOMAIN places \subseteq 1 .. n
    BY <1>3 DEF PlacesInv, PlacesOK
  <1>7. DOMAIN places' = DOMAIN places \cup {n} /\ places'[n] = label
           /\ \A i \in DOMAIN places : places'[i] = places[i]
    BY <1>5, <1>6
  <1>8. \A s \in Tasks : \A L : ~ Places(task[s], L, n)
    BY <1>3 DEF Places, PlacesInv, PlacesOK
  <1>9. ASSUME NEW L \in U!Singletons
        PROVE  Room(Prospects(places', task', L), Creators(task', L))
    <2>1. CASE L = label
      <3>1. t \in Creators(task, L)
        BY <1>1, <1>4, <2>1 DEF Creators, Places
      <3>2. Room(Prospects(places, task, L) \cup {n}, Creators(task, L) \ {t})
        BY <3>1, RoomMoved DEF PlacesInv, PlacesOK
      <3>3. Prospects(places', task', L) \subseteq Prospects(places, task, L) \cup {n}
        BY <1>2, <1>7 DEF Prospects, Places, Moves
      <3>4. Creators(task', L) \subseteq Creators(task, L) \ {t}
        BY <1>2 DEF Creators, Places, Moves
      <3> QED
        BY <3>2, <3>3, <3>4, RoomLess
    <2>2. CASE L # label
      <3>1. Prospects(places', task', L) \subseteq Prospects(places, task, L)
        BY <1>2, <1>7, <1>8, <2>2 DEF Prospects, Places, Moves
      <3>2. Creators(task', L) \subseteq Creators(task, L)
        BY <1>2 DEF Creators, Places, Moves
      <3> QED
        BY <3>1, <3>2, PlacesLess
    <2> QED
      BY <2>1, <2>2
  <1>10. DOMAIN places' \subseteq 1 .. n
    BY <1>3, <1>6, <1>7
  <1> QED
    BY <1>2, <1>3, <1>9, <1>10, PlacesMove

LEMMA ReplaceWriteKeeps ==
    ASSUME PlacesInv, NEW t \in Tasks, U!ReplaceWrite(t)
    PROVE  PlacesInv'
  <1>1. task[t].pc = "place"
    BY DEF U!ReplaceWrite, U!At
  <1>2. Moves(t, U!Idle) /\ U!Idle.pc = "idle"
    BY Returns DEF U!ReplaceWrite, PlacesInv, PlacesOK
  <1>3. PICK n : n = task[t].row
    OBVIOUS
  <1>4. PICK label : label = task[t].label
    OBVIOUS
  <1>5. made' = made /\ made \in Nat /\ DOMAIN places \subseteq 1 .. made
    BY DEF U!ReplaceWrite, PlacesInv, PlacesOK
  <1>6. /\ DOMAIN places' = DOMAIN places
        /\ \A i \in DOMAIN places : places'[i] = places[i] \/ (i = n /\ places'[i] = label)
    <2>1. CASE n \notin DOMAIN places
      BY <1>3, <2>1 DEF U!ReplaceWrite
    <2>2. CASE n \in DOMAIN places
      <3>1. places' = [i \in DOMAIN places |-> IF i = n THEN label ELSE places[i]]
        BY <1>3, <1>4, <2>2 DEF U!ReplaceWrite, U!With
      <3> QED
        BY <3>1
    <2> QED
      BY <2>1, <2>2
  <1>7. ASSUME NEW L \in U!Singletons
        PROVE  Room(Prospects(places', task', L), Creators(task', L))
    <2>1. Prospects(places', task', L) \subseteq Prospects(places, task, L)
      BY <1>1, <1>2, <1>3, <1>4, <1>6 DEF Prospects, Places, Moves
    <2>2. Creators(task', L) \subseteq Creators(task, L)
      BY <1>2 DEF Creators, Places, Moves
    <2> QED
      BY <2>1, <2>2, PlacesLess
  <1> QED
    BY <1>2, <1>5, <1>6, <1>7, PlacesMove

LEMMA RelabelKeeps ==
    ASSUME PlacesInv, NEW t \in Tasks, NEW id, NEW label \in U!Labels, U!Relabel(t, id, label)
    PROVE  PlacesInv'
  <1>1. PICK pc : pc = IF label # places[id] /\ label \in U!Singletons THEN "displace" ELSE "place"
    OBVIOUS
  <1> DEFINE call == [pc |-> pc, label |-> label, row |-> id]
  <1>2. U!Begin(t, call)
    BY <1>1 DEF U!Relabel
  <1>3. Moves(t, call) /\ task[t].pc = "idle"
    BY <1>2, Begins DEF PlacesInv, PlacesOK
  <1>4. call.pc = pc /\ call.label = label /\ call.row = id
    OBVIOUS
  <1> HIDE DEF call
  <1>5. /\ places' = places /\ made' = made /\ id \in DOMAIN places
        /\ made \in Nat /\ DOMAIN places \subseteq 1 .. made
    BY DEF U!Relabel, PlacesInv, PlacesOK
  <1>6. id \in 0 .. made /\ id # 0
    BY <1>5
  <1>7. ASSUME NEW L \in U!Singletons
        PROVE  Room(Prospects(places', task', L), Creators(task', L))
    <2>1. Prospects(places', task', L) \subseteq Prospects(places, task, L)
      BY <1>1, <1>3, <1>4, <1>5 DEF Prospects, Places, Moves
    <2>2. Creators(task', L) \subseteq Creators(task, L)
      BY <1>3, <1>4, <1>6 DEF Creators, Places, Moves
    <2> QED
      BY <2>1, <2>2, PlacesLess
  <1> QED
    BY <1>3, <1>4, <1>5, <1>6, <1>7, PlacesMove

LEMMA DisplaceKeeps ==
    ASSUME PlacesInv, NEW t \in Tasks, U!Displace(t)
    PROVE  PlacesInv'
  <1>1. task[t].pc = "displace"
    BY DEF U!Displace, U!At
  <1> DEFINE call == [task[t] EXCEPT !.pc = "place"]
  <1>2. Moves(t, call)
    BY Goes DEF U!Displace, PlacesInv, PlacesOK
  <1>3. call.row = task[t].row /\ call.label = task[t].label
    OBVIOUS
  <1> HIDE DEF call
  <1>4. /\ DOMAIN places' = DOMAIN places \ U!Displaced(t)
        /\ \A i \in DOMAIN places' : places'[i] = places[i]
        /\ made' = made /\ made \in Nat /\ DOMAIN places \subseteq 1 .. made
    BY DEF U!Displace, U!Without, PlacesInv, PlacesOK
  <1>5. ASSUME NEW L \in U!Singletons
        PROVE  Room(Prospects(places', task', L), Creators(task', L))
    <2>1. CASE L # task[t].label
      <3>1. Prospects(places', task', L) \subseteq Prospects(places, task, L)
        BY <1>2, <1>3, <1>4, <2>1 DEF Prospects, Places, Moves
      <3>2. Creators(task', L) \subseteq Creators(task, L)
        BY <1>2, <1>3, <2>1 DEF Creators, Places, Moves
      <3> QED
        BY <3>1, <3>2, PlacesLess
    <2>2. CASE L = task[t].label
      <3> DEFINE P == {s \in Tasks : s = t \/ (Places(task'[s], L, task'[s].row) /\ task'[s].row # 0)}
                 K == Creators(task', L) \ {t}
      <3>1. P \cap K = {} /\ P \in SUBSET Tasks /\ K \in SUBSET Tasks
        BY DEF Creators, Places
      <3>2. \A i \in DOMAIN places' : i # 0 /\ (places'[i] = L => i = task'[t].row)
        BY <1>2, <1>3, <1>4, <2>2 DEF U!Displaced, U!Labelled, Moves
      <3>3. Prospects(places', task', L) \subseteq {task'[s].row : s \in P}
        BY <3>2 DEF Prospects, Places
      <3>4. CASE task[t].row # 0
        <4>1. Creators(task', L) = K
          BY <1>2, <1>3, <3>4 DEF Creators, Places, Moves
        <4> HIDE DEF P, K
        <4> QED
          BY <3>1, <3>3, <4>1, RoomOf
      <3>5. CASE task[t].row = 0
        <4> DEFINE Q == P \ {t}
        <4>1. Prospects(places', task', L) \subseteq {task'[s].row : s \in Q}
          BY <1>2, <1>3, <3>2, <3>5 DEF Prospects, Places, Moves
        <4>2. /\ Q \cap Creators(task', L) = {}
              /\ Q \in SUBSET Tasks /\ Creators(task', L) \in SUBSET Tasks
          BY DEF Creators, Places
        <4> HIDE DEF Q
        <4> QED
          BY <4>1, <4>2, RoomOf
      <3> QED
        BY <3>4, <3>5
    <2> QED
      BY <2>1, <2>2
  <1>6. call.row \in 0 .. made /\ made <= made
    BY <1>1, <1>3 DEF PlacesInv, PlacesOK
  <1>7. DOMAIN places' \subseteq 1 .. made'
    BY <1>4
  <1> QED
    BY <1>2, <1>4, <1>5, <1>6, <1>7, PlacesMove

LEMMA RemovePlaceKeeps ==
    ASSUME PlacesInv, NEW id, U!RemovePlace(id)
    PROVE  PlacesInv'
  <1>1. /\ DOMAIN places' \subseteq DOMAIN places
        /\ \A i \in DOMAIN places' : places'[i] = places[i]
        /\ made' = made /\ task' = task
    BY DEF U!RemovePlace, U!Without
  <1>2. \A L : Prospects(places', task', L) \subseteq Prospects(places, task, L)
    BY <1>1 DEF Prospects
  <1>3. \A L : Creators(task', L) = Creators(task, L)
    BY <1>1
  <1>4. \A L \in U!Singletons : Room(Prospects(places', task', L), Creators(task', L))
    BY <1>2, <1>3, PlacesLess
  <1> QED
    BY <1>1, <1>4 DEF PlacesInv, PlacesOK

\* The rows stay what they are and t's call is over.
LEMMA PlaceCallEnds ==
    ASSUME PlacesInv, NEW t \in Tasks, U!Return(t), UNCHANGED <<places, made>>
    PROVE  PlacesInv'
  <1>1. Moves(t, U!Idle) /\ U!Idle.pc = "idle"
    BY Returns DEF PlacesInv, PlacesOK
  <1>2. ASSUME NEW L \in U!Singletons
        PROVE  Room(Prospects(places', task', L), Creators(task', L))
    <2>1. Prospects(places', task', L) \subseteq Prospects(places, task, L)
      BY <1>1 DEF Prospects, Places, Moves
    <2>2. Creators(task', L) \subseteq Creators(task, L)
      BY <1>1 DEF Creators, Places, Moves
    <2> QED
      BY <2>1, <2>2, PlacesLess
  <1>3. made \in Nat /\ made <= made /\ DOMAIN places \subseteq 1 .. made
    BY DEF PlacesInv, PlacesOK
  <1> QED
    BY <1>1, <1>2, <1>3, PlacesMove

LEMMA PlacesNext ==
    ASSUME PlacesInv, U!PlaceNext
    PROVE  PlacesInv'
  BY CreateLookKeeps, RelabelKeeps, CreateWriteKeeps, ReplaceWriteKeeps, DisplaceKeeps,
     RemovePlaceKeeps DEF U!PlaceNext

LEMMA HomesAreFew == PlacesInv => U!FewHomes
  <1> SUFFICES ASSUME PlacesInv, NEW label \in U!Singletons
               PROVE  U!Cardinality(U!Labelled(label)) <= U!AtOnce
    BY DEF U!FewHomes
  <1>1. Room(Prospects(places, task, label), Creators(task, label))
    BY DEF PlacesInv, PlacesOK
  <1>2. U!Labelled(label) \subseteq Prospects(places, task, label)
    BY DEF U!Labelled, Prospects
  <1>3. Room(U!Labelled(label), {})
    BY <1>1, <1>2, RoomLess
  <1> QED
    BY <1>3, RoomCounts, CountsAgree DEF U!AtOnce

-----------------------------------------------------------------------------
(* Saved cards.  A card that is the default, or that a call is to promote, *)
(* or to delete as the default; and a call that is to save a first card or *)
(* to look for one to promote.                                             *)

CardRecords == [signature : Signatures, isDefault : BOOLEAN]
ToPromote(call, i) == call.pc = "promote" /\ call.row = i
ToDelete(call, i) == call.pc = "delete" /\ call.default = TRUE /\ call.row = i
BoundTo(call, i) == ToPromote(call, i) \/ ToDelete(call, i)
Chooses(call) == (call.pc = "save" /\ call.first = TRUE) \/ call.pc = "find"
Choosers(tk) == {t \in Tasks : Chooses(tk[t])}
Candidates(cs, tk) ==
    {i \in DOMAIN cs : cs[i].isDefault = TRUE \/ \E t \in Tasks : BoundTo(tk[t], i)}

\* What a call found out and keeps.
CardCall(call, n) ==
    /\ call.pc = "save" => call.signature \in Signatures /\ call.first \in BOOLEAN
    /\ call.pc = "delete" => call.default \in BOOLEAN
    /\ call.pc \in {"set", "delete", "promote"} => call.row \in 1 .. n

\* Between its deletion and its promotion a removal is to give a default.
Promotes(call) == call.pc = "find" \/ call.pc = "promote"
Given(cs, tk, slip) ==
    (\A i \in DOMAIN cs : cs[i].isDefault = FALSE)
        => DOMAIN cs = {} \/ slip = TRUE \/ \E t \in Tasks : Promotes(tk[t])

CardsRead(cs, tk, n) ==
    /\ n \in Nat /\ TasksAre(tk)
    /\ cs = [i \in DOMAIN cs |-> cs[i]] /\ DOMAIN cs \subseteq 1 .. n
    /\ \A i \in DOMAIN cs : cs[i] \in CardRecords
    /\ \A i, j \in DOMAIN cs : cs[i].signature = cs[j].signature => i = j
    /\ \A t \in Tasks : CardCall(tk[t], n)
CardsInv ==
    /\ CardsRead(cards, task, made) /\ lapsed \in BOOLEAN
    /\ Given(cards, task, lapsed)
    /\ Room(Candidates(cards, task), Choosers(task))

LEMMA NoCards ==
    ASSUME NEW cs, cs = [i \in DOMAIN cs |-> cs[i]]
    PROVE  cs = <<>> <=> DOMAIN cs = {}
  <1>1. DOMAIN <<>> = {}
    OBVIOUS
  <1>2. ASSUME DOMAIN cs = {} PROVE cs = <<>>
    <2>1. <<>> = [i \in {} |-> cs[i]]
      OBVIOUS
    <2> QED
      BY <1>2, <2>1
  <1> QED
    BY <1>1, <1>2

LEMMA CardsAre ==
    ASSUME CardsInv
    PROVE  /\ made \in Nat /\ TasksAre(task) /\ DOMAIN cards \subseteq 1 .. made
           /\ cards = [i \in DOMAIN cards |-> cards[i]]
           /\ \A i \in DOMAIN cards : cards[i] \in CardRecords /\ cards[i].isDefault \in BOOLEAN
           /\ cards = <<>> <=> DOMAIN cards = {}
           /\ U!Defaults = {i \in DOMAIN cards : cards[i].isDefault = TRUE}
           /\ lapsed \in BOOLEAN
  <1>1. CardsRead(cards, task, made)
    BY DEF CardsInv
  <1>2. \A i \in DOMAIN cards : cards[i] \in CardRecords /\ cards[i].isDefault \in BOOLEAN
    BY <1>1 DEF CardsRead, CardRecords
  <1>3. U!Defaults = {i \in DOMAIN cards : cards[i].isDefault = TRUE}
    BY <1>2 DEF U!Defaults
  <1>4. cards = <<>> <=> DOMAIN cards = {}
    BY <1>1, NoCards DEF CardsRead
  <1> QED
    BY <1>1, <1>2, <1>3, <1>4 DEF CardsRead, CardsInv

LEMMA CardCallIs ==
    ASSUME CardsInv, NEW t \in Tasks
    PROVE  CardCall(task[t], made)
  BY DEF CardsInv, CardsRead

\* A step of one call.
LEMMA CardsMove ==
    ASSUME CardsInv, NEW t \in Tasks, NEW call, Moves(t, call),
           made' \in Nat, made <= made', CardCall(call, made'),
           cards' = [i \in DOMAIN cards' |-> cards'[i]], DOMAIN cards' \subseteq 1 .. made',
           \A i \in DOMAIN cards' : cards'[i] \in CardRecords,
           \A i, j \in DOMAIN cards' : cards'[i].signature = cards'[j].signature => i = j,
           lapsed' \in BOOLEAN, Given(cards', task', lapsed'),
           Room(Candidates(cards', task'), Choosers(task'))
    PROVE  CardsInv'
  <1>1. \A s \in Tasks : CardCall(task'[s], made')
    <2> TAKE s \in Tasks
    <2>1. CASE s = t
      BY <2>1 DEF Moves
    <2>2. CASE s # t
      <3>1. task'[s] = task[s] /\ CardCall(task[s], made) /\ made \in Nat
        BY <2>2, CardsAre, CardCallIs DEF Moves
      <3> QED
        BY <3>1 DEF CardCall
    <2> QED
      BY <2>1, <2>2
  <1>2. CardsRead(cards', task', made')
    BY <1>1 DEF CardsRead, Moves
  <1> QED
    BY <1>2 DEF CardsInv, CardsRead, Given, Room, Candidates, Choosers

\* The cards stay what they are.
LEMMA CardsSame ==
    ASSUME CardsInv, NEW t \in Tasks, NEW call, Moves(t, call),
           UNCHANGED <<cards, made>>, CardCall(call, made),
           lapsed' \in BOOLEAN, Given(cards, task', lapsed'),
           Room(Candidates(cards, task'), Choosers(task'))
    PROVE  CardsInv'
  <1>1. CardsRead(cards, task, made) /\ made \in Nat /\ made <= made
    BY DEF CardsInv, CardsRead
  <1> QED
    BY <1>1, CardsMove DEF CardsRead

\* A step after which no more cards and calls count.
LEMMA CardsLess ==
    ASSUME CardsInv,
           Candidates(cards', task') \subseteq Candidates(cards, task),
           Choosers(task') \subseteq Choosers(task)
    PROVE  Room(Candidates(cards', task'), Choosers(task'))
  BY RoomLess DEF CardsInv

\* A call begins that does not choose and is bound to no card but a default.
LEMMA CardCallBegins ==
    ASSUME CardsInv, NEW t \in Tasks, NEW call, U!Begin(t, call),
           UNCHANGED <<cards, made, lapsed>>, CardCall(call, made),
           ~ Chooses(call), ~ Promotes(call),
           \A i \in DOMAIN cards : BoundTo(call, i) => cards[i].isDefault = TRUE
    PROVE  CardsInv'
  <1>1. Moves(t, call) /\ task[t].pc = "idle"
    BY CardsAre, Begins
  <1>2. \A s \in Tasks : s # t => task'[s] = task[s]
    BY <1>1 DEF Moves
  <1>3. Given(cards, task', lapsed')
    BY <1>1, <1>2 DEF CardsInv, Given, Promotes
  <1>4. Candidates(cards', task') \subseteq Candidates(cards, task)
    BY <1>1, <1>2 DEF Candidates, Moves
  <1>5. Choosers(task') \subseteq Choosers(task)
    BY <1>1, <1>2 DEF Choosers, Moves
  <1>6. Room(Candidates(cards, task'), Choosers(task'))
    BY <1>4, <1>5, CardsLess
  <1> QED
    BY <1>1, <1>3, <1>6, CardsAre, CardsSame

LEMMA SaveCountKeeps ==
    ASSUME CardsInv, NEW t \in Tasks, NEW sig \in Signatures, U!SaveCount(t, sig)
    PROVE  CardsInv'
  <1>0. PICK first \in BOOLEAN : first = (cards = <<>>)
    OBVIOUS
  <1> DEFINE call == [pc |-> "save", signature |-> sig, first |-> first]
  <1>1. U!Begin(t, call) /\ UNCHANGED <<cards, made, lapsed>>
    BY <1>0 DEF U!SaveCount
  <1>2. call.pc = "save" /\ call.signature = sig /\ call.first = first
    OBVIOUS
  <1> HIDE DEF call
  <1>3. CardCall(call, made)
    BY <1>2 DEF CardCall
  <1>4. \A i : ~ BoundTo(call, i)
    BY <1>2 DEF BoundTo, ToPromote, ToDelete
  <1>5. CASE first = FALSE
    BY <1>1, <1>2, <1>3, <1>4, <1>5, CardCallBegins DEF Chooses, Promotes
  <1>6. CASE first = TRUE
    <2>1. DOMAIN cards = {}
      BY <1>0, <1>6, CardsAre
    <2>2. Moves(t, call)
      BY <1>1, CardsAre, Begins
    <2>3. Given(cards, task', lapsed')
      BY <2>1 DEF Given
    <2>4. Candidates(cards, task') \subseteq {task'[s].row : s \in {}}
      BY <2>1 DEF Candidates
    <2>5. Choosers(task') \in SUBSET Tasks /\ {} \in SUBSET Tasks /\ {} \cap Choosers(task') = {}
      BY DEF Choosers
    <2>6. Room(Candidates(cards, task'), Choosers(task'))
      BY <2>4, <2>5, RoomOf
    <2> QED
      BY <1>1, <1>3, <2>2, <2>3, <2>6, CardsAre, CardsSame
  <1> QED
    BY <1>5, <1>6

LEMMA SetReadKeeps ==
    ASSUME CardsInv, NEW t \in Tasks, NEW id, U!SetRead(t, id)
    PROVE  CardsInv'
  <1> DEFINE call == [pc |-> "set", row |-> id]
  <1>1. U!Begin(t, call) /\ UNCHANGED <<cards, made, lapsed>> /\ id \in DOMAIN cards
    BY DEF U!SetRead
  <1>2. call.pc = "set" /\ call.row = id
    OBVIOUS
  <1> HIDE DEF call
  <1>3. CardCall(call, made)
    BY <1>1, <1>2, CardsAre DEF CardCall
  <1> QED
    BY <1>1, <1>2, <1>3, CardCallBegins DEF Chooses, Promotes, BoundTo, ToPromote, ToDelete

LEMMA RemoveReadKeeps ==
    ASSUME CardsInv, NEW t \in Tasks, NEW id, U!RemoveRead(t, id)
    PROVE  CardsInv'
  <1> DEFINE call == [pc |-> "delete", row |-> id, default |-> cards[id].isDefault]
  <1>1. U!Begin(t, call) /\ UNCHANGED <<cards, made, lapsed>> /\ id \in DOMAIN cards
    BY DEF U!RemoveRead
  <1>2. call.pc = "delete" /\ call.row = id /\ call.default = cards[id].isDefault
    OBVIOUS
  <1> HIDE DEF call
  <1>3. CardCall(call, made)
    BY <1>1, <1>2, CardsAre DEF CardCall
  <1> QED
    BY <1>1, <1>2, <1>3, CardCallBegins DEF Chooses, Promotes, BoundTo, ToPromote, ToDelete

\* The rows stay what they are and t's call is over.
LEMMA CardCallEnds ==
    ASSUME CardsInv, NEW t \in Tasks, U!Return(t), UNCHANGED <<cards, made>>,
           lapsed' \in BOOLEAN, Given(cards, task', lapsed')
    PROVE  CardsInv'
  <1>1. Moves(t, U!Idle) /\ U!Idle.pc = "idle"
    BY CardsAre, Returns
  <1>2. Candidates(cards', task') \subseteq Candidates(cards, task)
    BY <1>1 DEF Candidates, Moves, BoundTo, ToPromote, ToDelete
  <1>3. Choosers(task') \subseteq Choosers(task)
    BY <1>1 DEF Choosers, Moves, Chooses
  <1>4. Room(Candidates(cards, task'), Choosers(task'))
    BY <1>2, <1>3, CardsLess
  <1>5. CardCall(U!Idle, made)
    BY <1>1 DEF CardCall
  <1> QED
    BY <1>1, <1>4, <1>5, CardsSame

LEMMA SaveUpsertKeeps ==
    ASSUME CardsInv, NEW t \in Tasks, U!SaveUpsert(t)
    PROVE  CardsInv'
  <1>1. task[t].pc = "save" /\ U!Return(t)
    BY DEF U!SaveUpsert, U!At
  <1>2. Moves(t, U!Idle) /\ U!Idle.pc = "idle"
    BY <1>1, CardsAre, Returns
  <1>3. \A s \in Tasks : s # t => task'[s] = task[s]
    BY <1>2 DEF Moves
  <1>4. PICK sig \in Signatures, first \in BOOLEAN :
            sig = task[t].signature /\ first = task[t].first
    BY <1>1, CardCallIs DEF CardCall
  <1>5. CASE UNCHANGED <<cards, made, lapsed>>
    <2>1. Given(cards, task', lapsed')
      BY <1>1, <1>3, <1>5 DEF CardsInv, Given, Promotes
    <2> QED
      BY <1>1, <1>5, <2>1, CardsAre, CardCallEnds
  <1>6. CASE ~ UNCHANGED <<cards, made, lapsed>>
    <2>0. U!OfSignature(sig) = {} /\ U!Create
          /\ cards' = U!With(cards, U!New, [signature |-> sig, isDefault |-> first])
          /\ U!Slips(~ first /\ cards = <<>>)
      BY <1>4, <1>6 DEF U!SaveUpsert
    <2>1. PICK n \in Nat : n = made + 1 /\ made' = n /\ n # 0 /\ made \in Nat /\ made <= n
      BY <2>0, CardsAre DEF U!Create, U!New
    <2>2. PICK row \in CardRecords : row = [signature |-> sig, isDefault |-> first]
      BY DEF CardRecords
    <2>3. row.signature = sig /\ row.isDefault = first
      BY <2>2
    <2>4. cards' = [i \in DOMAIN cards \cup {n} |-> IF i = n THEN row ELSE cards[i]]
      BY <2>0, <2>1, <2>2 DEF U!With, U!New
    <2>5. n \notin DOMAIN cards /\ DOMAIN cards \subseteq 1 .. n
      BY <2>1, CardsAre
    <2>6. /\ DOMAIN cards' = DOMAIN cards \cup {n} /\ cards'[n] = row
          /\ \A i \in DOMAIN cards : cards'[i] = cards[i]
          /\ cards' = [i \in DOMAIN cards' |-> cards'[i]]
      BY <2>4, <2>5
    <2>7. \A s \in Tasks : ~ BoundTo(task[s], n)
      <3> TAKE s \in Tasks
      <3>1. CardCall(task[s], made)
        BY CardCallIs
      <3> QED
        BY <2>1, <3>1 DEF CardCall, BoundTo, ToPromote, ToDelete
    <2>8. DOMAIN cards' \subseteq 1 .. n /\ \A i \in DOMAIN cards' : cards'[i] \in CardRecords
      BY <2>1, <2>5, <2>6, CardsAre
    <2>9. \A i, j \in DOMAIN cards' : cards'[i].signature = cards'[j].signature => i = j
      <3>1. \A i \in DOMAIN cards : cards[i].signature # sig
        BY <2>0 DEF U!OfSignature
      <3>2. \A i, j \in DOMAIN cards : cards[i].signature = cards[j].signature => i = j
        BY DEF CardsInv, CardsRead
      <3> QED
        BY <2>3, <2>6, <3>1, <3>2
    <2>10. U!Defaults' = {i \in DOMAIN cards' : cards'[i].isDefault = TRUE}
      BY <2>8 DEF U!Defaults, CardRecords
    <2>11. lapsed' = ((~ first /\ cards = <<>>) \/ (lapsed /\ U!Defaults' = {}))
      BY <2>0 DEF U!Slips
    <2>12. lapsed' \in BOOLEAN
      BY <2>11
    <2>13. Given(cards', task', lapsed')
      <3>1. SUFFICES ASSUME \A i \in DOMAIN cards' : cards'[i].isDefault = FALSE
                     PROVE  lapsed' = TRUE \/ \E s \in Tasks : Promotes(task'[s])
        BY DEF Given
      <3>2. first = FALSE /\ U!Defaults' = {} /\ \A i \in DOMAIN cards : cards[i].isDefault = FALSE
        BY <2>3, <2>6, <2>10, <3>1
      <3>3. CASE DOMAIN cards = {}
        BY <2>11, <3>2, <3>3, CardsAre
      <3>4. CASE lapsed = TRUE
        BY <2>11, <3>2, <3>4
      <3>5. CASE \E s \in Tasks : Promotes(task[s])
        BY <1>1, <1>3, <3>5 DEF Promotes
      <3> QED
        BY <3>2, <3>3, <3>4, <3>5 DEF CardsInv, Given
    <2>14. Room(Candidates(cards', task'), Choosers(task'))
      <3>1. CASE first = TRUE
        <4>1. t \in Choosers(task)
          BY <1>1, <1>4, <3>1 DEF Choosers, Chooses
        <4>2. Room(Candidates(cards, task) \cup {n}, Choosers(task) \ {t})
          BY <4>1, RoomMoved DEF CardsInv
        <4>3. Candidates(cards', task') \subseteq Candidates(cards, task) \cup {n}
          BY <1>2, <1>3, <2>6 DEF Candidates, Moves, BoundTo, ToPromote, ToDelete
        <4>4. Choosers(task') \subseteq Choosers(task) \ {t}
          BY <1>2, <1>3 DEF Choosers, Moves, Chooses
        <4> QED
          BY <4>2, <4>3, <4>4, RoomLess
      <3>2. CASE first = FALSE
        <4>1. \A s \in Tasks : ~ BoundTo(task'[s], n)
          BY <1>2, <1>3, <2>7 DEF Moves, BoundTo, ToPromote, ToDelete
        <4>2. Candidates(cards', task') \subseteq Candidates(cards, task)
          BY <1>2, <1>3, <2>3, <2>6, <3>2, <4>1
             DEF Candidates, Moves, BoundTo, ToPromote, ToDelete
        <4>3. Choosers(task') \subseteq Choosers(task)
          BY <1>2, <1>3 DEF Choosers, Moves, Chooses
        <4> QED
          BY <4>2, <4>3, CardsLess
      <3> QED
        BY <3>1, <3>2
    <2>15. CardCall(U!Idle, made')
      BY <1>2 DEF CardCall
    <2> QED
      BY <1>2, <2>1, <2>6, <2>8, <2>9, <2>12, <2>13, <2>14, <2>15, CardsMove
  <1> QED
    BY <1>5, <1>6

\* A step that changes nothing of the cards but which are defaults.
LEMMA CardsMarked ==
    ASSUME CardsInv, NEW t \in Tasks, NEW call, Moves(t, call), made' = made,
           CardCall(call, made), NEW g,
           cards' = [i \in DOMAIN cards |-> [cards[i] EXCEPT !.isDefault = g[i]]],
           \A i \in DOMAIN cards : g[i] \in BOOLEAN,
           lapsed' \in BOOLEAN, Given(cards', task', lapsed'),
           Room(Candidates(cards', task'), Choosers(task'))
    PROVE  CardsInv'
  <1>1. /\ DOMAIN cards' = DOMAIN cards /\ cards' = [i \in DOMAIN cards' |-> cards'[i]]
        /\ DOMAIN cards' \subseteq 1 .. made /\ made \in Nat /\ made <= made
    BY CardsAre
  <1>2. ASSUME NEW i \in DOMAIN cards
        PROVE  cards'[i] \in CardRecords /\ cards'[i].signature = cards[i].signature
    <2>1. cards[i] \in CardRecords /\ g[i] \in BOOLEAN
      BY CardsAre
    <2>2. cards'[i] = [cards[i] EXCEPT !.isDefault = g[i]]
      OBVIOUS
    <2> QED
      BY <2>1, <2>2 DEF CardRecords
  <1>3. \A i, j \in DOMAIN cards' : cards'[i].signature = cards'[j].signature => i = j
    BY <1>1, <1>2 DEF CardsInv, CardsRead
  <1> QED
    BY <1>1, <1>2, <1>3, CardsMove

\* The default is set: every other card that may become one is promoted by a
\* call, or is deleted by one that will look for another.
LEMMA SetWriteKeeps ==
    ASSUME CardsInv, NEW t \in Tasks, U!SetWrite(t)
    PROVE  CardsInv'
  <1>1. task[t].pc = "set" /\ U!Return(t) /\ made' = made
    BY DEF U!SetWrite, U!At
  <1>2. Moves(t, U!Idle) /\ U!Idle.pc = "idle"
    BY <1>1, CardsAre, Returns
  <1>3. \A s \in Tasks : s # t => task'[s] = task[s]
    BY <1>2 DEF Moves
  <1>4. PICK n : n = task[t].row
    OBVIOUS
  <1>5. lapsed' = (lapsed /\ U!Defaults' = {}) /\ lapsed' \in BOOLEAN
    BY DEF U!SetWrite, U!Slips
  <1>6. CASE n \notin DOMAIN cards
    <2>1. cards' = cards
      BY <1>4, <1>6 DEF U!SetWrite
    <2>2. U!Defaults' = U!Defaults
      BY <2>1 DEF U!Defaults
    <2>3. Given(cards, task', lapsed')
      <3>1. SUFFICES ASSUME \A i \in DOMAIN cards : cards[i].isDefault = FALSE
                     PROVE  DOMAIN cards = {} \/ lapsed' = TRUE
                                \/ \E s \in Tasks : Promotes(task'[s])
        BY DEF Given
      <3>2. U!Defaults' = {}
        BY <2>2, <3>1, CardsAre
      <3>3. lapsed' = lapsed
        BY <1>5, <3>2, CardsAre
      <3> QED
        BY <1>1, <1>3, <3>1, <3>3 DEF CardsInv, Given, Promotes
    <2> QED
      BY <1>1, <1>5, <2>1, <2>3, CardCallEnds
  <1>7. CASE n \in DOMAIN cards
    <2> DEFINE g == [i \in DOMAIN cards |-> i = n]
    <2>1. cards' = [i \in DOMAIN cards |-> [cards[i] EXCEPT !.isDefault = g[i]]]
      BY <1>4, <1>7 DEF U!SetWrite, U!DefaultTo
    <2>2. \A i \in DOMAIN cards : g[i] \in BOOLEAN /\ g[i] = (i = n)
      OBVIOUS
    <2> HIDE DEF g
    <2>3. \A i \in DOMAIN cards : cards'[i].isDefault = (i = n)
      <3> TAKE i \in DOMAIN cards
      <3>1. cards[i] \in CardRecords
        BY CardsAre
      <3> QED
        BY <2>1, <2>2, <3>1 DEF CardRecords
    <2>4. DOMAIN cards' = DOMAIN cards
      BY <2>1
    <2>5. Given(cards', task', lapsed')
      BY <1>7, <2>3, <2>4 DEF Given
    <2> DEFINE P == {s \in Tasks : s = t \/ (task[s].pc \in {"promote", "delete"} /\ s # t)}
    <2>6. Candidates(cards', task') \subseteq {task[s].row : s \in P}
      <3>1. ASSUME NEW i \in Candidates(cards', task')
            PROVE  i = n \/ \E s \in Tasks : BoundTo(task'[s], i)
        BY <2>3, <2>4, <3>1 DEF Candidates
      <3>2. ASSUME NEW i, NEW s \in Tasks, BoundTo(task'[s], i)
            PROVE  s \in P /\ task[s].row = i
        BY <1>2, <1>3, <3>2 DEF Moves, BoundTo, ToPromote, ToDelete
      <3>3. t \in P /\ task[t].row = n
        BY <1>4
      <3> HIDE DEF P
      <3> QED
        BY <3>1, <3>2, <3>3
    <2>7. /\ P \cap Choosers(task') = {}
          /\ P \in SUBSET Tasks /\ Choosers(task') \in SUBSET Tasks
      BY <1>2, <1>3 DEF Choosers, Chooses, Moves
    <2> HIDE DEF P
    <2>8. Room(Candidates(cards', task'), Choosers(task'))
      BY <2>6, <2>7, RoomOf
    <2>9. CardCall(U!Idle, made)
      BY <1>2 DEF CardCall
    <2> QED
      BY <1>1, <1>2, <1>5, <2>1, <2>2, <2>5, <2>8, <2>9, CardsMarked
  <1> QED
    BY <1>6, <1>7

LEMMA RemoveDeleteKeeps ==
    ASSUME CardsInv, NEW t \in Tasks, U!RemoveDelete(t)
    PROVE  CardsInv'
  <1>1. task[t].pc = "delete" /\ made' = made
    BY DEF U!RemoveDelete, U!At
  <1>0. PICK n : n = task[t].row
    OBVIOUS
  <1>2. PICK d \in BOOLEAN : n = task[t].row /\ d = task[t].default
    BY <1>0, <1>1, CardCallIs DEF CardCall
  <1>3. /\ DOMAIN cards' = DOMAIN cards \ {n}
        /\ \A i \in DOMAIN cards' : cards'[i] = cards[i]
        /\ cards' = [i \in DOMAIN cards' |-> cards'[i]]
    BY <1>2 DEF U!RemoveDelete, U!Without
  <1>4. PICK call : /\ call = (IF n \in DOMAIN cards /\ d THEN [pc |-> "find"] ELSE U!Idle)
                    /\ U!Goto(t, call)
    BY <1>2 DEF U!RemoveDelete, U!Return
  <1>5. /\ Moves(t, call)
        /\ n \in DOMAIN cards /\ d = TRUE => call.pc = "find"
        /\ n \notin DOMAIN cards \/ d = FALSE => call.pc = "idle"
    BY <1>4, CardsAre, Goes DEF U!Idle
  <1>6. \A s \in Tasks : s # t => task'[s] = task[s]
    BY <1>5 DEF Moves
  <1>7. lapsed' = ((n \in U!Defaults /\ ~ d) \/ (lapsed /\ U!Defaults' = {}))
        /\ lapsed' \in BOOLEAN
    BY <1>2 DEF U!RemoveDelete, U!Slips
  <1>8. U!Defaults' = {i \in DOMAIN cards' : cards'[i].isDefault = TRUE}
    BY <1>3, CardsAre DEF U!Defaults
  <1>9. Given(cards', task', lapsed')
    <2>1. SUFFICES ASSUME \A i \in DOMAIN cards' : cards'[i].isDefault = FALSE,
                          DOMAIN cards' # {}, ~ \E s \in Tasks : Promotes(task'[s])
                   PROVE  lapsed' = TRUE
      BY DEF Given
    <2>2. U!Defaults' = {} /\ ~ (n \in DOMAIN cards /\ d = TRUE)
      BY <1>5, <1>8, <2>1 DEF Promotes, Moves
    <2>3. CASE n \in U!Defaults
      BY <1>2, <1>7, <2>2, <2>3, CardsAre
    <2>4. CASE n \notin U!Defaults
      <3>1. \A i \in DOMAIN cards : cards[i].isDefault = FALSE
        BY <1>3, <2>1, <2>4, CardsAre
      <3>2. DOMAIN cards # {} /\ ~ \E s \in Tasks : Promotes(task[s])
        BY <1>1, <1>3, <1>6, <2>1 DEF Promotes
      <3>3. lapsed = TRUE
        BY <3>1, <3>2 DEF CardsInv, Given
      <3> QED
        BY <1>7, <2>2, <3>3
    <2> QED
      BY <2>3, <2>4
  <1>10. Room(Candidates(cards', task'), Choosers(task'))
    <2>1. CASE n \in DOMAIN cards /\ d = TRUE
      <3>1. n \in Candidates(cards, task)
        BY <1>1, <1>2, <2>1 DEF Candidates, BoundTo, ToDelete
      <3>2. Room(Candidates(cards, task) \ {n}, Choosers(task) \cup {t})
        BY <3>1, RoomGiven DEF CardsInv
      <3>3. Candidates(cards', task') \subseteq Candidates(cards, task) \ {n}
        BY <1>3, <1>5, <1>6, <2>1 DEF Candidates, Moves, BoundTo, ToPromote, ToDelete
      <3>4. Choosers(task') \subseteq Choosers(task) \cup {t}
        BY <1>6 DEF Choosers
      <3> QED
        BY <3>2, <3>3, <3>4, RoomLess
    <2>2. CASE ~ (n \in DOMAIN cards /\ d = TRUE)
      <3>1. call.pc = "idle"
        BY <1>2, <1>5, <2>2
      <3>2. Candidates(cards', task') \subseteq Candidates(cards, task)
        BY <1>3, <1>5, <1>6, <3>1 DEF Candidates, Moves, BoundTo, ToPromote, ToDelete
      <3>3. Choosers(task') \subseteq Choosers(task)
        BY <1>5, <1>6, <3>1 DEF Choosers, Moves, Chooses
      <3> QED
        BY <3>2, <3>3, CardsLess
    <2> QED
      BY <2>1, <2>2
  <1>11. CardCall(call, made)
    BY <1>2, <1>5 DEF CardCall
  <1>12. /\ made \in Nat /\ made <= made /\ DOMAIN cards' \subseteq 1 .. made
         /\ \A i \in DOMAIN cards' : cards'[i] \in CardRecords
    BY <1>3, CardsAre
  <1>13. \A i, j \in DOMAIN cards' : cards'[i].signature = cards'[j].signature => i = j
    BY <1>3 DEF CardsInv, CardsRead
  <1> QED
    BY <1>1, <1>3, <1>5, <1>7, <1>9, <1>10, <1>11, <1>12, <1>13, CardsMove

LEMMA PromoteFindKeeps ==
    ASSUME CardsInv, NEW t \in Tasks, U!PromoteFind(t)
    PROVE  CardsInv'
  <1>1. task[t].pc = "find" /\ UNCHANGED <<cards, made, lapsed>>
    BY DEF U!PromoteFind, U!At
  <1>2. CASE DOMAIN cards = {}
    <2>1. U!Return(t)
      BY <1>2, CardsAre DEF U!PromoteFind
    <2>2. Given(cards, task', lapsed')
      BY <1>2 DEF Given
    <2> QED
      BY <1>1, <2>1, <2>2, CardsAre, CardCallEnds
  <1>3. CASE DOMAIN cards # {}
    <2>1. PICK newest : newest = U!Max(DOMAIN cards)
      OBVIOUS
    <2>2. newest \in DOMAIN cards
      <3>0. made \in Int
        BY CardsAre
      <3>1. IsFiniteSet(1 .. made)
        BY <3>0, FS_Interval
      <3>2. IsFiniteSet(DOMAIN cards) /\ DOMAIN cards \subseteq Int
        BY <3>1, CardsAre, FS_Subset
      <3>3. PICK m \in DOMAIN cards : \A x \in DOMAIN cards : x <= m
        BY <1>3, <3>2, HasLargest
      <3>4. \A x \in DOMAIN cards : m >= x
        BY <3>2, <3>3
      <3> QED
        BY <2>1, <3>3, <3>4 DEF U!Max
    <2> DEFINE call == [pc |-> "promote", row |-> newest]
    <2>3. Moves(t, call)
      BY <1>3, <2>1, CardsAre, Goes DEF U!PromoteFind
    <2>4. call.pc = "promote" /\ call.row = newest
      OBVIOUS
    <2> HIDE DEF call
    <2>5. \A s \in Tasks : s # t => task'[s] = task[s]
      BY <2>3 DEF Moves
    <2>6. Given(cards, task', lapsed')
      BY <2>3, <2>4 DEF Given, Promotes, Moves
    <2>7. t \in Choosers(task)
      BY <1>1 DEF Choosers, Chooses
    <2>8. Room(Candidates(cards, task) \cup {newest}, Choosers(task) \ {t})
      BY <2>7, RoomMoved DEF CardsInv
    <2>9. Candidates(cards, task') \subseteq Candidates(cards, task) \cup {newest}
      BY <2>3, <2>4, <2>5 DEF Candidates, Moves, BoundTo, ToPromote, ToDelete
    <2>10. Choosers(task') \subseteq Choosers(task) \ {t}
      BY <2>3, <2>4, <2>5 DEF Choosers, Moves, Chooses
    <2>11. Room(Candidates(cards, task'), Choosers(task'))
      BY <2>8, <2>9, <2>10, RoomLess
    <2>12. CardCall(call, made)
      BY <2>2, <2>4, CardsAre DEF CardCall
    <2> QED
      BY <1>1, <2>3, <2>6, <2>11, <2>12, CardsAre, CardsSame
  <1> QED
    BY <1>2, <1>3

LEMMA PromoteKeeps ==
    ASSUME CardsInv, NEW t \in Tasks, U!Promote(t)
    PROVE  CardsInv'
  <1>1. task[t].pc = "promote" /\ U!Return(t) /\ made' = made
    BY DEF U!Promote, U!At
  <1>2. Moves(t, U!Idle) /\ U!Idle.pc = "idle"
    BY <1>1, CardsAre, Returns
  <1>3. \A s \in Tasks : s # t => task'[s] = task[s]
    BY <1>2 DEF Moves
  <1>4. PICK n : n = task[t].row
    OBVIOUS
  <1>5. lapsed' = (n \notin DOMAIN cards \/ (lapsed /\ U!Defaults' = {})) /\ lapsed' \in BOOLEAN
    BY <1>4 DEF U!Promote, U!Slips
  <1>6. CASE n \notin DOMAIN cards
    <2>1. cards' = cards
      BY <1>4, <1>6 DEF U!Promote
    <2>2. Given(cards, task', lapsed')
      BY <1>5, <1>6 DEF Given
    <2> QED
      BY <1>1, <1>5, <2>1, <2>2, CardCallEnds
  <1>7. CASE n \in DOMAIN cards
    <2> DEFINE g == [i \in DOMAIN cards |-> IF i = n THEN TRUE ELSE cards[i].isDefault]
    <2>1. cards' = [i \in DOMAIN cards |-> [cards[i] EXCEPT !.isDefault = g[i]]]
      <3>1. cards' = [i \in DOMAIN cards |->
                         IF i = n THEN [cards[n] EXCEPT !.isDefault = TRUE] ELSE cards[i]]
        BY <1>4, <1>7 DEF U!Promote, U!With
      <3>2. \A i \in DOMAIN cards : cards[i] = [cards[i] EXCEPT !.isDefault = cards[i].isDefault]
        BY CardsAre DEF CardRecords
      <3> QED
        BY <3>1, <3>2
    <2>2. \A i \in DOMAIN cards :
              g[i] \in BOOLEAN /\ g[i] = (IF i = n THEN TRUE ELSE cards[i].isDefault)
      BY CardsAre
    <2> HIDE DEF g
    <2>3. \A i \in DOMAIN cards :
              cards'[i].isDefault = (IF i = n THEN TRUE ELSE cards[i].isDefault)
      <3> TAKE i \in DOMAIN cards
      <3>1. cards[i] \in CardRecords
        BY CardsAre
      <3> QED
        BY <2>1, <2>2, <3>1 DEF CardRecords
    <2>4. DOMAIN cards' = DOMAIN cards
      BY <2>1
    <2>5. Given(cards', task', lapsed')
      BY <1>7, <2>3, <2>4 DEF Given
    <2>6. Candidates(cards', task') \subseteq Candidates(cards, task)
      BY <1>1, <1>2, <1>3, <1>4, <2>3, <2>4
         DEF Candidates, Moves, BoundTo, ToPromote, ToDelete
    <2>7. Choosers(task') \subseteq Choosers(task)
      BY <1>2, <1>3 DEF Choosers, Moves, Chooses
    <2>8. Room(Candidates(cards', task'), Choosers(task'))
      BY <2>6, <2>7, CardsLess
    <2>9. CardCall(U!Idle, made)
      BY <1>2 DEF CardCall
    <2> QED
      BY <1>1, <1>2, <1>5, <2>1, <2>2, <2>5, <2>8, <2>9, CardsMarked
  <1> QED
    BY <1>6, <1>7

\* A call that stops between deletion and promotion slips.
LEMMA CardThrowKeeps ==
    ASSUME CardsInv, NEW t \in Tasks, U!Throw(t)
    PROVE  CardsInv'
  <1>1. U!Return(t) /\ UNCHANGED <<cards, made>>
    BY DEF U!Throw
  <1>2. lapsed' = (Promotes(task[t]) \/ lapsed) /\ lapsed' \in BOOLEAN
    BY DEF U!Throw, U!At, Promotes
  <1>3. Moves(t, U!Idle)
    BY <1>1, CardsAre, Returns
  <1>4. Given(cards, task', lapsed')
    BY <1>2, <1>3, CardsAre DEF CardsInv, Given, Moves
  <1> QED
    BY <1>1, <1>2, <1>4, CardCallEnds

LEMMA CardsNext ==
    ASSUME CardsInv, U!CardNext
    PROVE  CardsInv'
  BY SaveCountKeeps, SaveUpsertKeeps, SetReadKeeps, SetWriteKeeps, RemoveReadKeeps,
     RemoveDeleteKeeps, PromoteFindKeeps, PromoteKeeps DEF U!CardNext

LEMMA CardsAreKept ==
    ASSUME CardsInv
    PROVE  U!FewDefaults /\ U!DefaultIsKept /\ U!OneCardEach
  <1>1. CardsRead(cards, task, made)
    BY DEF CardsInv
  <1>2. \A i \in DOMAIN cards : cards[i].isDefault \in BOOLEAN
    BY <1>1 DEF CardsRead, CardRecords
  <1>3. U!Defaults \subseteq Candidates(cards, task)
    BY <1>2 DEF U!Defaults, Candidates
  <1>4. Room(U!Defaults, {})
    BY <1>3, RoomLess DEF CardsInv
  <1>5. U!FewDefaults
    BY <1>4, RoomCounts, CountsAgree DEF U!FewDefaults, U!AtOnce
  <1>6. U!DefaultIsKept
    <2>1. U!Defaults = {} => \A i \in DOMAIN cards : cards[i].isDefault = FALSE
      BY <1>2 DEF U!Defaults
    <2>2. cards # <<>> => DOMAIN cards # {}
      BY <1>1, NoCards DEF CardsRead
    <2> QED
      BY <2>1, <2>2 DEF CardsInv, Given, Promotes, U!DefaultIsKept, U!At
  <1>7. U!OneCardEach
    BY <1>1 DEF CardsRead, U!OneCardEach
  <1> QED
    BY <1>5, <1>6, <1>7

-----------------------------------------------------------------------------
(* Plates and fleets, the ride's link, the key.                            *)

PlatesInv == vehicle = [d \in Drivers |-> vehicle[d]] /\ U!OneDriverEach /\ U!OneFleetEach

\* Two looks may find a plate, or a driver, free: the index refuses the second.
LEMMA PlatesNext ==
    ASSUME PlatesInv, U!DriverNext
    PROVE  PlatesInv'
  <1>1. ASSUME NEW t \in Tasks, U!VehicleUpsert(t)
        PROVE  PlatesInv'
    <2>1. PICK d, plate : d = task[t].driver /\ plate = task[t].value
      OBVIOUS
    <2>2. U!OneFleetEach'
      BY <1>1 DEF U!VehicleUpsert, PlatesInv, U!OneFleetEach
    <2>3. CASE \E e \in Drivers \ {d} : vehicle[e] = plate
      <3>1. vehicle' = vehicle
        BY <1>1, <2>1, <2>3 DEF U!VehicleUpsert
      <3> QED
        BY <2>2, <3>1 DEF PlatesInv, U!OneDriverEach
    <2>4. CASE ~ \E e \in Drivers \ {d} : vehicle[e] = plate
      <3>1. vehicle' = [vehicle EXCEPT ![d] = plate]
        BY <1>1, <2>1, <2>4 DEF U!VehicleUpsert
      <3>2. vehicle' = [e \in Drivers |-> IF e = d THEN plate ELSE vehicle[e]]
        BY <3>1 DEF PlatesInv
      <3>3. \A e \in Drivers : vehicle'[e] = IF e = d THEN plate ELSE vehicle[e]
        BY <3>2
      <3>4. vehicle' = [e \in Drivers |-> vehicle'[e]]
        BY <3>2
      <3>5. U!OneDriverEach'
        BY <2>4, <3>3 DEF PlatesInv, U!OneDriverEach
      <3> QED
        BY <2>2, <3>4, <3>5 DEF PlatesInv
    <2> QED
      BY <2>3, <2>4
  <1>2. ASSUME NEW t \in Tasks, U!AttachCreate(t)
        PROVE  PlatesInv'
    <2>1. PICK d, p : d = task[t].driver /\ p = task[t].value
      OBVIOUS
    <2>2. vehicle' = vehicle /\ U!OneDriverEach'
      BY <1>2 DEF U!AttachCreate, PlatesInv, U!OneDriverEach
    <2>3. fleets' = IF U!Attached(d) THEN fleets ELSE fleets \cup {<<d, p>>}
      BY <1>2, <2>1 DEF U!AttachCreate
    <2>4. U!OneFleetEach'
      BY <2>3 DEF PlatesInv, U!OneFleetEach, U!Attached
    <2> QED
      BY <2>2, <2>4 DEF PlatesInv
  <1>3. ASSUME UNCHANGED <<vehicle, fleets>>
        PROVE  PlatesInv'
    BY <1>3 DEF PlatesInv, U!OneDriverEach, U!OneFleetEach
  <1>4. ASSUME NEW t \in Tasks, NEW d \in Drivers, NEW plate \in Plates, U!VehicleLook(t, d, plate)
        PROVE  UNCHANGED <<vehicle, fleets>>
    BY <1>4 DEF U!VehicleLook
  <1>5. ASSUME NEW t \in Tasks, NEW d \in Drivers, NEW p \in Partners, U!AttachLook(t, d, p)
        PROVE  UNCHANGED <<vehicle, fleets>>
    BY <1>5 DEF U!AttachLook
  <1> QED
    BY <1>1, <1>2, <1>3, <1>4, <1>5 DEF U!DriverNext

\* The links that the rider has, and the calls that are to mint another.
Minters(tk) == {t \in Tasks : tk[t].pc = "share" /\ tk[t].found = 0}

ShareOK(rd, ls, tk, n) ==
    /\ n \in Nat /\ TasksAre(tk) /\ rd \in [ended : BOOLEAN, token : Nat]
    /\ rd.token = 0 => ls = {}
    /\ rd.token # 0 => rd.token \in ls
    /\ \A t \in Tasks : tk[t].pc = "share" => tk[t].found \in ls \cup {0}
    /\ Room(ls, Minters(tk))
ShareInv == ShareOK(ride, links, task, made)

LEMMA ShareCallEnds ==
    ASSUME ShareInv, NEW t \in Tasks, U!Return(t), UNCHANGED <<ride, links, made>>
    PROVE  ShareInv'
  <1>1. Moves(t, U!Idle) /\ U!Idle.pc = "idle"
    BY Returns DEF ShareInv, ShareOK
  <1>2. Minters(task') \subseteq Minters(task)
    BY <1>1 DEF Minters, Moves
  <1>3. Room(links, Minters(task'))
    BY <1>2, RoomLess DEF ShareInv, ShareOK
  <1> QED
    BY <1>1, <1>3 DEF ShareInv, ShareOK, Moves

LEMMA ShareNext ==
    ASSUME ShareInv, U!RideNext
    PROVE  ShareInv'
  <1>1. ASSUME NEW t \in Tasks, U!ShareLook(t) PROVE ShareInv'
    <2> DEFINE call == [pc |-> "share", found |-> ride.token]
    <2>1. Moves(t, call) /\ UNCHANGED <<ride, links, made>>
      BY <1>1, Begins DEF U!ShareLook, U!rideVars, ShareInv, ShareOK
    <2>2. call.pc = "share" /\ call.found = ride.token
      OBVIOUS
    <2> HIDE DEF call
    <2>3. Room(links, Minters(task'))
      <3>1. CASE ride.token = 0
        <4>1. links \subseteq {task[s].row : s \in {}}
          BY <3>1 DEF ShareInv, ShareOK
        <4>2. /\ {} \cap Minters(task') = {}
              /\ Minters(task') \in SUBSET Tasks /\ {} \in SUBSET Tasks
          BY DEF Minters
        <4> QED
          BY <4>1, <4>2, RoomOf
      <3>2. CASE ride.token # 0
        <4>1. Minters(task') \subseteq Minters(task)
          BY <2>1, <2>2, <3>2 DEF Minters, Moves
        <4> QED
          BY <4>1, RoomLess DEF ShareInv, ShareOK
      <3> QED
        BY <3>1, <3>2
    <2>4. \A s \in Tasks : task'[s].pc = "share" => task'[s].found \in links \cup {0}
      BY <2>1, <2>2 DEF ShareInv, ShareOK, Moves
    <2> QED
      BY <2>1, <2>3, <2>4 DEF ShareInv, ShareOK, Moves
  <1>2. ASSUME NEW t \in Tasks, U!ShareMint(t) PROVE ShareInv'
    <2>1. task[t].pc = "share" /\ U!Return(t)
      BY <1>2 DEF U!ShareMint, U!At
    <2>2. Moves(t, U!Idle) /\ U!Idle.pc = "idle"
      BY <2>1, Returns DEF ShareInv, ShareOK
    <2>3. CASE task[t].found # 0
      <3>1. links' = links /\ UNCHANGED <<ride, made>>
        BY <1>2, <2>1, <2>3 DEF U!ShareMint, ShareInv, ShareOK
      <3> QED
        BY <2>1, <3>1, ShareCallEnds
    <2>4. CASE task[t].found = 0
      <3>1. PICK n \in Nat : n = made + 1 /\ made' = n /\ n # 0
        BY <1>2, <2>4 DEF U!ShareMint, U!Create, U!New, ShareInv, ShareOK
      <3>2. links' = links \cup {n} /\ ride' = [ride EXCEPT !.token = n]
        BY <1>2, <2>4, <3>1 DEF U!ShareMint, U!New, U!Create, ShareInv, ShareOK
      <3>3. ride' \in [ended : BOOLEAN, token : Nat] /\ ride'.token = n
        BY <3>2 DEF ShareInv, ShareOK
      <3>4. t \in Minters(task)
        BY <2>1, <2>4 DEF Minters
      <3>5. Room(links \cup {n}, Minters(task) \ {t})
        BY <3>4, RoomMoved DEF ShareInv, ShareOK
      <3>6. Minters(task') \subseteq Minters(task) \ {t}
        BY <2>2 DEF Minters, Moves
      <3>7. Room(links', Minters(task'))
        BY <3>2, <3>5, <3>6, RoomLess
      <3>8. \A s \in Tasks : task'[s].pc = "share" => task'[s].found \in links' \cup {0}
        BY <2>2, <3>2 DEF ShareInv, ShareOK, Moves
      <3> QED
        BY <2>2, <3>1, <3>2, <3>3, <3>7, <3>8 DEF ShareInv, ShareOK, Moves
    <2> QED
      BY <2>3, <2>4
  <1>3. CASE U!RideEnds
    BY <1>3 DEF U!RideEnds, ShareInv, ShareOK
  <1> QED
    BY <1>1, <1>2, <1>3 DEF U!RideNext

LEMMA LinksAreFew == ShareInv => U!FewLinks
  <1>1. ASSUME ShareInv PROVE Cardinality(links) <= Cardinality(Tasks)
    BY <1>1, RoomCounts DEF ShareInv, ShareOK
  <1> QED
    BY <1>1, CountsAgree DEF ShareInv, ShareOK, U!FewLinks, U!AtOnce, U!Opens

\* The runs of which the row is still to be written, and those to come: a call
\* that is to run its handler found no row.
Running(tk, pc) == {t \in Tasks : tk[t].pc = pc}

KeyOK(k, n, l, tk) ==
    /\ n \in Nat /\ l \in Nat /\ TasksAre(tk)
    /\ k # "LIVE" => n <= Cardinality(Running(tk, "store")) + l
    /\ n + Cardinality(Running(tk, "handle")) <= Cardinality(Tasks) + l
KeyInv == KeyOK(key, ran, lost, task)

LEMMA RunningCounts ==
    ASSUME NEW tk
    PROVE  /\ \A pc : IsFiniteSet(Running(tk, pc)) /\ Cardinality(Running(tk, pc)) \in Nat
           /\ Cardinality(Running(tk, "store")) + Cardinality(Running(tk, "handle"))
                 <= Cardinality(Tasks)
  <1>1. ASSUME NEW pc
        PROVE  IsFiniteSet(Running(tk, pc)) /\ Cardinality(Running(tk, pc)) \in Nat
    <2>1. Running(tk, pc) \in SUBSET Tasks
      BY DEF Running
    <2>2. IsFiniteSet(Running(tk, pc))
      BY <2>1, TasksAreFinite, FS_Subset
    <2> QED
      BY <2>2, FS_CardinalityType
  <1> DEFINE S == Running(tk, "store")
             H == Running(tk, "handle")
  <1>2. S \cap H = {} /\ S \cup H \in SUBSET Tasks
    BY DEF Running
  <1>3. IsFiniteSet(S) /\ IsFiniteSet(H) /\ Cardinality(S) \in Nat /\ Cardinality(H) \in Nat
    BY <1>1
  <1> HIDE DEF S, H
  <1>4. Cardinality(S \cup H) = Cardinality(S) + Cardinality(H) - Cardinality(S \cap H)
    BY <1>3, FS_Union
  <1>5. Cardinality(S \cap H) = 0
    BY <1>2, FS_EmptySet
  <1>6. Cardinality(S \cup H) <= Cardinality(Tasks)
    BY <1>2, TasksAreFinite, FS_Subset
  <1>7. Cardinality(S) + Cardinality(H) <= Cardinality(Tasks)
    BY <1>3, <1>4, <1>5, <1>6
  <1> QED
    BY <1>1, <1>7 DEF S, H

\* A call enters a set of calls, or leaves it.
LEMMA RunningMoves ==
    ASSUME TasksAre(task), NEW t \in Tasks, NEW call, Moves(t, call), NEW pc
    PROVE  Cardinality(Running(task', pc)) =
               Cardinality(Running(task, pc)) + (IF call.pc = pc THEN 1 ELSE 0)
                   - (IF task[t].pc = pc THEN 1 ELSE 0)
  <1> DEFINE N == Running(task, pc) \ {t}
             k == Cardinality(N)
  <1>1. IsFiniteSet(Running(task, pc))
    BY RunningCounts
  <1>2. IsFiniteSet(N)
    BY <1>1, FS_RemoveElement
  <1>3. k \in Nat
    BY <1>2, FS_CardinalityType
  <1>4. t \notin N
    OBVIOUS
  <1>5. \A s \in Tasks : s # t => task'[s] = task[s]
    BY DEF Moves
  <1>6. Running(task, pc) = IF task[t].pc = pc THEN N \cup {t} ELSE N
    BY DEF Running
  <1>7. Running(task', pc) = IF call.pc = pc THEN N \cup {t} ELSE N
    BY <1>5 DEF Running, Moves
  <1> HIDE DEF N
  <1>8. Cardinality(N \cup {t}) = k + 1
    BY <1>2, <1>4, FS_AddElement
  <1> HIDE DEF k
  <1>9. Cardinality(Running(task, pc)) = IF task[t].pc = pc THEN k + 1 ELSE k
    BY <1>6, <1>8 DEF k
  <1>10. Cardinality(Running(task', pc)) = IF call.pc = pc THEN k + 1 ELSE k
    BY <1>7, <1>8 DEF k
  <1> QED
    BY <1>3, <1>9, <1>10

\* By how much a call's step changes the number of calls at a statement.
Gain(pc, t, call) ==
    (IF call.pc = pc THEN 1 ELSE 0) - (IF task[t].pc = pc THEN 1 ELSE 0)

\* While there is no key, whoever ran is about to store its row or lost it; and
\* whoever is to run is one of the calls, or is there to ask for the first time.
KeyMovement(t, call) ==
    /\ ran' \in Nat /\ lost' \in Nat
    /\ key' # "LIVE" => key # "LIVE" /\ ran' - ran <= Gain("store", t, call) + lost' - lost
    /\ \/ ran' - ran + Gain("handle", t, call) <= lost' - lost
       \/ /\ key # "LIVE" /\ ran' = ran /\ lost' = lost
          /\ Gain("handle", t, call) = 1 /\ Gain("store", t, call) = 0

LEMMA KeyMoves ==
    ASSUME KeyInv, NEW t \in Tasks, NEW call, Moves(t, call), KeyMovement(t, call)
    PROVE  KeyInv'
  <1>1. TasksAre(task) /\ TasksAre(task') /\ ran \in Nat /\ lost \in Nat
    BY DEF KeyInv, KeyOK, Moves
  <1>2. PICK ran1 \in Nat, lost1 \in Nat, ran2 \in Nat, lost2 \in Nat :
            ran1 = ran /\ lost1 = lost /\ ran2 = ran' /\ lost2 = lost'
    BY <1>1 DEF KeyMovement
  <1>3. PICK s \in Nat, h \in Nat, s2 \in Nat, h2 \in Nat, m \in Nat :
            /\ s = Cardinality(Running(task, "store")) /\ h = Cardinality(Running(task, "handle"))
            /\ s2 = Cardinality(Running(task', "store")) /\ h2 = Cardinality(Running(task', "handle"))
            /\ m = Cardinality(Tasks)
    BY RunningCounts, TasksAreFinite
  <1>4. PICK gs \in Int, gh \in Int :
            gs = Gain("store", t, call) /\ gh = Gain("handle", t, call)
    BY DEF Gain
  <1>5. s2 = s + gs
    BY <1>1, <1>3, <1>4, RunningMoves DEF Gain
  <1>6. h2 = h + gh
    BY <1>1, <1>3, <1>4, RunningMoves DEF Gain
  <1>7. (key # "LIVE" => ran1 <= s + lost1) /\ ran1 + h <= m + lost1
    BY <1>2, <1>3 DEF KeyInv, KeyOK
  <1>8. /\ key' # "LIVE" => key # "LIVE" /\ ran2 - ran1 <= gs + lost2 - lost1
        /\ \/ ran2 - ran1 + gh <= lost2 - lost1
           \/ key # "LIVE" /\ ran2 = ran1 /\ lost2 = lost1 /\ gh = 1 /\ gs = 0
    BY <1>2, <1>4 DEF KeyMovement
  <1>9. key' # "LIVE" => ran2 <= s2 + lost2
    BY <1>5, <1>7, <1>8
  <1>10. ran2 + h2 <= m + lost2
    <2>1. CASE ran2 - ran1 + gh <= lost2 - lost1
      BY <1>6, <1>7, <2>1
    <2>2. CASE key # "LIVE" /\ ran2 = ran1 /\ lost2 = lost1 /\ gs = 0
      <3>1. s2 + h2 <= m
        BY <1>3, RunningCounts
      <3> QED
        BY <1>5, <1>7, <2>2, <3>1
    <2> QED
      BY <1>8, <2>1, <2>2
  <1>11. key' # "LIVE" => ran' <= Cardinality(Running(task', "store")) + lost'
    BY <1>2, <1>3, <1>9
  <1>12. ran' + Cardinality(Running(task', "handle")) <= Cardinality(Tasks) + lost'
    BY <1>2, <1>3, <1>10
  <1> QED
    BY <1>1, <1>2, <1>11, <1>12 DEF KeyInv, KeyOK

LEMMA KeyThrowKeeps ==
    ASSUME KeyInv, NEW t \in Tasks, U!Throw(t)
    PROVE  KeyInv'
  <1>1. /\ UNCHANGED <<key, ran>>
        /\ lost' = IF task[t].pc = "store" THEN lost + 1 ELSE lost
    BY DEF U!Throw, U!At
  <1>2. Moves(t, U!Idle) /\ U!Idle.pc = "idle"
    BY Returns DEF U!Throw, KeyInv, KeyOK
  <1>3. ran \in Nat /\ lost \in Nat
    BY DEF KeyInv, KeyOK
  <1> QED
    BY <1>1, <1>2, <1>3, KeyMoves DEF KeyMovement, Gain

LEMMA KeyNext ==
    ASSUME KeyInv, U!KeyNext
    PROVE  KeyInv'
  <1>0. TasksAre(task) /\ ran \in Nat /\ lost \in Nat
    BY DEF KeyInv, KeyOK
  <1>1. ASSUME NEW t \in Tasks, U!Request(t) PROVE KeyInv'
    <2> DEFINE call == [pc |-> "handle"]
    <2>1. Moves(t, call) /\ task[t].pc = "idle"
      BY <1>0, <1>1, Begins DEF U!Request
    <2>2. call.pc = "handle" /\ key # "LIVE" /\ UNCHANGED <<key, ran, lost>>
      BY <1>1 DEF U!Request
    <2> HIDE DEF call
    <2> QED
      BY <1>0, <2>1, <2>2, KeyMoves DEF KeyMovement, Gain
  <1>2. ASSUME NEW t \in Tasks, U!Handle(t) PROVE KeyInv'
    <2> DEFINE call == [pc |-> "store"]
    <2>1. Moves(t, call) /\ task[t].pc = "handle"
      BY <1>0, <1>2, Goes DEF U!Handle, U!At
    <2>2. call.pc = "store" /\ ran' = ran + 1 /\ UNCHANGED <<key, lost>>
      BY <1>2 DEF U!Handle
    <2> HIDE DEF call
    <2> QED
      BY <1>0, <2>1, <2>2, KeyMoves DEF KeyMovement, Gain
  <1>3. ASSUME NEW t \in Tasks, U!Store(t) PROVE KeyInv'
    <2>1. Moves(t, U!Idle) /\ U!Idle.pc = "idle" /\ task[t].pc = "store"
      BY <1>0, <1>3, Returns DEF U!Store, U!At
    <2>2. key' = "LIVE" /\ UNCHANGED <<ran, lost>>
      BY <1>3 DEF U!Store
    <2> QED
      BY <1>0, <2>1, <2>2, KeyMoves DEF KeyMovement, Gain
  <1>4. CASE U!KeyExpires
    <2>1. ran' = 0 /\ lost' = 0 /\ task' = task
      BY <1>4 DEF U!KeyExpires
    <2>2. /\ Cardinality(Running(task, "handle")) \in Nat
          /\ Cardinality(Running(task, "store")) \in Nat
          /\ Cardinality(Running(task, "store")) + Cardinality(Running(task, "handle"))
                <= Cardinality(Tasks)
      BY RunningCounts
    <2> QED
      BY <1>0, <2>1, <2>2, TasksAreFinite DEF KeyInv, KeyOK
  <1> QED
    BY <1>1, <1>2, <1>3, <1>4 DEF U!KeyNext

LEMMA RunsAreFew == KeyInv => U!FewRuns
  <1> SUFFICES ASSUME KeyInv PROVE ran <= Cardinality(Tasks) + lost
    BY CountsAgree DEF U!FewRuns, U!AtOnce
  <1>1. Cardinality(Running(task, "handle")) \in Nat
    BY RunningCounts
  <1> QED
    BY <1>1, TasksAreFinite DEF KeyInv, KeyOK

-----------------------------------------------------------------------------
(* Together: the rows a behaviour is not about stay as they began.         *)

UniquesInv ==
    /\ IF part = "places" THEN PlacesInv ELSE DOMAIN places = {}
    /\ IF part = "cards" THEN CardsInv ELSE cards = <<>>
    /\ PlatesInv
    /\ IF part = "rides" THEN ShareInv ELSE links = {}
    /\ IF part = "keys" THEN KeyInv ELSE ran = 0
    /\ lost \in Nat

\* Nothing that there is one of is kept yet.
LEMMA NothingKept ==
    ASSUME NEW S, NEW K, S = {}, K = {}
    PROVE  Room(S, K)
  <1>1. {} \cap K = {} /\ K \in SUBSET Tasks /\ {} \in SUBSET Tasks
    OBVIOUS
  <1>2. S \subseteq {task[t].row : t \in {}}
    OBVIOUS
  <1> QED
    BY <1>1, <1>2, RoomOf

LEMMA UniquesInvInit == Init => UniquesInv
  <1> SUFFICES ASSUME U!Init PROVE UniquesInv
    BY DEF Init
  <1>1. made = 0 /\ task = [t \in Tasks |-> U!Idle] /\ TasksAre(task)
    BY DEF U!Init, TasksAre
  <1>2. \A t \in Tasks : task[t].pc = "idle"
    BY <1>1 DEF U!Idle
  <1>3. DOMAIN places = {}
    BY DEF U!Init
  <1>4. DOMAIN cards = {} /\ cards = [i \in DOMAIN cards |-> cards[i]]
    BY DEF U!Init
  <1>5. PlacesInv
    <2>1. \A label : Prospects(places, task, label) = {} /\ Creators(task, label) = {}
      BY <1>2, <1>3 DEF Prospects, Creators, Places
    <2>2. \A label : Room(Prospects(places, task, label), Creators(task, label))
      BY <2>1, NothingKept
    <2> QED
      BY <1>1, <1>2, <1>3, <2>2 DEF PlacesInv, PlacesOK
  <1>6. CardsInv /\ cards = <<>>
    <2>1. Candidates(cards, task) = {} /\ Choosers(task) = {}
      BY <1>2, <1>4 DEF Candidates, Choosers, Chooses
    <2>2. Room(Candidates(cards, task), Choosers(task))
      BY <2>1, NothingKept
    <2>3. CardsRead(cards, task, made)
      BY <1>1, <1>2, <1>4 DEF CardsRead, CardCall
    <2>4. Given(cards, task, lapsed) /\ lapsed \in BOOLEAN
      BY <1>4 DEF Given, U!Init
    <2> QED
      BY <1>4, <2>2, <2>3, <2>4, NoCards DEF CardsInv
  <1>7. PlatesInv
    BY DEF U!Init, PlatesInv, U!OneDriverEach, U!OneFleetEach
  <1>8. ShareInv /\ links = {}
    <2>1. Minters(task) = {} /\ links = {}
      BY <1>2 DEF Minters, U!Init
    <2>2. Room(links, Minters(task))
      BY <2>1, NothingKept
    <2> QED
      BY <1>1, <1>2, <2>1, <2>2 DEF U!Init, ShareInv, ShareOK
  <1>9. KeyInv /\ ran = 0 /\ lost \in Nat
    <2>1. /\ Cardinality(Running(task, "handle")) \in Nat
          /\ Cardinality(Running(task, "store")) \in Nat
          /\ Cardinality(Running(task, "store")) + Cardinality(Running(task, "handle"))
                <= Cardinality(Tasks)
      BY RunningCounts
    <2> QED
      BY <1>1, <2>1, TasksAreFinite DEF U!Init, KeyInv, KeyOK
  <1> QED
    BY <1>3, <1>5, <1>6, <1>7, <1>8, <1>9 DEF UniquesInv

LEMMA UniquesInvStutter ==
    ASSUME UniquesInv, UNCHANGED <<part, uniqueVars>>
    PROVE  UniquesInv'
  <1>1. /\ part' = part /\ places' = places /\ cards' = cards /\ vehicle' = vehicle
        /\ fleets' = fleets /\ ride' = ride /\ links' = links /\ key' = key /\ ran' = ran
        /\ made' = made /\ task' = task /\ lapsed' = lapsed /\ lost' = lost
    BY DEF uniqueVars
  <1>2. PlacesInv => PlacesInv'
    BY <1>1 DEF PlacesInv
  <1>3. CardsInv => CardsInv'
    BY <1>1 DEF CardsInv
  <1>4. PlatesInv => PlatesInv'
    BY <1>1 DEF PlatesInv, U!OneDriverEach, U!OneFleetEach
  <1>5. (ShareInv => ShareInv') /\ (KeyInv => KeyInv')
    BY <1>1 DEF ShareInv, KeyInv
  <1> QED
    BY <1>1, <1>2, <1>3, <1>4, <1>5 DEF UniquesInv

\* A step of one of the five leaves the rows of the others.
OthersStay(p) ==
    /\ p # "places" => places' = places
    /\ p # "cards" => cards' = cards
    /\ p # "drivers" => vehicle' = vehicle /\ fleets' = fleets
    /\ p # "rides" => links' = links
    /\ p # "keys" => ran' = ran /\ lost' = lost

LEMMA UniquesInvPart ==
    ASSUME UniquesInv, part' = part, OthersStay(part), lost' \in Nat,
           part = "places" => PlacesInv', part = "cards" => CardsInv',
           part = "drivers" => PlatesInv', part = "rides" => ShareInv',
           part = "keys" => KeyInv'
    PROVE  UniquesInv'
  <1>1. part # "drivers" => PlatesInv'
    BY DEF OthersStay, UniquesInv, PlatesInv, U!OneDriverEach, U!OneFleetEach
  <1> QED
    BY <1>1 DEF UniquesInv, OthersStay

LEMMA UniquesInvStep ==
    ASSUME UniquesInv, UniquesStep, part' = part
    PROVE  UniquesInv'
  <1>0. lost \in Nat
    BY DEF UniquesInv
  <1>1. CASE part = "places" /\ U!PlaceNext
    <2>1. OthersStay(part) /\ lost' = lost
      BY <1>1 DEF OthersStay, U!PlaceNext, U!CreateLook, U!CreateWrite, U!ReplaceWrite,
                  U!Relabel, U!Displace, U!RemovePlace, U!OnlyPlaces, U!rideVars
    <2> QED
      BY <1>0, <1>1, <2>1, PlacesNext, UniquesInvPart DEF UniquesInv
  <1>2. CASE part = "cards" /\ U!CardNext
    <2>1. OthersStay(part) /\ lost' = lost
      BY <1>2 DEF OthersStay, U!CardNext, U!SaveCount, U!SaveUpsert, U!SetRead, U!SetWrite,
                  U!RemoveRead, U!RemoveDelete, U!PromoteFind, U!Promote, U!OnlyCards, U!rideVars
    <2> QED
      BY <1>0, <1>2, <2>1, CardsNext, UniquesInvPart DEF UniquesInv
  <1>3. CASE part = "drivers" /\ U!DriverNext
    <2>1. OthersStay(part) /\ lost' = lost
      BY <1>3 DEF OthersStay, U!DriverNext, U!VehicleUpsert, U!AttachCreate, U!VehicleLook,
                  U!AttachLook, U!OnlyDrivers, U!rideVars
    <2> QED
      BY <1>0, <1>3, <2>1, PlatesNext, UniquesInvPart DEF UniquesInv
  <1>4. CASE part = "rides" /\ U!RideNext
    <2>1. OthersStay(part) /\ lost' = lost
      BY <1>4 DEF OthersStay, U!RideNext, U!ShareLook, U!ShareMint, U!RideEnds, U!OnlyRide
    <2> QED
      BY <1>0, <1>4, <2>1, ShareNext, UniquesInvPart DEF UniquesInv
  <1>5. CASE part = "keys" /\ U!KeyNext
    <2>1. OthersStay(part)
      BY <1>5 DEF OthersStay, U!KeyNext, U!Request, U!Handle, U!Store, U!KeyExpires,
                  U!OnlyKey, U!rideVars
    <2>2. KeyInv'
      BY <1>5, KeyNext DEF UniquesInv
    <2>3. lost' \in Nat
      BY <2>2 DEF KeyInv, KeyOK
    <2> QED
      BY <1>5, <2>1, <2>2, <2>3, UniquesInvPart
  <1>6. ASSUME NEW t \in Tasks, U!Throw(t) PROVE UniquesInv'
    <2>1. /\ UNCHANGED <<places, cards, vehicle, fleets, links, ride, ran, made>>
          /\ U!Return(t) /\ lost' \in Nat
      BY <1>0, <1>6 DEF U!Throw, U!rideVars
    <2>2. part = "places" => PlacesInv'
      BY <2>1, PlaceCallEnds DEF UniquesInv
    <2>3. part = "cards" => CardsInv'
      BY <1>6, CardThrowKeeps DEF UniquesInv
    <2>4. part = "rides" => ShareInv'
      BY <2>1, ShareCallEnds DEF UniquesInv
    <2>5. part = "keys" => KeyInv'
      BY <1>6, KeyThrowKeeps DEF UniquesInv
    <2>6. PlatesInv'
      BY <2>1 DEF UniquesInv, PlatesInv, U!OneDriverEach, U!OneFleetEach
    <2> QED
      BY <2>1, <2>2, <2>3, <2>4, <2>5, <2>6 DEF UniquesInv
  <1> QED
    BY <1>1, <1>2, <1>3, <1>4, <1>5, <1>6 DEF UniquesStep

LEMMA UniquesInvNext == UniquesInv /\ [Next]_vars => UniquesInv'
  <1> SUFFICES ASSUME UniquesInv, [Next]_vars PROVE UniquesInv'
    OBVIOUS
  <1>1. CASE UniquesStep
    BY <1>1, UniquesInvStep DEF UniquesStep
  <1>2. CASE ~ UniquesStep
    <2>1. UNCHANGED <<part, uniqueVars>>
      BY <1>2 DEF Next, BooksStep, FaresStep, RosterStep, ChartsStep, TrackingStep, vars
    <2> QED
      BY <2>1, UniquesInvStutter
  <1> QED
    BY <1>1, <1>2

LEMMA UniquesInvBounds == UniquesInv => OverlapIsBounded
  <1> SUFFICES ASSUME UniquesInv PROVE U!OverlapIsBounded
    BY DEF OverlapIsBounded
  <1>0. U!Cardinality({}) = 0 /\ U!AtOnce \in Nat
    BY CountsAgree, TasksAreFinite, FS_EmptySet DEF U!AtOnce
  <1>1. U!FewHomes
    <2>1. CASE part # "places"
      <3>1. \A label \in U!Singletons : U!Labelled(label) = {}
        BY <2>1 DEF UniquesInv, U!Labelled
      <3> QED
        BY <1>0, <3>1 DEF U!FewHomes
    <2> QED
      BY <2>1, HomesAreFew DEF UniquesInv
  <1>2. U!FewDefaults /\ U!DefaultIsKept /\ U!OneCardEach
    <2>1. CASE part # "cards"
      <3>1. cards = <<>>
        BY <2>1 DEF UniquesInv
      <3>2. DOMAIN cards = {}
        BY <3>1
      <3>3. U!Defaults = {}
        BY <3>2 DEF U!Defaults
      <3> QED
        BY <1>0, <3>1, <3>2, <3>3 DEF U!FewDefaults, U!DefaultIsKept, U!OneCardEach
    <2> QED
      BY <2>1, CardsAreKept DEF UniquesInv
  <1>3. U!OneDriverEach /\ U!OneFleetEach
    BY DEF UniquesInv, PlatesInv
  <1>4. U!FewLinks
    <2>1. CASE part # "rides"
      <3>1. links = {}
        BY <2>1 DEF UniquesInv
      <3> QED
        BY <1>0, <3>1 DEF U!FewLinks
    <2> QED
      BY <2>1, LinksAreFew DEF UniquesInv
  <1>5. U!FewRuns
    <2>1. CASE part # "keys"
      BY <1>0, <2>1 DEF UniquesInv, U!FewRuns
    <2> QED
      BY <2>1, RunsAreFew DEF UniquesInv
  <1> QED
    BY <1>1, <1>2, <1>3, <1>4, <1>5 DEF U!OverlapIsBounded

\* However calls overlap, fail or stop, and whatever rows there are: HOMEs,
\* WORKs, default cards and links are no more than the calls at once, a request
\* runs no more often under its key but for the runs whose row was not written,
\* and cards are without a default only while one is promoted, or after a call
\* was cut off or wrote by an old read; a card, a plate and a driver's fleet are
\* there once (saved places, saved cards, upsertVehicle, attachDriver,
\* shareRide, the idempotency interceptor).
THEOREM OverlapStaysBounded == Spec => []OverlapIsBounded
  <1> QED
    BY UniquesInvInit, UniquesInvNext, UniquesInvBounds, PTL DEF Spec

-----------------------------------------------------------------------------
(* The books.  Each thing the back office is told of money is a balance of *)
(* amounts: what the postings put on some accounts is what the rows of     *)
(* trips, invoices and withdrawals say.  An aspect is one of them.         *)

Aspects == {<<"revenue", None>>} \cup {<<"wallet", d>> : d \in Drivers} \cup {<<"debt", d>> : d \in Drivers}
              \cup {<<"payable", d>> : d \in Drivers} \cup {<<"credit", b>> : b \in Businesses}

\* What a posting puts on the accounts of the drivers' debts.
Debts(tx) == SumFunctionOnSet([d \in Drivers |-> B!Entry(tx, B!Payable(d))], Drivers)

\* What a posting puts on the accounts of an aspect.
Part(X, tx) ==
    CASE X[1] = "revenue" -> B!Entry(tx, B!Revenue) + Debts(tx)
      [] X[1] = "wallet" -> B!Entry(tx, B!Driver(X[2]))
      [] X[1] \in {"debt", "payable"} -> B!Entry(tx, B!Payable(X[2]))
      [] X[1] = "credit" -> B!Entry(tx, B!Credit(X[2]))

\* What of it no row says: swaps, referral payouts, debts settled by top-ups.
Swap(tx) == tx.type = "KILOWATT_PAYMENT" /\ tx.status = "COMPLETED" /\ tx.day \in B!Ever
PayoutTo(tx, d) == tx.type = "REFERRAL_PAYOUT" /\ B!Driver(d) \in DOMAIN tx.entries
SettledByTopUp(tx, d) ==
    /\ tx.type = "COMMISSION_SETTLEMENT" /\ tx.ref[1] = "settle topup"
    /\ B!Payable(d) \in DOMAIN tx.entries
Aside(X, tx) ==
    CASE X[1] = "revenue" -> IF Swap(tx) THEN -tx.amount ELSE 0
      [] X[1] = "wallet" -> IF PayoutTo(tx, X[2]) THEN -tx.amount ELSE 0
      [] X[1] = "debt" -> IF SettledByTopUp(tx, X[2]) THEN tx.amount ELSE 0
      [] OTHER -> 0

Weight(X, tx) == Part(X, tx) + Aside(X, tx)
Weights(X, P) == [tx \in P |-> Weight(X, tx)]
Posted(X, P) == SumFunctionOnSet(Weights(X, P), P)

\* What a trip's row says: t, whether what the rider or the company paid
\* stands, and whether it was reversed.
Share(t) == FareOf[t.kind].total - FareOf[t.kind].commission - FareOf[t.kind].tax
Cash(t) == t.status = "COMPLETED" /\ t.method = "CASH"
PaidFor(t, P) == \E tx \in P : tx.ref = t.tx /\ tx.status = "COMPLETED"
PaidByInvoice(i, iv) == \E k \in DOMAIN iv : iv[k].trip = i /\ iv[k].status = "PAID"
PaidTrip(i, t, iv, P) == PaidFor(t, P) \/ PaidByInvoice(i, iv)
ReversedTrip(t, P) == \E tx \in P : tx.ref = t.tx /\ tx.status = "REVERSED"
TripSays(X, t, paid, reversed) ==
    CASE X[1] = "revenue" ->
            (IF t.status = "COMPLETED" THEN FareOf[t.kind].commission ELSE 0)
            - (IF reversed THEN FareOf[t.kind].commission ELSE 0)
            + (IF Cash(t) THEN FareOf[t.kind].tax ELSE 0)
            + (IF t.fee > 0 THEN Fee.commission ELSE 0)
      [] X[1] = "wallet" ->
            IF t.driver = X[2] THEN (IF paid THEN Share(t) ELSE 0)
                                    + (IF t.fee > 0 THEN Fee.total - Fee.commission ELSE 0)
            ELSE 0
      [] X[1] = "debt" ->
            IF Cash(t) /\ t.driver = X[2] THEN FareOf[t.kind].commission + FareOf[t.kind].tax ELSE 0
      [] OTHER -> 0
TripParts(X, tr, iv, P) ==
    [i \in DOMAIN tr |-> TripSays(X, tr[i], PaidTrip(i, tr[i], iv, P), ReversedTrip(tr[i], P))]

InvoiceSays(X, v) ==
    CASE X[1] = "revenue" -> IF v.status = "PENDING" THEN -v.commission ELSE 0
      [] X[1] = "credit" -> IF v.status = "PENDING" /\ v.business = X[2] THEN v.amount ELSE 0
      [] OTHER -> 0
InvoiceParts(X, iv) == [k \in DOMAIN iv |-> InvoiceSays(X, iv[k])]

WithdrawalSays(X, w) ==
    CASE X[1] = "wallet" -> IF w.driver = X[2] /\ w.status # "FAILED" THEN -w.amount ELSE 0
      [] X[1] = "debt" -> IF w.driver = X[2] /\ w.status # "FAILED" THEN -w.settled ELSE 0
      [] OTHER -> 0
WithdrawalParts(X, wd) == [w \in DOMAIN wd |-> WithdrawalSays(X, wd[w])]

Said(X, tr, iv, wd, P) ==
    SumFunctionOnSet(TripParts(X, tr, iv, P), DOMAIN tr)
      + SumFunctionOnSet(InvoiceParts(X, iv), DOMAIN iv)
      + SumFunctionOnSet(WithdrawalParts(X, wd), DOMAIN wd)

\* What is posted is what is said; and no driver is owed by the debt account.
Balanced(tr, iv, wd, P) ==
    /\ \A X \in Aspects : X[1] # "payable" => Posted(X, P) = Said(X, tr, iv, wd, P)
    /\ \A d \in Drivers : Posted(<<"payable", d>>, P) >= 0

-----------------------------------------------------------------------------
(* The rows, and what each posting is of.                                  *)

TripRows ==
    [kind : {"RIDE", "DELIVERY"}, rider : Riders, business : Businesses \cup {None},
     method : {"WALLET", "CASH"}, driver : Drivers \cup {None},
     status : {"REQUESTED", "DISPATCHING", "NO_DRIVERS_FOUND", "ACCEPTED", "COMPLETED", "CANCELLED"},
     requested : B!Ever, ended : B!Ever \cup {None},
     tx : {B!NoLink} \cup ({"trip"} \X Nat), fee : {0, Fee.total}]
TripOK(i, t) ==
    /\ t \in TripRows
    /\ t.business # None => t.method = "WALLET"
    /\ t.status \in {"ACCEPTED", "COMPLETED"} => t.driver \in Drivers
    /\ t.status = "COMPLETED" => t.ended \in B!Ever
    /\ t.fee # 0 => t.status = "CANCELLED" /\ t.driver \in Drivers
    /\ t.tx = IF t.status = "COMPLETED" /\ t.business = None /\ t.method = "WALLET"
              THEN <<"trip", i>> ELSE B!NoLink
TripsOK(tr) == tr \in Seq(TripRows) /\ \A i \in DOMAIN tr : TripOK(i, tr[i])

InvoiceRows ==
    [business : Businesses, trip : Nat, status : {"PENDING", "PAID"}, amount : Nat, commission : Nat]
InvoicesOK(iv, tr) ==
    /\ iv \in Seq(InvoiceRows)
    /\ \A k \in DOMAIN iv :
          /\ iv[k].trip \in DOMAIN tr
          /\ tr[iv[k].trip].status = "COMPLETED" /\ tr[iv[k].trip].business = iv[k].business
          /\ iv[k].amount = FareOf[tr[iv[k].trip].kind].total
          /\ iv[k].commission = FareOf[tr[iv[k].trip].kind].commission
    /\ \A j, k \in DOMAIN iv : iv[j].trip = iv[k].trip => j = k

WithdrawalRows ==
    [driver : Drivers, amount : Nat, settled : Nat, status : {"PENDING", "COMPLETED", "FAILED"}]

IsPosting(tx) ==
    /\ tx = [type |-> tx.type, ref |-> tx.ref, amount |-> tx.amount, entries |-> tx.entries,
             status |-> tx.status, day |-> tx.day]
    /\ tx.amount \in Int /\ \A a \in DOMAIN tx.entries : tx.entries[a] \in Int
    /\ tx.status \in {"COMPLETED", "REVERSED"} /\ tx.day \in B!Ever

PaymentTypes == {"RIDE_PAYMENT_WALLET", "DELIVERY_PAYMENT_WALLET"}
PaymentEntries(from, d, total, commission, tax) ==
    [a \in {from, B!Driver(d), B!Revenue, B!Tax} |->
        CASE a = from -> -total [] a = B!Driver(d) -> total - commission - tax
          [] a = B!Revenue -> commission [] a = B!Tax -> tax]

OfTrip(tx, i, t) ==
    \/ /\ tx.ref = <<"trip", i>> /\ t.status = "COMPLETED" /\ t.tx = <<"trip", i>>
       /\ tx.type \in PaymentTypes
       /\ tx.entries = PaymentEntries(B!Rider(t.rider), t.driver, FareOf[t.kind].total,
                                      FareOf[t.kind].commission, FareOf[t.kind].tax)
    \/ /\ tx.ref = <<"trip", i>> /\ t.status = "COMPLETED" /\ t.tx = B!NoLink
       /\ tx.type = "BUSINESS_DELIVERY_ACCRUAL"
    \/ /\ tx.ref = <<"commission", i>> /\ t.status = "COMPLETED" /\ tx.type \notin PaymentTypes
    \/ /\ tx.ref = <<"cancellation", i>> /\ t.status = "CANCELLED" /\ t.fee = Fee.total
       /\ tx.entries = PaymentEntries(B!Rider(t.rider), t.driver, Fee.total, Fee.commission, 0)
OfInvoice(tx, k, v) ==
    tx.ref \in {<<"invoice", k>>, <<"settlement", k>>} /\ v.status = "PAID" /\ tx.type \notin PaymentTypes
OfWithdrawal(tx, w, row) ==
    \/ /\ tx.ref = <<"withdraw", w>> /\ tx.type = "WALLET_WITHDRAWAL"
       /\ tx.entries = B!Move(B!Driver(row.driver), B!Clearing, row.amount)
       /\ tx.status = "REVERSED" => row.status = "FAILED"
    \/ /\ tx.ref = <<"settle", w>> /\ tx.type = "COMMISSION_SETTLEMENT"
       /\ tx.entries = B!Move(B!Payable(row.driver), B!Revenue, row.settled)
       /\ tx.status = "REVERSED" => row.status = "FAILED"
OfOther(tx, m) ==
    /\ tx.type \notin PaymentTypes
    /\ \/ tx.ref \in {<<"topup", m>>, <<"settle topup", m>>, <<"swap", m>>}
       \/ tx.ref[1] = "referral" /\ tx.ref = <<"referral", m, tx.ref[3]>>
Of(tx, tr, iv, wd, n) ==
    \/ \E i \in DOMAIN tr : OfTrip(tx, i, tr[i])
    \/ \E k \in DOMAIN iv : OfInvoice(tx, k, iv[k])
    \/ \E w \in DOMAIN wd : OfWithdrawal(tx, w, wd[w])
    \/ \E m \in 0 .. n - 1 : OfOther(tx, m)
    \/ /\ tx.ref \in {<<"payout", tx.ref[2]>>, <<"refund", tx.ref[2]>>}
       /\ tx.type \notin PaymentTypes

PostedOnce(P) == \A tx, s \in P : tx.ref = s.ref => tx = s
Reversals(P) ==
    \A tx \in P : tx.ref[1] = "refund" =>
        /\ tx.ref = <<"refund", tx.ref[2]>>
        /\ \E s \in P : s.ref = tx.ref[2] /\ s.status = "REVERSED"
PostedOK(P, tr, iv, wd, n) ==
    /\ IsFiniteSet(P) /\ PostedOnce(P) /\ Reversals(P)
    /\ \A tx \in P : IsPosting(tx) /\ Of(tx, tr, iv, wd, n)
SettledOK(P, wd) ==
    \A w \in DOMAIN wd : wd[w].settled > 0 => \E tx \in P : tx.ref = <<"settle", w>>

BooksOK(tr, iv, wd, P, n, day0) ==
    /\ TripsOK(tr) /\ InvoicesOK(iv, tr) /\ wd \in Seq(WithdrawalRows) /\ n \in Nat /\ day0 \in B!Ever
    /\ PostedOK(P, tr, iv, wd, n) /\ SettledOK(P, wd)
BooksInv ==
    /\ BooksOK(trips, invoices, withdrawals, posted, others, today)
    /\ Balanced(trips, invoices, withdrawals, posted)

-----------------------------------------------------------------------------
(* Sums, sets and counts of the specification are those of the library.    *)

LEMMA TotalIsSum == \A f : B!Total(f) = SumFunctionOnSet(f, DOMAIN f)
  BY DEF B!Total, B!SumFunction, B!SumFunctionOnSet, B!FoldFunctionOnSet, B!MapThenFoldSet,
         SumFunctionOnSet, FoldFunctionOnSet, MapThenFoldSet

LEMMA BooksConstants ==
    /\ FareOf \in [{"RIDE", "DELIVERY"} -> [total : Nat, commission : Nat, tax : Nat]]
    /\ \A kind \in {"RIDE", "DELIVERY"} : FareOf[kind].commission <= FareOf[kind].total
    /\ Fee \in [total : Nat, commission : Nat] /\ Fee.commission <= Fee.total
    /\ IsFiniteSet(Riders) /\ IsFiniteSet(Drivers) /\ IsFiniteSet(Businesses)
    /\ None \notin Drivers \cup Businesses
    /\ Amounts \subseteq Nat \ {0} /\ MaxDay \in Nat /\ Opening \in Nat
  <1>1. B!BooksAssumption
    BY OfficeAssumption
  <1> QED
    BY <1>1 DEF B!BooksAssumption, B!IsFiniteSet, IsFiniteSet

LEMMA AspectIs ==
    ASSUME NEW X \in Aspects
    PROVE  \/ X = <<"revenue", None>>
           \/ \E d \in Drivers : X = <<"wallet", d>>
           \/ \E d \in Drivers : X = <<"debt", d>>
           \/ \E d \in Drivers : X = <<"payable", d>>
           \/ \E b \in Businesses : X = <<"credit", b>>
  BY DEF Aspects

-----------------------------------------------------------------------------
(* What a posting weighs.                                                  *)

EntriesInt(tx) == \A a \in DOMAIN tx.entries : tx.entries[a] \in Int

LEMMA EntryInt ==
    ASSUME NEW tx, EntriesInt(tx), NEW a
    PROVE  B!Entry(tx, a) \in Int
  BY DEF EntriesInt, B!Entry

LEMMA DebtsInt ==
    ASSUME NEW tx, EntriesInt(tx)
    PROVE  Debts(tx) \in Int
  <1> DEFINE f == [d \in Drivers |-> B!Entry(tx, B!Payable(d))]
  <1>1. Ints(f, Drivers)
    BY EntryInt DEF Ints
  <1> HIDE DEF f
  <1>2. SumFunctionOnSet(f, Drivers) \in Int
    BY <1>1, BooksConstants, SumInt
  <1> QED
    BY <1>2 DEF Debts, f

LEMMA DebtsZero ==
    ASSUME NEW tx, \A d \in Drivers : B!Entry(tx, B!Payable(d)) = 0
    PROVE  Debts(tx) = 0
  <1> DEFINE f == [d \in Drivers |-> B!Entry(tx, B!Payable(d))]
  <1>1. \A d \in Drivers : f[d] = 0
    OBVIOUS
  <1> HIDE DEF f
  <1>2. SumFunctionOnSet(f, Drivers) = 0
    BY <1>1, BooksConstants, SumZero
  <1> QED
    BY <1>2 DEF Debts, f

LEMMA DebtsOne ==
    ASSUME NEW tx, NEW d \in Drivers, B!Entry(tx, B!Payable(d)) \in Int,
           \A c \in Drivers : c # d => B!Entry(tx, B!Payable(c)) = 0
    PROVE  Debts(tx) = B!Entry(tx, B!Payable(d))
  <1> DEFINE f == [c \in Drivers |-> B!Entry(tx, B!Payable(c))]
  <1>1. f[d] = B!Entry(tx, B!Payable(d)) /\ \A c \in Drivers \ {d} : f[c] = 0
    OBVIOUS
  <1> HIDE DEF f
  <1>2. SumFunctionOnSet(f, Drivers) = f[d]
    BY <1>1, BooksConstants, SumOne
  <1> QED
    BY <1>1, <1>2 DEF Debts, f

LEMMA PartInt ==
    ASSUME NEW X \in Aspects, NEW tx, EntriesInt(tx)
    PROVE  Part(X, tx) \in Int
  <1>1. \A a : B!Entry(tx, a) \in Int
    BY EntryInt
  <1>2. Debts(tx) \in Int
    BY DebtsInt
  <1> QED
    BY <1>1, <1>2, AspectIs DEF Part

LEMMA WeightInt ==
    ASSUME NEW X \in Aspects, NEW tx, IsPosting(tx)
    PROVE  Weight(X, tx) \in Int /\ Part(X, tx) \in Int
  <1>1. Part(X, tx) \in Int
    BY PartInt DEF IsPosting, EntriesInt
  <1>2. Aside(X, tx) \in Int
    BY DEF Aside, IsPosting
  <1> QED
    BY <1>1, <1>2 DEF Weight

\* The accounts of an aspect.
On(X, a) ==
    CASE X[1] = "revenue" -> a = B!Revenue \/ \E d \in Drivers : a = B!Payable(d)
      [] X[1] = "wallet" -> a = B!Driver(X[2])
      [] X[1] \in {"debt", "payable"} -> a = B!Payable(X[2])
      [] X[1] = "credit" -> a = B!Credit(X[2])

LEMMA MoveEntry ==
    ASSUME NEW tx, NEW from, NEW to, NEW n \in Int, from # to, tx.entries = B!Move(from, to, n)
    PROVE  /\ EntriesInt(tx) /\ DOMAIN tx.entries = {from, to}
           /\ \A a : B!Entry(tx, a) = IF a = from THEN -n ELSE IF a = to THEN n ELSE 0
  BY DEF EntriesInt, B!Entry, B!Move

\* A posting from an account to another, not both of the drivers' debts.
LEMMA PartMove ==
    ASSUME NEW X \in Aspects, NEW tx, NEW from, NEW to, NEW n \in Int, from # to,
           tx.entries = B!Move(from, to, n),
           from[1] # "DRIVER_COMMISSION_PAYABLE" \/ to[1] # "DRIVER_COMMISSION_PAYABLE",
           from # B!Revenue
    PROVE  Part(X, tx) = (IF On(X, to) THEN n ELSE 0) - (IF On(X, from) THEN n ELSE 0)
  <1>0. /\ EntriesInt(tx) /\ DOMAIN tx.entries = {from, to}
        /\ \A a : B!Entry(tx, a) = IF a = from THEN -n ELSE IF a = to THEN n ELSE 0
    BY MoveEntry
  <1>1. \A a : B!Entry(tx, a) = IF a = from THEN -n ELSE IF a = to THEN n ELSE 0
    BY <1>0
  <1>2. CASE X = <<"revenue", None>>
    <2>1. X[1] = "revenue"
      BY <1>2
    <2>2. CASE \E d \in Drivers : from = B!Payable(d)
      <3>1. PICK d \in Drivers : from = B!Payable(d)
        BY <2>2
      <3>2. \A c \in Drivers : c # d => B!Payable(c) # from
        BY <3>1 DEF B!Payable
      <3>3. \A c \in Drivers : B!Payable(c) # to
        BY <3>1 DEF B!Payable
      <3>4. Debts(tx) = -n
        BY <1>1, <3>1, <3>2, <3>3, DebtsOne
      <3> QED
        BY <1>1, <2>1, <3>1, <3>3, <3>4 DEF Part, On
    <2>3. CASE \E d \in Drivers : to = B!Payable(d)
      <3>1. PICK d \in Drivers : to = B!Payable(d)
        BY <2>3
      <3>2. \A c \in Drivers : c # d => B!Payable(c) # to
        BY <3>1 DEF B!Payable
      <3>3. \A c \in Drivers : B!Payable(c) # from
        BY <3>1 DEF B!Payable
      <3>4. B!Entry(tx, B!Payable(d)) = n
        BY <1>1, <3>1, <3>3
      <3>5. \A c \in Drivers : c # d => B!Entry(tx, B!Payable(c)) = 0
        BY <1>1, <3>2, <3>3
      <3>6. Debts(tx) = n
        BY <3>4, <3>5, DebtsOne
      <3>7. to # B!Revenue
        BY <3>1 DEF B!Payable, B!Revenue
      <3>8. B!Entry(tx, B!Revenue) = 0
        BY <1>1, <3>7
      <3> QED
        BY <2>1, <3>1, <3>3, <3>6, <3>8 DEF Part, On
    <2>4. CASE \A d \in Drivers : from # B!Payable(d) /\ to # B!Payable(d)
      <3>1. Debts(tx) = 0
        BY <1>1, <2>4, DebtsZero
      <3> QED
        BY <1>1, <2>1, <2>4, <3>1 DEF Part, On
    <2> QED
      BY <2>2, <2>3, <2>4
  <1>3. CASE X # <<"revenue", None>>
    <2>1. X[1] \in {"wallet", "debt", "payable", "credit"}
      BY <1>3, AspectIs
    <2>2. CASE X[1] = "wallet"
      BY <1>1, <2>2 DEF Part, On
    <2>3. CASE X[1] = "debt"
      BY <1>1, <2>3 DEF Part, On
    <2>4. CASE X[1] = "payable"
      BY <1>1, <2>4 DEF Part, On
    <2>5. CASE X[1] = "credit"
      BY <1>1, <2>5 DEF Part, On
    <2> QED
      BY <2>1, <2>2, <2>3, <2>4, <2>5
  <1> QED
    BY <1>2, <1>3

LEMMA OnIs ==
    ASSUME NEW X \in Aspects
    PROVE  /\ ~ On(X, B!Clearing) /\ ~ On(X, B!Referrals)
           /\ \A u : ~ On(X, B!Rider(u))
           /\ On(X, B!Revenue) <=> X = <<"revenue", None>>
           /\ \A d \in Drivers : On(X, B!Payable(d))
                  <=> X \in {<<"revenue", None>>, <<"debt", d>>, <<"payable", d>>}
           /\ \A d : On(X, B!Driver(d)) <=> X = <<"wallet", d>>
           /\ \A b \in Businesses : On(X, B!Credit(b)) <=> X = <<"credit", b>>
  <1> USE DEF B!Clearing, B!Referrals, B!Rider, B!Revenue, B!Payable, B!Driver, B!Credit
  <1>1. CASE X = <<"revenue", None>>
    BY <1>1 DEF On
  <1>2. CASE \E d \in Drivers : X = <<"wallet", d>>
    BY <1>2 DEF On
  <1>3. CASE \E d \in Drivers : X = <<"debt", d>>
    BY <1>3 DEF On
  <1>4. CASE \E d \in Drivers : X = <<"payable", d>>
    BY <1>4 DEF On
  <1>5. CASE \E b \in Businesses : X = <<"credit", b>>
    BY <1>5 DEF On
  <1> QED
    BY <1>1, <1>2, <1>3, <1>4, <1>5, AspectIs

IsPayment(tx, from, d, total, c, x) ==
    /\ d \in Drivers /\ total \in Int /\ c \in Int /\ x \in Int
    /\ tx.entries = PaymentEntries(from, d, total, c, x)
    /\ from[1] \in {"RIDER_WALLET", "BUSINESS_WALLET"}

LEMMA PaymentEntry ==
    ASSUME NEW tx, NEW from, NEW d, NEW total, NEW c, NEW x, IsPayment(tx, from, d, total, c, x)
    PROVE  /\ EntriesInt(tx)
           /\ B!Entry(tx, from) = -total /\ DOMAIN tx.entries = {from, B!Driver(d), B!Revenue, B!Tax}
           /\ B!Entry(tx, B!Revenue) = c
           /\ \A e : B!Entry(tx, B!Driver(e)) = IF e = d THEN total - c - x ELSE 0
           /\ \A e : B!Entry(tx, B!Payable(e)) = 0
           /\ \A b : B!Entry(tx, B!Credit(b)) = 0
  <1> USE DEF B!Rider, B!Revenue, B!Payable, B!Driver, B!Credit, B!Tax, IsPayment
  <1>1. /\ from # B!Driver(d) /\ from # B!Revenue /\ from # B!Tax
        /\ B!Driver(d) # B!Revenue /\ B!Driver(d) # B!Tax /\ B!Revenue # B!Tax
        /\ \A e : from # B!Payable(e) /\ from # B!Credit(e) /\ from # B!Driver(e)
    OBVIOUS
  <1>2. DOMAIN tx.entries = {from, B!Driver(d), B!Revenue, B!Tax}
    BY DEF PaymentEntries
  <1>3. \A e : e # d => B!Driver(e) \notin DOMAIN tx.entries
    BY <1>1, <1>2
  <1>4. \A e : B!Payable(e) \notin DOMAIN tx.entries /\ B!Credit(e) \notin DOMAIN tx.entries
    BY <1>1, <1>2
  <1>5. /\ tx.entries[from] = -total /\ tx.entries[B!Driver(d)] = total - c - x
        /\ tx.entries[B!Revenue] = c /\ tx.entries[B!Tax] = x
    BY <1>1 DEF PaymentEntries
  <1>6. EntriesInt(tx)
    BY <1>2, <1>5 DEF EntriesInt
  <1> QED
    BY <1>2, <1>3, <1>4, <1>5, <1>6 DEF B!Entry

Plain(tx) == tx.type \notin {"KILOWATT_PAYMENT", "REFERRAL_PAYOUT", "COMMISSION_SETTLEMENT"}

LEMMA PlainWeight ==
    ASSUME NEW X \in Aspects, NEW tx, EntriesInt(tx), Plain(tx)
    PROVE  Weight(X, tx) = Part(X, tx)
  <1>1. Aside(X, tx) = 0
    BY DEF Aside, Plain, Swap, PayoutTo, SettledByTopUp
  <1>2. Part(X, tx) \in Int
    BY PartInt
  <1> QED
    BY <1>1, <1>2 DEF Weight

\* Payments from wallets: commission to the platform, the rest to the driver.
LEMMA WeighPayment ==
    ASSUME NEW X \in Aspects, NEW tx, NEW from, NEW d, NEW total, NEW c, NEW x,
           IsPayment(tx, from, d, total, c, x)
    PROVE  Part(X, tx) = IF X = <<"revenue", None>> THEN c
                         ELSE IF X = <<"wallet", d>> THEN total - c - x ELSE 0
  <1>0. /\ EntriesInt(tx)
        /\ B!Entry(tx, from) = -total /\ DOMAIN tx.entries = {from, B!Driver(d), B!Revenue, B!Tax}
        /\ B!Entry(tx, B!Revenue) = c
        /\ \A e : B!Entry(tx, B!Driver(e)) = IF e = d THEN total - c - x ELSE 0
        /\ \A e : B!Entry(tx, B!Payable(e)) = 0
        /\ \A b : B!Entry(tx, B!Credit(b)) = 0
    BY PaymentEntry
  <1>1. /\ B!Entry(tx, B!Revenue) = c
        /\ \A e : B!Entry(tx, B!Driver(e)) = IF e = d THEN total - c - x ELSE 0
        /\ \A e : B!Entry(tx, B!Payable(e)) = 0
        /\ \A b : B!Entry(tx, B!Credit(b)) = 0
    BY <1>0
  <1>2. CASE X = <<"revenue", None>>
    <2>1. Debts(tx) = 0
      BY <1>1, DebtsZero
    <2> QED
      BY <1>1, <1>2, <2>1 DEF Part, IsPayment
  <1>3. CASE \E e \in Drivers : X = <<"wallet", e>>
    BY <1>1, <1>3 DEF Part
  <1>4. CASE \E e \in Drivers : X = <<"debt", e>>
    BY <1>1, <1>4 DEF Part
  <1>5. CASE \E e \in Drivers : X = <<"payable", e>>
    BY <1>1, <1>5 DEF Part
  <1>6. CASE \E b \in Businesses : X = <<"credit", b>>
    BY <1>1, <1>6 DEF Part
  <1> QED
    BY <1>2, <1>3, <1>4, <1>5, <1>6, AspectIs

\* Debts and top-ups, against the gateway's account.
LEMMA WeighAccrual ==
    ASSUME NEW X \in Aspects, NEW tx, NEW a, NEW n \in Int, a # B!Clearing,
           tx.entries = B!Move(B!Clearing, a, n)
    PROVE  Part(X, tx) = IF On(X, a) THEN n ELSE 0
  <1>1. B!Clearing[1] # "DRIVER_COMMISSION_PAYABLE" /\ B!Clearing # B!Revenue
    BY DEF B!Clearing, B!Revenue
  <1>2. Part(X, tx) = (IF On(X, a) THEN n ELSE 0) - (IF On(X, B!Clearing) THEN n ELSE 0)
    BY <1>1, PartMove
  <1> QED
    BY <1>2, OnIs

LEMMA WeighWithdrawal ==
    ASSUME NEW X \in Aspects, NEW tx, NEW a, NEW n \in Int,
           a[1] \in {"DRIVER_WALLET", "BUSINESS_CREDIT_PAYABLE"},
           tx.entries = B!Move(a, B!Clearing, n)
    PROVE  Part(X, tx) = IF On(X, a) THEN -n ELSE 0
  <1>1. /\ a[1] # "DRIVER_COMMISSION_PAYABLE" /\ a # B!Revenue /\ a # B!Clearing
    BY DEF B!Clearing, B!Revenue
  <1>2. Part(X, tx) = (IF On(X, B!Clearing) THEN n ELSE 0) - (IF On(X, a) THEN n ELSE 0)
    BY <1>1, PartMove
  <1> QED
    BY <1>2, OnIs

\* A settlement moves a debt to the revenue.
LEMMA WeighSettlement ==
    ASSUME NEW X \in Aspects, NEW tx, NEW d \in Drivers, NEW n \in Int,
           tx.entries = B!Move(B!Payable(d), B!Revenue, n)
    PROVE  Part(X, tx) = IF X \in {<<"debt", d>>, <<"payable", d>>} THEN -n ELSE 0
  <1>1. /\ B!Revenue[1] # "DRIVER_COMMISSION_PAYABLE" /\ B!Payable(d) # B!Revenue
    BY DEF B!Payable, B!Revenue
  <1>2. Part(X, tx) = (IF On(X, B!Revenue) THEN n ELSE 0) - (IF On(X, B!Payable(d)) THEN n ELSE 0)
    BY <1>1, PartMove
  <1>3. /\ On(X, B!Revenue) <=> X = <<"revenue", None>>
        /\ On(X, B!Payable(d)) <=> X \in {<<"revenue", None>>, <<"debt", d>>, <<"payable", d>>}
    BY OnIs
  <1> QED
    BY <1>2, <1>3

-----------------------------------------------------------------------------
(* The sums of postings and rows as one of them is added or changed.       *)

Postings(P) == IsFiniteSet(P) /\ \A tx \in P : IsPosting(tx)

LEMMA WeightsInt ==
    ASSUME NEW X \in Aspects, NEW P, Postings(P)
    PROVE  Ints(Weights(X, P), P) /\ Posted(X, P) \in Int
  <1>1. Ints(Weights(X, P), P)
    BY WeightInt DEF Ints, Weights, Postings
  <1> QED
    BY <1>1, SumInt DEF Posted, Postings

LEMMA PostedAdd ==
    ASSUME NEW X \in Aspects, NEW P, Postings(P), NEW tx, IsPosting(tx), tx \notin P
    PROVE  /\ Postings(P \cup {tx})
           /\ Posted(X, P \cup {tx}) = Posted(X, P) + Weight(X, tx)
  <1> DEFINE f == Weights(X, P \cup {tx})
             g == Weights(X, P)
  <1>1. Postings(P \cup {tx})
    BY FS_AddElement DEF Postings
  <1>2. Ints(f, P \cup {tx}) /\ Ints(g, P)
    BY <1>1, WeightsInt
  <1>3. f[tx] = Weight(X, tx) /\ \A s \in P : g[s] = f[s]
    BY DEF Weights
  <1>4. IsFiniteSet(P) /\ Weight(X, tx) \in Int
    BY WeightInt DEF Postings
  <1> HIDE DEF f, g
  <1>5. SumFunctionOnSet(f, P \cup {tx}) = f[tx] + SumFunctionOnSet(f, P)
    BY <1>2, <1>4, SumAdd
  <1>6. SumFunctionOnSet(g, P) = SumFunctionOnSet(f, P)
    <2>1. Ints(f, P)
      BY <1>2 DEF Ints
    <2> QED
      BY <1>3, <1>4, <2>1, SumSame
  <1>7. SumFunctionOnSet(g, P) \in Int
    BY <1>2, <1>4, SumInt
  <1> QED
    BY <1>1, <1>3, <1>4, <1>5, <1>6, <1>7 DEF Posted, f, g

\* What weighs nothing does not count.
LEMMA PostedMore ==
    ASSUME NEW X \in Aspects, NEW P, Postings(P), NEW Q, Postings(Q), P \subseteq Q,
           \A tx \in Q \ P : Weight(X, tx) = 0
    PROVE  Posted(X, Q) = Posted(X, P)
  <1> DEFINE f == Weights(X, Q)
             g == Weights(X, P)
  <1>1. /\ Ints(g, P) /\ IsFiniteSet(Q) /\ P \in SUBSET Q
        /\ \A tx \in P : f[tx] = g[tx]
        /\ \A tx \in Q \ P : f[tx] = 0
    BY WeightsInt DEF Weights, Postings
  <1> HIDE DEF f, g
  <1>2. SumFunctionOnSet(f, Q) = SumFunctionOnSet(g, P)
    BY <1>1, SumPart
  <1> QED
    BY <1>2 DEF Posted, f, g

\* A posting is replaced by one that weighs the same.
LEMMA PostedReplace ==
    ASSUME NEW X \in Aspects, NEW P, Postings(P), NEW tx \in P, NEW s, IsPosting(s), s \notin P,
           Weight(X, s) = Weight(X, tx)
    PROVE  /\ Postings((P \ {tx}) \cup {s})
           /\ Posted(X, (P \ {tx}) \cup {s}) = Posted(X, P)
  <1> DEFINE Rest == P \ {tx}
  <1>1. Postings(Rest) /\ tx \notin Rest /\ s \notin Rest /\ Rest \cup {tx} = P /\ IsPosting(tx)
    BY FS_RemoveElement DEF Postings
  <1> HIDE DEF Rest
  <1>2. Posted(X, Rest \cup {tx}) = Posted(X, Rest) + Weight(X, tx)
    BY <1>1, PostedAdd
  <1>3. Postings(Rest \cup {s}) /\ Posted(X, Rest \cup {s}) = Posted(X, Rest) + Weight(X, s)
    BY <1>1, PostedAdd
  <1> QED
    BY <1>1, <1>2, <1>3 DEF Rest

\* The rows.  A row's part of an aspect is a number.
TripSum(X, tr, iv, P) == SumFunctionOnSet(TripParts(X, tr, iv, P), DOMAIN tr)
InvoiceSum(X, iv) == SumFunctionOnSet(InvoiceParts(X, iv), DOMAIN iv)
WithdrawalSum(X, wd) == SumFunctionOnSet(WithdrawalParts(X, wd), DOMAIN wd)

LEMMA DomainFinite ==
    ASSUME NEW S, NEW q \in Seq(S)
    PROVE  IsFiniteSet(DOMAIN q)
  <1>1. DOMAIN q = 1 .. Len(q) /\ Len(q) \in Nat
    OBVIOUS
  <1>2. IsFiniteSet(1 .. Len(q))
    BY <1>1, FS_Interval
  <1> QED
    BY <1>1, <1>2

LEMMA TripSaysInt ==
    ASSUME NEW X \in Aspects, NEW t \in TripRows, NEW paid, NEW reversed
    PROVE  TripSays(X, t, paid, reversed) \in Int
  <1>1. /\ FareOf[t.kind].total \in Nat /\ FareOf[t.kind].commission \in Nat
        /\ FareOf[t.kind].tax \in Nat /\ Fee.commission \in Nat /\ Fee.total \in Nat
    BY BooksConstants DEF TripRows
  <1>2. Share(t) \in Int
    BY <1>1 DEF Share
  <1> HIDE DEF TripRows
  <1>3. CASE X[1] = "revenue"
    BY <1>1, <1>3 DEF TripSays
  <1>4. CASE X[1] = "wallet"
    BY <1>1, <1>2, <1>4 DEF TripSays
  <1>5. CASE X[1] = "debt"
    BY <1>1, <1>5 DEF TripSays
  <1>6. CASE X[1] \notin {"revenue", "wallet", "debt"}
    BY <1>6 DEF TripSays
  <1> QED
    BY <1>3, <1>4, <1>5, <1>6

LEMMA RowsInt ==
    ASSUME NEW X \in Aspects, NEW tr \in Seq(TripRows), NEW iv \in Seq(InvoiceRows),
           NEW wd \in Seq(WithdrawalRows), NEW P
    PROVE  /\ IsFiniteSet(DOMAIN tr) /\ IsFiniteSet(DOMAIN iv) /\ IsFiniteSet(DOMAIN wd)
           /\ Ints(TripParts(X, tr, iv, P), DOMAIN tr) /\ Ints(InvoiceParts(X, iv), DOMAIN iv)
           /\ Ints(WithdrawalParts(X, wd), DOMAIN wd)
           /\ TripSum(X, tr, iv, P) \in Int /\ InvoiceSum(X, iv) \in Int
           /\ WithdrawalSum(X, wd) \in Int
  <1>1. IsFiniteSet(DOMAIN tr) /\ IsFiniteSet(DOMAIN iv) /\ IsFiniteSet(DOMAIN wd)
    BY DomainFinite
  <1>2. Ints(TripParts(X, tr, iv, P), DOMAIN tr)
    <2>1. \A i \in DOMAIN tr : tr[i] \in TripRows
      OBVIOUS
    <2> QED
      BY <2>1, TripSaysInt DEF Ints, TripParts
  <1>3. Ints(InvoiceParts(X, iv), DOMAIN iv)
    <2>0. \A k \in DOMAIN iv : iv[k] \in InvoiceRows
      OBVIOUS
    <2>1. \A k \in DOMAIN iv : iv[k].amount \in Int /\ iv[k].commission \in Int
      BY <2>0 DEF InvoiceRows
    <2> QED
      BY <2>1 DEF Ints, InvoiceParts, InvoiceSays
  <1>4. Ints(WithdrawalParts(X, wd), DOMAIN wd)
    <2>0. \A w \in DOMAIN wd : wd[w] \in WithdrawalRows
      OBVIOUS
    <2>1. \A w \in DOMAIN wd : wd[w].amount \in Int /\ wd[w].settled \in Int
      BY <2>0 DEF WithdrawalRows
    <2> QED
      BY <2>1 DEF Ints, WithdrawalParts, WithdrawalSays
  <1> QED
    BY <1>1, <1>2, <1>3, <1>4, SumInt DEF TripSum, InvoiceSum, WithdrawalSum

LEMMA SumAppend ==
    ASSUME NEW f, NEW g, NEW n \in Nat, Ints(f, 1 .. n), Ints(g, 1 .. n + 1),
           \A j \in 1 .. n : g[j] = f[j]
    PROVE  SumFunctionOnSet(g, 1 .. n + 1) = SumFunctionOnSet(f, 1 .. n) + g[n + 1]
  <1>1. 1 .. n + 1 = (1 .. n) \cup {n + 1} /\ n + 1 \notin 1 .. n /\ n + 1 \in 1 .. n + 1
    OBVIOUS
  <1>2. IsFiniteSet(1 .. n) /\ g[n + 1] \in Int
    BY <1>1, FS_Interval DEF Ints
  <1>3. SumFunctionOnSet(g, (1 .. n) \cup {n + 1}) = g[n + 1] + SumFunctionOnSet(g, 1 .. n)
    BY <1>1, <1>2, SumAdd
  <1>4. SumFunctionOnSet(g, 1 .. n) = SumFunctionOnSet(f, 1 .. n)
    BY <1>2, SumSame
  <1>5. SumFunctionOnSet(f, 1 .. n) \in Int
    BY <1>2, SumInt
  <1>6. SumFunctionOnSet(g, 1 .. n + 1) = g[n + 1] + SumFunctionOnSet(f, 1 .. n)
    BY <1>1, <1>3, <1>4
  <1> QED
    BY <1>2, <1>5, <1>6

-----------------------------------------------------------------------------
(* A posting stays what it is when rows are added to, and when a row that  *)
(* has not ended changes.                                                  *)

TripsGrow(tr, tr2) ==
    /\ DOMAIN tr \subseteq DOMAIN tr2
    /\ \A i \in DOMAIN tr : tr[i].status \in {"COMPLETED", "CANCELLED"} => tr2[i] = tr[i]
InvoicesGrow(iv, iv2) ==
    /\ DOMAIN iv \subseteq DOMAIN iv2
    /\ \A k \in DOMAIN iv : iv[k].status = "PAID" => iv2[k] = iv[k]
WithdrawalsGrow(wd, wd2) ==
    /\ DOMAIN wd \subseteq DOMAIN wd2
    /\ \A w \in DOMAIN wd :
          /\ wd2[w].driver = wd[w].driver /\ wd2[w].amount = wd[w].amount
          /\ wd2[w].settled = wd[w].settled
          /\ wd[w].status = "FAILED" => wd2[w].status = "FAILED"
Grow(tr, iv, wd, n, tr2, iv2, wd2, n2) ==
    /\ TripsGrow(tr, tr2) /\ InvoicesGrow(iv, iv2) /\ WithdrawalsGrow(wd, wd2)
    /\ n \in Nat /\ n2 \in Nat /\ n <= n2

LEMMA OfGrows ==
    ASSUME NEW tx, NEW tr, NEW iv, NEW wd, NEW n, NEW tr2, NEW iv2, NEW wd2, NEW n2,
           Grow(tr, iv, wd, n, tr2, iv2, wd2, n2), Of(tx, tr, iv, wd, n)
    PROVE  Of(tx, tr2, iv2, wd2, n2)
  <1>1. CASE \E i \in DOMAIN tr : OfTrip(tx, i, tr[i])
    <2>1. PICK i \in DOMAIN tr : OfTrip(tx, i, tr[i])
      BY <1>1
    <2>2. tr[i].status \in {"COMPLETED", "CANCELLED"}
      BY <2>1 DEF OfTrip
    <2>3. i \in DOMAIN tr2 /\ tr2[i] = tr[i]
      BY <2>2 DEF Grow, TripsGrow
    <2> QED
      BY <2>1, <2>3 DEF Of
  <1>2. CASE \E k \in DOMAIN iv : OfInvoice(tx, k, iv[k])
    <2>1. PICK k \in DOMAIN iv : OfInvoice(tx, k, iv[k])
      BY <1>2
    <2>2. k \in DOMAIN iv2 /\ iv2[k] = iv[k]
      BY <2>1 DEF OfInvoice, Grow, InvoicesGrow
    <2> QED
      BY <2>1, <2>2 DEF Of
  <1>3. CASE \E w \in DOMAIN wd : OfWithdrawal(tx, w, wd[w])
    <2>1. PICK w \in DOMAIN wd : OfWithdrawal(tx, w, wd[w])
      BY <1>3
    <2>2. /\ w \in DOMAIN wd2
          /\ wd2[w].driver = wd[w].driver /\ wd2[w].amount = wd[w].amount
          /\ wd2[w].settled = wd[w].settled
          /\ wd[w].status = "FAILED" => wd2[w].status = "FAILED"
      BY DEF Grow, WithdrawalsGrow
    <2>3. OfWithdrawal(tx, w, wd2[w])
      BY <2>1, <2>2 DEF OfWithdrawal
    <2> QED
      BY <2>2, <2>3 DEF Of
  <1>4. CASE \E m \in 0 .. n - 1 : OfOther(tx, m)
    <2>1. \A m \in 0 .. n - 1 : m \in 0 .. n2 - 1
      BY DEF Grow
    <2> QED
      BY <1>4, <2>1 DEF Of
  <1>5. CASE /\ tx.ref \in {<<"payout", tx.ref[2]>>, <<"refund", tx.ref[2]>>}
             /\ tx.type \notin PaymentTypes
    BY <1>5 DEF Of
  <1> QED
    BY <1>1, <1>2, <1>3, <1>4, <1>5 DEF Of

LEMMA PostedGrows ==
    ASSUME NEW P, NEW tr, NEW iv, NEW wd, NEW n, NEW tr2, NEW iv2, NEW wd2, NEW n2,
           Grow(tr, iv, wd, n, tr2, iv2, wd2, n2), PostedOK(P, tr, iv, wd, n)
    PROVE  PostedOK(P, tr2, iv2, wd2, n2)
  BY OfGrows DEF PostedOK

LEMMA PostedAddOK ==
    ASSUME NEW P, NEW tr, NEW iv, NEW wd, NEW n, PostedOK(P, tr, iv, wd, n),
           NEW tx, IsPosting(tx), Of(tx, tr, iv, wd, n), tx.ref[1] # "refund",
           \A s \in P : s.ref # tx.ref
    PROVE  PostedOK(P \cup {tx}, tr, iv, wd, n)
  <1>1. IsFiniteSet(P \cup {tx})
    BY FS_AddElement DEF PostedOK
  <1>2. PostedOnce(P \cup {tx})
    BY DEF PostedOK, PostedOnce
  <1>3. Reversals(P \cup {tx})
    BY DEF PostedOK, Reversals
  <1> QED
    BY <1>1, <1>2, <1>3 DEF PostedOK

\* The reversal of a posting and its refund.
Reversed(tx) == [tx EXCEPT !.status = "REVERSED"]
RefundOf(tx, s) ==
    /\ IsPosting(s) /\ s.ref = <<"refund", tx.ref>> /\ s.type = "REFUND"
    /\ DOMAIN s.entries = DOMAIN tx.entries /\ \A a \in DOMAIN tx.entries : s.entries[a] = -tx.entries[a]

LEMMA ReversedIs ==
    ASSUME NEW tx, IsPosting(tx)
    PROVE  /\ IsPosting(Reversed(tx))
           /\ Reversed(tx).ref = tx.ref /\ Reversed(tx).type = tx.type
           /\ Reversed(tx).entries = tx.entries /\ Reversed(tx).amount = tx.amount
           /\ Reversed(tx).day = tx.day /\ Reversed(tx).status = "REVERSED"
  BY DEF IsPosting, Reversed

LEMMA PostedRefundOK ==
    ASSUME NEW P, NEW tr, NEW iv, NEW wd, NEW n, PostedOK(P, tr, iv, wd, n),
           NEW tx \in P, tx.status = "COMPLETED", Of(Reversed(tx), tr, iv, wd, n),
           NEW s, RefundOf(tx, s)
    PROVE  /\ PostedOK((P \ {tx}) \cup {Reversed(tx), s}, tr, iv, wd, n)
           /\ Reversed(tx) \notin P /\ s \notin P /\ Reversed(tx) # s
           /\ \A q \in P : q.ref # s.ref
  <1>1. /\ IsPosting(tx) /\ IsPosting(Reversed(tx)) /\ IsPosting(s)
        /\ Reversed(tx).ref = tx.ref /\ Reversed(tx).status = "REVERSED"
        /\ s.ref = <<"refund", tx.ref>> /\ s.type = "REFUND"
    BY ReversedIs DEF PostedOK, RefundOf
  <1>2. \A q \in P : q.ref = tx.ref => q = tx
    BY DEF PostedOK, PostedOnce
  <1>3. \A q \in P : q.ref # s.ref
    <2> SUFFICES ASSUME NEW q \in P, q.ref = s.ref PROVE FALSE
      OBVIOUS
    <2>1. q.ref[1] = "refund" /\ q.ref[2] = tx.ref
      BY <1>1
    <2>2. \E p \in P : p.ref = tx.ref /\ p.status = "REVERSED"
      BY <2>1 DEF PostedOK, Reversals
    <2> QED
      BY <1>2, <2>2
  <1>4. Reversed(tx) \notin P
    BY <1>1, <1>2
  <1>5. Reversed(tx) # s
    BY <1>1, <1>3
  <1> DEFINE Q == (P \ {tx}) \cup {Reversed(tx), s}
  <1>6. IsFiniteSet(Q)
    <2>1. IsFiniteSet(P \ {tx})
      BY FS_RemoveElement DEF PostedOK
    <2>2. IsFiniteSet((P \ {tx}) \cup {Reversed(tx)})
      BY <2>1, FS_AddElement
    <2>3. IsFiniteSet(((P \ {tx}) \cup {Reversed(tx)}) \cup {s})
      BY <2>2, FS_AddElement
    <2>4. ((P \ {tx}) \cup {Reversed(tx)}) \cup {s} = Q
      OBVIOUS
    <2> QED
      BY <2>3, <2>4
  <1>7. PostedOnce(Q)
    <2> SUFFICES ASSUME NEW p \in Q, NEW q \in Q, p.ref = q.ref PROVE p = q
      BY DEF PostedOnce
    <2>1. CASE p \in P \ {tx} /\ q \in P \ {tx}
      BY <2>1 DEF PostedOK, PostedOnce
    <2>2. CASE p = Reversed(tx) /\ q \in P \ {tx}
      BY <1>1, <1>2, <2>2
    <2>3. CASE q = Reversed(tx) /\ p \in P \ {tx}
      BY <1>1, <1>2, <2>3
    <2>4. CASE p = s \/ q = s
      BY <1>1, <1>3, <2>4
    <2> QED
      BY <2>1, <2>2, <2>3, <2>4
  <1>8. Reversals(Q)
    <2> SUFFICES ASSUME NEW p \in Q, p.ref[1] = "refund"
                 PROVE  /\ p.ref = <<"refund", p.ref[2]>>
                        /\ \E q \in Q : q.ref = p.ref[2] /\ q.status = "REVERSED"
      BY DEF Reversals
    <2>1. CASE p = s
      BY <1>1, <2>1
    <2>2. CASE p # s
      <3>1. \E p0 \in P : p0.ref = p.ref
        BY <1>1, <2>2
      <3>2. PICK p0 \in P : p0.ref = p.ref
        BY <3>1
      <3>3. PICK q \in P : q.ref = p.ref[2] /\ q.status = "REVERSED"
        BY <3>2 DEF PostedOK, Reversals
      <3>4. q # tx
        BY <3>3
      <3>5. p.ref = <<"refund", p.ref[2]>>
        BY <3>2 DEF PostedOK, Reversals
      <3> QED
        BY <3>3, <3>4, <3>5
    <2> QED
      BY <2>1, <2>2
  <1>9. \A q \in Q : IsPosting(q) /\ Of(q, tr, iv, wd, n)
    <2>1. Of(s, tr, iv, wd, n)
      BY <1>1 DEF Of, PaymentTypes
    <2> QED
      BY <1>1, <2>1 DEF PostedOK
  <1> QED
    BY <1>3, <1>4, <1>5, <1>6, <1>7, <1>8, <1>9 DEF PostedOK

-----------------------------------------------------------------------------
(* References are of what was posted before.                               *)

\* A reference of what is there: r is of a row or a call before the n-th.
RefOK(r, tr, iv, wd, n) ==
    /\ r[1] \in {"trip", "commission"} => r[2] \in DOMAIN tr /\ tr[r[2]].status = "COMPLETED"
    /\ r[1] = "cancellation" => r[2] \in DOMAIN tr /\ tr[r[2]].status = "CANCELLED"
    /\ r[1] \in {"invoice", "settlement"} => r[2] \in DOMAIN iv /\ iv[r[2]].status = "PAID"
    /\ r[1] \in {"withdraw", "settle"} => r[2] \in DOMAIN wd
    /\ r[1] \in {"topup", "settle topup", "swap", "referral"} => r[2] # n

LEMMA RefsAre ==
    ASSUME NEW P, NEW tr, NEW iv, NEW wd, NEW n \in Nat, PostedOK(P, tr, iv, wd, n), NEW tx \in P
    PROVE  tx.ref # B!NoLink /\ RefOK(tx.ref, tr, iv, wd, n)
  <1>0. Of(tx, tr, iv, wd, n)
    BY DEF PostedOK
  <1>1. CASE \E i \in DOMAIN tr : OfTrip(tx, i, tr[i])
    <2>1. PICK i \in DOMAIN tr : OfTrip(tx, i, tr[i])
      BY <1>1
    <2>2. CASE tx.ref \in {<<"trip", i>>, <<"commission", i>>} /\ tr[i].status = "COMPLETED"
      <3>1. /\ tx.ref[1] \in {"trip", "commission"} /\ tx.ref[2] = i /\ tx.ref # B!NoLink
            /\ tr[i].status = "COMPLETED"
        BY SMTT(40), <2>2 DEF B!NoLink
      <3> QED
        BY <3>1 DEF RefOK
    <2>3. CASE tx.ref = <<"cancellation", i>> /\ tr[i].status = "CANCELLED"
      BY <2>3 DEF RefOK, B!NoLink
    <2> QED
      BY <2>1, <2>2, <2>3 DEF OfTrip
  <1>2. CASE \E k \in DOMAIN iv : OfInvoice(tx, k, iv[k])
    <2>1. PICK k \in DOMAIN iv : OfInvoice(tx, k, iv[k])
      BY <1>2
    <2>2. /\ tx.ref[1] \in {"invoice", "settlement"} /\ tx.ref[2] = k /\ tx.ref # B!NoLink
          /\ iv[k].status = "PAID"
      BY <2>1 DEF OfInvoice, B!NoLink
    <2> QED
      BY <2>2 DEF RefOK
  <1>3. CASE \E w \in DOMAIN wd : OfWithdrawal(tx, w, wd[w])
    <2>1. PICK w \in DOMAIN wd : OfWithdrawal(tx, w, wd[w])
      BY <1>3
    <2>2. PICK c \in {"withdraw", "settle"} : tx.ref = <<c, w>>
      BY <2>1 DEF OfWithdrawal
    <2>3. tx.ref[1] \in {"withdraw", "settle"} /\ tx.ref[2] = w /\ tx.ref # B!NoLink
      BY <2>2 DEF B!NoLink
    <2> QED
      BY <2>3 DEF RefOK
  <1>4. CASE \E m \in 0 .. n - 1 : OfOther(tx, m)
    <2>1. PICK m \in 0 .. n - 1 : OfOther(tx, m)
      BY <1>4
    <2>2. m # n
      OBVIOUS
    <2>3. /\ tx.ref[1] \in {"topup", "settle topup", "swap", "referral"} /\ tx.ref[2] = m
          /\ tx.ref # B!NoLink
      <3>1. CASE tx.ref \in {<<"topup", m>>, <<"settle topup", m>>, <<"swap", m>>}
        <4>1. PICK c \in {"topup", "settle topup", "swap"} : tx.ref = <<c, m>>
          BY <3>1
        <4>2. \A e : <<e, m>>[1] = e /\ <<e, m>>[2] = m /\ <<e, m>> # <<>>
          OBVIOUS
        <4> QED
          BY <4>1, <4>2 DEF B!NoLink
      <3>2. CASE tx.ref = <<"referral", m, tx.ref[3]>>
        <4>1. \A e : <<"referral", m, e>>[1] = "referral" /\ <<"referral", m, e>>[2] = m
                     /\ <<"referral", m, e>> # <<>>
          OBVIOUS
        <4> QED
          BY <3>2, <4>1 DEF B!NoLink
      <3> QED
        BY <2>1, <3>1, <3>2 DEF OfOther
    <2> QED
      BY <2>2, <2>3 DEF RefOK
  <1>5. CASE tx.ref \in {<<"payout", tx.ref[2]>>, <<"refund", tx.ref[2]>>}
    <2>1. tx.ref[1] \in {"payout", "refund"} /\ tx.ref # B!NoLink
      BY <1>5 DEF B!NoLink
    <2> QED
      BY <2>1 DEF RefOK
  <1> QED
    BY <1>0, <1>1, <1>2, <1>3, <1>4, <1>5 DEF Of

\* What is linked to a trip is its payment.
LEMMA LinkIs ==
    ASSUME NEW P, NEW tr, NEW iv, NEW wd, NEW n \in Nat, PostedOK(P, tr, iv, wd, n), TripsOK(tr),
           NEW i \in DOMAIN tr, NEW tx \in P, tx.ref = tr[i].tx
    PROVE  /\ tx.ref = <<"trip", i>> /\ tr[i].status = "COMPLETED"
           /\ tr[i].business = None /\ tr[i].method = "WALLET" /\ tx.type \in PaymentTypes
           /\ tx.entries = PaymentEntries(B!Rider(tr[i].rider), tr[i].driver, FareOf[tr[i].kind].total,
                                          FareOf[tr[i].kind].commission, FareOf[tr[i].kind].tax)
  <1>1. tx.ref # B!NoLink
    BY RefsAre
  <1>2. /\ tx.ref = <<"trip", i>> /\ tr[i].status = "COMPLETED"
        /\ tr[i].business = None /\ tr[i].method = "WALLET"
    BY <1>1 DEF TripsOK, TripOK
  <1>3. Of(tx, tr, iv, wd, n)
    BY DEF PostedOK
  <1>4. PICK j \in DOMAIN tr : OfTrip(tx, j, tr[j])
    BY <1>2, <1>3 DEF Of, OfInvoice, OfWithdrawal, OfOther
  <1>5. j = i
    BY <1>2, <1>4 DEF OfTrip
  <1>6. tr[i].tx # B!NoLink
    BY <1>1, <1>2
  <1>7. <<"trip", i>> # <<"commission", i>> /\ <<"trip", i>> # <<"cancellation", i>>
    OBVIOUS
  <1>8. OfTrip(tx, i, tr[i])
    BY <1>4, <1>5
  <1>9. /\ tx.type \in PaymentTypes
        /\ tx.entries = PaymentEntries(B!Rider(tr[i].rider), tr[i].driver, FareOf[tr[i].kind].total,
                                       FareOf[tr[i].kind].commission, FareOf[tr[i].kind].tax)
    BY <1>2, <1>6, <1>7, <1>8 DEF OfTrip
  <1> QED
    BY <1>2, <1>9

LEMMA AddPosting ==
    ASSUME NEW P, NEW tr, NEW iv, NEW wd, NEW n, PostedOK(P, tr, iv, wd, n),
           NEW tx, IsPosting(tx), Of(tx, tr, iv, wd, n), tx.ref[1] # "refund",
           \A s \in P : s.ref # tx.ref
    PROVE  /\ PostedOK(P \cup {tx}, tr, iv, wd, n)
           /\ \A X \in Aspects : Posted(X, P \cup {tx}) = Posted(X, P) + Weight(X, tx)
  <1>1. PostedOK(P \cup {tx}, tr, iv, wd, n)
    BY PostedAddOK
  <1>2. Postings(P) /\ tx \notin P
    BY DEF PostedOK, Postings
  <1> QED
    BY <1>1, <1>2, PostedAdd

-----------------------------------------------------------------------------
(* The sums of the rows.                                                   *)

Rows(tr, iv) == tr \in Seq(TripRows) /\ iv \in Seq(InvoiceRows)

LEMMA TripRowsInt ==
    ASSUME NEW X \in Aspects, NEW tr, NEW iv, Rows(tr, iv), NEW P
    PROVE  /\ IsFiniteSet(DOMAIN tr) /\ Ints(TripParts(X, tr, iv, P), DOMAIN tr)
           /\ TripSum(X, tr, iv, P) \in Int
  <1>1. <<>> \in Seq(WithdrawalRows)
    OBVIOUS
  <1>2. tr \in Seq(TripRows) /\ iv \in Seq(InvoiceRows)
    BY DEF Rows
  <1> QED
    BY <1>1, <1>2, RowsInt

TripPart(X, tr, iv, P, i) == TripSays(X, tr[i], PaidTrip(i, tr[i], iv, P), ReversedTrip(tr[i], P))

\* What trips say does not change.
TripsAlike(S, tr, iv, P, tr2, iv2, P2) ==
    \A i \in S : /\ tr2[i] = tr[i]
                 /\ PaidTrip(i, tr[i], iv2, P2) <=> PaidTrip(i, tr[i], iv, P)
                 /\ ReversedTrip(tr[i], P2) <=> ReversedTrip(tr[i], P)

LEMMA AlikeParts ==
    ASSUME NEW S, NEW tr, NEW iv, NEW P, NEW tr2, NEW iv2, NEW P2,
           TripsAlike(S, tr, iv, P, tr2, iv2, P2), NEW X, NEW i \in S
    PROVE  TripPart(X, tr2, iv2, P2, i) = TripPart(X, tr, iv, P, i)
  <1>1. /\ tr2[i] = tr[i]
        /\ PaidTrip(i, tr[i], iv2, P2) = PaidTrip(i, tr[i], iv, P)
        /\ ReversedTrip(tr[i], P2) = ReversedTrip(tr[i], P)
    BY DEF TripsAlike, PaidTrip, PaidFor, PaidByInvoice, ReversedTrip
  <1>2. TripSays(X, tr[i], PaidTrip(i, tr[i], iv2, P2), ReversedTrip(tr[i], P2))
            = TripSays(X, tr[i], PaidTrip(i, tr[i], iv, P), ReversedTrip(tr[i], P))
    BY <1>1
  <1> QED
    BY <1>1, <1>2 DEF TripPart

LEMMA TripSumSame ==
    ASSUME NEW tr, NEW iv, NEW P, NEW tr2, NEW iv2, NEW P2,
           Rows(tr, iv), Rows(tr2, iv2), DOMAIN tr2 = DOMAIN tr,
           TripsAlike(DOMAIN tr, tr, iv, P, tr2, iv2, P2), NEW X \in Aspects
    PROVE  TripSum(X, tr2, iv2, P2) = TripSum(X, tr, iv, P)
  <1> DEFINE f == TripParts(X, tr, iv, P)
             g == TripParts(X, tr2, iv2, P2)
  <1>1. IsFiniteSet(DOMAIN tr) /\ Ints(f, DOMAIN tr)
    BY TripRowsInt
  <1>2. \A i \in DOMAIN tr : f[i] = TripPart(X, tr, iv, P, i) /\ g[i] = TripPart(X, tr2, iv2, P2, i)
    BY DEF TripParts, TripPart
  <1>3. \A i \in DOMAIN tr : g[i] = f[i]
    BY <1>2, AlikeParts
  <1> HIDE DEF f, g
  <1>4. SumFunctionOnSet(g, DOMAIN tr) = SumFunctionOnSet(f, DOMAIN tr)
    BY <1>1, <1>3, SumSame
  <1> QED
    BY <1>4 DEF TripSum, f, g

\* Only one trip changes.
OneChanges(i, tr, iv, P, tr2, iv2, P2) ==
    /\ Rows(tr, iv) /\ Rows(tr2, iv2) /\ DOMAIN tr2 = DOMAIN tr /\ i \in DOMAIN tr
    /\ TripsAlike(DOMAIN tr \ {i}, tr, iv, P, tr2, iv2, P2)

LEMMA TripSumChange ==
    ASSUME NEW tr, NEW iv, NEW P, NEW tr2, NEW iv2, NEW P2, NEW i,
           OneChanges(i, tr, iv, P, tr2, iv2, P2), NEW X \in Aspects
    PROVE  /\ TripPart(X, tr, iv, P, i) \in Int /\ TripPart(X, tr2, iv2, P2, i) \in Int
           /\ TripSum(X, tr2, iv2, P2) =
                  TripSum(X, tr, iv, P) + TripPart(X, tr2, iv2, P2, i) - TripPart(X, tr, iv, P, i)
  <1> DEFINE f == TripParts(X, tr, iv, P)
             g == TripParts(X, tr2, iv2, P2)
  <1> USE DEF OneChanges
  <1>1. IsFiniteSet(DOMAIN tr) /\ Ints(f, DOMAIN tr) /\ Ints(g, DOMAIN tr)
    BY TripRowsInt
  <1>2. \A j \in DOMAIN tr : f[j] = TripPart(X, tr, iv, P, j) /\ g[j] = TripPart(X, tr2, iv2, P2, j)
    BY DEF TripParts, TripPart
  <1>3. \A j \in DOMAIN tr \ {i} : g[j] = f[j]
    BY <1>2, AlikeParts
  <1> HIDE DEF f, g
  <1>4. SumFunctionOnSet(g, DOMAIN tr) = SumFunctionOnSet(f, DOMAIN tr) + g[i] - f[i]
    BY <1>1, <1>3, SumUpdate DEF Ints
  <1>5. f[i] \in Int /\ g[i] \in Int
    BY <1>1 DEF Ints
  <1> QED
    BY <1>2, <1>4, <1>5 DEF TripSum, f, g

LEMMA TripSumAppend ==
    ASSUME NEW tr, NEW iv, NEW P, NEW t \in TripRows, Rows(tr, iv), NEW X \in Aspects,
           TripSays(X, t, PaidTrip(Len(tr) + 1, t, iv, P), ReversedTrip(t, P)) = 0
    PROVE  TripSum(X, Append(tr, t), iv, P) = TripSum(X, tr, iv, P)
  <1> DEFINE tr2 == Append(tr, t)
             f == TripParts(X, tr, iv, P)
             g == TripParts(X, tr2, iv, P)
             n == Len(tr)
  <1>0. Rows(tr2, iv) /\ DOMAIN tr = 1 .. n /\ DOMAIN tr2 = 1 .. n + 1 /\ n \in Nat
        /\ tr2[n + 1] = t /\ \A i \in 1 .. n : tr2[i] = tr[i]
    BY DEF Rows
  <1>1. Ints(f, 1 .. n) /\ Ints(g, 1 .. n + 1) /\ TripSum(X, tr, iv, P) \in Int
    BY <1>0, TripRowsInt
  <1>2. g[n + 1] = 0 /\ \A i \in 1 .. n : g[i] = f[i]
    BY <1>0 DEF TripParts
  <1> HIDE DEF f, g, tr2
  <1>3. SumFunctionOnSet(g, 1 .. n + 1) = SumFunctionOnSet(f, 1 .. n) + g[n + 1]
    BY <1>0, <1>1, <1>2, SumAppend
  <1>4. TripSum(X, tr, iv, P) = SumFunctionOnSet(f, 1 .. n)
        /\ TripSum(X, tr2, iv, P) = SumFunctionOnSet(g, 1 .. n + 1)
    BY <1>0 DEF TripSum, f, g
  <1>5. TripSum(X, tr2, iv, P) = TripSum(X, tr, iv, P)
    BY <1>1, <1>2, <1>3, <1>4
  <1> QED
    BY <1>5 DEF tr2

LEMMA InvoiceSumAppend ==
    ASSUME NEW iv \in Seq(InvoiceRows), NEW v \in InvoiceRows, NEW X \in Aspects
    PROVE  /\ InvoiceSays(X, v) \in Int
           /\ InvoiceSum(X, Append(iv, v)) = InvoiceSum(X, iv) + InvoiceSays(X, v)
  <1> DEFINE iv2 == Append(iv, v)
             f == InvoiceParts(X, iv)
             g == InvoiceParts(X, iv2)
             n == Len(iv)
  <1>0. iv2 \in Seq(InvoiceRows) /\ DOMAIN iv = 1 .. n /\ DOMAIN iv2 = 1 .. n + 1 /\ n \in Nat
        /\ iv2[n + 1] = v /\ \A i \in 1 .. n : iv2[i] = iv[i]
    OBVIOUS
  <1>1. /\ Ints(f, 1 .. n) /\ Ints(g, 1 .. n + 1)
    <2>1. <<>> \in Seq(TripRows) /\ <<>> \in Seq(WithdrawalRows)
      OBVIOUS
    <2>2. Ints(f, DOMAIN iv) /\ Ints(g, DOMAIN iv2)
      BY <1>0, <2>1, RowsInt
    <2> QED
      BY <1>0, <2>2
  <1>2. g[n + 1] = InvoiceSays(X, v) /\ \A i \in 1 .. n : g[i] = f[i]
    BY <1>0 DEF InvoiceParts
  <1>3. InvoiceSays(X, v) \in Int
    BY <1>0, <1>1, <1>2 DEF Ints
  <1> HIDE DEF f, g, iv2
  <1>4. SumFunctionOnSet(g, 1 .. n + 1) = SumFunctionOnSet(f, 1 .. n) + g[n + 1]
    BY <1>0, <1>1, <1>2, SumAppend
  <1>5. InvoiceSum(X, iv) = SumFunctionOnSet(f, 1 .. n)
        /\ InvoiceSum(X, iv2) = SumFunctionOnSet(g, 1 .. n + 1)
    BY <1>0 DEF InvoiceSum, f, g
  <1> QED
    BY <1>2, <1>3, <1>4, <1>5 DEF iv2

LEMMA InvoiceSumChange ==
    ASSUME NEW iv \in Seq(InvoiceRows), NEW k \in DOMAIN iv, NEW iv2 \in Seq(InvoiceRows),
           DOMAIN iv2 = DOMAIN iv, \A j \in DOMAIN iv \ {k} : iv2[j] = iv[j], NEW X \in Aspects
    PROVE  /\ InvoiceSays(X, iv[k]) \in Int /\ InvoiceSays(X, iv2[k]) \in Int
           /\ InvoiceSum(X, iv2) = InvoiceSum(X, iv) + InvoiceSays(X, iv2[k]) - InvoiceSays(X, iv[k])
  <1> DEFINE f == InvoiceParts(X, iv)
             g == InvoiceParts(X, iv2)
  <1>1. IsFiniteSet(DOMAIN iv) /\ Ints(f, DOMAIN iv) /\ Ints(g, DOMAIN iv)
    <2>1. <<>> \in Seq(TripRows) /\ <<>> \in Seq(WithdrawalRows)
      OBVIOUS
    <2>2. IsFiniteSet(DOMAIN iv) /\ Ints(f, DOMAIN iv) /\ Ints(g, DOMAIN iv2)
      BY <2>1, RowsInt
    <2> QED
      BY <2>2
  <1>2. \A j \in DOMAIN iv : f[j] = InvoiceSays(X, iv[j]) /\ g[j] = InvoiceSays(X, iv2[j])
    BY DEF InvoiceParts
  <1>3. \A j \in DOMAIN iv \ {k} : g[j] = f[j]
    BY <1>2
  <1> HIDE DEF f, g
  <1>4. SumFunctionOnSet(g, DOMAIN iv) = SumFunctionOnSet(f, DOMAIN iv) + g[k] - f[k]
    BY <1>1, <1>3, SumUpdate DEF Ints
  <1>5. f[k] \in Int /\ g[k] \in Int
    BY <1>1 DEF Ints
  <1> QED
    BY <1>2, <1>4, <1>5 DEF InvoiceSum, f, g

LEMMA WithdrawalSumAppend ==
    ASSUME NEW wd \in Seq(WithdrawalRows), NEW v \in WithdrawalRows, NEW X \in Aspects
    PROVE  /\ WithdrawalSays(X, v) \in Int
           /\ WithdrawalSum(X, Append(wd, v)) = WithdrawalSum(X, wd) + WithdrawalSays(X, v)
  <1> DEFINE wd2 == Append(wd, v)
             f == WithdrawalParts(X, wd)
             g == WithdrawalParts(X, wd2)
             n == Len(wd)
  <1>0. wd2 \in Seq(WithdrawalRows) /\ DOMAIN wd = 1 .. n /\ DOMAIN wd2 = 1 .. n + 1 /\ n \in Nat
        /\ wd2[n + 1] = v /\ \A i \in 1 .. n : wd2[i] = wd[i]
    OBVIOUS
  <1>1. /\ Ints(f, 1 .. n) /\ Ints(g, 1 .. n + 1)
    <2>1. <<>> \in Seq(TripRows) /\ <<>> \in Seq(InvoiceRows)
      OBVIOUS
    <2>2. Ints(f, DOMAIN wd) /\ Ints(g, DOMAIN wd2)
      BY <1>0, <2>1, RowsInt
    <2> QED
      BY <1>0, <2>2
  <1>2. g[n + 1] = WithdrawalSays(X, v) /\ \A i \in 1 .. n : g[i] = f[i]
    BY <1>0 DEF WithdrawalParts
  <1>3. WithdrawalSays(X, v) \in Int
    BY <1>0, <1>1, <1>2 DEF Ints
  <1> HIDE DEF f, g, wd2
  <1>4. SumFunctionOnSet(g, 1 .. n + 1) = SumFunctionOnSet(f, 1 .. n) + g[n + 1]
    BY <1>0, <1>1, <1>2, SumAppend
  <1>5. WithdrawalSum(X, wd) = SumFunctionOnSet(f, 1 .. n)
        /\ WithdrawalSum(X, wd2) = SumFunctionOnSet(g, 1 .. n + 1)
    BY <1>0 DEF WithdrawalSum, f, g
  <1> QED
    BY <1>2, <1>3, <1>4, <1>5 DEF wd2

LEMMA WithdrawalSumChange ==
    ASSUME NEW wd \in Seq(WithdrawalRows), NEW w \in DOMAIN wd, NEW wd2 \in Seq(WithdrawalRows),
           DOMAIN wd2 = DOMAIN wd, \A j \in DOMAIN wd \ {w} : wd2[j] = wd[j], NEW X \in Aspects
    PROVE  /\ WithdrawalSays(X, wd[w]) \in Int /\ WithdrawalSays(X, wd2[w]) \in Int
           /\ WithdrawalSum(X, wd2) =
                  WithdrawalSum(X, wd) + WithdrawalSays(X, wd2[w]) - WithdrawalSays(X, wd[w])
  <1> DEFINE f == WithdrawalParts(X, wd)
             g == WithdrawalParts(X, wd2)
  <1>1. IsFiniteSet(DOMAIN wd) /\ Ints(f, DOMAIN wd) /\ Ints(g, DOMAIN wd)
    <2>1. <<>> \in Seq(TripRows) /\ <<>> \in Seq(InvoiceRows)
      OBVIOUS
    <2>2. IsFiniteSet(DOMAIN wd) /\ Ints(f, DOMAIN wd) /\ Ints(g, DOMAIN wd2)
      BY <2>1, RowsInt
    <2> QED
      BY <2>2
  <1>2. \A j \in DOMAIN wd : f[j] = WithdrawalSays(X, wd[j]) /\ g[j] = WithdrawalSays(X, wd2[j])
    BY DEF WithdrawalParts
  <1>3. \A j \in DOMAIN wd \ {w} : g[j] = f[j]
    BY <1>2
  <1> HIDE DEF f, g
  <1>4. SumFunctionOnSet(g, DOMAIN wd) = SumFunctionOnSet(f, DOMAIN wd) + g[w] - f[w]
    BY <1>1, <1>3, SumUpdate DEF Ints
  <1>5. f[w] \in Int /\ g[w] \in Int
    BY <1>1 DEF Ints
  <1> QED
    BY <1>2, <1>4, <1>5 DEF WithdrawalSum, f, g

LEMMA SaidIs ==
    ASSUME NEW X, NEW tr, NEW iv, NEW wd, NEW P
    PROVE  Said(X, tr, iv, wd, P) = TripSum(X, tr, iv, P) + InvoiceSum(X, iv) + WithdrawalSum(X, wd)
  BY DEF Said, TripSum, InvoiceSum, WithdrawalSum

-----------------------------------------------------------------------------
(* What the rows of trips say, before and after.                           *)

Open(t) == t.status \notin {"COMPLETED", "CANCELLED"}

LEMMA UnlinkedIsUnpaid ==
    ASSUME NEW P, NEW tr, NEW iv, NEW wd, NEW n \in Nat, PostedOK(P, tr, iv, wd, n),
           NEW t, t.tx = B!NoLink
    PROVE  ~ PaidFor(t, P) /\ ~ ReversedTrip(t, P)
  BY RefsAre DEF PaidFor, ReversedTrip

LEMMA SaysNothing ==
    ASSUME NEW X \in Aspects, NEW t, t.status # "COMPLETED", t.fee = 0,
           NEW paid, ~ paid, NEW reversed, ~ reversed
    PROVE  TripSays(X, t, paid, reversed) = 0
  <1>1. ~ Cash(t) /\ ~ (t.fee > 0)
    BY DEF Cash
  <1> QED
    BY <1>1, AspectIs DEF TripSays

LEMMA UninvoicedIsUnpaid ==
    ASSUME NEW iv, NEW tr, InvoicesOK(iv, tr), NEW i, i \notin DOMAIN tr \/ Open(tr[i])
    PROVE  ~ PaidByInvoice(i, iv)
  BY DEF InvoicesOK, PaidByInvoice, Open

LEMMA OpenTrip ==
    ASSUME NEW tr, NEW iv, NEW wd, NEW P, NEW n, NEW day0, BooksOK(tr, iv, wd, P, n, day0),
           NEW i \in DOMAIN tr, Open(tr[i])
    PROVE  /\ tr[i].tx = B!NoLink /\ tr[i].fee = 0 /\ tr[i] \in TripRows
           /\ \A X \in Aspects : TripPart(X, tr, iv, P, i) = 0
  <1>1. tr[i].tx = B!NoLink /\ tr[i].fee = 0 /\ tr[i] \in TripRows /\ tr[i].status # "COMPLETED"
    BY DEF BooksOK, TripsOK, TripOK, Open
  <1>2. ~ PaidFor(tr[i], P) /\ ~ ReversedTrip(tr[i], P)
    BY <1>1, UnlinkedIsUnpaid DEF BooksOK
  <1>3. ~ PaidByInvoice(i, iv)
    BY UninvoicedIsUnpaid DEF BooksOK
  <1>4. ~ PaidTrip(i, tr[i], iv, P)
    BY <1>2, <1>3 DEF PaidTrip
  <1> QED
    BY <1>1, <1>2, <1>4, SaysNothing DEF TripPart

LEMMA LinksAre ==
    ASSUME NEW tr, TripsOK(tr), NEW i \in DOMAIN tr
    PROVE  tr[i].tx = B!NoLink \/ tr[i].tx = <<"trip", i>>
  BY DEF TripsOK, TripOK

LEMMA AlikeNow ==
    ASSUME NEW S, NEW tr, NEW iv, NEW P, NEW tr2, \A j \in S : tr2[j] = tr[j]
    PROVE  TripsAlike(S, tr, iv, P, tr2, iv, P)
  BY DEF TripsAlike

\* A posting that no trip is linked to changes nothing of them.
LEMMA AlikeAdd ==
    ASSUME NEW S, NEW tr, NEW iv, NEW P, NEW tr2, NEW iv2, NEW P2,
           TripsAlike(S, tr, iv, P, tr2, iv2, P2), NEW tx, \A j \in S : tr[j].tx # tx.ref
    PROVE  TripsAlike(S, tr, iv, P, tr2, iv2, P2 \cup {tx})
  <1> SUFFICES ASSUME NEW j \in S
               PROVE  /\ tr2[j] = tr[j]
                      /\ PaidTrip(j, tr[j], iv2, P2 \cup {tx}) <=> PaidTrip(j, tr[j], iv, P)
                      /\ ReversedTrip(tr[j], P2 \cup {tx}) <=> ReversedTrip(tr[j], P)
    BY DEF TripsAlike
  <1>1. PaidFor(tr[j], P2 \cup {tx}) <=> PaidFor(tr[j], P2)
    BY DEF PaidFor
  <1>2. ReversedTrip(tr[j], P2 \cup {tx}) <=> ReversedTrip(tr[j], P2)
    BY DEF ReversedTrip
  <1> QED
    BY <1>1, <1>2 DEF TripsAlike, PaidTrip

\* Which no trip is linked to.
LEMMA NotLinked ==
    ASSUME NEW tr, TripsOK(tr), NEW r, r # B!NoLink, r[1] # "trip"
    PROVE  \A j \in DOMAIN tr : tr[j].tx # r
  BY LinksAre

LEMMA NotLinkedElsewhere ==
    ASSUME NEW tr, TripsOK(tr), NEW i
    PROVE  \A j \in DOMAIN tr \ {i} : tr[j].tx # <<"trip", i>>
  <1>1. <<"trip", i>> # B!NoLink
    BY DEF B!NoLink
  <1> QED
    BY <1>1, LinksAre

LEMMA InvoicesGrowOK ==
    ASSUME NEW iv, NEW tr, InvoicesOK(iv, tr), NEW tr2, TripsGrow(tr, tr2)
    PROVE  InvoicesOK(iv, tr2)
  BY DEF InvoicesOK, TripsGrow

LEMMA RowUpdate ==
    ASSUME NEW S, NEW q \in Seq(S), NEW i \in DOMAIN q, NEW v \in S, NEW q2, q2 = [q EXCEPT ![i] = v]
    PROVE  /\ q2 \in Seq(S) /\ DOMAIN q2 = DOMAIN q /\ q2[i] = v
           /\ \A j \in DOMAIN q \ {i} : q2[j] = q[j]
  OBVIOUS

LEMMA TripUpdate ==
    ASSUME NEW tr, TripsOK(tr), NEW i \in DOMAIN tr, Open(tr[i]), NEW t, TripOK(i, t),
           NEW tr2, tr2 = [tr EXCEPT ![i] = t]
    PROVE  /\ TripsOK(tr2) /\ DOMAIN tr2 = DOMAIN tr /\ tr2[i] = t /\ TripsGrow(tr, tr2)
           /\ \A j \in DOMAIN tr \ {i} : tr2[j] = tr[j]
  <1>1. tr \in Seq(TripRows) /\ t \in TripRows
    BY DEF TripsOK, TripOK
  <1>2. /\ tr2 \in Seq(TripRows) /\ DOMAIN tr2 = DOMAIN tr /\ tr2[i] = t
        /\ \A j \in DOMAIN tr \ {i} : tr2[j] = tr[j]
    BY <1>1, RowUpdate
  <1>3. TripsOK(tr2)
    BY <1>2 DEF TripsOK
  <1>4. TripsGrow(tr, tr2)
    BY <1>2 DEF TripsGrow, Open
  <1> QED
    BY <1>2, <1>3, <1>4

-----------------------------------------------------------------------------
(* Steps that post nothing.                                                *)

LEMMA TripMoves ==
    ASSUME BooksInv, NEW i \in DOMAIN trips, Open(trips[i]), NEW t, TripOK(i, t),
           trips' = [trips EXCEPT ![i] = t], t.status # "COMPLETED", t.fee = 0, t.tx = B!NoLink,
           UNCHANGED <<invoices, withdrawals, posted, others, today>>
    PROVE  BooksInv'
  <1>0. BooksOK(trips, invoices, withdrawals, posted, others, today)
        /\ Balanced(trips, invoices, withdrawals, posted)
    BY DEF BooksInv
  <1>1. TripsOK(trips) /\ InvoicesOK(invoices, trips) /\ withdrawals \in Seq(WithdrawalRows)
        /\ others \in Nat /\ today \in B!Ever /\ SettledOK(posted, withdrawals)
        /\ PostedOK(posted, trips, invoices, withdrawals, others)
    BY <1>0 DEF BooksOK
  <1>2. /\ TripsOK(trips') /\ DOMAIN trips' = DOMAIN trips /\ trips'[i] = t
        /\ TripsGrow(trips, trips') /\ \A j \in DOMAIN trips \ {i} : trips'[j] = trips[j]
    BY <1>1, TripUpdate
  <1>3. InvoicesOK(invoices, trips')
    BY <1>1, <1>2, InvoicesGrowOK
  <1>4. Grow(trips, invoices, withdrawals, others, trips', invoices, withdrawals, others)
    BY <1>1, <1>2 DEF Grow, InvoicesGrow, WithdrawalsGrow
  <1>5. PostedOK(posted, trips', invoices, withdrawals, others)
    BY <1>1, <1>4, PostedGrows
  <1>6. BooksOK(trips', invoices, withdrawals, posted, others, today)
    BY <1>1, <1>2, <1>3, <1>5 DEF BooksOK
  <1>7. Rows(trips, invoices) /\ Rows(trips', invoices)
    BY <1>1, <1>2 DEF Rows, TripsOK, InvoicesOK
  <1>8. TripsAlike(DOMAIN trips \ {i}, trips, invoices, posted, trips', invoices, posted)
    BY <1>2, AlikeNow
  <1>9. ~ PaidTrip(i, t, invoices, posted) /\ ~ ReversedTrip(t, posted)
    <2>1. ~ PaidByInvoice(i, invoices)
      BY <1>1, UninvoicedIsUnpaid
    <2>2. ~ PaidFor(t, posted) /\ ~ ReversedTrip(t, posted)
      BY <1>1, UnlinkedIsUnpaid
    <2> QED
      BY <2>1, <2>2 DEF PaidTrip
  <1>10. ASSUME NEW X \in Aspects
         PROVE  TripSum(X, trips', invoices, posted) = TripSum(X, trips, invoices, posted)
    <2>1. TripPart(X, trips, invoices, posted, i) = 0
      BY <1>0, OpenTrip
    <2>2. TripPart(X, trips', invoices, posted, i) = 0
      BY <1>2, <1>9, SaysNothing DEF TripPart
    <2>3. /\ TripPart(X, trips, invoices, posted, i) \in Int
          /\ TripPart(X, trips', invoices, posted, i) \in Int
          /\ TripSum(X, trips', invoices, posted) = TripSum(X, trips, invoices, posted)
                + TripPart(X, trips', invoices, posted, i) - TripPart(X, trips, invoices, posted, i)
      <3>1. OneChanges(i, trips, invoices, posted, trips', invoices, posted)
        BY <1>2, <1>7, <1>8 DEF OneChanges
      <3> QED
        BY <3>1, TripSumChange
    <2>4. TripSum(X, trips, invoices, posted) \in Int
      BY <1>7, TripRowsInt
    <2> QED
      BY <2>1, <2>2, <2>3, <2>4
  <1>11. Balanced(trips', invoices, withdrawals, posted)
    BY <1>0, <1>10, SaidIs DEF Balanced
  <1> QED
    BY <1>6, <1>11 DEF BooksInv

LEMMA BookKept ==
    ASSUME BooksInv, NEW kind \in {"RIDE", "DELIVERY"}, NEW r \in Riders,
           NEW b \in Businesses \cup {None}, NEW method \in {"WALLET", "CASH"},
           NEW status0 \in {"REQUESTED", "DISPATCHING"}, B!Book(kind, r, b, method, status0)
    PROVE  BooksInv'
  <1>0. BooksOK(trips, invoices, withdrawals, posted, others, today)
        /\ Balanced(trips, invoices, withdrawals, posted)
    BY DEF BooksInv
  <1>1. TripsOK(trips) /\ InvoicesOK(invoices, trips) /\ withdrawals \in Seq(WithdrawalRows)
        /\ others \in Nat /\ today \in B!Ever /\ SettledOK(posted, withdrawals)
        /\ PostedOK(posted, trips, invoices, withdrawals, others)
    BY <1>0 DEF BooksOK
  <1> DEFINE t == [kind |-> kind, rider |-> r, business |-> b, method |-> method,
                   driver |-> None, status |-> status0,
                   requested |-> today, ended |-> None, tx |-> B!NoLink, fee |-> 0]
             n == Len(trips)
  <1>2. /\ trips' = Append(trips, t)
        /\ b # None => method = "WALLET"
        /\ UNCHANGED <<invoices, withdrawals, posted, others, today>>
    BY DEF B!Book
  <1>3. t \in TripRows /\ TripOK(n + 1, t) /\ t.status # "COMPLETED" /\ t.fee = 0 /\ t.tx = B!NoLink
    <2>1. t \in TripRows
      BY <1>1 DEF TripRows
    <2>2. t.business # None => t.method = "WALLET"
      BY <1>2
    <2> QED
      BY <2>1, <2>2 DEF TripOK
  <1>a. trips' = Append(trips, t)
    BY <1>2
  <1> HIDE DEF t
  <1>4. trips \in Seq(TripRows) /\ DOMAIN trips = 1 .. n /\ n \in Nat /\ n + 1 \notin DOMAIN trips
    BY <1>1 DEF TripsOK
  <1>5. /\ trips' \in Seq(TripRows) /\ DOMAIN trips' = 1 .. n + 1
        /\ trips'[n + 1] = t /\ \A j \in DOMAIN trips : trips'[j] = trips[j]
    <2>1. Append(trips, t) \in Seq(TripRows) /\ DOMAIN Append(trips, t) = 1 .. n + 1
      BY <1>3, <1>4
    <2>2. Append(trips, t)[n + 1] = t /\ \A j \in 1 .. n : Append(trips, t)[j] = trips[j]
      BY <1>3, <1>4
    <2> QED
      BY <1>a, <1>4, <2>1, <2>2
  <1>6. TripsOK(trips')
    <2>1. ASSUME NEW j \in DOMAIN trips' PROVE TripOK(j, trips'[j])
      <3>1. j = n + 1 \/ j \in DOMAIN trips
        BY <1>4, <1>5
      <3> QED
        BY <1>1, <1>3, <1>5, <3>1 DEF TripsOK
    <2> QED
      BY <1>5, <2>1 DEF TripsOK
  <1>7. TripsGrow(trips, trips')
    BY <1>4, <1>5 DEF TripsGrow
  <1>8. InvoicesOK(invoices, trips')
    BY <1>1, <1>7, InvoicesGrowOK
  <1>9. Grow(trips, invoices, withdrawals, others, trips', invoices, withdrawals, others)
    BY <1>1, <1>7 DEF Grow, InvoicesGrow, WithdrawalsGrow
  <1>10. PostedOK(posted, trips', invoices, withdrawals, others)
    BY <1>1, <1>9, PostedGrows
  <1>11. BooksOK(trips', invoices, withdrawals, posted, others, today)
    BY <1>1, <1>6, <1>8, <1>10 DEF BooksOK
  <1>12. Rows(trips, invoices)
    BY <1>1 DEF Rows, TripsOK, InvoicesOK
  <1>13. ~ PaidTrip(n + 1, t, invoices, posted) /\ ~ ReversedTrip(t, posted)
    <2>1. ~ PaidByInvoice(n + 1, invoices)
      BY <1>1, <1>4, UninvoicedIsUnpaid
    <2>2. ~ PaidFor(t, posted) /\ ~ ReversedTrip(t, posted)
      BY <1>1, <1>3, UnlinkedIsUnpaid
    <2> QED
      BY <2>1, <2>2 DEF PaidTrip
  <1>14. ASSUME NEW X \in Aspects
         PROVE  TripSum(X, trips', invoices, posted) = TripSum(X, trips, invoices, posted)
    <2>1. TripSays(X, t, PaidTrip(n + 1, t, invoices, posted), ReversedTrip(t, posted)) = 0
      BY <1>3, <1>13, SaysNothing
    <2>2. TripSum(X, Append(trips, t), invoices, posted) = TripSum(X, trips, invoices, posted)
      BY <1>3, <1>12, <2>1, TripSumAppend
    <2> QED
      BY <1>a, <2>2
  <1>15. Balanced(trips', invoices, withdrawals, posted)
    BY <1>0, <1>14, SaidIs DEF Balanced
  <1> QED
    BY <1>2, <1>11, <1>15 DEF BooksInv

LEMMA SearchKept ==
    ASSUME BooksInv, NEW i \in DOMAIN trips, B!Dispatch(i) \/ B!NoDrivers(i)
    PROVE  BooksInv'
  <1>1. PICK status1 \in {"DISPATCHING", "NO_DRIVERS_FOUND"} :
            /\ trips[i].status \in {"REQUESTED", "DISPATCHING"}
            /\ trips' = [trips EXCEPT ![i].status = status1]
            /\ UNCHANGED <<invoices, withdrawals, posted, others, today>>
    BY DEF B!Dispatch, B!NoDrivers, B!Search
  <1> DEFINE t == [trips[i] EXCEPT !.status = status1]
  <1>2. TripOK(i, trips[i]) /\ Open(trips[i])
    BY <1>1 DEF BooksInv, BooksOK, TripsOK, Open
  <1>3. TripOK(i, t) /\ t.status # "COMPLETED" /\ t.fee = 0 /\ t.tx = B!NoLink
    BY <1>1, <1>2 DEF TripOK, TripRows, Open
  <1>4. trips' = [trips EXCEPT ![i] = t]
    BY <1>1
  <1> HIDE DEF t
  <1> QED
    BY <1>1, <1>2, <1>3, <1>4, TripMoves

LEMMA AcceptKept ==
    ASSUME BooksInv, NEW i \in DOMAIN trips, NEW d \in Drivers, B!Accept(i, d)
    PROVE  BooksInv'
  <1>1. /\ trips[i].status \in {"DISPATCHING", "NO_DRIVERS_FOUND"}
        /\ trips' = [trips EXCEPT ![i].status = "ACCEPTED", ![i].driver = d]
        /\ UNCHANGED <<invoices, withdrawals, posted, others, today>>
    BY DEF B!Accept
  <1> DEFINE t == [trips[i] EXCEPT !.status = "ACCEPTED", !.driver = d]
  <1>2. TripOK(i, trips[i]) /\ Open(trips[i])
    BY <1>1 DEF BooksInv, BooksOK, TripsOK, Open
  <1>3. TripOK(i, t) /\ t.status # "COMPLETED" /\ t.fee = 0 /\ t.tx = B!NoLink
    BY <1>1, <1>2 DEF TripOK, TripRows, Open
  <1>4. trips' = [trips EXCEPT ![i] = t]
    BY <1>1
  <1> HIDE DEF t
  <1> QED
    BY <1>1, <1>2, <1>3, <1>4, TripMoves

LEMMA CancelFreeKept ==
    ASSUME BooksInv, NEW i \in DOMAIN trips, B!CancelFree(i)
    PROVE  BooksInv'
  <1>1. /\ Open(trips[i])
        /\ trips' = [trips EXCEPT ![i].status = "CANCELLED", ![i].ended = today,
                                  ![i].tx = B!NoLink, ![i].fee = 0]
        /\ UNCHANGED <<invoices, withdrawals, posted, others, today>>
    BY DEF B!CancelFree, B!Ended, Open
  <1> DEFINE t == [trips[i] EXCEPT !.status = "CANCELLED", !.ended = today,
                                   !.tx = B!NoLink, !.fee = 0]
  <1>2. TripOK(i, trips[i]) /\ today \in B!Ever
    BY <1>1 DEF BooksInv, BooksOK, TripsOK
  <1>3. TripOK(i, t) /\ t.status # "COMPLETED" /\ t.fee = 0 /\ t.tx = B!NoLink
    BY <1>1, <1>2 DEF TripOK, TripRows, Open
  <1>4. trips' = [trips EXCEPT ![i] = t]
    BY <1>1
  <1> HIDE DEF t
  <1> QED
    BY <1>1, <1>3, <1>4, TripMoves

LEMMA NewDayKept ==
    ASSUME BooksInv, B!NewDay
    PROVE  BooksInv'
  <1>1. today' \in B!Ever
    BY BooksConstants DEF BooksInv, BooksOK, B!NewDay, B!Ever
  <1> QED
    BY <1>1 DEF BooksInv, BooksOK, B!NewDay

LEMMA TransferSucceedsKept ==
    ASSUME BooksInv, NEW w \in DOMAIN withdrawals, B!TransferSucceeds(w)
    PROVE  BooksInv'
  <1>0. BooksOK(trips, invoices, withdrawals, posted, others, today)
        /\ Balanced(trips, invoices, withdrawals, posted)
    BY DEF BooksInv
  <1>1. TripsOK(trips) /\ InvoicesOK(invoices, trips) /\ withdrawals \in Seq(WithdrawalRows)
        /\ others \in Nat /\ today \in B!Ever /\ SettledOK(posted, withdrawals)
        /\ PostedOK(posted, trips, invoices, withdrawals, others)
    BY <1>0 DEF BooksOK
  <1>2. /\ withdrawals[w].status = "PENDING"
        /\ withdrawals' = [withdrawals EXCEPT ![w].status = "COMPLETED"]
        /\ UNCHANGED <<trips, invoices, posted, others, today>>
    BY DEF B!TransferSucceeds
  <1> DEFINE v == [withdrawals[w] EXCEPT !.status = "COMPLETED"]
  <1>3. /\ v \in WithdrawalRows /\ v.driver = withdrawals[w].driver
        /\ v.amount = withdrawals[w].amount /\ v.settled = withdrawals[w].settled
        /\ v.status = "COMPLETED"
    <2>1. withdrawals[w] \in WithdrawalRows
      BY <1>1
    <2> QED
      BY <2>1 DEF WithdrawalRows
  <1>4. withdrawals' = [withdrawals EXCEPT ![w] = v]
    BY <1>2
  <1> HIDE DEF v
  <1>5. /\ withdrawals' \in Seq(WithdrawalRows) /\ DOMAIN withdrawals' = DOMAIN withdrawals
        /\ withdrawals'[w] = v
        /\ \A j \in DOMAIN withdrawals \ {w} : withdrawals'[j] = withdrawals[j]
    BY <1>1, <1>3, <1>4, RowUpdate
  <1>6. WithdrawalsGrow(withdrawals, withdrawals')
    BY <1>2, <1>3, <1>5 DEF WithdrawalsGrow
  <1>7. SettledOK(posted, withdrawals')
    BY <1>1, <1>3, <1>5 DEF SettledOK
  <1>8. Grow(trips, invoices, withdrawals, others, trips, invoices, withdrawals', others)
    BY <1>1, <1>6 DEF Grow, InvoicesGrow, TripsGrow
  <1>9. PostedOK(posted, trips, invoices, withdrawals', others)
    BY <1>1, <1>8, PostedGrows
  <1>10. BooksOK(trips, invoices, withdrawals', posted, others, today)
    BY <1>1, <1>5, <1>7, <1>9 DEF BooksOK
  <1>11. ASSUME NEW X \in Aspects
         PROVE  WithdrawalSum(X, withdrawals') = WithdrawalSum(X, withdrawals)
    <2>1. WithdrawalSays(X, v) = WithdrawalSays(X, withdrawals[w])
      BY <1>2, <1>3 DEF WithdrawalSays
    <2>2. /\ WithdrawalSays(X, withdrawals[w]) \in Int
          /\ WithdrawalSum(X, withdrawals') = WithdrawalSum(X, withdrawals)
                  + WithdrawalSays(X, withdrawals'[w]) - WithdrawalSays(X, withdrawals[w])
      BY <1>1, <1>5, WithdrawalSumChange
    <2>3. WithdrawalSum(X, withdrawals) \in Int
      BY <1>1, RowsInt DEF TripsOK, InvoicesOK
    <2> QED
      BY <1>5, <2>1, <2>2, <2>3
  <1>12. Balanced(trips, invoices, withdrawals', posted)
    BY <1>0, <1>11, SaidIs DEF Balanced
  <1> QED
    BY <1>2, <1>10, <1>12 DEF BooksInv

-----------------------------------------------------------------------------
(* What no row says weighs nothing.                                        *)

LEMMA AmountIs ==
    ASSUME NEW type, NEW ref, NEW amount \in Int, NEW entries, NEW tx,
           tx = B!Posting(type, ref, amount, entries), today \in B!Ever,
           \A a \in DOMAIN entries : entries[a] \in Int
    PROVE  /\ IsPosting(tx) /\ tx.type = type /\ tx.ref = ref /\ tx.amount = amount
           /\ tx.entries = entries /\ tx.status = "COMPLETED" /\ tx.day = today
  BY DEF B!Posting, IsPosting

LEMMA MoveInt ==
    ASSUME NEW from, NEW to, NEW n \in Int
    PROVE  /\ DOMAIN B!Move(from, to, n) = {from, to}
           /\ \A a \in DOMAIN B!Move(from, to, n) : B!Move(from, to, n)[a] \in Int
  BY DEF B!Move

LEMMA TopUpWeighs ==
    ASSUME today \in B!Ever, NEW u, NEW ref, NEW n \in Int, NEW tx, tx = B!TopUpOf(u, ref, n)
    PROVE  /\ IsPosting(tx) /\ tx.type = "WALLET_TOPUP" /\ tx.ref = ref
           /\ \A X \in Aspects : Weight(X, tx) = 0
  <1> DEFINE entries == B!Move(B!Clearing, B!Rider(u), n)
  <1>1. tx = B!Posting("WALLET_TOPUP", ref, n, entries)
    BY DEF B!TopUpOf, B!Accrual
  <1>2. \A a \in DOMAIN entries : entries[a] \in Int
    BY MoveInt
  <1> HIDE DEF entries
  <1>3. IsPosting(tx) /\ tx.type = "WALLET_TOPUP" /\ tx.ref = ref /\ tx.entries = entries
    BY <1>1, <1>2, AmountIs
  <1>4. EntriesInt(tx) /\ Plain(tx)
    BY <1>2, <1>3 DEF EntriesInt, Plain
  <1>5. B!Rider(u) # B!Clearing
    BY DEF B!Rider, B!Clearing
  <1>6. ASSUME NEW X \in Aspects PROVE Weight(X, tx) = 0
    <2>1. Part(X, tx) = IF On(X, B!Rider(u)) THEN n ELSE 0
      BY <1>3, <1>5, WeighAccrual DEF entries
    <2>2. ~ On(X, B!Rider(u))
      BY OnIs
    <2> QED
      BY <1>4, <2>1, <2>2, PlainWeight
  <1> QED
    BY <1>3, <1>6

\* tx settles n of a driver's debt.
Settles(tx, d, ref, n) ==
    /\ IsPosting(tx) /\ tx.type = "COMMISSION_SETTLEMENT" /\ tx.ref = ref
    /\ tx.entries = B!Move(B!Payable(d), B!Revenue, n) /\ tx.status = "COMPLETED"
    /\ \A X \in Aspects : Weight(X, tx) =
          IF X = <<"payable", d>> \/ (X = <<"debt", d>> /\ ref[1] # "settle topup") THEN -n ELSE 0

LEMMA SettlementWeighs ==
    ASSUME today \in B!Ever, NEW d \in Drivers, NEW ref, NEW n \in Int, NEW tx,
           tx = B!Settlement(d, ref, n)
    PROVE  Settles(tx, d, ref, n)
  <1> DEFINE entries == B!Move(B!Payable(d), B!Revenue, n)
  <1>1. tx = B!Posting("COMMISSION_SETTLEMENT", ref, n, entries)
    BY DEF B!Settlement
  <1>2. /\ DOMAIN entries = {B!Payable(d), B!Revenue}
        /\ \A a \in DOMAIN entries : entries[a] \in Int
    BY MoveInt
  <1> HIDE DEF entries
  <1>3. IsPosting(tx) /\ tx.type = "COMMISSION_SETTLEMENT" /\ tx.ref = ref /\ tx.entries = entries
        /\ tx.amount = n /\ tx.status = "COMPLETED"
    BY <1>1, <1>2, AmountIs
  <1> DEFINE c == ref[1]
  <1>4. tx.ref[1] = c
    BY <1>3
  <1> HIDE DEF c
  <1>5. \A e \in Drivers : B!Payable(e) \in DOMAIN tx.entries <=> e = d
    BY <1>2, <1>3 DEF B!Payable, B!Revenue
  <1>6. ASSUME NEW X \in Aspects
        PROVE  Weight(X, tx) =
                  IF X = <<"payable", d>> \/ (X = <<"debt", d>> /\ c # "settle topup") THEN -n ELSE 0
    <2>1. Part(X, tx) = IF X \in {<<"debt", d>>, <<"payable", d>>} THEN -n ELSE 0
      BY <1>3, WeighSettlement DEF entries
    <2>2. CASE X = <<"revenue", None>>
      <3>1. Part(X, tx) = 0
        BY <2>1, <2>2
      <3>2. Aside(X, tx) = 0
        BY <1>3, <2>2 DEF Aside, Swap
      <3> QED
        BY <2>2, <3>1, <3>2 DEF Weight
    <2>3. CASE \E e \in Drivers : X = <<"wallet", e>>
      <3>1. Part(X, tx) = 0
        BY <2>1, <2>3
      <3>2. Aside(X, tx) = 0
        BY <1>3, <2>3 DEF Aside, PayoutTo
      <3> QED
        BY <2>3, <3>1, <3>2 DEF Weight
    <2>4. CASE \E e \in Drivers : X = <<"debt", e>>
      <3>1. PICK e \in Drivers : X = <<"debt", e>>
        BY <2>4
      <3>2. Part(X, tx) = IF e = d THEN -n ELSE 0
        BY <2>1, <3>1
      <3>3. Aside(X, tx) = IF c = "settle topup" /\ e = d THEN n ELSE 0
        BY <1>3, <1>4, <1>5, <3>1 DEF Aside, SettledByTopUp
      <3>4. (X = <<"debt", d>> <=> e = d) /\ X # <<"payable", d>>
        BY <3>1
      <3>5. Weight(X, tx) = IF e = d /\ c # "settle topup" THEN -n ELSE 0
        <4>1. CASE e = d /\ c = "settle topup"
          <5>1. Part(X, tx) = -n /\ Aside(X, tx) = n
            BY <3>2, <3>3, <4>1
          <5>2. Weight(X, tx) = -n + n
            BY <5>1 DEF Weight
          <5>3. -n + n = 0
            OBVIOUS
          <5> QED
            BY <4>1, <5>2, <5>3
        <4>2. CASE ~ (e = d /\ c = "settle topup")
          <5>1. Aside(X, tx) = 0
            BY <3>3, <4>2
          <5>2. Weight(X, tx) = (IF e = d THEN -n ELSE 0) + 0
            BY <3>2, <5>1 DEF Weight
          <5>3. Weight(X, tx) = IF e = d THEN -n ELSE 0
            BY <5>2
          <5> QED
            BY <4>2, <5>3
        <4> QED
          BY <4>1, <4>2
      <3> QED
        BY <3>4, <3>5
    <2>5. CASE \E e \in Drivers : X = <<"payable", e>>
      <3>1. PICK e \in Drivers : X = <<"payable", e>>
        BY <2>5
      <3>2. Part(X, tx) = IF e = d THEN -n ELSE 0
        BY <2>1, <3>1
      <3>3. Aside(X, tx) = 0
        BY <3>1 DEF Aside
      <3> QED
        BY <3>1, <3>2, <3>3 DEF Weight
    <2>6. CASE \E b \in Businesses : X = <<"credit", b>>
      <3>1. Part(X, tx) = 0
        BY <2>1, <2>6
      <3>2. Aside(X, tx) = 0
        BY <2>6 DEF Aside
      <3> QED
        BY <2>6, <3>1, <3>2 DEF Weight
    <2> QED
      BY <2>2, <2>3, <2>4, <2>5, <2>6, AspectIs
  <1> QED
    BY <1>3, <1>6 DEF entries, c, Settles

LEMMA SwapWeighs ==
    ASSUME today \in B!Ever, NEW r, NEW ref, NEW n \in Int, NEW tx,
           tx = B!Posting("KILOWATT_PAYMENT", ref, n, B!Move(B!Rider(r), B!Revenue, n))
    PROVE  /\ IsPosting(tx) /\ tx.type = "KILOWATT_PAYMENT" /\ tx.ref = ref
           /\ \A X \in Aspects : Weight(X, tx) = 0
  <1> DEFINE entries == B!Move(B!Rider(r), B!Revenue, n)
  <1>2. \A a \in DOMAIN entries : entries[a] \in Int
    BY MoveInt
  <1>b. tx = B!Posting("KILOWATT_PAYMENT", ref, n, entries)
    OBVIOUS
  <1> HIDE DEF entries
  <1>3. IsPosting(tx) /\ tx.type = "KILOWATT_PAYMENT" /\ tx.ref = ref /\ tx.entries = entries
        /\ tx.amount = n /\ tx.status = "COMPLETED" /\ tx.day = today
    BY <1>b, <1>2, AmountIs
  <1>4. /\ B!Rider(r) # B!Revenue /\ B!Rider(r)[1] # "DRIVER_COMMISSION_PAYABLE"
    BY DEF B!Rider, B!Revenue
  <1>5. ASSUME NEW X \in Aspects PROVE Weight(X, tx) = 0
    <2>1. Part(X, tx) = (IF On(X, B!Revenue) THEN n ELSE 0) - (IF On(X, B!Rider(r)) THEN n ELSE 0)
      BY <1>3, <1>4, PartMove DEF entries
    <2>2. ~ On(X, B!Rider(r)) /\ (On(X, B!Revenue) <=> X = <<"revenue", None>>)
      BY OnIs
    <2>3. Part(X, tx) = IF X = <<"revenue", None>> THEN n ELSE 0
      BY <2>1, <2>2
    <2>4. Aside(X, tx) = IF X = <<"revenue", None>> THEN -n ELSE 0
      <3>1. Swap(tx) /\ \A e : ~ PayoutTo(tx, e) /\ ~ SettledByTopUp(tx, e)
        BY <1>3 DEF Swap, PayoutTo, SettledByTopUp
      <3> QED
        BY <1>3, <3>1, AspectIs DEF Aside
    <2> QED
      BY <2>3, <2>4 DEF Weight
  <1> QED
    BY <1>3, <1>5

LEMMA RedeemWeighs ==
    ASSUME today \in B!Ever, NEW ref, NEW n \in Int, NEW tx,
           tx = B!Accrual("REFERRAL_PAYOUT", ref, B!Referrals, n)
    PROVE  /\ IsPosting(tx) /\ tx.type = "REFERRAL_PAYOUT" /\ tx.ref = ref
           /\ \A X \in Aspects : Weight(X, tx) = 0
  <1> DEFINE entries == B!Move(B!Clearing, B!Referrals, n)
  <1>1. tx = B!Posting("REFERRAL_PAYOUT", ref, n, entries)
    BY DEF B!Accrual
  <1>2. /\ DOMAIN entries = {B!Clearing, B!Referrals}
        /\ \A a \in DOMAIN entries : entries[a] \in Int
    BY MoveInt
  <1> HIDE DEF entries
  <1>3. IsPosting(tx) /\ tx.type = "REFERRAL_PAYOUT" /\ tx.ref = ref /\ tx.entries = entries
        /\ tx.amount = n
    BY <1>1, <1>2, AmountIs
  <1>4. B!Referrals # B!Clearing
    BY DEF B!Referrals, B!Clearing
  <1>5. \A e : B!Driver(e) \notin DOMAIN tx.entries
    BY <1>2, <1>3 DEF B!Driver, B!Clearing, B!Referrals
  <1>6. ASSUME NEW X \in Aspects PROVE Weight(X, tx) = 0
    <2>1. Part(X, tx) = IF On(X, B!Referrals) THEN n ELSE 0
      BY <1>3, <1>4, WeighAccrual DEF entries
    <2>2. ~ On(X, B!Referrals)
      BY OnIs
    <2>3. Aside(X, tx) = 0
      BY <1>3, <1>5 DEF Aside, Swap, PayoutTo, SettledByTopUp
    <2> QED
      BY <2>1, <2>2, <2>3 DEF Weight
  <1> QED
    BY <1>3, <1>6

LEMMA PayoutWeighs ==
    ASSUME today \in B!Ever, NEW ref, NEW d, NEW n \in Int, NEW tx,
           tx = B!Posting("REFERRAL_PAYOUT", ref, n, B!Move(B!Referrals, B!Driver(d), n))
    PROVE  /\ IsPosting(tx) /\ tx.type = "REFERRAL_PAYOUT" /\ tx.ref = ref
           /\ \A X \in Aspects : Weight(X, tx) = 0
  <1> DEFINE entries == B!Move(B!Referrals, B!Driver(d), n)
  <1>b. tx = B!Posting("REFERRAL_PAYOUT", ref, n, entries)
    OBVIOUS
  <1>2. /\ DOMAIN entries = {B!Referrals, B!Driver(d)}
        /\ \A a \in DOMAIN entries : entries[a] \in Int
    BY MoveInt
  <1> HIDE DEF entries
  <1>3. IsPosting(tx) /\ tx.type = "REFERRAL_PAYOUT" /\ tx.ref = ref /\ tx.entries = entries
        /\ tx.amount = n
    BY <1>b, <1>2, AmountIs
  <1>4. /\ B!Referrals # B!Driver(d) /\ B!Referrals[1] # "DRIVER_COMMISSION_PAYABLE"
        /\ B!Referrals # B!Revenue
    BY DEF B!Referrals, B!Driver, B!Revenue
  <1>5. \A e : B!Driver(e) \in DOMAIN tx.entries <=> e = d
    BY <1>2, <1>3 DEF B!Driver, B!Referrals
  <1>6. ASSUME NEW X \in Aspects PROVE Weight(X, tx) = 0
    <2>1. Part(X, tx) = (IF On(X, B!Driver(d)) THEN n ELSE 0) - (IF On(X, B!Referrals) THEN n ELSE 0)
      BY <1>3, <1>4, PartMove DEF entries
    <2>2. ~ On(X, B!Referrals) /\ (On(X, B!Driver(d)) <=> X = <<"wallet", d>>)
      BY OnIs
    <2>3. Part(X, tx) = IF X = <<"wallet", d>> THEN n ELSE 0
      BY <2>1, <2>2
    <2>4. Aside(X, tx) = IF X = <<"wallet", d>> THEN -n ELSE 0
      <3>1. ~ Swap(tx) /\ \A e : (PayoutTo(tx, e) <=> e = d) /\ ~ SettledByTopUp(tx, e)
        BY <1>3, <1>5 DEF Swap, PayoutTo, SettledByTopUp
      <3> QED
        BY <1>3, <3>1, AspectIs DEF Aside
    <2> QED
      BY <2>3, <2>4 DEF Weight
  <1> QED
    BY <1>3, <1>6

-----------------------------------------------------------------------------
(* Steps that post and change no row.                                      *)

\* The balance of an account that an aspect is of.
LEMMA BalanceIs ==
    ASSUME NEW P, Postings(P), P = posted, NEW X \in Aspects, NEW a, B!AtFirst(a) = 0,
           \A tx \in P : Weight(X, tx) = B!Entry(tx, a)
    PROVE  B!Balance(a) = Posted(X, P) /\ Posted(X, P) \in Int
  <1> DEFINE f == [tx \in posted |-> B!Entry(tx, a)]
             g == Weights(X, P)
  <1>1. Ints(g, P) /\ Posted(X, P) \in Int /\ IsFiniteSet(P)
    BY WeightsInt DEF Postings
  <1>2. \A tx \in P : f[tx] = g[tx]
    BY DEF Weights
  <1>3. B!Balance(a) = B!AtFirst(a) + SumFunctionOnSet(f, P)
    <2>1. DOMAIN f = P
      OBVIOUS
    <2>2. B!Total(f) = SumFunctionOnSet(f, P)
      BY <2>1, TotalIsSum
    <2> QED
      BY <2>2 DEF B!Balance
  <1> HIDE DEF f, g
  <1>4. SumFunctionOnSet(f, P) = SumFunctionOnSet(g, P)
    BY <1>1, <1>2, SumSame
  <1>5. Posted(X, P) = SumFunctionOnSet(g, P)
    BY DEF Posted, g
  <1> QED
    BY <1>1, <1>3, <1>4, <1>5

LEMMA PayableIs ==
    ASSUME Postings(posted), NEW d \in Drivers
    PROVE  /\ B!Balance(B!Payable(d)) = Posted(<<"payable", d>>, posted)
           /\ Posted(<<"payable", d>>, posted) \in Int
  <1> DEFINE X == <<"payable", d>>
             a == B!Payable(d)
  <1>1. X \in Aspects /\ X[1] = "payable" /\ X[2] = d
    BY DEF Aspects
  <1>2. B!AtFirst(a) = 0
    BY DEF B!AtFirst, B!Payable, B!Rider, B!Wallet
  <1>3. \A tx : Part(X, tx) = B!Entry(tx, a) /\ Aside(X, tx) = 0
    BY <1>1 DEF Part, Aside
  <1>4. ASSUME NEW tx \in posted PROVE Weight(X, tx) = B!Entry(tx, a)
    <2>1. B!Entry(tx, a) \in Int
      BY EntryInt DEF Postings, IsPosting, EntriesInt
    <2> QED
      BY <1>3, <2>1 DEF Weight
  <1> QED
    BY <1>1, <1>2, <1>4, BalanceIs

\* What is posted with a reference of its own.
LEMMA AlikeMore ==
    ASSUME NEW S, NEW tr, NEW iv, NEW P, NEW tr2, NEW iv2, NEW P2, NEW P3,
           TripsAlike(S, tr, iv, P, tr2, iv2, P2), P2 \subseteq P3,
           \A tx \in P3 \ P2 : \A j \in S : tr[j].tx # tx.ref
    PROVE  TripsAlike(S, tr, iv, P, tr2, iv2, P3)
  <1> SUFFICES ASSUME NEW j \in S
               PROVE  /\ tr2[j] = tr[j]
                      /\ PaidTrip(j, tr[j], iv2, P3) <=> PaidTrip(j, tr[j], iv, P)
                      /\ ReversedTrip(tr[j], P3) <=> ReversedTrip(tr[j], P)
    BY DEF TripsAlike
  <1>1. PaidFor(tr[j], P3) <=> PaidFor(tr[j], P2)
    BY DEF PaidFor
  <1>2. ReversedTrip(tr[j], P3) <=> ReversedTrip(tr[j], P2)
    BY DEF ReversedTrip
  <1> QED
    BY <1>1, <1>2 DEF TripsAlike, PaidTrip

LEMMA RowsStay ==
    ASSUME BooksInv, NEW P, NEW n \in Nat, others <= n,
           PostedOK(P, trips, invoices, withdrawals, n), posted \subseteq P,
           \A tx \in P \ posted : tx.ref # B!NoLink /\ tx.ref[1] # "trip",
           \A X \in Aspects : X[1] # "payable" => Posted(X, P) = Posted(X, posted),
           \A d \in Drivers : Posted(<<"payable", d>>, P) >= 0
    PROVE  /\ BooksOK(trips, invoices, withdrawals, P, n, today)
           /\ Balanced(trips, invoices, withdrawals, P)
  <1>0. BooksOK(trips, invoices, withdrawals, posted, others, today)
        /\ Balanced(trips, invoices, withdrawals, posted)
    BY DEF BooksInv
  <1>1. TripsOK(trips) /\ InvoicesOK(invoices, trips) /\ withdrawals \in Seq(WithdrawalRows)
        /\ today \in B!Ever /\ SettledOK(posted, withdrawals)
    BY <1>0 DEF BooksOK
  <1>2. SettledOK(P, withdrawals)
    BY <1>1 DEF SettledOK
  <1>3. BooksOK(trips, invoices, withdrawals, P, n, today)
    BY <1>1, <1>2 DEF BooksOK
  <1>4. Rows(trips, invoices)
    BY <1>1 DEF Rows, TripsOK, InvoicesOK
  <1>5. TripsAlike(DOMAIN trips, trips, invoices, posted, trips, invoices, P)
    <2>1. TripsAlike(DOMAIN trips, trips, invoices, posted, trips, invoices, posted)
      BY AlikeNow
    <2>2. \A tx \in P \ posted : \A j \in DOMAIN trips : trips[j].tx # tx.ref
      BY <1>1, NotLinked
    <2> QED
      BY <2>1, <2>2, AlikeMore
  <1>6. \A X \in Aspects : TripSum(X, trips, invoices, P) = TripSum(X, trips, invoices, posted)
    BY <1>4, <1>5, TripSumSame
  <1>7. Balanced(trips, invoices, withdrawals, P)
    BY <1>0, <1>6, SaidIs DEF Balanced
  <1> QED
    BY <1>3, <1>7

\* Before a call: what is posted, for what the call will make of it.
LEMMA BooksNow ==
    ASSUME BooksInv
    PROVE  /\ TripsOK(trips) /\ InvoicesOK(invoices, trips) /\ withdrawals \in Seq(WithdrawalRows)
           /\ others \in Nat /\ others + 1 \in Nat /\ others <= others + 1 /\ today \in B!Ever
           /\ SettledOK(posted, withdrawals) /\ Postings(posted)
           /\ PostedOK(posted, trips, invoices, withdrawals, others)
           /\ PostedOK(posted, trips, invoices, withdrawals, others + 1)
           /\ Rows(trips, invoices)
           /\ \A d \in Drivers : Posted(<<"payable", d>>, posted) >= 0
                  /\ B!Balance(B!Payable(d)) = Posted(<<"payable", d>>, posted)
                  /\ Posted(<<"payable", d>>, posted) \in Int
  <1>1. TripsOK(trips) /\ InvoicesOK(invoices, trips) /\ withdrawals \in Seq(WithdrawalRows)
        /\ others \in Nat /\ today \in B!Ever /\ SettledOK(posted, withdrawals)
        /\ PostedOK(posted, trips, invoices, withdrawals, others)
        /\ \A d \in Drivers : Posted(<<"payable", d>>, posted) >= 0
    BY DEF BooksInv, BooksOK, Balanced
  <1>2. Grow(trips, invoices, withdrawals, others, trips, invoices, withdrawals, others + 1)
    BY <1>1 DEF Grow, TripsGrow, InvoicesGrow, WithdrawalsGrow
  <1>3. PostedOK(posted, trips, invoices, withdrawals, others + 1)
    BY <1>1, <1>2, PostedGrows
  <1>4. Postings(posted)
    BY <1>1 DEF PostedOK, Postings
  <1>5. Rows(trips, invoices)
    BY <1>1 DEF Rows, TripsOK, InvoicesOK
  <1>6. \A d \in Drivers : B!Balance(B!Payable(d)) = Posted(<<"payable", d>>, posted)
                  /\ Posted(<<"payable", d>>, posted) \in Int
    BY <1>4, PayableIs
  <1> QED
    BY <1>1, <1>3, <1>4, <1>5, <1>6

LEMMA OtherRefs ==
    ASSUME BooksInv, NEW c \in {"topup", "settle topup", "swap"}
    PROVE  /\ \A s \in posted : s.ref # <<c, others>>
           /\ <<c, others>> # B!NoLink /\ <<c, others>>[1] = c /\ c \notin {"trip", "refund"}
  <1>1. <<c, others>> # B!NoLink /\ <<c, others>>[1] = c /\ <<c, others>>[2] = others
    BY DEF B!NoLink
  <1>2. c \notin {"trip", "refund"}
    OBVIOUS
  <1>3. \A s \in posted : RefOK(s.ref, trips, invoices, withdrawals, others)
    BY BooksNow, RefsAre
  <1> QED
    BY <1>1, <1>2, <1>3 DEF RefOK

\* One posting that no row says anything of, and what it weighs.
LEMMA PostOther ==
    ASSUME BooksInv, NEW P, PostedOK(P, trips, invoices, withdrawals, others + 1),
           NEW tx, IsPosting(tx), OfOther(tx, others), tx.ref[1] # "refund",
           \A s \in P : s.ref # tx.ref
    PROVE  /\ PostedOK(P \cup {tx}, trips, invoices, withdrawals, others + 1)
           /\ \A X \in Aspects : Posted(X, P \cup {tx}) = Posted(X, P) + Weight(X, tx)
  <1>1. others \in 0 .. (others + 1) - 1
    BY BooksNow
  <1>2. Of(tx, trips, invoices, withdrawals, others + 1)
    BY <1>1 DEF Of
  <1> QED
    BY <1>2, AddPosting

LEMMA PostLightly ==
    ASSUME BooksInv, NEW tx, IsPosting(tx), OfOther(tx, others), tx.ref # B!NoLink,
           tx.ref[1] \notin {"trip", "refund"}, \A s \in posted : s.ref # tx.ref,
           \A X \in Aspects : Weight(X, tx) = 0,
           posted' = posted \cup {tx}, others' = others + 1,
           UNCHANGED <<trips, invoices, withdrawals, today>>
    PROVE  BooksInv'
  <1>1. PostedOK(posted, trips, invoices, withdrawals, others + 1) /\ others + 1 \in Nat
        /\ others <= others + 1 /\ Postings(posted)
        /\ \A d \in Drivers : Posted(<<"payable", d>>, posted) >= 0
    BY BooksNow
  <1>2. /\ PostedOK(posted \cup {tx}, trips, invoices, withdrawals, others + 1)
        /\ \A X \in Aspects : Posted(X, posted \cup {tx}) = Posted(X, posted) + Weight(X, tx)
    BY <1>1, PostOther
  <1>3. ASSUME NEW X \in Aspects PROVE Posted(X, posted \cup {tx}) = Posted(X, posted)
    <2>1. Posted(X, posted) \in Int
      BY <1>1, WeightsInt
    <2>2. Posted(X, posted \cup {tx}) = Posted(X, posted) + Weight(X, tx) /\ Weight(X, tx) = 0
      BY <1>2
    <2> QED
      BY <2>1, <2>2
  <1>4. \A d \in Drivers : <<"payable", d>> \in Aspects
    BY DEF Aspects
  <1>5. /\ BooksOK(trips, invoices, withdrawals, posted \cup {tx}, others + 1, today)
        /\ Balanced(trips, invoices, withdrawals, posted \cup {tx})
    BY <1>1, <1>2, <1>3, <1>4, RowsStay
  <1> QED
    BY <1>5 DEF BooksInv

LEMMA TopUpKept ==
    ASSUME BooksInv, NEW r, NEW n \in Amounts, B!TopUp(r, n)
    PROVE  BooksInv'
  <1> DEFINE ref == <<"topup", others>>
             tx == B!TopUpOf(r, ref, n)
  <1>1. /\ posted' = posted \cup {tx} /\ others' = others + 1
        /\ UNCHANGED <<trips, invoices, withdrawals, today>>
    BY DEF B!TopUp, B!Count
  <1>2. n \in Int /\ today \in B!Ever
    BY BooksConstants, BooksNow
  <1>3. ref # B!NoLink /\ ref[1] = "topup" /\ \A s \in posted : s.ref # ref
    BY OtherRefs
  <1>a. ref \in {<<"topup", others>>, <<"settle topup", others>>, <<"swap", others>>}
    OBVIOUS
  <1> HIDE DEF ref
  <1>4. IsPosting(tx) /\ tx.type = "WALLET_TOPUP" /\ tx.ref = ref /\ \A X \in Aspects : Weight(X, tx) = 0
    BY <1>2, TopUpWeighs
  <1> HIDE DEF tx
  <1>5. OfOther(tx, others)
    BY <1>a, <1>4 DEF OfOther, PaymentTypes
  <1> QED
    BY <1>1, <1>3, <1>4, <1>5, PostLightly

LEMMA PaySwapKept ==
    ASSUME BooksInv, NEW r, NEW n \in Amounts, B!PaySwap(r, n)
    PROVE  BooksInv'
  <1> DEFINE ref == <<"swap", others>>
             tx == B!Posting("KILOWATT_PAYMENT", ref, n, B!Move(B!Rider(r), B!Revenue, n))
  <1>1. /\ posted' = posted \cup {tx} /\ others' = others + 1
        /\ UNCHANGED <<trips, invoices, withdrawals, today>>
    BY DEF B!PaySwap, B!Count
  <1>2. n \in Int /\ today \in B!Ever
    BY BooksConstants, BooksNow
  <1>3. ref # B!NoLink /\ ref[1] = "swap" /\ \A s \in posted : s.ref # ref
    BY OtherRefs
  <1>a. ref \in {<<"topup", others>>, <<"settle topup", others>>, <<"swap", others>>}
    OBVIOUS
  <1> HIDE DEF ref
  <1>4. /\ IsPosting(tx) /\ tx.type = "KILOWATT_PAYMENT" /\ tx.ref = ref
        /\ \A X \in Aspects : Weight(X, tx) = 0
    BY <1>2, SwapWeighs
  <1> HIDE DEF tx
  <1>5. OfOther(tx, others)
    BY <1>a, <1>4 DEF OfOther, PaymentTypes
  <1> QED
    BY <1>1, <1>3, <1>4, <1>5, PostLightly

LEMMA RedeemKept ==
    ASSUME BooksInv, NEW d, NEW n \in Amounts, B!Redeem(d, n)
    PROVE  BooksInv'
  <1> DEFINE ref == <<"referral", others, d>>
             tx == B!Accrual("REFERRAL_PAYOUT", ref, B!Referrals, n)
  <1>1. /\ posted' = posted \cup {tx} /\ others' = others + 1
        /\ UNCHANGED <<trips, invoices, withdrawals, today>>
    BY DEF B!Redeem, B!Count
  <1>2. n \in Int /\ today \in B!Ever
    BY BooksConstants, BooksNow
  <1>3. ref # B!NoLink /\ ref[1] = "referral" /\ ref[2] = others /\ ref = <<"referral", others, ref[3]>>
    BY DEF B!NoLink
  <1>4. \A s \in posted : s.ref # ref
    <2>1. \A s \in posted : RefOK(s.ref, trips, invoices, withdrawals, others)
      BY BooksNow, RefsAre
    <2> HIDE DEF ref
    <2> QED
      BY <1>3, <2>1 DEF RefOK
  <1> HIDE DEF ref
  <1>5. /\ IsPosting(tx) /\ tx.type = "REFERRAL_PAYOUT" /\ tx.ref = ref
        /\ \A X \in Aspects : Weight(X, tx) = 0
    BY <1>2, RedeemWeighs
  <1> HIDE DEF tx
  <1>6. OfOther(tx, others)
    BY <1>3, <1>5 DEF OfOther, PaymentTypes
  <1> QED
    BY <1>1, <1>3, <1>4, <1>5, <1>6, PostLightly

\* A driver's top-up: the settlement, what is left of the amount, or both.
LEMMA TopUpDriverKept ==
    ASSUME BooksInv, NEW d \in Drivers, NEW n \in Amounts, B!TopUpDriver(d, n)
    PROVE  BooksInv'
  <1> DEFINE debt == Posted(<<"payable", d>>, posted)
             settle == IF debt < n THEN debt ELSE n
             ref1 == <<"settle topup", others>>
             ref2 == <<"topup", others>>
             tx1 == B!Settlement(d, ref1, settle)
             tx2 == B!TopUpOf(d, ref2, n - settle)
             P1 == IF settle > 0 THEN posted \cup {tx1} ELSE posted
             P2 == IF n - settle > 0 THEN P1 \cup {tx2} ELSE P1
  <1>1. /\ PostedOK(posted, trips, invoices, withdrawals, others + 1) /\ others + 1 \in Nat
        /\ others <= others + 1 /\ Postings(posted) /\ today \in B!Ever
        /\ \A e \in Drivers : Posted(<<"payable", e>>, posted) >= 0
                                  /\ Posted(<<"payable", e>>, posted) \in Int
        /\ B!Balance(B!Payable(d)) = debt
    BY BooksNow
  <1>2. /\ n \in Int /\ n > 0 /\ debt \in Int /\ debt >= 0
        /\ settle \in Int /\ settle >= 0 /\ settle <= debt /\ n - settle \in Int /\ n - settle >= 0
    BY <1>1, BooksConstants
  <1>3. /\ posted' = P2 /\ others' = others + 1
        /\ UNCHANGED <<trips, invoices, withdrawals, today>>
    <2>1. B!Least(B!Balance(B!Payable(d)), n) = settle
      BY <1>1 DEF B!Least
    <2>2. \A m \in Int : {1} \cap 1 .. m = IF m > 0 THEN {1} ELSE {}
      OBVIOUS
    <2>3. \A tx : \A m \in Int : {tx : k \in {1} \cap 1 .. m} = IF m > 0 THEN {tx} ELSE {}
      BY <2>2
    <2>4. /\ posted' = posted \cup {tx1 : k \in {1} \cap 1 .. settle}
                          \cup {tx2 : k \in {1} \cap 1 .. (n - settle)}
          /\ others' = others + 1 /\ UNCHANGED <<trips, invoices, withdrawals, today>>
      BY <2>1 DEF B!TopUpDriver, B!Count
    <2> HIDE DEF tx1, tx2, settle
    <2>5. /\ {tx1 : k \in {1} \cap 1 .. settle} = IF settle > 0 THEN {tx1} ELSE {}
          /\ {tx2 : k \in {1} \cap 1 .. (n - settle)} = IF n - settle > 0 THEN {tx2} ELSE {}
      BY <1>2, <2>3
    <2> QED
      BY <2>4, <2>5
  <1>4. /\ ref1 # B!NoLink /\ ref1[1] = "settle topup" /\ \A s \in posted : s.ref # ref1
        /\ ref2 # B!NoLink /\ ref2[1] = "topup" /\ \A s \in posted : s.ref # ref2
        /\ ref1 # ref2
    BY OtherRefs
  <1>5. /\ IsPosting(tx1) /\ tx1.type = "COMMISSION_SETTLEMENT" /\ tx1.ref = ref1
        /\ \A X \in Aspects : Weight(X, tx1) = IF X = <<"payable", d>> THEN -settle ELSE 0
    <2>a. tx1 = B!Settlement(d, ref1, settle)
      OBVIOUS
    <2>b. today \in B!Ever /\ settle \in Int
      BY <1>1, <1>2
    <2> HIDE DEF settle, ref1, tx1
    <2>1. Settles(tx1, d, ref1, settle)
      BY <2>a, <2>b, SettlementWeighs
    <2> QED
      BY <1>4, <2>1 DEF Settles
  <1>6. /\ IsPosting(tx2) /\ tx2.type = "WALLET_TOPUP" /\ tx2.ref = ref2
        /\ \A X \in Aspects : Weight(X, tx2) = 0
    <2> HIDE DEF ref2, settle
    <2> QED
      BY <1>1, <1>2, TopUpWeighs
  <1>7. OfOther(tx1, others) /\ OfOther(tx2, others)
    BY <1>5, <1>6 DEF OfOther, PaymentTypes
  <1> HIDE DEF tx1, tx2, ref1, ref2, settle
  <1>8. /\ PostedOK(P1, trips, invoices, withdrawals, others + 1) /\ posted \subseteq P1
        /\ \A s \in P1 : s.ref # ref2
        /\ \A s \in P1 \ posted : s.ref = ref1
        /\ \A X \in Aspects : Posted(X, P1) = Posted(X, posted)
              + (IF settle > 0 THEN Weight(X, tx1) ELSE 0)
    <2>1. CASE settle > 0
      <3>1. /\ PostedOK(posted \cup {tx1}, trips, invoices, withdrawals, others + 1)
            /\ \A X \in Aspects : Posted(X, posted \cup {tx1}) = Posted(X, posted) + Weight(X, tx1)
        BY <1>1, <1>4, <1>5, <1>7, PostOther
      <3> QED
        BY <1>4, <1>5, <2>1, <3>1
    <2>2. CASE ~ (settle > 0)
      <3>1. \A X \in Aspects : Posted(X, posted) = Posted(X, posted) + 0
        BY <1>1, WeightsInt
      <3> QED
        BY <1>1, <1>4, <2>2, <3>1
    <2> QED
      BY <2>1, <2>2
  <1>9. Postings(P1)
    BY <1>8 DEF PostedOK, Postings
  <1> HIDE DEF P1
  <1>10. /\ PostedOK(P2, trips, invoices, withdrawals, others + 1) /\ posted \subseteq P2
         /\ \A s \in P2 \ posted : s.ref \in {ref1, ref2}
         /\ \A X \in Aspects : Posted(X, P2) = Posted(X, P1)
    <2>1. CASE n - settle > 0
      <3>1. /\ PostedOK(P1 \cup {tx2}, trips, invoices, withdrawals, others + 1)
            /\ \A X \in Aspects : Posted(X, P1 \cup {tx2}) = Posted(X, P1) + Weight(X, tx2)
        BY <1>4, <1>6, <1>7, <1>8, PostOther
      <3>2. \A X \in Aspects : Posted(X, P1) \in Int
        BY <1>9, WeightsInt
      <3>3. ASSUME NEW X \in Aspects PROVE Posted(X, P1 \cup {tx2}) = Posted(X, P1)
        <4>1. Posted(X, P1 \cup {tx2}) = Posted(X, P1) + Weight(X, tx2) /\ Weight(X, tx2) = 0
          BY <1>6, <3>1
        <4> QED
          BY <3>2, <4>1
      <3> QED
        BY <1>6, <1>8, <2>1, <3>1, <3>3
    <2>2. CASE ~ (n - settle > 0)
      BY <1>8, <2>2
    <2> QED
      BY <2>1, <2>2
  <1> HIDE DEF P2
  <1>11. ASSUME NEW X \in Aspects
         PROVE  Posted(X, P2) = Posted(X, posted) + (IF X = <<"payable", d>> THEN -settle ELSE 0)
    <2>1. Posted(X, posted) \in Int
      BY <1>1, WeightsInt
    <2>2. Posted(X, P2) = Posted(X, posted) + (IF settle > 0 THEN Weight(X, tx1) ELSE 0)
      BY <1>8, <1>10
    <2>3. Weight(X, tx1) = IF X = <<"payable", d>> THEN -settle ELSE 0
      BY <1>5
    <2> QED
      BY <1>2, <2>1, <2>2, <2>3
  <1>12. ASSUME NEW X \in Aspects, X[1] # "payable" PROVE Posted(X, P2) = Posted(X, posted)
    <2>1. X # <<"payable", d>>
      BY <1>12
    <2>2. Posted(X, posted) \in Int
      BY <1>1, WeightsInt
    <2> QED
      BY <1>11, <2>1, <2>2
  <1>13. ASSUME NEW e \in Drivers PROVE Posted(<<"payable", e>>, P2) >= 0
    <2>1. <<"payable", e>> \in Aspects
      BY DEF Aspects
    <2>2. Posted(<<"payable", e>>, P2) = Posted(<<"payable", e>>, posted)
              + (IF e = d THEN -settle ELSE 0)
      BY <1>11, <2>1
    <2>3. Posted(<<"payable", e>>, posted) >= 0 /\ Posted(<<"payable", e>>, posted) \in Int
      BY <1>1
    <2>4. CASE e = d
      BY <1>2, <2>2, <2>3, <2>4
    <2>5. CASE e # d
      BY <2>2, <2>3, <2>5
    <2> QED
      BY <2>4, <2>5
  <1>14. \A s \in P2 \ posted : s.ref # B!NoLink /\ s.ref[1] # "trip"
    BY <1>4, <1>10
  <1>15. /\ BooksOK(trips, invoices, withdrawals, P2, others + 1, today)
         /\ Balanced(trips, invoices, withdrawals, P2)
    BY <1>1, <1>10, <1>12, <1>13, <1>14, RowsStay
  <1> QED
    BY <1>3, <1>15 DEF BooksInv

\* The payouts of what is owed.
LEMMA ProcessPayoutsKept ==
    ASSUME BooksInv, B!ProcessPayouts
    PROVE  BooksInv'
  <1> DEFINE due == {tx \in posted : tx.ref[1] = "referral"
                        /\ \A paid \in posted : paid.ref # <<"payout", tx.ref>>}
             Payout(tx) == B!Posting("REFERRAL_PAYOUT", <<"payout", tx.ref>>, tx.amount,
                               B!Move(B!Referrals, B!Driver(tx.ref[3]), tx.amount))
             paid == {Payout(tx) : tx \in due}
             P == posted \cup paid
  <1>1. posted' = P /\ UNCHANGED <<trips, invoices, withdrawals, others, today>>
    BY DEF B!ProcessPayouts
  <1>2. /\ PostedOK(posted, trips, invoices, withdrawals, others) /\ others \in Nat
        /\ Postings(posted) /\ today \in B!Ever
        /\ \A e \in Drivers : Posted(<<"payable", e>>, posted) >= 0
    BY BooksNow
  <1>3. ASSUME NEW tx \in due
        PROVE  /\ IsPosting(Payout(tx)) /\ Payout(tx).type = "REFERRAL_PAYOUT"
               /\ Payout(tx).ref = <<"payout", tx.ref>>
               /\ \A X \in Aspects : Weight(X, Payout(tx)) = 0
    <2> DEFINE ref == <<"payout", tx.ref>>
    <2>1. tx.amount \in Int
      BY <1>2 DEF Postings, IsPosting
    <2> HIDE DEF ref
    <2>2. /\ IsPosting(Payout(tx)) /\ Payout(tx).type = "REFERRAL_PAYOUT" /\ Payout(tx).ref = ref
          /\ \A X \in Aspects : Weight(X, Payout(tx)) = 0
      BY <1>2, <2>1, PayoutWeighs DEF ref
    <2> QED
      BY <2>2 DEF ref
  <1> HIDE DEF Payout
  <1>4. \A s \in paid : \E tx \in due : s = Payout(tx)
    OBVIOUS
  <1>5. ASSUME NEW s \in paid
        PROVE  /\ IsPosting(s) /\ s.type = "REFERRAL_PAYOUT" /\ s.ref = <<"payout", s.ref[2]>>
               /\ s.ref # B!NoLink /\ s.ref[1] = "payout" /\ s.ref[1] \notin {"trip", "refund"}
               /\ \A X \in Aspects : Weight(X, s) = 0
               /\ \A q \in posted : q.ref # s.ref
    <2>1. PICK tx \in due : s = Payout(tx)
      BY <1>4
    <2>2. /\ IsPosting(s) /\ s.type = "REFERRAL_PAYOUT" /\ s.ref = <<"payout", tx.ref>>
          /\ \A X \in Aspects : Weight(X, s) = 0
      BY <1>3, <2>1
    <2>3. /\ s.ref # B!NoLink /\ s.ref[1] = "payout" /\ s.ref[2] = tx.ref
          /\ s.ref[1] \notin {"trip", "refund"}
      BY <2>2 DEF B!NoLink
    <2> QED
      BY <2>2, <2>3
  <1>6. \A s, q \in paid : s.ref = q.ref => s = q
    <2> SUFFICES ASSUME NEW s \in paid, NEW q \in paid, s.ref = q.ref PROVE s = q
      OBVIOUS
    <2>1. PICK tx \in due : s = Payout(tx)
      BY <1>4
    <2>2. PICK tx2 \in due : q = Payout(tx2)
      BY <1>4
    <2>3. s.ref = <<"payout", tx.ref>> /\ q.ref = <<"payout", tx2.ref>>
      BY <1>3, <2>1, <2>2
    <2>4. tx.ref = tx2.ref
      <3>1. \A r : <<"payout", r>>[2] = r
        OBVIOUS
      <3>2. s.ref[2] = tx.ref
        BY <2>3, <3>1
      <3>3. q.ref[2] = tx2.ref
        BY <2>3, <3>1
      <3> QED
        BY <3>2, <3>3
    <2>5. tx = tx2
      BY <1>2, <2>4 DEF PostedOK, PostedOnce
    <2> QED
      BY <2>1, <2>2, <2>5
  <1>7. IsFiniteSet(P)
    <2>1. IsFiniteSet(due)
      BY <1>2, FS_Subset DEF PostedOK
    <2> HIDE DEF due
    <2>2. IsFiniteSet(paid)
      <3> DEFINE Q == {T1 \in SUBSET due : IsFiniteSet({Payout(tx) : tx \in T1})}
      <3>1. {} \in Q
        <4>1. {Payout(tx) : tx \in {}} = {}
          OBVIOUS
        <4> QED
          BY <4>1, FS_EmptySet
      <3>2. ASSUME NEW T1 \in SUBSET due, NEW x \in due \ T1, T1 \in Q
            PROVE  T1 \cup {x} \in Q
        <4>1. {Payout(tx) : tx \in T1 \cup {x}} = {Payout(tx) : tx \in T1} \cup {Payout(x)}
          OBVIOUS
        <4>2. IsFiniteSet({Payout(tx) : tx \in T1})
          BY <3>2
        <4>3. IsFiniteSet({Payout(tx) : tx \in T1} \cup {Payout(x)})
          BY <4>2, FS_AddElement
        <4>4. IsFiniteSet({Payout(tx) : tx \in T1 \cup {x}})
          BY <4>1, <4>3
        <4>5. T1 \cup {x} \in SUBSET due
          OBVIOUS
        <4> QED
          BY <4>4, <4>5
      <3> HIDE DEF Q
      <3>3. due \in Q
        BY <2>1, <3>1, <3>2, SetInduction
      <3> QED
        BY <3>3 DEF Q
    <2> QED
      BY <1>2, <2>2, FS_Union DEF PostedOK
  <1> HIDE DEF paid, due
  <1>8. PostedOK(P, trips, invoices, withdrawals, others)
    <2>1. PostedOnce(P)
      BY <1>2, <1>5, <1>6 DEF PostedOK, PostedOnce
    <2>2. Reversals(P)
      BY <1>2, <1>5 DEF PostedOK, Reversals
    <2>3. \A s \in paid : Of(s, trips, invoices, withdrawals, others)
      BY <1>5 DEF Of, PaymentTypes
    <2>4. \A s \in P : IsPosting(s) /\ Of(s, trips, invoices, withdrawals, others)
      BY <1>2, <1>5, <2>3 DEF PostedOK
    <2> QED
      BY <1>7, <2>1, <2>2, <2>4 DEF PostedOK
  <1>9. \A X \in Aspects : Posted(X, P) = Posted(X, posted)
    <2>1. Postings(P)
      BY <1>8 DEF PostedOK, Postings
    <2>2. \A X \in Aspects : \A s \in P \ posted : Weight(X, s) = 0
      BY <1>5
    <2>3. posted \subseteq P
      OBVIOUS
    <2> HIDE DEF P
    <2> QED
      BY <1>2, <2>1, <2>2, <2>3, PostedMore
  <1>10. \A s \in P \ posted : s.ref # B!NoLink /\ s.ref[1] # "trip"
    BY <1>5
  <1>11. \A e \in Drivers : <<"payable", e>> \in Aspects
    BY DEF Aspects
  <1>12. posted \subseteq P /\ others <= others
    BY <1>2
  <1> HIDE DEF P
  <1>13. /\ BooksOK(trips, invoices, withdrawals, P, others, today)
         /\ Balanced(trips, invoices, withdrawals, P)
    BY <1>2, <1>8, <1>9, <1>10, <1>11, <1>12, RowsStay
  <1> QED
    BY <1>1, <1>13 DEF BooksInv

-----------------------------------------------------------------------------
(* Trips that end with a posting.                                          *)

\* tx is a payment of a type that is not a swap, a payout or a settlement.
Pays(tx, type, ref, from, d, total, c, x) ==
    /\ IsPosting(tx) /\ tx.type = type /\ tx.ref = ref /\ tx.status = "COMPLETED"
    /\ tx.entries = PaymentEntries(from, d, total, c, x)
    /\ \A X \in Aspects : Weight(X, tx) =
          IF X = <<"revenue", None>> THEN c
          ELSE IF X = <<"wallet", d>> THEN total - c - x ELSE 0

Payer(from, d, total, c, x) ==
    /\ from[1] \in {"RIDER_WALLET", "BUSINESS_WALLET"} /\ d \in Drivers
    /\ total \in Int /\ c \in Int /\ x \in Int

PlainTypes == PaymentTypes \cup {"BUSINESS_INVOICE_PAYMENT", "RIDE_PAYMENT_CASH", "DELIVERY_PAYMENT_CASH",
                                "BUSINESS_DELIVERY_ACCRUAL", "WALLET_WITHDRAWAL"}

LEMMA PaymentWeighs ==
    ASSUME today \in B!Ever, NEW type \in PlainTypes, NEW ref, NEW from, NEW d, NEW total, NEW c, NEW x,
           Payer(from, d, total, c, x), NEW tx, tx = B!Payment(type, ref, from, d, total, c, x)
    PROVE  Pays(tx, type, ref, from, d, total, c, x)
  <1> DEFINE entries == PaymentEntries(from, d, total, c, x)
  <1>1. tx = B!Posting(type, ref, total, entries)
    BY DEF B!Payment, PaymentEntries
  <1>2. tx.type = type /\ tx.ref = ref /\ tx.amount = total /\ tx.entries = entries
    BY <1>1 DEF B!Posting
  <1>3. IsPayment(tx, from, d, total, c, x)
    BY <1>2 DEF IsPayment, Payer
  <1>4. EntriesInt(tx)
    BY <1>3, PaymentEntry
  <1> HIDE DEF entries
  <1>5. \A a \in DOMAIN entries : entries[a] \in Int
    BY <1>2, <1>4 DEF EntriesInt
  <1>6. total \in Int
    BY DEF Payer
  <1>7. IsPosting(tx) /\ tx.status = "COMPLETED"
    BY <1>1, <1>5, <1>6, AmountIs
  <1>8. Plain(tx)
    BY <1>2 DEF Plain, PlainTypes, PaymentTypes
  <1>9. ASSUME NEW X \in Aspects
        PROVE  Weight(X, tx) = IF X = <<"revenue", None>> THEN c
                               ELSE IF X = <<"wallet", d>> THEN total - c - x ELSE 0
    BY <1>3, <1>4, <1>8, PlainWeight, WeighPayment
  <1> QED
    BY <1>2, <1>7, <1>9 DEF Pays, entries

\* tx is a debt of n.
Accrues(tx, type, ref, a, n) ==
    /\ IsPosting(tx) /\ tx.type = type /\ tx.ref = ref /\ tx.status = "COMPLETED"
    /\ \A X \in Aspects : Weight(X, tx) = IF On(X, a) THEN n ELSE 0

LEMMA AccrualWeighs ==
    ASSUME today \in B!Ever, NEW type \in PlainTypes, NEW ref, NEW a, a # B!Clearing, NEW n \in Int,
           NEW tx, tx = B!Accrual(type, ref, a, n)
    PROVE  Accrues(tx, type, ref, a, n)
  <1> DEFINE entries == B!Move(B!Clearing, a, n)
  <1>1. tx = B!Posting(type, ref, n, entries)
    BY DEF B!Accrual
  <1>2. \A e \in DOMAIN entries : entries[e] \in Int
    BY MoveInt
  <1> HIDE DEF entries
  <1>3. IsPosting(tx) /\ tx.type = type /\ tx.ref = ref /\ tx.entries = entries /\ tx.status = "COMPLETED"
    BY <1>1, <1>2, AmountIs
  <1>4. EntriesInt(tx) /\ Plain(tx)
    BY <1>2, <1>3 DEF EntriesInt, Plain, PlainTypes, PaymentTypes
  <1>5. \A X \in Aspects : Weight(X, tx) = IF On(X, a) THEN n ELSE 0
    BY <1>3, <1>4, PlainWeight, WeighAccrual DEF entries
  <1> QED
    BY <1>3, <1>5 DEF Accrues

\* The i-th trip becomes t, and tx is posted.
Ends(i, t, tx, iv) ==
    /\ i \in DOMAIN trips /\ Open(trips[i]) /\ TripOK(i, t) /\ ~ Open(t)
    /\ trips' = [trips EXCEPT ![i] = t]
    /\ IsPosting(tx) /\ OfTrip(tx, i, t) /\ tx.status = "COMPLETED"
    /\ posted' = posted \cup {tx}
    /\ invoices' = iv /\ InvoicesOK(iv, trips') /\ InvoicesGrow(invoices, iv)
    /\ \A j \in DOMAIN trips : PaidByInvoice(j, iv) <=> PaidByInvoice(j, invoices)
    /\ UNCHANGED <<withdrawals, others, today>>

\* What is posted weighs what the rows will say more than before.
TripWeighs(t, tx, iv) ==
    \A X \in Aspects :
        /\ X[1] # "payable" => Weight(X, tx) =
              TripSays(X, t, t.tx = tx.ref, FALSE) + InvoiceSum(X, iv) - InvoiceSum(X, invoices)
        /\ X[1] = "payable" => Weight(X, tx) >= 0

LEMMA TripEnds ==
    ASSUME BooksInv, NEW i, NEW t, NEW tx, NEW iv, Ends(i, t, tx, iv), TripWeighs(t, tx, iv)
    PROVE  BooksInv'
  <1>0. BooksOK(trips, invoices, withdrawals, posted, others, today)
        /\ Balanced(trips, invoices, withdrawals, posted)
    BY DEF BooksInv
  <1>1. TripsOK(trips) /\ InvoicesOK(invoices, trips) /\ withdrawals \in Seq(WithdrawalRows)
        /\ others \in Nat /\ today \in B!Ever /\ SettledOK(posted, withdrawals) /\ Postings(posted)
        /\ PostedOK(posted, trips, invoices, withdrawals, others) /\ Rows(trips, invoices)
    BY BooksNow
  <1>2. /\ i \in DOMAIN trips /\ Open(trips[i]) /\ TripOK(i, t) /\ ~ Open(t)
        /\ trips' = [trips EXCEPT ![i] = t]
        /\ IsPosting(tx) /\ OfTrip(tx, i, t) /\ tx.status = "COMPLETED"
        /\ InvoicesOK(iv, trips') /\ InvoicesGrow(invoices, iv)
        /\ \A j \in DOMAIN trips : PaidByInvoice(j, iv) <=> PaidByInvoice(j, invoices)
    BY DEF Ends
  <1>3. /\ TripsOK(trips') /\ DOMAIN trips' = DOMAIN trips /\ trips'[i] = t
        /\ TripsGrow(trips, trips') /\ \A j \in DOMAIN trips \ {i} : trips'[j] = trips[j]
    BY <1>1, <1>2, TripUpdate
  <1>4. Grow(trips, invoices, withdrawals, others, trips', iv, withdrawals, others)
    BY <1>1, <1>2, <1>3 DEF Grow, WithdrawalsGrow
  <1>5. PostedOK(posted, trips', iv, withdrawals, others)
    BY <1>1, <1>4, PostedGrows
  <1>6. PICK c \in {"trip", "commission", "cancellation"} : tx.ref = <<c, i>>
    BY <1>2 DEF OfTrip
  <1>7. tx.ref[1] = c /\ tx.ref[2] = i /\ tx.ref # B!NoLink /\ tx.ref[1] # "refund"
    BY <1>6 DEF B!NoLink
  <1>8. \A s \in posted : s.ref # tx.ref
    <2>1. \A s \in posted : RefOK(s.ref, trips, invoices, withdrawals, others)
      BY <1>1, RefsAre
    <2> QED
      BY <1>2, <1>7, <2>1 DEF RefOK, Open
  <1> DEFINE P == posted \cup {tx}
  <1>9. PostedOK(P, trips', iv, withdrawals, others)
        /\ \A X \in Aspects : Posted(X, P) = Posted(X, posted) + Weight(X, tx)
    <2>1. Of(tx, trips', iv, withdrawals, others)
      BY <1>2, <1>3 DEF Of
    <2> QED
      BY <1>2, <1>5, <1>7, <1>8, <2>1, AddPosting
  <1>10. SettledOK(P, withdrawals)
    BY <1>1 DEF SettledOK
  <1>11. BooksOK(trips', iv, withdrawals, P, others, today)
    BY <1>1, <1>2, <1>3, <1>9, <1>10 DEF BooksOK
  <1>12. Rows(trips', iv)
    BY <1>2, <1>3 DEF Rows, TripsOK, InvoicesOK
  <1>13. TripsAlike(DOMAIN trips \ {i}, trips, invoices, posted, trips', iv, P)
    <2>1. TripsAlike(DOMAIN trips \ {i}, trips, invoices, posted, trips', iv, posted)
      BY <1>2, <1>3 DEF TripsAlike, PaidTrip
    <2>2. \A j \in DOMAIN trips \ {i} : trips[j].tx # tx.ref
      <3>1. CASE c = "trip"
        BY <1>1, <1>6, <3>1, NotLinkedElsewhere
      <3>2. CASE c # "trip"
        BY <1>1, <1>7, <3>2, NotLinked
      <3> QED
        BY <3>1, <3>2
    <2> QED
      BY <2>1, <2>2, AlikeAdd
  <1>14. /\ PaidTrip(i, t, iv, P) <=> t.tx = tx.ref
         /\ ~ ReversedTrip(t, P)
    <2>1. ~ PaidByInvoice(i, iv)
      BY <1>1, <1>2, UninvoicedIsUnpaid
    <2>2. CASE t.tx = B!NoLink
      <3>1. ~ PaidFor(t, P) /\ ~ ReversedTrip(t, P)
        BY <1>1, <1>9, <2>2, UnlinkedIsUnpaid
      <3> QED
        BY <1>7, <2>1, <2>2, <3>1 DEF PaidTrip
    <2>3. CASE t.tx # B!NoLink
      <3>1. t.tx = <<"trip", i>> /\ t.status = "COMPLETED"
        BY <1>2, <2>3 DEF TripOK
      <3>2. \A s \in posted : s.ref # <<"trip", i>>
        <4>1. \A s \in posted : RefOK(s.ref, trips, invoices, withdrawals, others)
          BY <1>1, RefsAre
        <4>2. <<"trip", i>>[1] = "trip" /\ <<"trip", i>>[2] = i
          OBVIOUS
        <4> QED
          BY <1>2, <4>1, <4>2 DEF RefOK, Open
      <3>3. PaidFor(t, P) <=> t.tx = tx.ref
        BY <1>2, <3>1, <3>2 DEF PaidFor
      <3>4. ~ ReversedTrip(t, P)
        BY <1>2, <3>1, <3>2 DEF ReversedTrip
      <3> QED
        BY <2>1, <3>3, <3>4 DEF PaidTrip
    <2> QED
      BY <2>2, <2>3
  <1> HIDE DEF P
  <1> DEFINE Says(X) == TripSays(X, t, t.tx = tx.ref, FALSE)
  <1>w. \A X \in Aspects :
            /\ X[1] # "payable" => Weight(X, tx) = Says(X) + InvoiceSum(X, iv) - InvoiceSum(X, invoices)
            /\ X[1] = "payable" => Weight(X, tx) >= 0
    BY DEF TripWeighs
  <1>15. ASSUME NEW X \in Aspects
         PROVE  /\ TripSum(X, trips', iv, P) = TripSum(X, trips, invoices, posted) + Says(X)
                /\ Says(X) \in Int
    <2>1. OneChanges(i, trips, invoices, posted, trips', iv, P)
      BY <1>1, <1>2, <1>3, <1>12, <1>13 DEF OneChanges
    <2>2. TripPart(X, trips, invoices, posted, i) = 0
      BY <1>0, <1>2, OpenTrip
    <2>3. TripPart(X, trips', iv, P, i) = Says(X)
      <3>1. /\ PaidTrip(i, t, iv, P) = (t.tx = tx.ref)
            /\ ReversedTrip(t, P) = FALSE
        BY <1>14 DEF PaidTrip, PaidFor, PaidByInvoice, ReversedTrip
      <3>2. TripSays(X, t, PaidTrip(i, t, iv, P), ReversedTrip(t, P))
                = TripSays(X, t, t.tx = tx.ref, FALSE)
        BY <3>1
      <3> QED
        BY <1>3, <3>2 DEF TripPart
    <2>4. /\ TripPart(X, trips, invoices, posted, i) \in Int /\ TripPart(X, trips', iv, P, i) \in Int
          /\ TripSum(X, trips', iv, P) = TripSum(X, trips, invoices, posted)
                + TripPart(X, trips', iv, P, i) - TripPart(X, trips, invoices, posted, i)
      BY <2>1, TripSumChange
    <2>5. TripSum(X, trips, invoices, posted) \in Int
      BY <1>1, TripRowsInt
    <2> HIDE DEF Says
    <2> QED
      BY <2>2, <2>3, <2>4, <2>5
  <1> HIDE DEF Says
  <1>16. ASSUME NEW X \in Aspects
         PROVE  /\ X[1] # "payable" => Posted(X, P) = Said(X, trips', iv, withdrawals, P)
                /\ X[1] = "payable" /\ Posted(X, posted) >= 0 => Posted(X, P) >= 0
    <2>1. /\ Posted(X, P) = Posted(X, posted) + Weight(X, tx)
          /\ Posted(X, posted) \in Int /\ Weight(X, tx) \in Int
      BY <1>1, <1>2, <1>9, WeightsInt, WeightInt
    <2>2. /\ TripSum(X, trips, invoices, posted) \in Int /\ InvoiceSum(X, invoices) \in Int
          /\ InvoiceSum(X, iv) \in Int /\ WithdrawalSum(X, withdrawals) \in Int
      BY <1>1, <1>2, RowsInt DEF Rows, InvoicesOK
    <2>3. Said(X, trips', iv, withdrawals, P) =
              TripSum(X, trips', iv, P) + InvoiceSum(X, iv) + WithdrawalSum(X, withdrawals)
      BY SaidIs
    <2>4. CASE X[1] # "payable"
      <3>1. Posted(X, posted) = TripSum(X, trips, invoices, posted) + InvoiceSum(X, invoices)
                + WithdrawalSum(X, withdrawals)
        BY <1>0, <2>4, SaidIs DEF Balanced
      <3>2. Weight(X, tx) = Says(X) + InvoiceSum(X, iv) - InvoiceSum(X, invoices)
        BY <1>w, <2>4
      <3>3. TripSum(X, trips', iv, P) = TripSum(X, trips, invoices, posted) + Says(X)
            /\ Says(X) \in Int
        BY <1>15
      <3>4. Posted(X, P) = Said(X, trips', iv, withdrawals, P)
        BY <2>1, <2>2, <2>3, <3>1, <3>2, <3>3
      <3> QED
        BY <2>4, <3>4
    <2>5. CASE X[1] = "payable"
      <3>1. Weight(X, tx) >= 0
        BY <1>w, <2>5
      <3> QED
        BY <2>1, <2>5, <3>1
    <2> QED
      BY <2>4, <2>5
  <1>17. Balanced(trips', iv, withdrawals, P)
    <2>1. \A d \in Drivers : <<"payable", d>> \in Aspects /\ <<"payable", d>>[1] = "payable"
      BY DEF Aspects
    <2> QED
      BY <1>0, <1>16, <2>1 DEF Balanced
  <1>18. posted' = P /\ invoices' = iv /\ UNCHANGED <<withdrawals, others, today>>
    BY DEF Ends, P
  <1> QED
    BY <1>11, <1>17, <1>18 DEF BooksInv

\* The row of a trip that ends.
End(i, status1, tx1, fee1) ==
    [trips[i] EXCEPT !.status = status1, !.ended = today, !.tx = tx1, !.fee = fee1]
EndOf(i, t, status1, tx1, fee1) ==
    /\ trips' = [trips EXCEPT ![i] = t] /\ TripOK(i, t) /\ ~ Open(t) /\ Open(trips[i])
    /\ t.status = status1 /\ t.tx = tx1 /\ t.fee = fee1
    /\ t.kind = trips[i].kind /\ t.rider = trips[i].rider /\ t.driver = trips[i].driver
    /\ t.business = trips[i].business /\ t.method = trips[i].method
    /\ t.driver \in Drivers /\ t.kind \in {"RIDE", "DELIVERY"} /\ t.business \in Businesses \cup {None}
    /\ FareOf[t.kind].total \in Nat /\ FareOf[t.kind].commission \in Nat /\ FareOf[t.kind].tax \in Nat

LEMMA EndedIs ==
    ASSUME BooksInv, NEW i \in DOMAIN trips, trips[i].status = "ACCEPTED",
           NEW status1 \in {"COMPLETED", "CANCELLED"}, NEW tx1, NEW fee1 \in {0, Fee.total},
           B!Ended(i, status1, tx1, fee1), fee1 # 0 => status1 = "CANCELLED",
           tx1 = IF status1 = "COMPLETED" /\ trips[i].business = None /\ trips[i].method = "WALLET"
                 THEN <<"trip", i>> ELSE B!NoLink
    PROVE  \E t : EndOf(i, t, status1, tx1, fee1)
  <1> DEFINE t == End(i, status1, tx1, fee1)
  <1>1. TripOK(i, trips[i]) /\ today \in B!Ever /\ trips \in Seq(TripRows)
    BY DEF BooksInv, BooksOK, TripsOK
  <1>2. trips' = [trips EXCEPT ![i] = t]
    BY DEF B!Ended, End
  <1>3. /\ t.status = status1 /\ t.tx = tx1 /\ t.fee = fee1 /\ t.ended = today
        /\ t.kind = trips[i].kind /\ t.rider = trips[i].rider /\ t.driver = trips[i].driver
        /\ t.business = trips[i].business /\ t.method = trips[i].method
    BY <1>1 DEF End, TripOK, TripRows
  <1>4. t \in TripRows
    <2>1. trips[i] \in TripRows
      BY <1>1 DEF TripOK
    <2>2. tx1 \in {B!NoLink} \cup ({"trip"} \X Nat)
      BY <1>1
    <2> QED
      BY ZenonT(60), <1>1, <2>1, <2>2 DEF End, TripRows
  <1>5. t.driver \in Drivers /\ t.kind \in {"RIDE", "DELIVERY"} /\ t.business \in Businesses \cup {None}
    BY <1>1, <1>3 DEF TripOK, TripRows
  <1>6. FareOf[t.kind].total \in Nat /\ FareOf[t.kind].commission \in Nat /\ FareOf[t.kind].tax \in Nat
    BY <1>5, BooksConstants
  <1> HIDE DEF t
  <1>7. TripOK(i, t)
    BY <1>1, <1>3, <1>4, <1>5 DEF TripOK
  <1>8. ~ Open(t) /\ Open(trips[i])
    BY <1>3 DEF Open
  <1> QED
    BY <1>2, <1>3, <1>5, <1>6, <1>7, <1>8 DEF EndOf

\* The invoices stay.
LEMMA EndsKept ==
    ASSUME BooksInv, NEW i \in DOMAIN trips, NEW t, NEW status1, NEW tx1, NEW fee1,
           EndOf(i, t, status1, tx1, fee1),
           NEW tx, IsPosting(tx), OfTrip(tx, i, t), tx.status = "COMPLETED",
           posted' = posted \cup {tx}, UNCHANGED <<invoices, withdrawals, others, today>>,
           \A X \in Aspects :
               /\ X[1] # "payable" => Weight(X, tx) = TripSays(X, t, t.tx = tx.ref, FALSE)
               /\ X[1] = "payable" => Weight(X, tx) >= 0
    PROVE  BooksInv'
  <1>1. /\ trips' = [trips EXCEPT ![i] = t] /\ TripOK(i, t) /\ ~ Open(t) /\ Open(trips[i])
    BY DEF EndOf
  <1>2. TripsOK(trips) /\ InvoicesOK(invoices, trips) /\ invoices \in Seq(InvoiceRows)
        /\ Rows(trips, invoices)
    BY BooksNow DEF InvoicesOK
  <1>3. TripsGrow(trips, trips')
    BY <1>1, <1>2, TripUpdate
  <1>4. InvoicesOK(invoices, trips')
    BY <1>2, <1>3, InvoicesGrowOK
  <1>5. Ends(i, t, tx, invoices)
    BY <1>1, <1>4 DEF Ends, InvoicesGrow
  <1> DEFINE Says(X) == TripSays(X, t, t.tx = tx.ref, FALSE)
  <1>w. \A X \in Aspects : /\ X[1] # "payable" => Weight(X, tx) = Says(X)
                           /\ X[1] = "payable" => Weight(X, tx) >= 0
    OBVIOUS
  <1> HIDE DEF Says
  <1>6. \A X \in Aspects :
               /\ X[1] # "payable" => Weight(X, tx) = Says(X) + InvoiceSum(X, invoices) - InvoiceSum(X, invoices)
               /\ X[1] = "payable" => Weight(X, tx) >= 0
    <2> SUFFICES ASSUME NEW X \in Aspects
                 PROVE  /\ X[1] # "payable" => Weight(X, tx) = Says(X) + InvoiceSum(X, invoices) - InvoiceSum(X, invoices)
                        /\ X[1] = "payable" => Weight(X, tx) >= 0
      OBVIOUS
    <2>1. InvoiceSum(X, invoices) \in Int
      <3>1. withdrawals \in Seq(WithdrawalRows) /\ trips \in Seq(TripRows)
        BY <1>2, BooksNow DEF Rows
      <3> QED
        BY <1>2, <3>1, RowsInt
    <2>2. Weight(X, tx) \in Int
      BY WeightInt
    <2> QED
      BY <1>w, <2>1, <2>2
  <1>7. TripWeighs(t, tx, invoices)
    BY <1>6 DEF TripWeighs, Says
  <1> QED
    BY <1>5, <1>7, TripEnds

LEMMA CompletePaidKept ==
    ASSUME BooksInv, NEW i \in DOMAIN trips, B!CompletePaid(i)
    PROVE  BooksInv'
  <1> DEFINE f == FareOf[trips[i].kind]
             from == B!Rider(trips[i].rider)
             type == B!PaidFromWallet(trips[i].kind)
             ref == <<"trip", i>>
             tx == B!Payment(type, ref, from, trips[i].driver, f.total, f.commission, f.tax)
  <1>1. /\ trips[i].status = "ACCEPTED" /\ trips[i].business = None /\ trips[i].method = "WALLET"
        /\ posted' = posted \cup {tx}
        /\ B!Ended(i, "COMPLETED", tx.ref, 0)
        /\ UNCHANGED <<invoices, withdrawals, others, today>>
    BY DEF B!CompletePaid
  <1>2. tx.ref = ref
    BY SMTT(40) DEF B!Payment, B!Posting
  <1>3. PICK t : EndOf(i, t, "COMPLETED", ref, 0)
    BY <1>1, <1>2, EndedIs
  <1>4. /\ t.status = "COMPLETED" /\ t.tx = ref /\ t.fee = 0
        /\ t.kind = trips[i].kind /\ t.rider = trips[i].rider /\ t.driver = trips[i].driver
        /\ t.business = None /\ t.method = "WALLET"
        /\ t.driver \in Drivers /\ t.kind \in {"RIDE", "DELIVERY"}
        /\ f.total \in Nat /\ f.commission \in Nat /\ f.tax \in Nat
    BY <1>1, <1>3 DEF EndOf
  <1>5. Payer(from, t.driver, f.total, f.commission, f.tax)
    BY <1>4 DEF Payer, B!Rider
  <1>6. type \in PaymentTypes /\ type \in PlainTypes
    BY DEF B!PaidFromWallet, PaymentTypes, PlainTypes
  <1>7. today \in B!Ever
    BY BooksNow
  <1>8. Pays(tx, type, ref, from, t.driver, f.total, f.commission, f.tax)
    BY SMTT(40), <1>4, <1>5, <1>6, <1>7, PaymentWeighs
  <1>9. /\ IsPosting(tx) /\ tx.type = type /\ tx.status = "COMPLETED"
        /\ tx.entries = PaymentEntries(from, t.driver, f.total, f.commission, f.tax)
        /\ \A X \in Aspects : Weight(X, tx) =
              IF X = <<"revenue", None>> THEN f.commission
              ELSE IF X = <<"wallet", t.driver>> THEN f.total - f.commission - f.tax ELSE 0
    BY SMTT(40), <1>8 DEF Pays
  <1>10. OfTrip(tx, i, t)
    BY <1>2, <1>4, <1>6, <1>9 DEF OfTrip
  <1> HIDE DEF tx, type
  <1>11. ASSUME NEW X \in Aspects
         PROVE  /\ X[1] # "payable" => Weight(X, tx) = TripSays(X, t, t.tx = tx.ref, FALSE)
                /\ X[1] = "payable" => Weight(X, tx) >= 0
    <2>1. t.tx = tx.ref /\ Share(t) = f.total - f.commission - f.tax /\ Share(t) \in Int /\ ~ Cash(t)
      BY <1>2, <1>4 DEF Share, Cash
    <2>2. Weight(X, tx) = IF X = <<"revenue", None>> THEN f.commission
              ELSE IF X = <<"wallet", t.driver>> THEN f.total - f.commission - f.tax ELSE 0
      BY <1>9
    <2>3. CASE X = <<"revenue", None>>
      BY <1>4, <2>1, <2>2, <2>3 DEF TripSays
    <2>4. CASE \E d \in Drivers : X = <<"wallet", d>>
      BY <1>4, <2>1, <2>2, <2>4 DEF TripSays
    <2>5. CASE \E d \in Drivers : X = <<"debt", d>>
      BY <1>4, <2>1, <2>2, <2>5 DEF TripSays
    <2>6. CASE \E d \in Drivers : X = <<"payable", d>>
      BY <1>4, <2>1, <2>2, <2>6 DEF TripSays
    <2>7. CASE \E b \in Businesses : X = <<"credit", b>>
      BY <1>4, <2>1, <2>2, <2>7 DEF TripSays
    <2> QED
      BY <2>3, <2>4, <2>5, <2>6, <2>7, AspectIs
  <1> QED
    BY <1>1, <1>3, <1>9, <1>10, <1>11, EndsKept
LEMMA CompleteCashKept ==
    ASSUME BooksInv, NEW i \in DOMAIN trips, B!CompleteCash(i)
    PROVE  BooksInv'
  <1> DEFINE f == FareOf[trips[i].kind]
             type == B!PaidInCash(trips[i].kind)
             ref == <<"commission", i>>
             debt == f.commission + f.tax
             tx == B!Accrual(type, ref, B!Payable(trips[i].driver), debt)
  <1>1. /\ trips[i].status = "ACCEPTED" /\ trips[i].business = None /\ trips[i].method = "CASH"
        /\ posted' = posted \cup {tx}
        /\ B!Ended(i, "COMPLETED", B!NoLink, 0)
        /\ UNCHANGED <<invoices, withdrawals, others, today>>
    BY DEF B!CompleteCash
  <1>3. PICK t : EndOf(i, t, "COMPLETED", B!NoLink, 0)
    BY <1>1, EndedIs
  <1>4. /\ t.status = "COMPLETED" /\ t.tx = B!NoLink /\ t.fee = 0
        /\ t.kind = trips[i].kind /\ t.driver = trips[i].driver
        /\ t.method = "CASH"
        /\ t.driver \in Drivers
        /\ f.total \in Nat /\ f.commission \in Nat /\ f.tax \in Nat
    BY <1>1, <1>3 DEF EndOf
  <1>6. type \notin PaymentTypes /\ type \in PlainTypes
    BY DEF B!PaidInCash, PaymentTypes, PlainTypes
  <1>7. today \in B!Ever
    BY BooksNow
  <1>8. Accrues(tx, type, ref, B!Payable(t.driver), debt)
    <2>1. B!Payable(t.driver) # B!Clearing /\ debt \in Int
      BY SMTT(40), <1>4 DEF B!Payable, B!Clearing
    <2> QED
      BY <1>4, <1>6, <1>7, <2>1, AccrualWeighs
  <1>9. /\ IsPosting(tx) /\ tx.type = type /\ tx.status = "COMPLETED" /\ tx.ref = ref
        /\ \A X \in Aspects : Weight(X, tx) = IF On(X, B!Payable(t.driver)) THEN debt ELSE 0
    BY SMTT(40), <1>8 DEF Accrues
  <1>10. OfTrip(tx, i, t)
    BY <1>4, <1>6, <1>9 DEF OfTrip
  <1> HIDE DEF tx, type
  <1>11. ASSUME NEW X \in Aspects
         PROVE  /\ X[1] # "payable" => Weight(X, tx) = TripSays(X, t, t.tx = tx.ref, FALSE)
                /\ X[1] = "payable" => Weight(X, tx) >= 0
    <2>1. t.tx # tx.ref /\ Cash(t) /\ debt >= 0
      BY <1>4, <1>9 DEF Cash, B!NoLink
    <2>2. Weight(X, tx) = IF X \in {<<"revenue", None>>, <<"debt", t.driver>>, <<"payable", t.driver>>}
                          THEN debt ELSE 0
      <3>1. On(X, B!Payable(t.driver)) <=>
                X \in {<<"revenue", None>>, <<"debt", t.driver>>, <<"payable", t.driver>>}
        BY <1>4, OnIs
      <3> QED
        BY <1>9, <3>1
    <2>3. CASE X = <<"revenue", None>>
      BY <1>4, <2>1, <2>2, <2>3 DEF TripSays
    <2>4. CASE \E d \in Drivers : X = <<"wallet", d>>
      BY <1>4, <2>1, <2>2, <2>4 DEF TripSays
    <2>5. CASE \E d \in Drivers : X = <<"debt", d>>
      BY <1>4, <2>1, <2>2, <2>5 DEF TripSays
    <2>6. CASE \E d \in Drivers : X = <<"payable", d>>
      BY <1>4, <2>1, <2>2, <2>6 DEF TripSays
    <2>7. CASE \E b \in Businesses : X = <<"credit", b>>
      BY <1>4, <2>1, <2>2, <2>7 DEF TripSays
    <2> QED
      BY <2>3, <2>4, <2>5, <2>6, <2>7, AspectIs
  <1> QED
    BY <1>1, <1>3, <1>9, <1>10, <1>11, EndsKept

\* The fee is paid from the customer's wallet, also where a company pays trips.
LEMMA CancelLateKept ==
    ASSUME BooksInv, NEW i \in DOMAIN trips, B!CancelLate(i)
    PROVE  BooksInv'
  <1> DEFINE from == B!Rider(trips[i].rider)
             type == B!PaidFromWallet(trips[i].kind)
             ref == <<"cancellation", i>>
             tx == B!Payment(type, ref, from, trips[i].driver, Fee.total, Fee.commission, 0)
  <1>1. /\ trips[i].status = "ACCEPTED"
        /\ posted' = posted \cup {tx}
        /\ B!Ended(i, "CANCELLED", B!NoLink, Fee.total)
        /\ UNCHANGED <<invoices, withdrawals, others, today>>
    BY DEF B!CancelLate
  <1>3. PICK t : EndOf(i, t, "CANCELLED", B!NoLink, Fee.total)
    BY <1>1, EndedIs
  <1>4. /\ t.status = "CANCELLED" /\ t.tx = B!NoLink /\ t.fee = Fee.total
        /\ t.kind = trips[i].kind /\ t.rider = trips[i].rider /\ t.driver = trips[i].driver
        /\ t.driver \in Drivers
    BY <1>1, <1>3 DEF EndOf
  <1>a. Fee.total \in Nat /\ Fee.commission \in Nat /\ Fee.commission <= Fee.total
    BY BooksConstants
  <1>5. Payer(from, t.driver, Fee.total, Fee.commission, 0)
    BY <1>4, <1>a DEF Payer, B!Rider
  <1>6. type \in PlainTypes
    BY DEF B!PaidFromWallet, PaymentTypes, PlainTypes
  <1>7. today \in B!Ever
    BY BooksNow
  <1>8. Pays(tx, type, ref, from, t.driver, Fee.total, Fee.commission, 0)
    BY <1>4, <1>5, <1>6, <1>7, PaymentWeighs
  <1>9. /\ IsPosting(tx) /\ tx.type = type /\ tx.status = "COMPLETED" /\ tx.ref = ref
        /\ tx.entries = PaymentEntries(from, t.driver, Fee.total, Fee.commission, 0)
        /\ \A X \in Aspects : Weight(X, tx) =
              IF X = <<"revenue", None>> THEN Fee.commission
              ELSE IF X = <<"wallet", t.driver>> THEN Fee.total - Fee.commission - 0 ELSE 0
    BY <1>8 DEF Pays
  <1>10. OfTrip(tx, i, t)
    BY <1>4, <1>9 DEF OfTrip
  <1> HIDE DEF tx, type
  <1>11. ASSUME NEW X \in Aspects
         PROVE  /\ X[1] # "payable" => Weight(X, tx) = TripSays(X, t, t.tx = tx.ref, FALSE)
                /\ X[1] = "payable" => Weight(X, tx) >= 0
    <2>1. t.tx # tx.ref /\ ~ Cash(t)
      BY <1>4, <1>9 DEF Cash, B!NoLink
    <2>a. t.fee > 0 \/ (Fee.total = 0 /\ Fee.commission = 0)
      BY <1>4, <1>a
    <2>2. Weight(X, tx) = IF X = <<"revenue", None>> THEN Fee.commission
              ELSE IF X = <<"wallet", t.driver>> THEN Fee.total - Fee.commission - 0 ELSE 0
      BY <1>9
    <2>3. CASE X = <<"revenue", None>>
      BY <1>4, <1>a, <2>a, <2>1, <2>2, <2>3 DEF TripSays
    <2>4. CASE \E d \in Drivers : X = <<"wallet", d>>
      BY <1>4, <1>a, <2>a, <2>1, <2>2, <2>4 DEF TripSays
    <2>5. CASE \E d \in Drivers : X = <<"debt", d>>
      BY <1>4, <2>1, <2>2, <2>5 DEF TripSays
    <2>6. CASE \E d \in Drivers : X = <<"payable", d>>
      BY <1>4, <2>1, <2>2, <2>6 DEF TripSays
    <2>7. CASE \E b \in Businesses : X = <<"credit", b>>
      BY <1>4, <2>1, <2>2, <2>7 DEF TripSays
    <2> QED
      BY <2>3, <2>4, <2>5, <2>6, <2>7, AspectIs
  <1> QED
    BY <1>1, <1>3, <1>9, <1>10, <1>11, EndsKept

\* A company's delivery: a debt and an invoice, and no revenue yet.
LEMMA CompleteBilledKept ==
    ASSUME BooksInv, NEW i \in DOMAIN trips, B!CompleteBilled(i)
    PROVE  BooksInv'
  <1> DEFINE f == FareOf[trips[i].kind]
             b == trips[i].business
             ref == <<"trip", i>>
             tx == B!Accrual("BUSINESS_DELIVERY_ACCRUAL", ref, B!Credit(b), f.total)
             v == [business |-> b, trip |-> i, status |-> "PENDING",
                   amount |-> f.total, commission |-> f.commission]
             iv == Append(invoices, v)
             n == Len(invoices)
  <1>1. /\ trips[i].status = "ACCEPTED" /\ b # None
        /\ posted' = posted \cup {tx} /\ invoices' = iv
        /\ B!Ended(i, "COMPLETED", B!NoLink, 0)
        /\ UNCHANGED <<withdrawals, others, today>>
    BY DEF B!CompleteBilled
  <1>3. PICK t : EndOf(i, t, "COMPLETED", B!NoLink, 0)
    BY <1>1, EndedIs
  <1>4. /\ t.status = "COMPLETED" /\ t.tx = B!NoLink /\ t.fee = 0
        /\ t.kind = trips[i].kind /\ t.business = b /\ t.driver = trips[i].driver
        /\ t.driver \in Drivers /\ b \in Businesses
        /\ f.total \in Nat /\ f.commission \in Nat /\ f.tax \in Nat
    BY <1>1, <1>3 DEF EndOf
  <1>5. /\ trips' = [trips EXCEPT ![i] = t] /\ TripOK(i, t) /\ ~ Open(t) /\ Open(trips[i])
        /\ t.method = "WALLET"
    BY <1>1, <1>3, <1>4 DEF EndOf, TripOK
  <1>7. /\ today \in B!Ever /\ TripsOK(trips) /\ InvoicesOK(invoices, trips)
        /\ invoices \in Seq(InvoiceRows) /\ Rows(trips, invoices)
    BY BooksNow DEF InvoicesOK
  <1>8. Accrues(tx, "BUSINESS_DELIVERY_ACCRUAL", ref, B!Credit(b), f.total)
    <2>1. B!Credit(b) # B!Clearing /\ f.total \in Int /\ "BUSINESS_DELIVERY_ACCRUAL" \in PlainTypes
      BY <1>4 DEF B!Credit, B!Clearing, PlainTypes
    <2> QED
      BY <1>7, <2>1, AccrualWeighs
  <1>9. /\ IsPosting(tx) /\ tx.type = "BUSINESS_DELIVERY_ACCRUAL" /\ tx.status = "COMPLETED" /\ tx.ref = ref
        /\ \A X \in Aspects : Weight(X, tx) = IF On(X, B!Credit(b)) THEN f.total ELSE 0
    BY <1>8 DEF Accrues
  <1>10. OfTrip(tx, i, t)
    BY <1>4, <1>9 DEF OfTrip
  <1>12. v \in InvoiceRows
    <2>1. i \in Nat
      BY <1>7 DEF TripsOK
    <2> QED
      BY <1>4, <2>1 DEF InvoiceRows
  <1>v. v.business = b /\ v.trip = i /\ v.status = "PENDING" /\ v.amount = f.total /\ v.commission = f.commission
    OBVIOUS
  <1> HIDE DEF tx, v
  <1>13. /\ iv \in Seq(InvoiceRows) /\ DOMAIN iv = DOMAIN invoices \cup {n + 1} /\ n + 1 \notin DOMAIN invoices
         /\ iv[n + 1] = v /\ \A k \in DOMAIN invoices : iv[k] = invoices[k]
    BY <1>7, <1>12
  <1> HIDE DEF iv
  <1>14. /\ trips'[i] = t /\ DOMAIN trips' = DOMAIN trips /\ TripsGrow(trips, trips')
         /\ \A j \in DOMAIN trips \ {i} : trips'[j] = trips[j]
    BY <1>5, <1>7, TripUpdate
  <1>15. InvoicesOK(invoices, trips')
    BY <1>7, <1>14, InvoicesGrowOK
  <1>16. \A k \in DOMAIN invoices : invoices[k].trip # i
    BY <1>5, <1>7 DEF InvoicesOK, Open
  <1>17. InvoicesOK(iv, trips')
    <2>1. ASSUME NEW k \in DOMAIN iv
          PROVE  /\ iv[k].trip \in DOMAIN trips'
                 /\ trips'[iv[k].trip].status = "COMPLETED" /\ trips'[iv[k].trip].business = iv[k].business
                 /\ iv[k].amount = FareOf[trips'[iv[k].trip].kind].total
                 /\ iv[k].commission = FareOf[trips'[iv[k].trip].kind].commission
      <3>1. CASE k \in DOMAIN invoices
        BY <1>13, <1>15, <3>1 DEF InvoicesOK
      <3>2. CASE k = n + 1
        BY <1>4, <1>v, <1>13, <1>14, <3>2
      <3> QED
        BY <1>13, <3>1, <3>2
    <2>2. ASSUME NEW j \in DOMAIN iv, NEW k \in DOMAIN iv, iv[j].trip = iv[k].trip
          PROVE  j = k
      <3>1. j \in DOMAIN invoices \/ j = n + 1
        BY <1>13
      <3>2. k \in DOMAIN invoices \/ k = n + 1
        BY <1>13
      <3> QED
        BY <1>v, <1>13, <1>15, <1>16, <2>2, <3>1, <3>2 DEF InvoicesOK
    <2> QED
      BY <1>13, <2>1, <2>2 DEF InvoicesOK
  <1>18. /\ InvoicesGrow(invoices, iv)
         /\ \A j \in DOMAIN trips : PaidByInvoice(j, iv) <=> PaidByInvoice(j, invoices)
    <2>1. v.status # "PAID"
      BY <1>v
    <2> QED
      BY <1>13, <2>1 DEF InvoicesGrow, PaidByInvoice
  <1>19. Ends(i, t, tx, iv)
    BY <1>1, <1>5, <1>9, <1>10, <1>17, <1>18 DEF Ends
  <1>20. ASSUME NEW X \in Aspects
         PROVE  /\ X[1] # "payable" => Weight(X, tx) =
                     TripSays(X, t, t.tx = tx.ref, FALSE) + InvoiceSum(X, iv) - InvoiceSum(X, invoices)
                /\ X[1] = "payable" => Weight(X, tx) >= 0
    <2>1. t.tx # tx.ref /\ ~ Cash(t)
      BY <1>4, <1>5, <1>9 DEF Cash, B!NoLink
    <2>2. Weight(X, tx) = IF X = <<"credit", b>> THEN f.total ELSE 0
      <3>1. On(X, B!Credit(b)) <=> X = <<"credit", b>>
        BY <1>4, OnIs
      <3> QED
        BY <1>9, <3>1
    <2>3. InvoiceSum(X, iv) = InvoiceSum(X, invoices) + InvoiceSays(X, v) /\ InvoiceSays(X, v) \in Int
      BY <1>7, <1>12, InvoiceSumAppend DEF iv
    <2>4. InvoiceSum(X, invoices) \in Int
      <3>1. withdrawals \in Seq(WithdrawalRows) /\ trips \in Seq(TripRows)
        BY <1>7, BooksNow DEF Rows
      <3> QED
        BY <1>7, <3>1, RowsInt
    <2> SUFFICES ASSUME TRUE
                 PROVE  /\ X[1] # "payable" => Weight(X, tx) =
                             TripSays(X, t, t.tx = tx.ref, FALSE) + InvoiceSays(X, v)
                        /\ X[1] = "payable" => Weight(X, tx) >= 0
      <3> DEFINE says == TripSays(X, t, t.tx = tx.ref, FALSE)
      <3>1. says \in Int
        BY <1>5, TripSaysInt DEF TripOK
      <3> HIDE DEF says
      <3>2. says + InvoiceSum(X, iv) - InvoiceSum(X, invoices) = says + InvoiceSays(X, v)
        BY <2>3, <2>4, <3>1
      <3> QED
        BY <3>2 DEF says
    <2>5. CASE X = <<"revenue", None>>
      BY <1>4, <1>v, <2>1, <2>2, <2>5 DEF TripSays, InvoiceSays
    <2>6. CASE \E d \in Drivers : X = <<"wallet", d>>
      BY <1>4, <1>v, <2>1, <2>2, <2>6 DEF TripSays, InvoiceSays
    <2>7. CASE \E d \in Drivers : X = <<"debt", d>>
      BY <1>4, <1>v, <2>1, <2>2, <2>7 DEF TripSays, InvoiceSays
    <2>8. CASE \E d \in Drivers : X = <<"payable", d>>
      BY <1>4, <2>2, <2>8
    <2>9. CASE \E c \in Businesses : X = <<"credit", c>>
      BY <1>4, <1>v, <2>1, <2>2, <2>9 DEF TripSays, InvoiceSays
    <2> QED
      BY <2>5, <2>6, <2>7, <2>8, <2>9, AspectIs
  <1>21. TripWeighs(t, tx, iv)
    BY <1>20 DEF TripWeighs
  <1> QED
    BY <1>19, <1>21, TripEnds

\* A trip that is paid says more of its driver's wallet.
LEMMA PaidSays ==
    ASSUME NEW X \in Aspects, NEW i, NEW t \in TripRows, NEW iv, NEW P, NEW iv2, NEW P2,
           PaidTrip(i, t, iv2, P2), ~ PaidTrip(i, t, iv, P), ~ ReversedTrip(t, P2), ~ ReversedTrip(t, P)
    PROVE  /\ TripSays(X, t, PaidTrip(i, t, iv2, P2), ReversedTrip(t, P2)) =
                 TripSays(X, t, PaidTrip(i, t, iv, P), ReversedTrip(t, P))
                     + (IF X = <<"wallet", t.driver>> THEN Share(t) ELSE 0)
           /\ Share(t) \in Int
  <1> DEFINE old == TripSays(X, t, PaidTrip(i, t, iv, P), ReversedTrip(t, P))
             new == TripSays(X, t, PaidTrip(i, t, iv2, P2), ReversedTrip(t, P2))
  <1>1. /\ FareOf[t.kind].total \in Nat /\ FareOf[t.kind].commission \in Nat
        /\ FareOf[t.kind].tax \in Nat /\ Fee.commission \in Nat /\ Fee.total \in Nat
    BY BooksConstants DEF TripRows
  <1>2. Share(t) \in Int
    BY <1>1 DEF Share
  <1>3. old \in Int
    BY TripSaysInt
  <1>4. CASE X = <<"wallet", t.driver>>
    <2>1. X[1] = "wallet" /\ X[2] = t.driver
      BY <1>4
    <2>2. new = Share(t) + (IF t.fee > 0 THEN Fee.total - Fee.commission ELSE 0)
      BY <2>1 DEF TripSays
    <2>3. old = 0 + (IF t.fee > 0 THEN Fee.total - Fee.commission ELSE 0)
      BY <2>1 DEF TripSays
    <2> HIDE DEF old, new
    <2>4. new = old + Share(t)
      BY <1>1, <1>2, <2>2, <2>3
    <2> QED
      BY <1>2, <1>4, <2>4 DEF old, new
  <1>5. CASE X # <<"wallet", t.driver>>
    <2>1. X[1] = "wallet" => t.driver # X[2]
      BY <1>5, AspectIs
    <2>2. CASE X[1] = "wallet"
      <3>1. old = 0 /\ new = 0
        BY <2>1, <2>2 DEF TripSays
      <3> HIDE DEF old, new
      <3>2. new = old + 0
        BY <3>1
      <3> QED
        BY <1>2, <1>5, <3>2 DEF old, new
    <2>3. CASE X[1] # "wallet"
      <3>1. new = old
        BY <2>3 DEF TripSays
      <3> HIDE DEF old, new
      <3>2. new = old + 0
        BY <1>3, <3>1
      <3> QED
        BY <1>2, <1>5, <3>2 DEF old, new
    <2> QED
      BY <2>2, <2>3
  <1> QED
    BY <1>4, <1>5

LEMMA PayInvoiceKept ==
    ASSUME BooksInv, NEW k \in DOMAIN invoices, B!PayInvoice(k)
    PROVE  BooksInv'
  <1>0. /\ BooksOK(trips, invoices, withdrawals, posted, others, today)
        /\ Balanced(trips, invoices, withdrawals, posted)
    BY DEF BooksInv
  <1> DEFINE v == invoices[k]
             i == v.trip
             t == trips[i]
             b == v.business
             f == FareOf[t.kind]
             v2 == [v EXCEPT !.status = "PAID"]
             iv == [invoices EXCEPT ![k] = v2]
             pay == B!Payment("BUSINESS_INVOICE_PAYMENT", <<"invoice", k>>, B!Wallet(b), t.driver,
                              v.amount, v.commission, f.tax)
             settle == B!Posting("BUSINESS_INVOICE_PAYMENT", <<"settlement", k>>, v.amount,
                                 B!Move(B!Credit(b), B!Clearing, v.amount))
  <1>1. /\ v.status = "PENDING" /\ posted' = posted \cup {pay, settle} /\ invoices' = iv
        /\ UNCHANGED <<trips, withdrawals, others, today>>
    BY DEF B!PayInvoice
  <1>2. TripsOK(trips) /\ InvoicesOK(invoices, trips) /\ withdrawals \in Seq(WithdrawalRows)
        /\ others \in Nat /\ today \in B!Ever /\ SettledOK(posted, withdrawals) /\ Postings(posted)
        /\ PostedOK(posted, trips, invoices, withdrawals, others) /\ Rows(trips, invoices)
        /\ invoices \in Seq(InvoiceRows)
    BY BooksNow DEF InvoicesOK
  <1>3. /\ i \in DOMAIN trips /\ t.status = "COMPLETED" /\ t.business = b /\ v \in InvoiceRows
        /\ b \in Businesses /\ v.amount = f.total /\ v.commission = f.commission
    <2>1. v \in InvoiceRows
      BY <1>2
    <2>2. b \in Businesses
      BY <2>1 DEF InvoiceRows
    <2> QED
      BY <1>2, <2>1, <2>2 DEF InvoicesOK
  <1>4. /\ TripOK(i, t) /\ t \in TripRows /\ t.driver \in Drivers /\ t.tx = B!NoLink
        /\ t.kind \in {"RIDE", "DELIVERY"}
    <2>1. TripOK(i, t) /\ b # None
      BY <1>2, <1>3, BooksConstants DEF TripsOK
    <2> QED
      BY <1>3, <2>1 DEF TripOK, TripRows
  <1>5. /\ f.total \in Nat /\ f.commission \in Nat /\ f.tax \in Nat
        /\ Share(t) = v.amount - v.commission - f.tax
    BY <1>3, <1>4, BooksConstants DEF Share
  <1>6. /\ v2 \in InvoiceRows /\ v2.status = "PAID" /\ v2.trip = i /\ v2.business = b
        /\ v2.amount = v.amount /\ v2.commission = v.commission
    BY <1>3 DEF InvoiceRows
  <1>7. Pays(pay, "BUSINESS_INVOICE_PAYMENT", <<"invoice", k>>, B!Wallet(b), t.driver,
             v.amount, v.commission, f.tax)
    <2>1. Payer(B!Wallet(b), t.driver, v.amount, v.commission, f.tax)
      BY <1>3, <1>4, <1>5 DEF Payer, B!Wallet
    <2>2. "BUSINESS_INVOICE_PAYMENT" \in PlainTypes
      BY SMTT(40) DEF PlainTypes
    <2> HIDE DEF f, t, b, v
    <2> QED
      BY <1>2, <2>1, <2>2, PaymentWeighs
  <1>8. /\ IsPosting(pay) /\ pay.type = "BUSINESS_INVOICE_PAYMENT" /\ pay.ref = <<"invoice", k>>
        /\ \A X \in Aspects : Weight(X, pay) =
              IF X = <<"revenue", None>> THEN v.commission
              ELSE IF X = <<"wallet", t.driver>> THEN v.amount - v.commission - f.tax ELSE 0
    BY <1>7 DEF Pays
  <1> HIDE DEF pay
  <1>9. /\ IsPosting(settle) /\ settle.type = "BUSINESS_INVOICE_PAYMENT" /\ settle.ref = <<"settlement", k>>
        /\ \A X \in Aspects : Weight(X, settle) = IF X = <<"credit", b>> THEN -v.amount ELSE 0
    <2> DEFINE entries == B!Move(B!Credit(b), B!Clearing, v.amount)
               ref == <<"settlement", k>>
    <2>0. v.amount \in Int
      BY <1>3, <1>5
    <2>1. \A e \in DOMAIN entries : entries[e] \in Int
      BY <2>0, MoveInt
    <2> HIDE DEF entries, ref
    <2>2. settle = B!Posting("BUSINESS_INVOICE_PAYMENT", ref, v.amount, entries)
      BY DEF ref, entries
    <2> HIDE DEF settle, v
    <2>3. /\ IsPosting(settle) /\ settle.type = "BUSINESS_INVOICE_PAYMENT" /\ settle.ref = ref
          /\ settle.entries = entries
      BY <1>2, <2>0, <2>1, <2>2, AmountIs
    <2>4. EntriesInt(settle) /\ Plain(settle)
      BY <2>1, <2>3 DEF EntriesInt, Plain
    <2>5. ASSUME NEW X \in Aspects
          PROVE  Weight(X, settle) = IF X = <<"credit", b>> THEN -v.amount ELSE 0
      <3>1. Weight(X, settle) = Part(X, settle)
        BY <2>4, PlainWeight
      <3>2. B!Credit(b)[1] \in {"DRIVER_WALLET", "BUSINESS_CREDIT_PAYABLE"}
        BY DEF B!Credit
      <3>3. settle.entries = B!Move(B!Credit(b), B!Clearing, v.amount)
        BY <2>3 DEF entries
      <3>4. Part(X, settle) = IF On(X, B!Credit(b)) THEN -v.amount ELSE 0
        BY <2>0, <3>2, <3>3, WeighWithdrawal
      <3>5. On(X, B!Credit(b)) <=> X = <<"credit", b>>
        BY <1>3, OnIs
      <3> QED
        BY <3>1, <3>4, <3>5
    <2> QED
      BY <2>3, <2>5 DEF ref
  <1> HIDE DEF settle, v2
  <1>10. /\ iv \in Seq(InvoiceRows) /\ DOMAIN iv = DOMAIN invoices /\ iv[k] = v2
         /\ \A j \in DOMAIN invoices \ {k} : iv[j] = invoices[j]
    BY <1>2, <1>6, RowUpdate
  <1>i. invoices' = iv
    BY <1>1
  <1> HIDE DEF iv
  <1>11. \A j \in DOMAIN invoices : iv[j].trip = invoices[j].trip /\ iv[j].business = invoices[j].business
            /\ iv[j].amount = invoices[j].amount /\ iv[j].commission = invoices[j].commission
    BY <1>6, <1>10
  <1>12. InvoicesOK(iv, trips)
    BY <1>2, <1>10, <1>11 DEF InvoicesOK
  <1>13. InvoicesGrow(invoices, iv)
    BY <1>1, <1>10 DEF InvoicesGrow
  <1>14. Grow(trips, invoices, withdrawals, others, trips, iv, withdrawals, others)
    BY <1>2, <1>13 DEF Grow, TripsGrow, WithdrawalsGrow
  <1>15. PostedOK(posted, trips, iv, withdrawals, others)
    BY <1>2, <1>14, PostedGrows
  <1>16. \A s \in posted : s.ref # <<"invoice", k>> /\ s.ref # <<"settlement", k>>
    <2>1. \A s \in posted : RefOK(s.ref, trips, invoices, withdrawals, others)
      BY <1>2, RefsAre
    <2>2. \A c : <<c, k>>[1] = c /\ <<c, k>>[2] = k
      OBVIOUS
    <2> QED
      BY ZenonT(60), <1>1, <2>1, <2>2 DEF RefOK
  <1>17. pay.ref[1] = "invoice" /\ settle.ref[1] = "settlement" /\ pay.ref # settle.ref
         /\ pay.ref # B!NoLink /\ settle.ref # B!NoLink
    BY <1>8, <1>9 DEF B!NoLink
  <1>18. Of(pay, trips, iv, withdrawals, others) /\ Of(settle, trips, iv, withdrawals, others)
    <2>1. OfInvoice(pay, k, iv[k]) /\ OfInvoice(settle, k, iv[k])
      BY <1>6, <1>8, <1>9, <1>10 DEF OfInvoice, PaymentTypes
    <2> QED
      BY <1>10, <2>1 DEF Of
  <1> DEFINE P == posted \cup {pay}
             Q == P \cup {settle}
  <1>19. /\ PostedOK(P, trips, iv, withdrawals, others)
         /\ \A X \in Aspects : Posted(X, P) = Posted(X, posted) + Weight(X, pay)
    <2>1. \A s \in posted : s.ref # pay.ref
      BY <1>8, <1>16
    <2> QED
      BY <1>8, <1>15, <1>17, <1>18, <2>1, AddPosting
  <1>20. \A s \in P : s.ref # settle.ref
    BY <1>9, <1>16, <1>17
  <1>21. TripsAlike(DOMAIN trips \ {i}, trips, invoices, posted, trips, iv, Q)
    <2>1. ASSUME NEW j \in DOMAIN trips \ {i}
          PROVE  PaidByInvoice(j, iv) <=> PaidByInvoice(j, invoices)
      BY <1>10, <1>11 DEF PaidByInvoice
    <2>2. TripsAlike(DOMAIN trips \ {i}, trips, invoices, posted, trips, iv, posted)
      BY <2>1 DEF TripsAlike, PaidTrip
    <2>3. /\ \A j \in DOMAIN trips : trips[j].tx # pay.ref
          /\ \A j \in DOMAIN trips : trips[j].tx # settle.ref
      BY <1>2, <1>17, NotLinked
    <2>4. TripsAlike(DOMAIN trips \ {i}, trips, invoices, posted, trips, iv, P)
      BY <2>2, <2>3, AlikeAdd
    <2> QED
      BY <2>3, <2>4, AlikeAdd
  <1> HIDE DEF P
  <1>22. /\ PostedOK(Q, trips, iv, withdrawals, others)
         /\ \A X \in Aspects : Posted(X, Q) = Posted(X, P) + Weight(X, settle)
    BY <1>9, <1>17, <1>18, <1>19, <1>20, AddPosting
  <1>23. posted' = Q
    BY <1>1 DEF P
  <1>24. SettledOK(Q, withdrawals)
    BY <1>2 DEF SettledOK, P
  <1> HIDE DEF Q
  <1>25. BooksOK(trips, iv, withdrawals, Q, others, today)
    BY <1>2, <1>12, <1>22, <1>24 DEF BooksOK
  <1>26. /\ ~ PaidTrip(i, t, invoices, posted) /\ ~ ReversedTrip(t, posted)
         /\ PaidTrip(i, t, iv, Q) /\ ~ ReversedTrip(t, Q)
    <2>1. ~ PaidFor(t, posted) /\ ~ ReversedTrip(t, posted) /\ ~ ReversedTrip(t, Q)
      BY <1>2, <1>4, <1>22, UnlinkedIsUnpaid
    <2>2. ~ PaidByInvoice(i, invoices)
      BY <1>1, <1>2 DEF PaidByInvoice, InvoicesOK
    <2>3. PaidByInvoice(i, iv)
      BY <1>6, <1>10 DEF PaidByInvoice
    <2> QED
      BY <2>1, <2>2, <2>3 DEF PaidTrip
  <1>27. ASSUME NEW X \in Aspects
         PROVE  TripSum(X, trips, iv, Q) = TripSum(X, trips, invoices, posted)
                    + (IF X = <<"wallet", t.driver>> THEN Share(t) ELSE 0)
    <2>1. OneChanges(i, trips, invoices, posted, trips, iv, Q)
      BY <1>2, <1>3, <1>10, <1>21 DEF OneChanges, Rows
    <2>2. /\ TripPart(X, trips, invoices, posted, i) \in Int /\ TripPart(X, trips, iv, Q, i) \in Int
          /\ TripSum(X, trips, iv, Q) = TripSum(X, trips, invoices, posted)
                + TripPart(X, trips, iv, Q, i) - TripPart(X, trips, invoices, posted, i)
      BY <2>1, TripSumChange
    <2>3. /\ TripSays(X, t, PaidTrip(i, t, iv, Q), ReversedTrip(t, Q)) =
                TripSays(X, t, PaidTrip(i, t, invoices, posted), ReversedTrip(t, posted))
                    + (IF X = <<"wallet", t.driver>> THEN Share(t) ELSE 0)
          /\ Share(t) \in Int
      BY <1>4, <1>26, PaidSays
    <2>4. TripPart(X, trips, iv, Q, i) = TripPart(X, trips, invoices, posted, i)
                    + (IF X = <<"wallet", t.driver>> THEN Share(t) ELSE 0)
      BY <2>3 DEF TripPart
    <2>5. TripSum(X, trips, invoices, posted) \in Int
      BY <1>2, TripRowsInt
    <2>6. Share(t) \in Int
      BY <2>3
    <2> QED
      BY <2>2, <2>4, <2>5, <2>6
  <1>28. ASSUME NEW X \in Aspects
         PROVE  InvoiceSum(X, iv) = InvoiceSum(X, invoices)
                    + (IF X = <<"revenue", None>> THEN v.commission
                       ELSE IF X = <<"credit", b>> THEN -v.amount ELSE 0)
    <2>1. /\ InvoiceSays(X, invoices[k]) \in Int /\ InvoiceSays(X, iv[k]) \in Int
          /\ InvoiceSum(X, iv) = InvoiceSum(X, invoices) + InvoiceSays(X, iv[k]) - InvoiceSays(X, invoices[k])
      BY <1>2, <1>10, InvoiceSumChange
    <2>2. InvoiceSays(X, iv[k]) = 0
      BY <1>6, <1>10 DEF InvoiceSays
    <2>3. InvoiceSays(X, invoices[k]) = IF X = <<"revenue", None>> THEN -v.commission
                       ELSE IF X = <<"credit", b>> THEN v.amount ELSE 0
      <3>1. CASE X = <<"revenue", None>>
        BY <1>1, <3>1 DEF InvoiceSays
      <3>2. CASE \E d \in Drivers : X = <<"wallet", d>> \/ X = <<"debt", d>> \/ X = <<"payable", d>>
        BY <3>2 DEF InvoiceSays
      <3>3. CASE \E c \in Businesses : X = <<"credit", c>>
        BY <1>1, <3>3 DEF InvoiceSays
      <3> QED
        BY <3>1, <3>2, <3>3, AspectIs
    <2>4. InvoiceSum(X, invoices) \in Int
      <3>1. trips \in Seq(TripRows)
        BY <1>2 DEF Rows
      <3> QED
        BY <1>2, <3>1, RowsInt
    <2>5. v.commission \in Int /\ v.amount \in Int
      BY <1>3, <1>5
    <2> HIDE DEF v
    <2> QED
      BY <2>1, <2>2, <2>3, <2>4, <2>5 DEF v
  <1>29. ASSUME NEW X \in Aspects
         PROVE  /\ Posted(X, posted) = Said(X, trips, invoices, withdrawals, posted)
                       => Posted(X, Q) = Said(X, trips, iv, withdrawals, Q)
                /\ X[1] = "payable" => Posted(X, Q) = Posted(X, posted)
    <2> DEFINE share == IF X = <<"wallet", t.driver>> THEN Share(t) ELSE 0
               comm == IF X = <<"revenue", None>> THEN v.commission ELSE 0
               debt == IF X = <<"credit", b>> THEN -v.amount ELSE 0
    <2>0. v.commission \in Int /\ v.amount \in Int /\ Share(t) \in Int
      BY <1>3, <1>5
    <2>1. share \in Int /\ comm \in Int /\ debt \in Int
      BY <2>0
    <2>2. Weight(X, pay) = share + comm
      <3>1. X = <<"revenue", None>> => X # <<"wallet", t.driver>>
        OBVIOUS
      <3> QED
        BY <1>5, <1>8, <2>0, <3>1
    <2>3. Weight(X, settle) = debt
      BY <1>9
    <2>4. TripSum(X, trips, iv, Q) = TripSum(X, trips, invoices, posted) + share
      BY <1>27
    <2>5. InvoiceSum(X, iv) = InvoiceSum(X, invoices) + comm + debt
      <3>1. X = <<"revenue", None>> => X # <<"credit", b>>
        OBVIOUS
      <3>2. InvoiceSum(X, invoices) \in Int
        <4>1. trips \in Seq(TripRows)
          BY <1>2 DEF Rows
        <4> QED
          BY <1>2, <4>1, RowsInt
      <3> QED
        BY <1>28, <2>0, <3>1, <3>2
    <2>6. X[1] = "payable" => share + comm = 0 /\ debt = 0
      OBVIOUS
    <2> HIDE DEF share, comm, debt
    <2>7. Posted(X, Q) = Posted(X, posted) + (share + comm) + debt
      BY <1>19, <1>22, <2>2, <2>3
    <2>8. Posted(X, posted) \in Int /\ TripSum(X, trips, invoices, posted) \in Int
          /\ InvoiceSum(X, invoices) \in Int /\ WithdrawalSum(X, withdrawals) \in Int
      <3>1. trips \in Seq(TripRows)
        BY <1>2 DEF Rows
      <3> QED
        BY <1>2, <3>1, RowsInt, WeightsInt
    <2>9. Said(X, trips, iv, withdrawals, Q) = TripSum(X, trips, iv, Q) + InvoiceSum(X, iv)
                + WithdrawalSum(X, withdrawals)
      BY SaidIs
    <2>10. Said(X, trips, invoices, withdrawals, posted) = TripSum(X, trips, invoices, posted)
                + InvoiceSum(X, invoices) + WithdrawalSum(X, withdrawals)
      BY SaidIs
    <2>11. Said(X, trips, iv, withdrawals, Q) =
              Said(X, trips, invoices, withdrawals, posted) + (share + comm) + debt
      BY <2>1, <2>4, <2>5, <2>8, <2>9, <2>10
    <2>12. X[1] = "payable" => Posted(X, Q) = Posted(X, posted)
      BY <2>6, <2>7, <2>8
    <2> QED
      BY <2>7, <2>11, <2>12
  <1>30. Balanced(trips, iv, withdrawals, Q)
    <2>1. \A d \in Drivers : <<"payable", d>> \in Aspects /\ <<"payable", d>>[1] = "payable"
      BY DEF Aspects
    <2> QED
      BY <1>0, <1>29, <2>1 DEF Balanced
  <1> QED
    BY <1>i, <1>1, <1>23, <1>25, <1>30 DEF BooksInv

\* What is taken out of a wallet.
LEMMA WithdrawalWeighs ==
    ASSUME today \in B!Ever, NEW d \in Drivers, NEW ref, NEW n \in Int, NEW tx,
           tx = B!Posting("WALLET_WITHDRAWAL", ref, n, B!Move(B!Driver(d), B!Clearing, n))
    PROVE  /\ IsPosting(tx) /\ tx.type = "WALLET_WITHDRAWAL" /\ tx.ref = ref /\ tx.status = "COMPLETED"
           /\ tx.entries = B!Move(B!Driver(d), B!Clearing, n)
           /\ \A X \in Aspects : Weight(X, tx) = IF X = <<"wallet", d>> THEN -n ELSE 0
  <1> DEFINE entries == B!Move(B!Driver(d), B!Clearing, n)
  <1>1. \A e \in DOMAIN entries : entries[e] \in Int
    BY MoveInt
  <1>2. tx = B!Posting("WALLET_WITHDRAWAL", ref, n, entries)
    OBVIOUS
  <1> HIDE DEF entries
  <1>3. /\ IsPosting(tx) /\ tx.type = "WALLET_WITHDRAWAL" /\ tx.ref = ref /\ tx.status = "COMPLETED"
        /\ tx.entries = entries
    BY <1>1, <1>2, AmountIs
  <1>4. EntriesInt(tx) /\ Plain(tx)
    BY <1>1, <1>3 DEF EntriesInt, Plain
  <1>5. tx.entries = B!Move(B!Driver(d), B!Clearing, n)
    BY <1>3 DEF entries
  <1>6. ASSUME NEW X \in Aspects
        PROVE  Weight(X, tx) = IF X = <<"wallet", d>> THEN -n ELSE 0
    <2>1. Weight(X, tx) = Part(X, tx)
      BY <1>4, PlainWeight
    <2>2. B!Driver(d)[1] \in {"DRIVER_WALLET", "BUSINESS_CREDIT_PAYABLE"}
      BY DEF B!Driver
    <2>3. Part(X, tx) = IF On(X, B!Driver(d)) THEN -n ELSE 0
      BY <1>5, <2>2, WeighWithdrawal
    <2>4. On(X, B!Driver(d)) <=> X = <<"wallet", d>>
      BY OnIs
    <2> QED
      BY <2>1, <2>3, <2>4
  <1> QED
    BY <1>3, <1>5, <1>6

\* A withdrawal: what is owed is settled out of it.
LEMMA WithdrawKept ==
    ASSUME BooksInv, NEW d \in Drivers, NEW n \in Amounts, B!Withdraw(d, n)
    PROVE  BooksInv'
  <1>0. /\ BooksOK(trips, invoices, withdrawals, posted, others, today)
        /\ Balanced(trips, invoices, withdrawals, posted)
    BY DEF BooksInv
  <1> DEFINE debt == Posted(<<"payable", d>>, posted)
             settle == IF debt < n THEN debt ELSE n
             m == Len(withdrawals) + 1
             ref1 == <<"settle", m>>
             ref2 == <<"withdraw", m>>
             tx1 == B!Settlement(d, ref1, settle)
             tx2 == B!Posting("WALLET_WITHDRAWAL", ref2, n, B!Move(B!Driver(d), B!Clearing, n))
             v == [driver |-> d, amount |-> n, settled |-> settle,
                   status |-> IF settle = n THEN "COMPLETED" ELSE "PENDING"]
             wd == Append(withdrawals, v)
             P1 == posted \cup {tx2}
             P2 == IF settle > 0 THEN P1 \cup {tx1} ELSE P1
  <1>1. /\ PostedOK(posted, trips, invoices, withdrawals, others) /\ others \in Nat
        /\ others + 1 \in Nat /\ others <= others + 1 /\ Postings(posted) /\ today \in B!Ever
        /\ \A e \in Drivers : Posted(<<"payable", e>>, posted) >= 0
                                  /\ Posted(<<"payable", e>>, posted) \in Int
        /\ B!Balance(B!Payable(d)) = debt
        /\ TripsOK(trips) /\ InvoicesOK(invoices, trips) /\ withdrawals \in Seq(WithdrawalRows)
        /\ SettledOK(posted, withdrawals) /\ Rows(trips, invoices)
    BY BooksNow
  <1>2. /\ n \in Int /\ n > 0 /\ debt \in Int /\ debt >= 0
        /\ settle \in Int /\ settle >= 0 /\ settle <= debt /\ settle <= n
    BY <1>1, BooksConstants
  <1>3. /\ posted' = P2 /\ others' = others + 1 /\ withdrawals' = wd
        /\ UNCHANGED <<trips, invoices, today>>
    <2>1. B!Least(B!Balance(B!Payable(d)), n) = settle
      BY <1>1 DEF B!Least
    <2>2. \A k \in Int : {1} \cap 1 .. k = IF k > 0 THEN {1} ELSE {}
      OBVIOUS
    <2>3. \A tx : \A k \in Int : {tx : e \in {1} \cap 1 .. k} = IF k > 0 THEN {tx} ELSE {}
      BY <2>2
    <2>4. /\ posted' = posted \cup {tx2} \cup {tx1 : k \in {1} \cap 1 .. settle}
          /\ others' = others + 1 /\ withdrawals' = wd /\ UNCHANGED <<trips, invoices, today>>
      BY <2>1 DEF B!Withdraw, B!Count
    <2> HIDE DEF tx1, tx2, settle
    <2>5. {tx1 : k \in {1} \cap 1 .. settle} = IF settle > 0 THEN {tx1} ELSE {}
      BY <1>2, <2>3
    <2> QED
      BY <2>4, <2>5
  <1>4. /\ m \in Nat /\ m \notin DOMAIN withdrawals
        /\ ref1 # B!NoLink /\ ref1[1] = "settle" /\ \A s \in posted : s.ref # ref1
        /\ ref2 # B!NoLink /\ ref2[1] = "withdraw" /\ \A s \in posted : s.ref # ref2
        /\ ref1 # ref2
    <2>1. m \in Nat /\ m \notin DOMAIN withdrawals
      BY <1>1
    <2>2. \A s \in posted : RefOK(s.ref, trips, invoices, withdrawals, others)
      BY <1>1, RefsAre
    <2> HIDE DEF m
    <2>3. /\ ref1[1] = "settle" /\ ref1[2] = m /\ ref2[1] = "withdraw" /\ ref2[2] = m
          /\ ref1 # B!NoLink /\ ref2 # B!NoLink /\ ref1 # ref2
      BY DEF B!NoLink
    <2> HIDE DEF ref1, ref2
    <2>4. \A s \in posted : s.ref # ref1 /\ s.ref # ref2
      BY <2>1, <2>2, <2>3 DEF RefOK
    <2> QED
      BY <2>1, <2>3, <2>4 DEF m
  <1> HIDE DEF m
  <1>5. /\ IsPosting(tx1) /\ tx1.type = "COMMISSION_SETTLEMENT" /\ tx1.ref = ref1
        /\ tx1.entries = B!Move(B!Payable(d), B!Revenue, settle) /\ tx1.status = "COMPLETED"
        /\ \A X \in Aspects : Weight(X, tx1) =
              IF X = <<"payable", d>> \/ X = <<"debt", d>> THEN -settle ELSE 0
    <2>a. tx1 = B!Settlement(d, ref1, settle)
      OBVIOUS
    <2>b. today \in B!Ever /\ settle \in Int
      BY <1>1, <1>2
    <2> HIDE DEF settle, ref1, tx1
    <2>1. Settles(tx1, d, ref1, settle)
      BY <2>a, <2>b, SettlementWeighs
    <2> QED
      BY <1>4, <2>1 DEF Settles
  <1>6. /\ IsPosting(tx2) /\ tx2.type = "WALLET_WITHDRAWAL" /\ tx2.ref = ref2 /\ tx2.status = "COMPLETED"
        /\ tx2.entries = B!Move(B!Driver(d), B!Clearing, n)
        /\ \A X \in Aspects : Weight(X, tx2) = IF X = <<"wallet", d>> THEN -n ELSE 0
    <2> HIDE DEF ref2
    <2> QED
      BY <1>1, <1>2, WithdrawalWeighs
  <1>7. /\ v \in WithdrawalRows /\ v.driver = d /\ v.amount = n /\ v.settled = settle
        /\ v.status # "FAILED"
    BY <1>2 DEF WithdrawalRows
  <1>8. OfWithdrawal(tx1, m, v) /\ OfWithdrawal(tx2, m, v)
    BY <1>5, <1>6, <1>7 DEF OfWithdrawal
  <1> HIDE DEF tx1, tx2, ref1, ref2, settle, v
  <1>9. /\ wd \in Seq(WithdrawalRows) /\ DOMAIN wd = DOMAIN withdrawals \cup {m} /\ wd[m] = v
        /\ \A k \in DOMAIN withdrawals : wd[k] = withdrawals[k]
    BY <1>1, <1>7 DEF m
  <1>a. \A X \in Aspects : /\ WithdrawalSays(X, v) \in Int
                           /\ WithdrawalSum(X, wd) = WithdrawalSum(X, withdrawals) + WithdrawalSays(X, v)
    BY <1>1, <1>7, WithdrawalSumAppend
  <1> HIDE DEF wd
  <1>10. Grow(trips, invoices, withdrawals, others, trips, invoices, wd, others + 1)
    BY <1>1, <1>9 DEF Grow, WithdrawalsGrow, InvoicesGrow, TripsGrow
  <1>11. PostedOK(posted, trips, invoices, wd, others + 1)
    BY <1>1, <1>10, PostedGrows
  <1>12. Of(tx1, trips, invoices, wd, others + 1) /\ Of(tx2, trips, invoices, wd, others + 1)
    BY <1>8, <1>9 DEF Of
  <1>13. /\ PostedOK(P1, trips, invoices, wd, others + 1)
         /\ \A X \in Aspects : Posted(X, P1) = Posted(X, posted) + Weight(X, tx2)
    BY <1>4, <1>6, <1>11, <1>12, AddPosting
  <1>14. /\ \A s \in P1 : s.ref # ref1
         /\ \A s \in P1 \ posted : s.ref = ref2
         /\ posted \subseteq P1
    BY <1>4, <1>6
  <1> HIDE DEF P1
  <1>15. /\ PostedOK(P2, trips, invoices, wd, others + 1) /\ posted \subseteq P2
         /\ \A s \in P2 \ posted : s.ref \in {ref1, ref2}
         /\ \A X \in Aspects : Posted(X, P2) = Posted(X, P1) + (IF settle > 0 THEN Weight(X, tx1) ELSE 0)
         /\ settle > 0 => tx1 \in P2
    <2>1. CASE settle > 0
      <3>1. /\ PostedOK(P1 \cup {tx1}, trips, invoices, wd, others + 1)
            /\ \A X \in Aspects : Posted(X, P1 \cup {tx1}) = Posted(X, P1) + Weight(X, tx1)
        BY <1>4, <1>5, <1>12, <1>13, <1>14, AddPosting
      <3> QED
        BY <1>5, <1>14, <2>1, <3>1
    <2>2. CASE ~ (settle > 0)
      <3>1. Postings(P1)
        BY <1>13 DEF PostedOK, Postings
      <3>2. \A X \in Aspects : Posted(X, P1) = Posted(X, P1) + 0
        BY <3>1, WeightsInt
      <3> QED
        BY <1>13, <1>14, <2>2, <3>2
    <2> QED
      BY <2>1, <2>2
  <1> HIDE DEF P2
  <1>16. SettledOK(P2, wd)
    <2>1. ASSUME NEW k \in DOMAIN wd, wd[k].settled > 0 PROVE \E tx \in P2 : tx.ref = <<"settle", k>>
      <3>1. CASE k \in DOMAIN withdrawals
        BY <1>1, <1>9, <1>15, <2>1, <3>1 DEF SettledOK
      <3>2. CASE k = m
        BY <1>5, <1>7, <1>9, <1>15, <2>1, <3>2 DEF ref1
      <3> QED
        BY <1>9, <3>1, <3>2
    <2> QED
      BY <2>1 DEF SettledOK
  <1>17. BooksOK(trips, invoices, wd, P2, others + 1, today)
    BY <1>1, <1>9, <1>15, <1>16 DEF BooksOK
  <1>18. TripsAlike(DOMAIN trips, trips, invoices, posted, trips, invoices, P2)
    <2>1. TripsAlike(DOMAIN trips, trips, invoices, posted, trips, invoices, posted)
      BY AlikeNow
    <2>2. \A r \in {ref1, ref2} : \A j \in DOMAIN trips : trips[j].tx # r
      BY <1>1, <1>4, NotLinked
    <2>3. \A tx \in P2 \ posted : \A j \in DOMAIN trips : trips[j].tx # tx.ref
      BY <1>15, <2>2
    <2> QED
      BY <1>15, <2>1, <2>3, AlikeMore
  <1>19. ASSUME NEW X \in Aspects
         PROVE  /\ X[1] # "payable" => Posted(X, P2) = Said(X, trips, invoices, wd, P2)
                /\ X[1] = "payable" => Posted(X, P2) =
                       Posted(X, posted) + (IF X = <<"payable", d>> THEN -settle ELSE 0)
    <2>1. TripSum(X, trips, invoices, P2) = TripSum(X, trips, invoices, posted)
      BY <1>1, <1>18, TripSumSame
    <2>2. Posted(X, posted) \in Int /\ TripSum(X, trips, invoices, posted) \in Int
          /\ InvoiceSum(X, invoices) \in Int /\ WithdrawalSum(X, withdrawals) \in Int
      <3>1. trips \in Seq(TripRows) /\ invoices \in Seq(InvoiceRows)
        BY <1>1 DEF Rows
      <3> QED
        BY <1>1, <3>1, RowsInt, WeightsInt
    <2>3. Said(X, trips, invoices, wd, P2) = TripSum(X, trips, invoices, P2) + InvoiceSum(X, invoices)
                + WithdrawalSum(X, wd)
      BY SaidIs
    <2>4. Said(X, trips, invoices, withdrawals, posted) = TripSum(X, trips, invoices, posted)
                + InvoiceSum(X, invoices) + WithdrawalSum(X, withdrawals)
      BY SaidIs
    <2>5. WithdrawalSum(X, wd) = WithdrawalSum(X, withdrawals) + WithdrawalSays(X, v)
          /\ WithdrawalSays(X, v) \in Int
      BY <1>a
    <2>6. Posted(X, P2) = Posted(X, posted) + (IF X = <<"wallet", d>> THEN -n ELSE 0)
              + (IF X = <<"payable", d>> \/ X = <<"debt", d>> THEN -settle ELSE 0)
      <3>1. Posted(X, P2) = Posted(X, P1) + (IF settle > 0 THEN Weight(X, tx1) ELSE 0)
        BY <1>15
      <3>2. Posted(X, P1) = Posted(X, posted) + (IF X = <<"wallet", d>> THEN -n ELSE 0)
        BY <1>6, <1>13
      <3>3. (IF settle > 0 THEN Weight(X, tx1) ELSE 0) =
                IF X = <<"payable", d>> \/ X = <<"debt", d>> THEN -settle ELSE 0
        BY <1>2, <1>5
      <3> QED
        BY <3>1, <3>2, <3>3
    <2>7. X[1] # "payable" => Posted(X, posted) = Said(X, trips, invoices, withdrawals, posted)
      BY <1>0 DEF Balanced
    <2>8. CASE X[1] = "payable"
      <3>1. X # <<"wallet", d>> /\ X # <<"debt", d>>
        BY <2>8
      <3> QED
        BY <1>2, <2>2, <2>6, <2>8, <3>1
    <2>9. CASE X[1] # "payable"
      <3>1. WithdrawalSays(X, v) = (IF X = <<"wallet", d>> THEN -n ELSE 0)
              + (IF X = <<"debt", d>> THEN -settle ELSE 0)
        <4>1. CASE X = <<"revenue", None>>
          BY <4>1 DEF WithdrawalSays
        <4>2. CASE \E e \in Drivers : X = <<"wallet", e>>
          BY <1>2, <1>7, <4>2 DEF WithdrawalSays
        <4>3. CASE \E e \in Drivers : X = <<"debt", e>>
          BY <1>2, <1>7, <4>3 DEF WithdrawalSays
        <4>4. CASE \E b \in Businesses : X = <<"credit", b>>
          BY <4>4 DEF WithdrawalSays
        <4>5. CASE \E e \in Drivers : X = <<"payable", e>>
          BY <2>9, <4>5
        <4> QED
          BY <4>1, <4>2, <4>3, <4>4, <4>5, AspectIs
      <3>2. X # <<"payable", d>>
        BY <2>9
      <3>3. Posted(X, P2) = Posted(X, posted) + WithdrawalSays(X, v)
        BY <1>2, <2>2, <2>6, <3>1, <3>2
      <3> QED
        BY <2>1, <2>2, <2>3, <2>4, <2>5, <2>7, <2>9, <3>3
    <2> QED
      BY <2>8, <2>9
  <1>20. ASSUME NEW e \in Drivers PROVE Posted(<<"payable", e>>, P2) >= 0
    <2>1. <<"payable", e>> \in Aspects /\ <<"payable", e>>[1] = "payable"
      BY DEF Aspects
    <2>2. Posted(<<"payable", e>>, P2) = Posted(<<"payable", e>>, posted)
              + (IF e = d THEN -settle ELSE 0)
      BY <1>19, <2>1
    <2>3. Posted(<<"payable", e>>, posted) >= 0 /\ Posted(<<"payable", e>>, posted) \in Int
      BY <1>1
    <2>4. CASE e = d
      BY <1>2, <2>2, <2>3, <2>4
    <2>5. CASE e # d
      BY <2>2, <2>3, <2>5
    <2> QED
      BY <2>4, <2>5
  <1>21. Balanced(trips, invoices, wd, P2)
    BY <1>19, <1>20 DEF Balanced
  <1> QED
    BY <1>3, <1>17, <1>21 DEF BooksInv

-----------------------------------------------------------------------------
(* Refunds.                                                                *)

Undo(P, tx, s) == (P \ {tx}) \cup {Reversed(tx), s}

LEMMA RefundIs ==
    ASSUME today \in B!Ever, NEW P, NEW tx, IsPosting(tx)
    PROVE  \E s : RefundOf(tx, s) /\ B!Refunded(P, tx) = Undo(P, tx, s)
  <1> DEFINE entries == [a \in DOMAIN tx.entries |-> -tx.entries[a]]
             ref == <<"refund", tx.ref>>
             s == B!Posting("REFUND", ref, tx.amount, entries)
  <1>1. \A a \in DOMAIN tx.entries : tx.entries[a] \in Int
    BY DEF IsPosting
  <1>2. \A a \in DOMAIN entries : entries[a] \in Int
    BY <1>1
  <1>3. /\ DOMAIN entries = DOMAIN tx.entries
        /\ \A a \in DOMAIN tx.entries : entries[a] = -tx.entries[a]
    OBVIOUS
  <1>4. B!Refunded(P, tx) = Undo(P, tx, s)
    BY DEF B!Refunded, Undo, Reversed
  <1>5. tx.amount \in Int
    BY DEF IsPosting
  <1> HIDE DEF entries, ref
  <1>6. IsPosting(s) /\ s.ref = ref /\ s.type = "REFUND" /\ s.entries = entries
    BY <1>2, <1>5, AmountIs
  <1>7. RefundOf(tx, s)
    BY <1>3, <1>6 DEF RefundOf, ref
  <1> QED
    BY <1>4, <1>7

\* A refund weighs the opposite.
LEMMA RefundWeighs ==
    ASSUME NEW X \in Aspects, NEW tx, IsPosting(tx), NEW s, RefundOf(tx, s)
    PROVE  Weight(X, s) = -Part(X, tx) /\ Part(X, tx) \in Int
  <1>1. EntriesInt(tx) /\ EntriesInt(s) /\ Plain(s)
    BY DEF EntriesInt, IsPosting, RefundOf, Plain
  <1>2. \A a : B!Entry(s, a) = -B!Entry(tx, a) /\ B!Entry(tx, a) \in Int /\ B!Entry(s, a) \in Int
    BY <1>1, EntryInt DEF B!Entry, RefundOf
  <1>3. Weight(X, s) = Part(X, s)
    BY <1>1, PlainWeight
  <1>4. Debts(s) = -Debts(tx) /\ Debts(tx) \in Int
    <2> DEFINE f == [d \in Drivers |-> B!Entry(tx, B!Payable(d))]
               g == [d \in Drivers |-> B!Entry(s, B!Payable(d))]
               h == [d \in Drivers |-> 0]
    <2>1. Ints(f, Drivers) /\ Ints(g, Drivers)
      BY <1>2 DEF Ints
    <2>2. \A d \in Drivers : h[d] = f[d] + g[d] /\ h[d] = 0
      BY <1>2
    <2> HIDE DEF f, g, h
    <2>3. SumFunctionOnSet(h, Drivers) = SumFunctionOnSet(f, Drivers) + SumFunctionOnSet(g, Drivers)
      BY <2>1, <2>2, BooksConstants, SumPlus
    <2>4. SumFunctionOnSet(h, Drivers) = 0
      BY <2>2, BooksConstants, SumZero
    <2>5. SumFunctionOnSet(f, Drivers) \in Int /\ SumFunctionOnSet(g, Drivers) \in Int
      BY <2>1, BooksConstants, SumInt
    <2>6. SumFunctionOnSet(g, Drivers) = -SumFunctionOnSet(f, Drivers)
      BY <2>3, <2>4, <2>5
    <2> QED
      BY <2>5, <2>6 DEF Debts, f, g
  <1>5. Part(X, tx) \in Int
    BY <1>1, PartInt
  <1>6. Part(X, s) = -Part(X, tx)
    <2>1. CASE X[1] = "revenue"
      <3>1. B!Entry(s, B!Revenue) = -B!Entry(tx, B!Revenue) /\ B!Entry(tx, B!Revenue) \in Int
        BY <1>2
      <3> QED
        BY <1>4, <2>1, <3>1 DEF Part
    <2>2. CASE X[1] = "wallet"
      BY <1>2, <2>2 DEF Part
    <2>3. CASE X[1] = "debt"
      BY <1>2, <2>3 DEF Part
    <2>4. CASE X[1] = "payable"
      BY <1>2, <2>4 DEF Part
    <2>5. CASE X[1] = "credit"
      BY <1>2, <2>5 DEF Part
    <2> QED
      BY <2>1, <2>2, <2>3, <2>4, <2>5, AspectIs
  <1> QED
    BY <1>3, <1>5, <1>6

\* Only swaps weigh another thing once they are reversed.
LEMMA ReversedWeighs ==
    ASSUME NEW X \in Aspects, NEW tx, IsPosting(tx), tx.type # "KILOWATT_PAYMENT"
    PROVE  Weight(X, Reversed(tx)) = Weight(X, tx)
  <1>1. /\ Reversed(tx).ref = tx.ref /\ Reversed(tx).type = tx.type
        /\ Reversed(tx).entries = tx.entries /\ Reversed(tx).amount = tx.amount
    BY ReversedIs
  <1>2. \A a : B!Entry(Reversed(tx), a) = B!Entry(tx, a)
    BY <1>1 DEF B!Entry
  <1>3. Debts(Reversed(tx)) = Debts(tx)
    BY <1>2 DEF Debts
  <1>4. Part(X, Reversed(tx)) = Part(X, tx)
    <2>1. CASE X[1] = "revenue"
      <3>1. B!Entry(Reversed(tx), B!Revenue) = B!Entry(tx, B!Revenue)
        BY <1>2
      <3> QED
        BY <1>3, <2>1, <3>1 DEF Part
    <2>2. CASE X[1] = "wallet"
      BY <1>2, <2>2 DEF Part
    <2>3. CASE X[1] = "debt"
      BY <1>2, <2>3 DEF Part
    <2>4. CASE X[1] = "payable"
      BY <1>2, <2>4 DEF Part
    <2>5. CASE X[1] = "credit"
      BY <1>2, <2>5 DEF Part
    <2> QED
      BY <2>1, <2>2, <2>3, <2>4, <2>5, AspectIs
  <1>5. Aside(X, Reversed(tx)) = Aside(X, tx)
    BY <1>1 DEF Aside, Swap, PayoutTo, SettledByTopUp
  <1> QED
    BY <1>4, <1>5 DEF Weight

\* What is undone can be undone.
Undoable(P, tx, s, tr, iv, wd, n) ==
    /\ PostedOK(P, tr, iv, wd, n) /\ TripsOK(tr) /\ n \in Nat
    /\ tx \in P /\ tx.status = "COMPLETED" /\ tx.type # "KILOWATT_PAYMENT"
    /\ Of(Reversed(tx), tr, iv, wd, n) /\ RefundOf(tx, s)

LEMMA UndoOK ==
    ASSUME NEW P, NEW tx, NEW s, NEW tr, NEW iv, NEW wd, NEW n, Undoable(P, tx, s, tr, iv, wd, n)
    PROVE  /\ PostedOK(Undo(P, tx, s), tr, iv, wd, n)
           /\ \A X \in Aspects : /\ Posted(X, Undo(P, tx, s)) = Posted(X, P) - Part(X, tx)
                                 /\ Posted(X, P) \in Int /\ Part(X, tx) \in Int
           /\ P \ {tx} \subseteq Undo(P, tx, s) /\ Reversed(tx) \in Undo(P, tx, s)
           /\ \A q \in P : \E p \in Undo(P, tx, s) : p.ref = q.ref
           /\ \A q \in Undo(P, tx, s) \ P : q.ref \in {tx.ref, <<"refund", tx.ref>>}
  <1> USE DEF Undoable
  <1> DEFINE r == Reversed(tx)
             Q == (P \ {tx}) \cup {r}
             U1 == Undo(P, tx, s)
  <1>1. IsPosting(tx) /\ IsPosting(s) /\ Postings(P) /\ s.ref = <<"refund", tx.ref>>
    BY DEF PostedOK, Postings, RefundOf
  <1>2. IsPosting(r) /\ r.ref = tx.ref
    BY <1>1, ReversedIs
  <1>3. /\ PostedOK(U1, tr, iv, wd, n) /\ r \notin P /\ s \notin P /\ r # s
    BY PostedRefundOK DEF Undo
  <1>4. U1 = Q \cup {s} /\ s \notin Q
    BY <1>3 DEF Undo
  <1> HIDE DEF r, Q, U1, Undoable
  <1>5. ASSUME NEW X \in Aspects
        PROVE  Posted(X, U1) = Posted(X, P) - Part(X, tx) /\ Posted(X, P) \in Int /\ Part(X, tx) \in Int
    <2>1. Weight(X, r) = Weight(X, tx)
      BY <1>1, ReversedWeighs DEF r, Undoable
    <2>2. /\ Postings((P \ {tx}) \cup {r}) /\ Posted(X, (P \ {tx}) \cup {r}) = Posted(X, P)
      BY <1>1, <1>2, <1>3, <2>1, PostedReplace DEF Undoable
    <2>3. Postings(Q) /\ Posted(X, Q) = Posted(X, P)
      BY <2>2 DEF Q
    <2>4. Posted(X, Q \cup {s}) = Posted(X, Q) + Weight(X, s)
      BY <1>1, <1>4, <2>3, PostedAdd
    <2>5. Weight(X, s) = -Part(X, tx) /\ Part(X, tx) \in Int
      BY <1>1, RefundWeighs DEF Undoable
    <2>6. Posted(X, P) \in Int
      BY <1>1, WeightsInt
    <2> QED
      BY <1>4, <2>3, <2>4, <2>5, <2>6
  <1>6. P \ {tx} \subseteq U1 /\ r \in U1
    BY <1>4 DEF Q
  <1>7. \A q \in P : \E p \in U1 : p.ref = q.ref
    BY <1>2, <1>6
  <1>8. \A q \in U1 \ P : q.ref \in {tx.ref, <<"refund", tx.ref>>}
    BY <1>1, <1>2, <1>4 DEF Q
  <1> QED
    BY <1>3, <1>5, <1>6, <1>7, <1>8 DEF r, U1

\* Trips that are not linked to what is undone.
LEMMA UndoAlike ==
    ASSUME NEW P, NEW tx, NEW s, NEW tr, NEW iv, NEW wd, NEW n, Undoable(P, tx, s, tr, iv, wd, n),
           NEW S, S \subseteq DOMAIN tr, \A j \in S : tr[j].tx # tx.ref,
           NEW iv0, NEW P0, NEW iv2, TripsAlike(S, tr, iv0, P0, tr, iv2, P)
    PROVE  TripsAlike(S, tr, iv0, P0, tr, iv2, Undo(P, tx, s))
  <1> DEFINE U1 == Undo(P, tx, s)
  <1>1. s.ref = <<"refund", tx.ref>> /\ s.ref # B!NoLink /\ s.ref[1] = "refund" /\ TripsOK(tr) /\ IsPosting(tx)
    BY DEF RefundOf, B!NoLink, Undoable, PostedOK
  <1>2. \A j \in S : tr[j].tx # s.ref
    BY <1>1, NotLinked
  <1>3. Reversed(tx).ref = tx.ref
    BY <1>1, ReversedIs
  <1>4. \A q : \A j \in S : q.ref = tr[j].tx => (q \in U1 <=> q \in P)
    BY <1>2, <1>3 DEF Undo
  <1> HIDE DEF U1
  <1>5. ASSUME NEW j \in S
        PROVE  /\ PaidFor(tr[j], U1) <=> PaidFor(tr[j], P)
               /\ ReversedTrip(tr[j], U1) <=> ReversedTrip(tr[j], P)
    BY <1>4 DEF PaidFor, ReversedTrip
  <1>6. TripsAlike(S, tr, iv0, P0, tr, iv2, U1)
    BY <1>5 DEF TripsAlike, PaidTrip
  <1> QED
    BY <1>6 DEF U1

\* A trip that is not paid any more says less.
Unpays(i, t, iv, P, P2) ==
    /\ t \in TripRows /\ t.status = "COMPLETED"
    /\ PaidTrip(i, t, iv, P) /\ ~ PaidTrip(i, t, iv, P2)
    /\ ReversedTrip(t, P2) /\ ~ ReversedTrip(t, P)

LEMMA UnpaidSays ==
    ASSUME NEW i, NEW t, NEW iv, NEW P, NEW P2, Unpays(i, t, iv, P, P2), NEW X \in Aspects
    PROVE  /\ TripSays(X, t, PaidTrip(i, t, iv, P2), ReversedTrip(t, P2)) =
                 TripSays(X, t, PaidTrip(i, t, iv, P), ReversedTrip(t, P))
                     - (IF X = <<"wallet", t.driver>> THEN Share(t) ELSE
                        IF X = <<"revenue", None>> THEN FareOf[t.kind].commission ELSE 0)
           /\ Share(t) \in Int /\ FareOf[t.kind].commission \in Int
  <1>0. /\ t \in TripRows /\ t.status = "COMPLETED"
        /\ PaidTrip(i, t, iv, P) /\ ~ PaidTrip(i, t, iv, P2)
        /\ ReversedTrip(t, P2) /\ ~ ReversedTrip(t, P)
    BY DEF Unpays
  <1> DEFINE old == TripSays(X, t, PaidTrip(i, t, iv, P), ReversedTrip(t, P))
             new == TripSays(X, t, PaidTrip(i, t, iv, P2), ReversedTrip(t, P2))
             fee == IF t.fee > 0 THEN Fee.total - Fee.commission ELSE 0
             rest == (IF Cash(t) THEN FareOf[t.kind].tax ELSE 0) + (IF t.fee > 0 THEN Fee.commission ELSE 0)
             c == FareOf[t.kind].commission
  <1>1. /\ FareOf[t.kind].total \in Nat /\ FareOf[t.kind].commission \in Nat
        /\ FareOf[t.kind].tax \in Nat /\ Fee.commission \in Nat /\ Fee.total \in Nat
    BY <1>0, BooksConstants DEF TripRows
  <1>2. Share(t) \in Int /\ fee \in Int /\ rest \in Int /\ c \in Int
    BY <1>1 DEF Share
  <1>3. old \in Int
    BY <1>0, TripSaysInt
  <1>4. CASE X = <<"wallet", t.driver>>
    <2>1. X[1] = "wallet" /\ X[2] = t.driver /\ X # <<"revenue", None>>
      BY <1>4
    <2>2. old = Share(t) + fee
      BY <1>0, <2>1 DEF TripSays
    <2>3. new = 0 + fee
      BY <1>0, <2>1 DEF TripSays
    <2> HIDE DEF old, new, fee
    <2>4. new = old - Share(t)
      BY <1>2, <2>2, <2>3
    <2> QED
      BY <1>1, <1>2, <1>4, <2>4 DEF old, new
  <1>5. CASE X = <<"revenue", None>>
    <2>1. X[1] = "revenue" /\ X # <<"wallet", t.driver>>
      BY <1>5
    <2>2. old = c - 0 + (IF Cash(t) THEN FareOf[t.kind].tax ELSE 0) + (IF t.fee > 0 THEN Fee.commission ELSE 0)
      BY <1>0, <2>1 DEF TripSays
    <2>3. new = c - c + (IF Cash(t) THEN FareOf[t.kind].tax ELSE 0) + (IF t.fee > 0 THEN Fee.commission ELSE 0)
      BY <1>0, <2>1 DEF TripSays
    <2> HIDE DEF old, new, c
    <2>4. new = old - c
      BY <1>1, <1>2, <2>2, <2>3
    <2> QED
      BY <1>1, <1>2, <1>5, <2>1, <2>4 DEF old, new, c
  <1>6. CASE X # <<"wallet", t.driver>> /\ X # <<"revenue", None>>
    <2>1. (X[1] = "wallet" => t.driver # X[2]) /\ X[1] # "revenue"
      BY <1>6, AspectIs
    <2>2. CASE X[1] = "wallet"
      <3>1. old = 0 /\ new = 0
        BY <1>0, <2>1, <2>2 DEF TripSays
      <3> HIDE DEF old, new
      <3>2. new = old - 0
        BY <3>1
      <3> QED
        BY <1>1, <1>2, <1>6, <3>2 DEF old, new
    <2>3. CASE X[1] # "wallet"
      <3>1. new = old
        BY <1>0, <2>1, <2>3 DEF TripSays
      <3> HIDE DEF old, new
      <3>2. new = old - 0
        BY <1>3, <3>1
      <3> QED
        BY <1>1, <1>2, <1>6, <3>2 DEF old, new
    <2> QED
      BY <2>2, <2>3
  <1> QED
    BY <1>4, <1>5, <1>6

LEMMA RefundKept ==
    ASSUME BooksInv, NEW i \in DOMAIN trips, B!Refund(i)
    PROVE  BooksInv'
  <1>0. /\ BooksOK(trips, invoices, withdrawals, posted, others, today)
        /\ Balanced(trips, invoices, withdrawals, posted)
    BY DEF BooksInv
  <1>1. TripsOK(trips) /\ InvoicesOK(invoices, trips) /\ withdrawals \in Seq(WithdrawalRows)
        /\ others \in Nat /\ today \in B!Ever /\ SettledOK(posted, withdrawals) /\ Postings(posted)
        /\ PostedOK(posted, trips, invoices, withdrawals, others) /\ Rows(trips, invoices)
        /\ invoices \in Seq(InvoiceRows)
    BY BooksNow DEF InvoicesOK
  <1>2. /\ UNCHANGED <<trips, invoices, withdrawals, others, today>>
        /\ \E tx \in posted : tx.ref = trips[i].tx /\ tx.status = "COMPLETED"
                                 /\ posted' = B!Refunded(posted, tx)
    BY DEF B!Refund, B!CanRefund
  <1>3. PICK tx \in posted : tx.ref = trips[i].tx /\ tx.status = "COMPLETED"
                                 /\ posted' = B!Refunded(posted, tx)
    BY <1>2
  <1> DEFINE t == trips[i]
             f == FareOf[t.kind]
  <1>4. /\ tx.ref = <<"trip", i>> /\ t.status = "COMPLETED"
        /\ t.business = None /\ t.method = "WALLET" /\ tx.type \in PaymentTypes
        /\ tx.entries = PaymentEntries(B!Rider(t.rider), t.driver, f.total, f.commission, f.tax)
    BY <1>1, <1>3, LinkIs
  <1>5. t.tx = <<"trip", i>> /\ IsPosting(tx)
    BY <1>1, <1>3, <1>4 DEF PostedOK
  <1>6. t \in TripRows /\ t.driver \in Drivers /\ t.kind \in {"RIDE", "DELIVERY"}
    <2>1. TripOK(i, t)
      BY <1>1 DEF TripsOK
    <2> QED
      BY <1>4, <2>1 DEF TripOK, TripRows
  <1>7. f.total \in Int /\ f.commission \in Int /\ f.tax \in Int /\ Share(t) = f.total - f.commission - f.tax
    BY <1>6, BooksConstants DEF Share
  <1>8. PICK s : RefundOf(tx, s) /\ B!Refunded(posted, tx) = Undo(posted, tx, s)
    BY <1>1, <1>5, RefundIs
  <1> DEFINE P == Undo(posted, tx, s)
  <1>9. Reversed(tx).ref = tx.ref /\ Reversed(tx).type = tx.type /\ Reversed(tx).entries = tx.entries
        /\ Reversed(tx).status = "REVERSED"
    BY <1>5, ReversedIs
  <1>10. OfTrip(Reversed(tx), i, t)
    BY <1>4, <1>5, <1>9 DEF OfTrip
  <1>11. Undoable(posted, tx, s, trips, invoices, withdrawals, others)
    <2>1. Of(Reversed(tx), trips, invoices, withdrawals, others)
      BY <1>10 DEF Of
    <2>2. tx.type # "KILOWATT_PAYMENT"
      BY <1>4 DEF PaymentTypes
    <2> QED
      BY <1>1, <1>3, <1>8, <2>1, <2>2 DEF Undoable
  <1>12. /\ PostedOK(P, trips, invoices, withdrawals, others)
         /\ \A X \in Aspects : /\ Posted(X, P) = Posted(X, posted) - Part(X, tx)
                               /\ Posted(X, posted) \in Int /\ Part(X, tx) \in Int
         /\ posted \ {tx} \subseteq P /\ Reversed(tx) \in P
         /\ \A q \in posted : \E p \in P : p.ref = q.ref
    BY <1>11, UndoOK
  <1>13. \A X \in Aspects : Part(X, tx) = IF X = <<"revenue", None>> THEN f.commission
                         ELSE IF X = <<"wallet", t.driver>> THEN f.total - f.commission - f.tax ELSE 0
    <2> DEFINE from == B!Rider(t.rider)
    <2>1. from[1] \in {"RIDER_WALLET", "BUSINESS_WALLET"}
      BY DEF B!Rider
    <2> HIDE DEF from
    <2>2. IsPayment(tx, from, t.driver, f.total, f.commission, f.tax)
      BY <1>4, <1>6, <1>7, <2>1 DEF IsPayment, from
    <2> QED
      BY <2>2, WeighPayment
  <1> HIDE DEF P
  <1>14. TripsAlike(DOMAIN trips \ {i}, trips, invoices, posted, trips, invoices, P)
    <2>1. TripsAlike(DOMAIN trips \ {i}, trips, invoices, posted, trips, invoices, posted)
      BY AlikeNow
    <2>2. \A j \in DOMAIN trips \ {i} : trips[j].tx # tx.ref
      BY <1>1, <1>4, NotLinkedElsewhere
    <2>3. DOMAIN trips \ {i} \subseteq DOMAIN trips
      OBVIOUS
    <2> QED
      BY <1>11, <2>1, <2>2, <2>3, UndoAlike DEF P
  <1>15. /\ PaidTrip(i, t, invoices, posted) /\ ~ ReversedTrip(t, posted)
         /\ ~ PaidTrip(i, t, invoices, P) /\ ReversedTrip(t, P)
    <2>1. \A q \in posted : q.ref = t.tx => q = tx
      BY <1>1, <1>3 DEF PostedOK, PostedOnce
    <2>2. PaidFor(t, posted) /\ ~ ReversedTrip(t, posted)
      BY <1>3, <2>1 DEF PaidFor, ReversedTrip
    <2>3. \A q \in P : q.ref = t.tx => q = Reversed(tx)
      BY <1>3, <1>9, <1>12 DEF PostedOK, PostedOnce
    <2>4. ~ PaidFor(t, P) /\ ReversedTrip(t, P)
      BY <1>3, <1>9, <1>12, <2>3 DEF PaidFor, ReversedTrip
    <2>5. ~ PaidByInvoice(i, invoices)
      <3>1. \A k \in DOMAIN invoices : invoices[k].business \in Businesses
        <4>1. \A k \in DOMAIN invoices : invoices[k] \in InvoiceRows
          BY <1>1
        <4> QED
          BY <4>1 DEF InvoiceRows
      <3> QED
        BY <1>1, <1>4, <3>1, BooksConstants DEF InvoicesOK, PaidByInvoice
    <2> QED
      BY <2>2, <2>4, <2>5 DEF PaidTrip
  <1>16. SettledOK(P, withdrawals)
    BY <1>1, <1>12 DEF SettledOK
  <1>17. BooksOK(trips, invoices, withdrawals, P, others, today)
    BY <1>1, <1>12, <1>16 DEF BooksOK
  <1>18. ASSUME NEW X \in Aspects
         PROVE  /\ TripSum(X, trips, invoices, P) = TripSum(X, trips, invoices, posted) - Part(X, tx)
                /\ X[1] = "payable" => Part(X, tx) = 0
    <2> DEFINE share == IF X = <<"wallet", t.driver>> THEN Share(t) ELSE
                        IF X = <<"revenue", None>> THEN f.commission ELSE 0
    <2>1. OneChanges(i, trips, invoices, posted, trips, invoices, P)
      BY <1>1, <1>14 DEF OneChanges
    <2>2. /\ TripPart(X, trips, invoices, posted, i) \in Int /\ TripPart(X, trips, invoices, P, i) \in Int
          /\ TripSum(X, trips, invoices, P) = TripSum(X, trips, invoices, posted)
                + TripPart(X, trips, invoices, P, i) - TripPart(X, trips, invoices, posted, i)
      BY <2>1, TripSumChange
    <2>3. TripSays(X, t, PaidTrip(i, t, invoices, P), ReversedTrip(t, P)) =
                 TripSays(X, t, PaidTrip(i, t, invoices, posted), ReversedTrip(t, posted)) - share
          /\ Share(t) \in Int
      <3>1. t.status = "COMPLETED" /\ t \in TripRows
        BY <1>4, <1>6
      <3> HIDE DEF t, f
      <3>a. Unpays(i, t, invoices, posted, P)
        BY <1>15, <3>1 DEF Unpays
      <3>2. TripSays(X, t, PaidTrip(i, t, invoices, P), ReversedTrip(t, P)) =
                 TripSays(X, t, PaidTrip(i, t, invoices, posted), ReversedTrip(t, posted))
                     - (IF X = <<"wallet", t.driver>> THEN Share(t) ELSE
                        IF X = <<"revenue", None>> THEN FareOf[t.kind].commission ELSE 0)
            /\ Share(t) \in Int /\ FareOf[t.kind].commission \in Int
        BY <3>a, UnpaidSays
      <3> QED
        BY <3>2 DEF f
    <2>4. TripPart(X, trips, invoices, P, i) = TripPart(X, trips, invoices, posted, i) - share
      BY <2>3 DEF TripPart
    <2>5. share = Part(X, tx)
      <3>1. X = <<"wallet", t.driver>> => X # <<"revenue", None>>
        OBVIOUS
      <3> QED
        BY <1>7, <1>13, <3>1
    <2>6. TripSum(X, trips, invoices, posted) \in Int
      BY <1>1, TripRowsInt
    <2>7. X[1] = "payable" => Part(X, tx) = 0
      BY <1>13
    <2>8. share \in Int
      BY <1>7
    <2> HIDE DEF share
    <2> QED
      BY <2>2, <2>4, <2>5, <2>6, <2>7, <2>8
  <1>19. ASSUME NEW X \in Aspects
         PROVE  /\ Posted(X, posted) = Said(X, trips, invoices, withdrawals, posted)
                      => Posted(X, P) = Said(X, trips, invoices, withdrawals, P)
                /\ X[1] = "payable" => Posted(X, P) = Posted(X, posted)
    <2>1. Posted(X, posted) \in Int /\ TripSum(X, trips, invoices, posted) \in Int
          /\ InvoiceSum(X, invoices) \in Int /\ WithdrawalSum(X, withdrawals) \in Int
          /\ Part(X, tx) \in Int
      <3>1. trips \in Seq(TripRows)
        BY <1>1 DEF Rows
      <3> QED
        BY <1>1, <1>12, <3>1, RowsInt
    <2>2. Posted(X, P) = Posted(X, posted) - Part(X, tx)
      BY <1>12
    <2>3. Said(X, trips, invoices, withdrawals, P) = TripSum(X, trips, invoices, P) + InvoiceSum(X, invoices)
                + WithdrawalSum(X, withdrawals)
      BY SaidIs
    <2>4. Said(X, trips, invoices, withdrawals, posted) = TripSum(X, trips, invoices, posted)
                + InvoiceSum(X, invoices) + WithdrawalSum(X, withdrawals)
      BY SaidIs
    <2>5. TripSum(X, trips, invoices, P) = TripSum(X, trips, invoices, posted) - Part(X, tx)
          /\ (X[1] = "payable" => Part(X, tx) = 0)
      BY <1>18
    <2> QED
      BY <2>1, <2>2, <2>3, <2>4, <2>5
  <1>20. Balanced(trips, invoices, withdrawals, P)
    <2>1. \A d \in Drivers : <<"payable", d>> \in Aspects /\ <<"payable", d>>[1] = "payable"
      BY DEF Aspects
    <2> QED
      BY <1>0, <1>19, <2>1 DEF Balanced
  <1>21. posted' = P
    BY <1>3, <1>8 DEF P
  <1> QED
    BY <1>2, <1>17, <1>20, <1>21 DEF BooksInv

\* A withdrawal's own postings.
\* A reference to a withdrawal is of one.
LEMMA WithdrawalFound ==
    ASSUME NEW P, NEW tr, NEW iv, NEW wd, NEW n, PostedOK(P, tr, iv, wd, n),
           NEW tx \in P, tx.ref[1] \in {"withdraw", "settle"}
    PROVE  \E w \in DOMAIN wd : OfWithdrawal(tx, w, wd[w])
  <1>0. Of(tx, tr, iv, wd, n)
    BY DEF PostedOK
  <1>1. tx.ref[1] \notin {"trip", "commission", "cancellation", "invoice", "settlement", "topup",
                         "settle topup", "swap", "referral", "payout", "refund"}
    OBVIOUS
  <1>2. ASSUME NEW i \in DOMAIN tr, OfTrip(tx, i, tr[i]) PROVE FALSE
    <2>1. PICK e \in {"trip", "commission", "cancellation"} : tx.ref = <<e, i>>
      BY <1>2 DEF OfTrip
    <2>2. tx.ref[1] = e
      BY <2>1
    <2> QED
      BY <1>1, <2>2
  <1>3. ASSUME NEW k \in DOMAIN iv, OfInvoice(tx, k, iv[k]) PROVE FALSE
    <2>1. PICK e \in {"invoice", "settlement"} : tx.ref = <<e, k>>
      BY <1>3 DEF OfInvoice
    <2>2. tx.ref[1] = e
      BY <2>1
    <2> QED
      BY <1>1, <2>2
  <1>4. ASSUME NEW m \in 0 .. n - 1, OfOther(tx, m) PROVE FALSE
    <2>1. CASE tx.ref \in {<<"topup", m>>, <<"settle topup", m>>, <<"swap", m>>}
      <3>1. PICK e \in {"topup", "settle topup", "swap"} : tx.ref = <<e, m>>
        BY <2>1
      <3>2. <<e, m>>[1] = e
        OBVIOUS
      <3>3. tx.ref[1] = e
        BY <3>1, <3>2
      <3> QED
        BY <1>1, <3>3
    <2>2. CASE tx.ref[1] = "referral"
      BY <1>1, <2>2
    <2> QED
      BY <1>4, <2>1, <2>2 DEF OfOther
  <1>5. ASSUME tx.ref \in {<<"payout", tx.ref[2]>>, <<"refund", tx.ref[2]>>} PROVE FALSE
    <2>1. PICK e \in {"payout", "refund"} : tx.ref = <<e, tx.ref[2]>>
      BY <1>5
    <2>2. <<e, tx.ref[2]>>[1] = e
      OBVIOUS
    <2>3. tx.ref[1] = e
      BY <2>1, <2>2
    <2> QED
      BY <1>1, <2>3
  <1> QED
    BY <1>0, <1>2, <1>3, <1>4, <1>5 DEF Of

LEMMA WithdrawalIs ==
    ASSUME NEW P, NEW tr, NEW iv, NEW wd, NEW n, PostedOK(P, tr, iv, wd, n),
           NEW tx \in P, NEW w, NEW c \in {"withdraw", "settle"}, tx.ref = <<c, w>>
    PROVE  OfWithdrawal(tx, w, wd[w])
  <1>1. tx.ref[1] = c /\ tx.ref[2] = w
    OBVIOUS
  <1>2. PICK u \in DOMAIN wd : OfWithdrawal(tx, u, wd[u])
    BY <1>1, WithdrawalFound
  <1>3. u = w
    BY <1>1, <1>2 DEF OfWithdrawal
  <1> QED
    BY <1>2, <1>3

LEMMA WithdrawalEntries ==
    ASSUME NEW tx, IsPosting(tx), NEW w, NEW row \in WithdrawalRows, OfWithdrawal(tx, w, row),
           row.status # "FAILED"
    PROVE  /\ tx.status = "COMPLETED" /\ tx.type # "KILOWATT_PAYMENT"
           /\ tx.ref = <<"withdraw", w>> => \A X \in Aspects :
                 Part(X, tx) = IF X = <<"wallet", row.driver>> THEN -row.amount ELSE 0
           /\ tx.ref = <<"settle", w>> => \A X \in Aspects :
                 Part(X, tx) = IF X \in {<<"debt", row.driver>>, <<"payable", row.driver>>}
                               THEN -row.settled ELSE 0
           /\ \A v : (v.driver = row.driver /\ v.amount = row.amount /\ v.settled = row.settled
                         /\ v.status = "FAILED") => OfWithdrawal(Reversed(tx), w, v)
  <1>1. /\ row.driver \in Drivers /\ row.amount \in Int /\ row.settled \in Int
    BY DEF WithdrawalRows
  <1>2. tx.status = "COMPLETED" /\ tx.type # "KILOWATT_PAYMENT"
    BY DEF OfWithdrawal, IsPosting
  <1>3. ASSUME tx.ref = <<"withdraw", w>>, NEW X \in Aspects
        PROVE  Part(X, tx) = IF X = <<"wallet", row.driver>> THEN -row.amount ELSE 0
    <2>1. tx.entries = B!Move(B!Driver(row.driver), B!Clearing, row.amount)
      <3>1. tx.ref # <<"settle", w>>
        BY <1>3
      <3> QED
        BY <3>1 DEF OfWithdrawal
    <2>2. B!Driver(row.driver)[1] \in {"DRIVER_WALLET", "BUSINESS_CREDIT_PAYABLE"}
      BY DEF B!Driver
    <2>3. Part(X, tx) = IF On(X, B!Driver(row.driver)) THEN -row.amount ELSE 0
      BY <1>1, <2>1, <2>2, WeighWithdrawal
    <2>4. On(X, B!Driver(row.driver)) <=> X = <<"wallet", row.driver>>
      BY OnIs
    <2> QED
      BY <2>3, <2>4
  <1>4. ASSUME tx.ref = <<"settle", w>>, NEW X \in Aspects
        PROVE  Part(X, tx) = IF X \in {<<"debt", row.driver>>, <<"payable", row.driver>>}
                             THEN -row.settled ELSE 0
    <2>1. tx.entries = B!Move(B!Payable(row.driver), B!Revenue, row.settled)
      <3>1. tx.ref # <<"withdraw", w>>
        BY <1>4
      <3> QED
        BY <3>1 DEF OfWithdrawal
    <2> QED
      BY <1>1, <2>1, WeighSettlement
  <1>5. ASSUME NEW v, v.driver = row.driver, v.amount = row.amount, v.settled = row.settled,
               v.status = "FAILED"
        PROVE  OfWithdrawal(Reversed(tx), w, v)
    BY <1>5, ReversedIs DEF OfWithdrawal
  <1> QED
    BY <1>2, <1>3, <1>4, <1>5

\* What a withdrawal that fails leaves: what was taken is back, and what was
\* settled is owed again.
LEMMA TransferFailsKept ==
    ASSUME BooksInv, NEW w \in DOMAIN withdrawals, B!TransferFails(w)
    PROVE  BooksInv'
  <1>0. /\ BooksOK(trips, invoices, withdrawals, posted, others, today)
        /\ Balanced(trips, invoices, withdrawals, posted)
    BY DEF BooksInv
  <1>1. TripsOK(trips) /\ InvoicesOK(invoices, trips) /\ withdrawals \in Seq(WithdrawalRows)
        /\ others \in Nat /\ today \in B!Ever /\ SettledOK(posted, withdrawals) /\ Postings(posted)
        /\ PostedOK(posted, trips, invoices, withdrawals, others) /\ Rows(trips, invoices)
        /\ invoices \in Seq(InvoiceRows) /\ trips \in Seq(TripRows)
        /\ \A e \in Drivers : Posted(<<"payable", e>>, posted) >= 0
                                  /\ Posted(<<"payable", e>>, posted) \in Int
    BY BooksNow DEF InvoicesOK, Rows
  <1> DEFINE row == withdrawals[w]
             v == [row EXCEPT !.status = "FAILED"]
             wd == [withdrawals EXCEPT ![w] = v]
             d == row.driver
  <1>2. /\ row.status = "PENDING" /\ withdrawals' = wd
        /\ UNCHANGED <<trips, invoices, others, today>>
    BY DEF B!TransferFails
  <1>3. PICK tx \in posted :
          /\ tx.ref = <<"withdraw", w>>
          /\ \/ \E s \in posted : /\ s.ref = <<"settle", w>>
                                  /\ posted' = B!Refunded(B!Refunded(posted, tx), s)
             \/ /\ \A s \in posted : s.ref # <<"settle", w>>
                /\ posted' = B!Refunded(posted, tx)
    BY DEF B!TransferFails
  <1>4. /\ row \in WithdrawalRows /\ v \in WithdrawalRows /\ v.driver = row.driver
        /\ v.amount = row.amount /\ v.settled = row.settled /\ v.status = "FAILED"
        /\ d \in Drivers /\ row.amount \in Int /\ row.settled \in Int /\ row.settled >= 0
    <2>1. row \in WithdrawalRows
      BY <1>1
    <2> QED
      BY <2>1 DEF WithdrawalRows
  <1> HIDE DEF v
  <1>5. /\ wd \in Seq(WithdrawalRows) /\ DOMAIN wd = DOMAIN withdrawals /\ wd[w] = v
        /\ \A j \in DOMAIN withdrawals \ {w} : wd[j] = withdrawals[j]
    BY <1>1, <1>4, RowUpdate
  <1> HIDE DEF wd
  <1>6. Grow(trips, invoices, withdrawals, others, trips, invoices, wd, others)
    <2>1. WithdrawalsGrow(withdrawals, wd)
      <3>1. ASSUME NEW j \in DOMAIN withdrawals
            PROVE  /\ wd[j].driver = withdrawals[j].driver /\ wd[j].amount = withdrawals[j].amount
                   /\ wd[j].settled = withdrawals[j].settled
                   /\ withdrawals[j].status = "FAILED" => wd[j].status = "FAILED"
        <4>1. CASE j = w
          BY <1>4, <1>5, <4>1
        <4>2. CASE j # w
          BY <1>5, <4>2
        <4> QED
          BY <4>1, <4>2
      <3> QED
        BY <1>5, <3>1 DEF WithdrawalsGrow
    <2> QED
      BY <1>1, <2>1 DEF Grow, InvoicesGrow, TripsGrow
  <1>7. PostedOK(posted, trips, invoices, wd, others)
    BY <1>1, <1>6, PostedGrows
  <1>8. ASSUME NEW q \in posted, NEW c \in {"withdraw", "settle"}, q.ref = <<c, w>>
        PROVE  /\ IsPosting(q) /\ q.status = "COMPLETED" /\ q.type # "KILOWATT_PAYMENT"
               /\ Of(Reversed(q), trips, invoices, wd, others)
               /\ c = "withdraw" => \A X \in Aspects :
                     Part(X, q) = IF X = <<"wallet", d>> THEN -row.amount ELSE 0
               /\ c = "settle" => \A X \in Aspects :
                     Part(X, q) = IF X \in {<<"debt", d>>, <<"payable", d>>} THEN -row.settled ELSE 0
    <2>1. IsPosting(q)
      BY <1>1 DEF PostedOK
    <2>2. OfWithdrawal(q, w, row)
      BY <1>1, <1>8, WithdrawalIs
    <2>3. row.status # "FAILED"
      BY <1>2
    <2>4. /\ q.status = "COMPLETED" /\ q.type # "KILOWATT_PAYMENT"
          /\ q.ref = <<"withdraw", w>> => \A X \in Aspects :
                 Part(X, q) = IF X = <<"wallet", row.driver>> THEN -row.amount ELSE 0
          /\ q.ref = <<"settle", w>> => \A X \in Aspects :
                 Part(X, q) = IF X \in {<<"debt", row.driver>>, <<"payable", row.driver>>}
                              THEN -row.settled ELSE 0
          /\ \A u : (u.driver = row.driver /\ u.amount = row.amount /\ u.settled = row.settled
                         /\ u.status = "FAILED") => OfWithdrawal(Reversed(q), w, u)
      BY <1>4, <2>1, <2>2, <2>3, WithdrawalEntries
    <2>5. OfWithdrawal(Reversed(q), w, wd[w])
      BY <1>4, <1>5, <2>4
    <2>6. Of(Reversed(q), trips, invoices, wd, others)
      BY <1>5, <2>5 DEF Of
    <2> QED
      BY <1>8, <2>1, <2>4, <2>6
  <1>9. IsPosting(tx) /\ tx.status = "COMPLETED" /\ tx.type # "KILOWATT_PAYMENT"
        /\ Of(Reversed(tx), trips, invoices, wd, others)
        /\ \A X \in Aspects : Part(X, tx) = IF X = <<"wallet", d>> THEN -row.amount ELSE 0
    BY <1>3, <1>8
  <1>10. PICK r : RefundOf(tx, r) /\ B!Refunded(posted, tx) = Undo(posted, tx, r)
    BY <1>1, <1>9, RefundIs
  <1> DEFINE P == Undo(posted, tx, r)
  <1>11. Undoable(posted, tx, r, trips, invoices, wd, others)
    BY <1>1, <1>7, <1>9, <1>10 DEF Undoable
  <1>12. /\ PostedOK(P, trips, invoices, wd, others)
         /\ \A X \in Aspects : Posted(X, P) = Posted(X, posted) - Part(X, tx)
         /\ posted \ {tx} \subseteq P
         /\ \A q \in posted : \E p \in P : p.ref = q.ref
    BY <1>11, UndoOK
  <1>13. ASSUME NEW c
         PROVE  \A j \in DOMAIN trips : trips[j].tx # <<c, w>> \/ c = "trip"
    <2>1. <<c, w>>[1] = c /\ <<c, w>> # B!NoLink
      BY DEF B!NoLink
    <2> QED
      BY <1>1, <2>1, NotLinked
  <1>14. TripsAlike(DOMAIN trips, trips, invoices, posted, trips, invoices, P)
    <2>1. TripsAlike(DOMAIN trips, trips, invoices, posted, trips, invoices, posted)
      BY AlikeNow
    <2>2. \A j \in DOMAIN trips : trips[j].tx # tx.ref
      BY <1>3, <1>13
    <2> QED
      BY <1>11, <2>1, <2>2, UndoAlike
  <1> HIDE DEF P
  <1> DEFINE Undone(Q) ==
               /\ PostedOK(Q, trips, invoices, wd, others)
               /\ TripsAlike(DOMAIN trips, trips, invoices, posted, trips, invoices, Q)
               /\ \A q \in posted : \E p \in Q : p.ref = q.ref
               /\ \A X \in Aspects : Posted(X, Q) = Posted(X, posted)
                     + (IF X = <<"wallet", d>> THEN row.amount ELSE 0)
                     + (IF X \in {<<"debt", d>>, <<"payable", d>>} THEN row.settled ELSE 0)
  <1>15. Undone(posted')
    <2>0. \A X \in Aspects : Posted(X, posted) \in Int
      BY <1>1, WeightsInt
    <2>a. \A X \in Aspects : Posted(X, P) = Posted(X, posted) + (IF X = <<"wallet", d>> THEN row.amount ELSE 0)
      <3> SUFFICES ASSUME NEW X \in Aspects
                   PROVE  Posted(X, P) = Posted(X, posted) + (IF X = <<"wallet", d>> THEN row.amount ELSE 0)
        OBVIOUS
      <3>1. Posted(X, P) = Posted(X, posted) - Part(X, tx)
            /\ Part(X, tx) = IF X = <<"wallet", d>> THEN -row.amount ELSE 0
        BY <1>9, <1>12
      <3>2. Posted(X, posted) \in Int
        BY <2>0
      <3> QED
        BY <1>4, <3>1, <3>2
    <2>1. CASE \E s \in posted : /\ s.ref = <<"settle", w>>
                                 /\ posted' = B!Refunded(B!Refunded(posted, tx), s)
      <3>1. PICK s \in posted : /\ s.ref = <<"settle", w>>
                                /\ posted' = B!Refunded(B!Refunded(posted, tx), s)
        BY <2>1
      <3>2. IsPosting(s) /\ s.status = "COMPLETED" /\ s.type # "KILOWATT_PAYMENT"
            /\ Of(Reversed(s), trips, invoices, wd, others)
            /\ \A X \in Aspects : Part(X, s) =
                  IF X \in {<<"debt", d>>, <<"payable", d>>} THEN -row.settled ELSE 0
        BY <1>8, <3>1
      <3>3. s \in P
        <4>1. s # tx
          BY <1>3, <3>1
        <4> QED
          BY <1>12, <4>1
      <3>4. PICK r2 : RefundOf(s, r2) /\ B!Refunded(P, s) = Undo(P, s, r2)
        BY <1>1, <3>2, RefundIs
      <3> DEFINE Q == Undo(P, s, r2)
      <3>5. Undoable(P, s, r2, trips, invoices, wd, others)
        BY <1>1, <1>12, <3>2, <3>3, <3>4 DEF Undoable
      <3>6. /\ PostedOK(Q, trips, invoices, wd, others)
            /\ \A X \in Aspects : Posted(X, Q) = Posted(X, P) - Part(X, s)
            /\ \A q \in P : \E p \in Q : p.ref = q.ref
        BY <3>5, UndoOK
      <3>7. TripsAlike(DOMAIN trips, trips, invoices, posted, trips, invoices, Q)
        <4>1. \A j \in DOMAIN trips : trips[j].tx # s.ref
          BY <1>13, <3>1
        <4> QED
          BY <1>14, <3>5, <4>1, UndoAlike
      <3> HIDE DEF Q
      <3>8. \A q \in posted : \E p \in Q : p.ref = q.ref
        BY <1>12, <3>6
      <3>9. ASSUME NEW X \in Aspects
            PROVE  Posted(X, Q) = Posted(X, posted)
                     + (IF X = <<"wallet", d>> THEN row.amount ELSE 0)
                     + (IF X \in {<<"debt", d>>, <<"payable", d>>} THEN row.settled ELSE 0)
        <4>1. Posted(X, Q) = Posted(X, P) - Part(X, s)
              /\ Part(X, s) = IF X \in {<<"debt", d>>, <<"payable", d>>} THEN -row.settled ELSE 0
          BY <3>2, <3>6
        <4>2. Posted(X, P) = Posted(X, posted) + (IF X = <<"wallet", d>> THEN row.amount ELSE 0)
              /\ Posted(X, posted) \in Int
          BY <2>0, <2>a
        <4> QED
          BY <1>4, <4>1, <4>2
      <3>10. posted' = Q
        BY <1>10, <3>1, <3>4 DEF P, Q
      <3> QED
        BY <3>6, <3>7, <3>8, <3>9, <3>10
    <2>2. CASE /\ \A s \in posted : s.ref # <<"settle", w>>
               /\ posted' = B!Refunded(posted, tx)
      <3>1. row.settled = 0
        <4>1. \A s \in posted : s.ref # <<"settle", w>>
          BY <2>2
        <4>2. ~ (row.settled > 0)
          BY <1>1, <4>1 DEF SettledOK
        <4> QED
          BY <1>4, <4>2
      <3>2. posted' = P
        BY <1>10, <2>2 DEF P
      <3>3. ASSUME NEW X \in Aspects
            PROVE  Posted(X, P) = Posted(X, posted)
                     + (IF X = <<"wallet", d>> THEN row.amount ELSE 0)
                     + (IF X \in {<<"debt", d>>, <<"payable", d>>} THEN row.settled ELSE 0)
        <4>1. Posted(X, P) = Posted(X, posted) + (IF X = <<"wallet", d>> THEN row.amount ELSE 0)
              /\ Posted(X, posted) \in Int
          BY <2>0, <2>a
        <4> QED
          BY <1>4, <3>1, <4>1
      <3> QED
        BY <1>12, <1>14, <3>2, <3>3
    <2> QED
      BY <1>3, <2>1, <2>2
  <1> DEFINE Q == posted'
  <1>q. Undone(Q)
    BY <1>15
  <1> HIDE DEF Q
  <1>16. /\ PostedOK(Q, trips, invoices, wd, others)
         /\ TripsAlike(DOMAIN trips, trips, invoices, posted, trips, invoices, Q)
         /\ \A q \in posted : \E p \in Q : p.ref = q.ref
         /\ \A X \in Aspects : Posted(X, Q) = Posted(X, posted)
               + (IF X = <<"wallet", d>> THEN row.amount ELSE 0)
               + (IF X \in {<<"debt", d>>, <<"payable", d>>} THEN row.settled ELSE 0)
    BY <1>q
  <1> HIDE DEF Undone
  <1>17. SettledOK(Q, wd)
    <2>1. \A k \in DOMAIN wd : wd[k].settled = withdrawals[k].settled
      BY <1>4, <1>5
    <2> QED
      BY ZenonT(60), <1>1, <1>5, <1>16, <2>1 DEF SettledOK
  <1>18. BooksOK(trips, invoices, wd, Q, others, today)
    BY <1>1, <1>5, <1>16, <1>17 DEF BooksOK
  <1>19. ASSUME NEW X \in Aspects
         PROVE  /\ X[1] # "payable" => Posted(X, Q) = Said(X, trips, invoices, wd, Q)
                /\ X[1] = "payable" => Posted(X, Q) =
                       Posted(X, posted) + (IF X = <<"payable", d>> THEN row.settled ELSE 0)
    <2>1. TripSum(X, trips, invoices, Q) = TripSum(X, trips, invoices, posted)
      BY <1>1, <1>16, TripSumSame
    <2>2. Posted(X, posted) \in Int /\ TripSum(X, trips, invoices, posted) \in Int
          /\ InvoiceSum(X, invoices) \in Int /\ WithdrawalSum(X, withdrawals) \in Int
      BY <1>1, RowsInt, WeightsInt
    <2>3. Said(X, trips, invoices, wd, Q) = TripSum(X, trips, invoices, Q) + InvoiceSum(X, invoices)
                + WithdrawalSum(X, wd)
      BY SaidIs
    <2>4. Said(X, trips, invoices, withdrawals, posted) = TripSum(X, trips, invoices, posted)
                + InvoiceSum(X, invoices) + WithdrawalSum(X, withdrawals)
      BY SaidIs
    <2>5. /\ WithdrawalSays(X, withdrawals[w]) \in Int /\ WithdrawalSays(X, wd[w]) \in Int
          /\ WithdrawalSum(X, wd) = WithdrawalSum(X, withdrawals)
                + WithdrawalSays(X, wd[w]) - WithdrawalSays(X, withdrawals[w])
      BY <1>1, <1>5, WithdrawalSumChange
    <2>6. WithdrawalSays(X, wd[w]) = 0
      BY <1>4, <1>5 DEF WithdrawalSays
    <2>7. Posted(X, Q) = Posted(X, posted)
               + (IF X = <<"wallet", d>> THEN row.amount ELSE 0)
               + (IF X \in {<<"debt", d>>, <<"payable", d>>} THEN row.settled ELSE 0)
      BY <1>16
    <2>8. CASE X[1] = "payable"
      <3>1. X # <<"wallet", d>> /\ X # <<"debt", d>>
        BY <2>8
      <3> QED
        BY <1>4, <2>2, <2>7, <2>8, <3>1
    <2>9. CASE X[1] # "payable"
      <3>1. WithdrawalSays(X, withdrawals[w]) = (IF X = <<"wallet", d>> THEN -row.amount ELSE 0)
              + (IF X = <<"debt", d>> THEN -row.settled ELSE 0)
        <4>1. CASE X = <<"revenue", None>>
          BY <4>1 DEF WithdrawalSays
        <4>2. CASE \E e \in Drivers : X = <<"wallet", e>>
          BY <1>2, <1>4, <4>2 DEF WithdrawalSays
        <4>3. CASE \E e \in Drivers : X = <<"debt", e>>
          BY <1>2, <1>4, <4>3 DEF WithdrawalSays
        <4>4. CASE \E b \in Businesses : X = <<"credit", b>>
          BY <4>4 DEF WithdrawalSays
        <4>5. CASE \E e \in Drivers : X = <<"payable", e>>
          BY <2>9, <4>5
        <4> QED
          BY <4>1, <4>2, <4>3, <4>4, <4>5, AspectIs
      <3>2. X # <<"payable", d>>
        BY <2>9
      <3>3. Posted(X, Q) = Posted(X, posted) - WithdrawalSays(X, withdrawals[w])
        BY <1>4, <2>2, <2>7, <3>1, <3>2
      <3>4. Posted(X, posted) = Said(X, trips, invoices, withdrawals, posted)
        BY <1>0, <2>9 DEF Balanced
      <3> QED
        BY <2>1, <2>2, <2>3, <2>4, <2>5, <2>6, <2>9, <3>3, <3>4
    <2> QED
      BY <2>8, <2>9
  <1>20. ASSUME NEW e \in Drivers PROVE Posted(<<"payable", e>>, Q) >= 0
    <2>1. <<"payable", e>> \in Aspects /\ <<"payable", e>>[1] = "payable"
      BY DEF Aspects
    <2>2. Posted(<<"payable", e>>, Q) = Posted(<<"payable", e>>, posted)
              + (IF e = d THEN row.settled ELSE 0)
      BY <1>19, <2>1
    <2>3. Posted(<<"payable", e>>, posted) >= 0 /\ Posted(<<"payable", e>>, posted) \in Int
      BY <1>1
    <2>4. CASE e = d
      BY <1>4, <2>2, <2>3, <2>4
    <2>5. CASE e # d
      BY <2>2, <2>3, <2>5
    <2> QED
      BY <2>4, <2>5
  <1>21. Balanced(trips, invoices, wd, Q)
    BY <1>19, <1>20 DEF Balanced
  <1> QED
    BY <1>2, <1>18, <1>21 DEF BooksInv, Q

-----------------------------------------------------------------------------
(* From what is posted and said to the figures.                            *)

LEMMA SumPairs ==
    ASSUME NEW S, IsFiniteSet(S), NEW f, NEW g, NEW h, NEW k,
           Ints(f, S), Ints(g, S), Ints(h, S), Ints(k, S),
           \A x \in S : f[x] + g[x] = h[x] + k[x]
    PROVE  /\ SumFunctionOnSet(f, S) + SumFunctionOnSet(g, S)
                  = SumFunctionOnSet(h, S) + SumFunctionOnSet(k, S)
           /\ SumFunctionOnSet(f, S) \in Int /\ SumFunctionOnSet(g, S) \in Int
           /\ SumFunctionOnSet(h, S) \in Int /\ SumFunctionOnSet(k, S) \in Int
  <1> DEFINE e == [x \in S |-> f[x] + g[x]]
  <1>1. \A x \in S : e[x] = f[x] + g[x] /\ e[x] = h[x] + k[x]
    OBVIOUS
  <1> HIDE DEF e
  <1>2. SumFunctionOnSet(e, S) = SumFunctionOnSet(f, S) + SumFunctionOnSet(g, S)
    BY <1>1, SumPlus
  <1>3. SumFunctionOnSet(e, S) = SumFunctionOnSet(h, S) + SumFunctionOnSet(k, S)
    BY <1>1, SumPlus
  <1> QED
    BY <1>2, <1>3, SumInt

\* A total of some is a sum over all.
LEMMA TotalPart ==
    ASSUME NEW S, IsFiniteSet(S), NEW f, DOMAIN f \subseteq S, Ints(f, DOMAIN f),
           NEW g, \A x \in S : g[x] = IF x \in DOMAIN f THEN f[x] ELSE 0
    PROVE  B!Total(f) = SumFunctionOnSet(g, S) /\ Ints(g, S) /\ SumFunctionOnSet(g, S) \in Int
  <1>1. Ints(g, S)
    BY DEF Ints
  <1>2. B!Total(f) = SumFunctionOnSet(f, DOMAIN f)
    BY TotalIsSum
  <1> DEFINE U1 == DOMAIN f
  <1>3. /\ U1 \in SUBSET S /\ Ints(f, U1) /\ (\A x \in U1 : g[x] = f[x]) /\ \A x \in S \ U1 : g[x] = 0
    OBVIOUS
  <1> HIDE DEF U1
  <1>4. SumFunctionOnSet(g, S) = SumFunctionOnSet(f, U1)
    BY <1>3, SumPart
  <1> QED
    BY <1>1, <1>2, <1>4, SumInt DEF U1

\* What is not negative adds up to something when one summand is.
LEMMA SumPositive ==
    ASSUME NEW S, IsFiniteSet(S), NEW f, \A x \in S : f[x] \in Nat
    PROVE  /\ SumFunctionOnSet(f, S) \in Nat
           /\ SumFunctionOnSet(f, S) > 0 <=> \E x \in S : f[x] > 0
  <1> DEFINE Q == {T1 \in SUBSET S : /\ SumFunctionOnSet(f, T1) \in Nat
                                     /\ SumFunctionOnSet(f, T1) > 0 <=> \E x \in T1 : f[x] > 0}
  <1>1. {} \in Q
    BY SumEmpty
  <1>2. ASSUME NEW T1 \in SUBSET S, NEW x \in S \ T1, T1 \in Q
        PROVE  T1 \cup {x} \in Q
    <2>1. IsFiniteSet(T1) /\ Ints(f, T1 \cup {x})
      BY FS_Subset DEF Ints
    <2>2. SumFunctionOnSet(f, T1 \cup {x}) = f[x] + SumFunctionOnSet(f, T1)
      BY <2>1, SumAdd
    <2>3. /\ SumFunctionOnSet(f, T1) \in Nat /\ f[x] \in Nat
          /\ SumFunctionOnSet(f, T1) > 0 <=> \E y \in T1 : f[y] > 0
      BY <1>2
    <2>4. SumFunctionOnSet(f, T1 \cup {x}) > 0 <=> \E y \in T1 \cup {x} : f[y] > 0
      BY <2>2, <2>3
    <2> QED
      BY <2>2, <2>3, <2>4
  <1> HIDE DEF Q
  <1>3. S \in Q
    BY <1>1, <1>2, SetInduction
  <1> QED
    BY <1>3 DEF Q

LEMMA CardIs == \A S : B!Cardinality(S) = Cardinality(S)
  BY DEF B!Cardinality, Cardinality, B!IsFiniteSet, IsFiniteSet

\* What is a of every ride and b of every delivery, by counts and by trips.
LEMMA KindSum ==
    ASSUME trips \in Seq(TripRows), NEW S \in SUBSET DOMAIN trips, NEW a \in Int, NEW b \in Int, NEW f,
           \A i \in S : f[i] = IF trips[i].kind = "RIDE" THEN a ELSE b
    PROVE  a * B!Rides(S) + b * (B!Cardinality(S) - B!Rides(S)) = SumFunctionOnSet(f, S)
  <1> DEFINE R1(T1) == {i \in T1 : trips[i].kind = "RIDE"}
             V(T1) == a * Cardinality(R1(T1)) + b * (Cardinality(T1) - Cardinality(R1(T1)))
             Q == {T1 \in SUBSET S : V(T1) = SumFunctionOnSet(f, T1)}
  <1>1. IsFiniteSet(S)
    BY DomainFinite, FS_Subset
  <1>2. \A i \in S : f[i] \in Int
    OBVIOUS
  <1>3. {} \in Q
    <2>1. R1({}) = {} /\ Cardinality({}) = 0
      BY FS_EmptySet
    <2>2. a * 0 + b * (0 - 0) = 0
      OBVIOUS
    <2>3. V({}) = 0
      <3> HIDE DEF R1
      <3> QED
        BY <2>1, <2>2
    <2> HIDE DEF V
    <2> QED
      BY <2>3, SumEmpty
  <1>4. ASSUME NEW T1 \in SUBSET S, NEW x \in S \ T1, T1 \in Q
        PROVE  T1 \cup {x} \in Q
    <2> DEFINE n == Cardinality(T1)
               m == Cardinality(R1(T1))
               r == Cardinality(R1(T1 \cup {x}))
    <2>1. IsFiniteSet(T1) /\ Ints(f, T1 \cup {x}) /\ IsFiniteSet(R1(T1)) /\ x \notin T1 /\ x \notin R1(T1)
      BY <1>1, <1>2, FS_Subset DEF Ints
    <2>2. SumFunctionOnSet(f, T1 \cup {x}) = f[x] + SumFunctionOnSet(f, T1)
      BY <2>1, SumAdd
    <2>3. n \in Int /\ m \in Int /\ Cardinality(T1 \cup {x}) = n + 1 /\ Cardinality(R1(T1) \cup {x}) = m + 1
      <3> DEFINE A1 == R1(T1)
      <3>1. IsFiniteSet(A1) /\ x \notin A1
        BY <2>1
      <3> HIDE DEF A1
      <3>2. /\ Cardinality(T1) \in Nat /\ Cardinality(T1 \cup {x}) = Cardinality(T1) + 1
            /\ Cardinality(A1) \in Nat /\ Cardinality(A1 \cup {x}) = Cardinality(A1) + 1
        BY <2>1, <3>1, FS_CardinalityType, FS_AddElement
      <3> QED
        BY <3>2 DEF A1
    <2>4. R1(T1 \cup {x}) = IF trips[x].kind = "RIDE" THEN R1(T1) \cup {x} ELSE R1(T1)
      OBVIOUS
    <2>5. r = IF trips[x].kind = "RIDE" THEN m + 1 ELSE m
      BY <2>3, <2>4
    <2>6. V(T1) = a * m + b * (n - m) /\ V(T1 \cup {x}) = a * r + b * (n + 1 - r)
      <3> DEFINE c == Cardinality(T1 \cup {x})
      <3> HIDE DEF R1
      <3>1. V(T1) = a * m + b * (n - m) /\ V(T1 \cup {x}) = a * r + b * (c - r)
        OBVIOUS
      <3>2. c = n + 1 /\ n \in Int /\ r \in Int
        BY <2>3, <2>5
      <3> HIDE DEF V, n, m, r, c
      <3> QED
        BY <3>1, <3>2
    <2>7. V(T1) = SumFunctionOnSet(f, T1)
      BY <1>4
    <2> HIDE DEF n, m, r, V, R1
    <2>8. V(T1 \cup {x}) = f[x] + V(T1)
      <3>1. CASE trips[x].kind = "RIDE"
        <4>1. a * (m + 1) = a * m + a /\ n + 1 - (m + 1) = n - m
          BY <2>3
        <4>2. a * m \in Int /\ b * (n - m) \in Int
          BY <2>3
        <4>3. V(T1 \cup {x}) = a * m + a + b * (n - m)
          BY <2>6, <2>5, <3>1, <4>1
        <4> QED
          BY <2>6, <3>1, <4>2, <4>3
      <3>2. CASE trips[x].kind # "RIDE"
        <4>1. b * (n + 1 - m) = b * (n - m) + b
          BY <2>3
        <4>2. a * m \in Int /\ b * (n - m) \in Int
          BY <2>3
        <4>3. V(T1 \cup {x}) = a * m + (b * (n - m) + b)
          BY <2>6, <2>5, <3>2, <4>1
        <4> QED
          BY <2>6, <3>2, <4>2, <4>3
      <3> QED
        BY <3>1, <3>2
    <2> QED
      BY <2>2, <2>7, <2>8
  <1> HIDE DEF Q
  <1>5. S \in Q
    BY <1>1, <1>3, <1>4, SetInduction
  <1>6. V(S) = a * B!Rides(S) + b * (B!Cardinality(S) - B!Rides(S))
    BY CardIs DEF B!Rides
  <1> QED
    BY <1>5, <1>6 DEF Q

LEMMA KindIsEither ==
    ASSUME trips \in Seq(TripRows), NEW i \in DOMAIN trips
    PROVE  trips[i].kind \in {"RIDE", "DELIVERY"}
  <1>1. trips[i] \in TripRows
    OBVIOUS
  <1> QED
    BY <1>1 DEF TripRows

\* Commission by counts is the sum of the trips' commissions.
LEMMA CommissionsAre ==
    ASSUME trips \in Seq(TripRows), NEW S \in SUBSET DOMAIN trips, NEW f, DOMAIN f = S,
           \A i \in S : f[i] = FareOf[trips[i].kind].commission
    PROVE  B!Commissions(S) = B!Total(f) /\ Ints(f, S)
  <1> DEFINE a == FareOf["RIDE"].commission
             b == FareOf["DELIVERY"].commission
  <1>1. a \in Int /\ b \in Int
    BY BooksConstants
  <1>2. \A i \in S : f[i] = IF trips[i].kind = "RIDE" THEN a ELSE b
    BY KindIsEither
  <1>3. B!Commissions(S) = a * B!Rides(S) + b * (B!Cardinality(S) - B!Rides(S))
    BY DEF B!Commissions
  <1> HIDE DEF a, b
  <1>4. B!Commissions(S) = SumFunctionOnSet(f, S)
    BY <1>1, <1>2, <1>3, KindSum
  <1>5. B!Total(f) = SumFunctionOnSet(f, S)
    BY TotalIsSum
  <1>6. Ints(f, S)
    BY <1>1, <1>2 DEF Ints
  <1> QED
    BY <1>4, <1>5, <1>6

\* The balance of an account that begins empty.
LEMMA BalanceSum ==
    ASSUME Postings(posted), NEW a, B!AtFirst(a) = 0
    PROVE  /\ B!Balance(a) = SumFunctionOnSet([tx \in posted |-> B!Entry(tx, a)], posted)
           /\ \A tx \in posted : B!Entry(tx, a) \in Int
  <1> DEFINE f == [tx \in posted |-> B!Entry(tx, a)]
  <1>1. \A tx \in posted : B!Entry(tx, a) \in Int
    BY EntryInt DEF Postings, IsPosting, EntriesInt
  <1>2. Ints(f, posted) /\ DOMAIN f = posted
    BY <1>1 DEF Ints
  <1>3. B!Balance(a) = 0 + B!Total(f)
    BY DEF B!Balance
  <1> HIDE DEF f
  <1>4. B!Total(f) = SumFunctionOnSet(f, posted) /\ SumFunctionOnSet(f, posted) \in Int
    BY <1>2, TotalIsSum, SumInt DEF Postings
  <1> QED
    BY <1>1, <1>3, <1>4 DEF f

LEMMA EmptyAtFirst ==
    /\ B!AtFirst(B!Revenue) = 0
    /\ \A d : B!AtFirst(B!Driver(d)) = 0 /\ B!AtFirst(B!Payable(d)) = 0
    /\ \A b : B!AtFirst(B!Credit(b)) = 0
  BY DEF B!AtFirst, B!Revenue, B!Driver, B!Payable, B!Credit, B!Rider, B!Wallet

\* The opposite of a sum.
LEMMA SumNeg ==
    ASSUME NEW S, IsFiniteSet(S), NEW f, NEW g, Ints(f, S), \A x \in S : g[x] = -f[x]
    PROVE  /\ SumFunctionOnSet(g, S) = -SumFunctionOnSet(f, S) /\ Ints(g, S)
           /\ SumFunctionOnSet(f, S) \in Int
  <1> DEFINE z == [x \in S |-> 0]
  <1>1. \A x \in S : z[x] = 0
    OBVIOUS
  <1> HIDE DEF z
  <1>2. \A x \in S : z[x] = f[x] + g[x]
    BY <1>1 DEF Ints
  <1>3. Ints(g, S)
    BY DEF Ints
  <1>4. SumFunctionOnSet(z, S) = SumFunctionOnSet(f, S) + SumFunctionOnSet(g, S)
    BY <1>2, <1>3, SumPlus
  <1>5. SumFunctionOnSet(z, S) = 0
    BY <1>1, SumZero
  <1>6. SumFunctionOnSet(f, S) \in Int /\ SumFunctionOnSet(g, S) \in Int
    BY <1>3, SumInt
  <1> QED
    BY <1>3, <1>4, <1>5, <1>6

\* What is posted on an aspect: the accounts' part and what is aside.
LEMMA PostedIs ==
    ASSUME Postings(posted), NEW X \in Aspects, NEW f, NEW g,
           \A tx \in posted : f[tx] = Part(X, tx) /\ g[tx] = Aside(X, tx)
    PROVE  /\ Posted(X, posted) = SumFunctionOnSet(f, posted) + SumFunctionOnSet(g, posted)
           /\ SumFunctionOnSet(f, posted) \in Int /\ SumFunctionOnSet(g, posted) \in Int
           /\ Ints(f, posted) /\ Ints(g, posted)
  <1> DEFINE h == Weights(X, posted)
  <1>1. \A tx \in posted : h[tx] = f[tx] + g[tx]
    BY DEF Weights, Weight
  <1>2. Ints(f, posted)
    BY WeightInt DEF Ints, Postings
  <1>3. \A tx \in posted : Aside(X, tx) \in Int
    BY DEF Aside, IsPosting, Postings
  <1>4. Ints(g, posted) /\ IsFiniteSet(posted)
    BY <1>3 DEF Ints, Postings
  <1> HIDE DEF h
  <1>5. SumFunctionOnSet(h, posted) = SumFunctionOnSet(f, posted) + SumFunctionOnSet(g, posted)
    BY <1>1, <1>2, <1>4, SumPlus
  <1> QED
    BY <1>2, <1>4, <1>5, SumInt DEF Posted, h

\* The amounts of some of the postings.
LEMMA AmountSum ==
    ASSUME Postings(posted), NEW S \in SUBSET posted, NEW g,
           \A tx \in posted : g[tx] = IF tx \in S THEN tx.amount ELSE 0
    PROVE  /\ B!Amount(S) = SumFunctionOnSet(g, posted) /\ Ints(g, posted)
           /\ SumFunctionOnSet(g, posted) \in Int
  <1> DEFINE f == [tx \in S |-> tx.amount]
  <1>1. DOMAIN f = S /\ \A tx \in S : f[tx] = tx.amount
    OBVIOUS
  <1>2. \A tx \in posted : tx.amount \in Int
    BY DEF Postings, IsPosting
  <1>3. B!Amount(S) = B!Total(f)
    BY DEF B!Amount
  <1> HIDE DEF f
  <1>4. DOMAIN f \subseteq posted /\ Ints(f, DOMAIN f) /\ IsFiniteSet(posted)
    BY <1>1, <1>2 DEF Ints, Postings
  <1>5. \A tx \in posted : g[tx] = IF tx \in DOMAIN f THEN f[tx] ELSE 0
    BY <1>1
  <1> QED
    BY <1>3, <1>4, <1>5, TotalPart

\* The amounts, and the settled debts, of some of the withdrawals.
LEMMA WithdrawalsSum ==
    ASSUME withdrawals \in Seq(WithdrawalRows), NEW S \in SUBSET DOMAIN withdrawals, NEW g, NEW h,
           \A w \in DOMAIN withdrawals : g[w] = IF w \in S THEN withdrawals[w].amount ELSE 0,
           \A w \in DOMAIN withdrawals : h[w] = IF w \in S THEN withdrawals[w].settled ELSE 0
    PROVE  /\ B!AmountOf(S) = SumFunctionOnSet(g, DOMAIN withdrawals) /\ Ints(g, DOMAIN withdrawals)
           /\ B!SettledOf(S) = SumFunctionOnSet(h, DOMAIN withdrawals) /\ Ints(h, DOMAIN withdrawals)
  <1> DEFINE f == [w \in S |-> withdrawals[w].amount]
             k == [w \in S |-> withdrawals[w].settled]
             D == DOMAIN withdrawals
  <1>1. /\ DOMAIN f = S /\ \A w \in S : f[w] = withdrawals[w].amount
        /\ DOMAIN k = S /\ \A w \in S : k[w] = withdrawals[w].settled
    OBVIOUS
  <1>2. \A w \in D : withdrawals[w].amount \in Int /\ withdrawals[w].settled \in Int
    <2>1. \A w \in D : withdrawals[w] \in WithdrawalRows
      OBVIOUS
    <2> QED
      BY <2>1 DEF WithdrawalRows
  <1>3. B!AmountOf(S) = B!Total(f) /\ B!SettledOf(S) = B!Total(k)
    BY DEF B!AmountOf, B!SettledOf
  <1>4. IsFiniteSet(D) /\ S \in SUBSET D
    BY DomainFinite
  <1>5. /\ \A w \in D : g[w] = IF w \in S THEN withdrawals[w].amount ELSE 0
        /\ \A w \in D : h[w] = IF w \in S THEN withdrawals[w].settled ELSE 0
    OBVIOUS
  <1> HIDE DEF f, k
  <1>6. DOMAIN f \subseteq D /\ Ints(f, DOMAIN f) /\ DOMAIN k \subseteq D /\ Ints(k, DOMAIN k)
    BY <1>1, <1>2, <1>4 DEF Ints
  <1>7. /\ \A w \in D : g[w] = IF w \in DOMAIN f THEN f[w] ELSE 0
        /\ \A w \in D : h[w] = IF w \in DOMAIN k THEN k[w] ELSE 0
    BY <1>1, <1>5
  <1>8. B!Total(f) = SumFunctionOnSet(g, D) /\ Ints(g, D)
    BY <1>4, <1>6, <1>7, TotalPart
  <1>9. B!Total(k) = SumFunctionOnSet(h, D) /\ Ints(h, D)
    BY <1>4, <1>6, <1>7, TotalPart
  <1> QED
    BY <1>3, <1>8, <1>9

\* What a driver has withdrawn, by the rows of the withdrawals that stand.
LEMMA WithdrawnIs ==
    ASSUME withdrawals \in Seq(WithdrawalRows), NEW d \in Drivers
    PROVE  /\ WithdrawalSum(<<"wallet", d>>, withdrawals)
                  = -(B!AmountOf(B!Requests("PENDING", {d})) + B!AmountOf(B!Requests("COMPLETED", {d})))
           /\ B!AmountOf(B!Requests("PENDING", {d})) \in Int /\ B!AmountOf(B!Requests("COMPLETED", {d})) \in Int
           /\ WithdrawalSum(<<"debt", d>>, withdrawals)
                  = -(B!SettledOf(B!Requests("PENDING", {d})) + B!SettledOf(B!Requests("COMPLETED", {d})))
           /\ B!SettledOf(B!Requests("PENDING", {d})) \in Int /\ B!SettledOf(B!Requests("COMPLETED", {d})) \in Int
  <1> DEFINE D == DOMAIN withdrawals
             S(status1) == B!Requests(status1, {d})
             g(status1) == [w \in D |-> IF w \in S(status1) THEN withdrawals[w].amount ELSE 0]
             h(status1) == [w \in D |-> IF w \in S(status1) THEN withdrawals[w].settled ELSE 0]
             X == <<"wallet", d>>
             Y == <<"debt", d>>
             f == WithdrawalParts(X, withdrawals)
             k == WithdrawalParts(Y, withdrawals)
  <1>1. \A s : S(s) \in SUBSET D /\ \A w \in D : w \in S(s) <=> withdrawals[w].status = s /\ withdrawals[w].driver = d
    BY DEF B!Requests
  <1>2. \A w \in D : /\ withdrawals[w].amount \in Int /\ withdrawals[w].settled \in Int
                     /\ withdrawals[w].status \in {"PENDING", "COMPLETED", "FAILED"}
    <2>1. \A w \in D : withdrawals[w] \in WithdrawalRows
      OBVIOUS
    <2> QED
      BY <2>1 DEF WithdrawalRows
  <1>3. /\ X[1] = "wallet" /\ X[2] = d /\ Y[1] = "debt" /\ Y[2] = d
        /\ \A w \in D : f[w] = WithdrawalSays(X, withdrawals[w]) /\ k[w] = WithdrawalSays(Y, withdrawals[w])
    BY DEF WithdrawalParts
  <1>4. ASSUME NEW w \in D
        PROVE  /\ f[w] = -(g("PENDING")[w] + g("COMPLETED")[w])
               /\ k[w] = -(h("PENDING")[w] + h("COMPLETED")[w])
    <2> HIDE DEF S, X, Y, f, k
    <2>1. f[w] = IF withdrawals[w].driver = d /\ withdrawals[w].status # "FAILED"
                 THEN -withdrawals[w].amount ELSE 0
      BY <1>3 DEF WithdrawalSays
    <2>2. k[w] = IF withdrawals[w].driver = d /\ withdrawals[w].status # "FAILED"
                 THEN -withdrawals[w].settled ELSE 0
      BY <1>3 DEF WithdrawalSays
    <2>3. /\ w \in S("PENDING") <=> withdrawals[w].status = "PENDING" /\ withdrawals[w].driver = d
          /\ w \in S("COMPLETED") <=> withdrawals[w].status = "COMPLETED" /\ withdrawals[w].driver = d
      BY <1>1
    <2>4. CASE w \in S("PENDING")
      BY <1>2, <2>1, <2>2, <2>3, <2>4
    <2>5. CASE w \in S("COMPLETED")
      BY <1>2, <2>1, <2>2, <2>3, <2>5
    <2>6. CASE w \notin S("PENDING") /\ w \notin S("COMPLETED")
      <3>1. ~ (withdrawals[w].driver = d /\ withdrawals[w].status # "FAILED")
        BY <1>2, <2>3, <2>6
      <3>2. f[w] = 0 /\ k[w] = 0
        BY <2>1, <2>2, <3>1
      <3>3. /\ g("PENDING")[w] = 0 /\ g("COMPLETED")[w] = 0
            /\ h("PENDING")[w] = 0 /\ h("COMPLETED")[w] = 0
        BY <2>6
      <3> HIDE DEF g, h
      <3> QED
        BY <3>2, <3>3
    <2> QED
      BY <2>4, <2>5, <2>6
  <1>5. ASSUME NEW s \in {"PENDING", "COMPLETED"}
        PROVE  /\ B!AmountOf(S(s)) = SumFunctionOnSet(g(s), D) /\ Ints(g(s), D)
               /\ B!SettledOf(S(s)) = SumFunctionOnSet(h(s), D) /\ Ints(h(s), D)
    <2> DEFINE gs == g(s)
               hs == h(s)
               Ss == S(s)
    <2>1. /\ \A w \in D : gs[w] = IF w \in Ss THEN withdrawals[w].amount ELSE 0
          /\ \A w \in D : hs[w] = IF w \in Ss THEN withdrawals[w].settled ELSE 0
          /\ Ss \in SUBSET D
      BY <1>1
    <2> HIDE DEF gs, hs, Ss
    <2>2. /\ B!AmountOf(Ss) = SumFunctionOnSet(gs, D) /\ Ints(gs, D)
          /\ B!SettledOf(Ss) = SumFunctionOnSet(hs, D) /\ Ints(hs, D)
      BY <2>1, WithdrawalsSum
    <2> QED
      BY <2>2 DEF gs, hs, Ss
  <1>6. IsFiniteSet(D)
    BY DomainFinite
  <1> DEFINE gP == g("PENDING")
             gC == g("COMPLETED")
             hP == h("PENDING")
             hC == h("COMPLETED")
             e == [w \in D |-> gP[w] + gC[w]]
             j == [w \in D |-> hP[w] + hC[w]]
  <1>7. Ints(gP, D) /\ Ints(gC, D) /\ Ints(hP, D) /\ Ints(hC, D)
    BY <1>5
  <1>8. /\ \A w \in D : e[w] = gP[w] + gC[w] /\ j[w] = hP[w] + hC[w]
        /\ \A w \in D : f[w] = -e[w] /\ k[w] = -j[w]
    <2> HIDE DEF f, k, g, h, S, X, Y
    <2> QED
      BY <1>4
  <1>9. /\ B!AmountOf(B!Requests("PENDING", {d})) = SumFunctionOnSet(gP, D)
        /\ B!AmountOf(B!Requests("COMPLETED", {d})) = SumFunctionOnSet(gC, D)
        /\ B!SettledOf(B!Requests("PENDING", {d})) = SumFunctionOnSet(hP, D)
        /\ B!SettledOf(B!Requests("COMPLETED", {d})) = SumFunctionOnSet(hC, D)
    BY <1>5
  <1>10. /\ WithdrawalSum(<<"wallet", d>>, withdrawals) = SumFunctionOnSet(f, D)
         /\ WithdrawalSum(<<"debt", d>>, withdrawals) = SumFunctionOnSet(k, D)
    BY DEF WithdrawalSum
  <1> HIDE DEF gP, gC, hP, hC, e, j, f, k, D
  <1>11. Ints(e, D) /\ Ints(j, D)
    BY <1>7, <1>8 DEF Ints
  <1>12. /\ SumFunctionOnSet(e, D) = SumFunctionOnSet(gP, D) + SumFunctionOnSet(gC, D)
         /\ SumFunctionOnSet(j, D) = SumFunctionOnSet(hP, D) + SumFunctionOnSet(hC, D)
    BY <1>6, <1>7, <1>8, SumPlus
  <1>13. SumFunctionOnSet(f, D) = -SumFunctionOnSet(e, D) /\ SumFunctionOnSet(k, D) = -SumFunctionOnSet(j, D)
    BY <1>6, <1>8, <1>11, SumNeg
  <1>14. /\ SumFunctionOnSet(gP, D) \in Int /\ SumFunctionOnSet(gC, D) \in Int
         /\ SumFunctionOnSet(hP, D) \in Int /\ SumFunctionOnSet(hC, D) \in Int
    BY <1>6, <1>7, SumInt
  <1> QED
    BY <1>9, <1>10, <1>12, <1>13, <1>14

\* What is posted on a driver's wallet, and the payouts.
LEMMA WalletPosted ==
    ASSUME Postings(posted), NEW d \in Drivers
    PROVE  LET payouts == {tx \in B!OfType("REFERRAL_PAYOUT") : B!Driver(d) \in DOMAIN tx.entries}
           IN  /\ Posted(<<"wallet", d>>, posted) = B!Balance(B!Driver(d)) - B!Amount(payouts)
               /\ B!Balance(B!Driver(d)) \in Int /\ B!Amount(payouts) \in Int
  <1> DEFINE X == <<"wallet", d>>
             S == {tx \in B!OfType("REFERRAL_PAYOUT") : B!Driver(d) \in DOMAIN tx.entries}
             f == [tx \in posted |-> B!Entry(tx, B!Driver(d))]
             g == [tx \in posted |-> IF tx \in S THEN tx.amount ELSE 0]
             k == [tx \in posted |-> Aside(X, tx)]
  <1>1. X \in Aspects /\ X[1] = "wallet" /\ X[2] = d
    BY DEF Aspects
  <1>2. S \in SUBSET posted /\ \A tx \in posted : tx \in S <=> PayoutTo(tx, d)
    BY DEF B!OfType, PayoutTo
  <1>3. \A tx \in posted : f[tx] = Part(X, tx) /\ k[tx] = Aside(X, tx)
    BY <1>1 DEF Part
  <1>4. \A tx \in posted : g[tx] = IF tx \in S THEN tx.amount ELSE 0
    OBVIOUS
  <1>5. \A tx \in posted : k[tx] = -g[tx]
    <2>1. \A tx \in posted : Aside(X, tx) = IF PayoutTo(tx, d) THEN -tx.amount ELSE 0
      BY <1>1 DEF Aside
    <2> HIDE DEF X, S
    <2>2. \A tx \in posted : k[tx] = IF PayoutTo(tx, d) THEN -tx.amount ELSE 0
      BY <2>1
    <2> HIDE DEF k, g
    <2> QED
      BY <1>2, <1>4, <2>2
  <1>6. B!Balance(B!Driver(d)) = SumFunctionOnSet(f, posted)
    BY BalanceSum, EmptyAtFirst
  <1>7. IsFiniteSet(posted)
    BY DEF Postings
  <1> SUFFICES /\ Posted(X, posted) = B!Balance(B!Driver(d)) - B!Amount(S)
               /\ B!Balance(B!Driver(d)) \in Int /\ B!Amount(S) \in Int
    OBVIOUS
  <1> HIDE DEF X, S, f, g, k
  <1>8. /\ Posted(X, posted) = SumFunctionOnSet(f, posted) + SumFunctionOnSet(k, posted)
        /\ SumFunctionOnSet(f, posted) \in Int
    BY <1>1, <1>3, PostedIs
  <1>9. B!Amount(S) = SumFunctionOnSet(g, posted) /\ Ints(g, posted) /\ SumFunctionOnSet(g, posted) \in Int
    BY <1>2, <1>4, AmountSum
  <1>10. SumFunctionOnSet(k, posted) = -SumFunctionOnSet(g, posted)
    BY <1>5, <1>7, <1>9, SumNeg
  <1> QED
    BY <1>6, <1>8, <1>9, <1>10

\* What is posted on a driver's debt, and the settlements by top-ups.
LEMMA DebtPosted ==
    ASSUME Postings(posted), NEW d \in Drivers
    PROVE  LET settled == {tx \in B!OfType("COMMISSION_SETTLEMENT") :
                             tx.ref[1] = "settle topup" /\ B!Payable(d) \in DOMAIN tx.entries}
           IN  /\ Posted(<<"debt", d>>, posted) = B!Balance(B!Payable(d)) + B!Amount(settled)
               /\ B!Balance(B!Payable(d)) \in Int /\ B!Amount(settled) \in Int
  <1> DEFINE X == <<"debt", d>>
             S == {tx \in B!OfType("COMMISSION_SETTLEMENT") :
                      tx.ref[1] = "settle topup" /\ B!Payable(d) \in DOMAIN tx.entries}
             f == [tx \in posted |-> B!Entry(tx, B!Payable(d))]
             g == [tx \in posted |-> IF tx \in S THEN tx.amount ELSE 0]
  <1>1. X \in Aspects /\ X[1] = "debt" /\ X[2] = d
    BY DEF Aspects
  <1>2. S \in SUBSET posted /\ \A tx \in posted : tx \in S <=> SettledByTopUp(tx, d)
    BY DEF B!OfType, SettledByTopUp
  <1>4. \A tx \in posted : g[tx] = IF tx \in S THEN tx.amount ELSE 0
    OBVIOUS
  <1>3. \A tx \in posted : f[tx] = Part(X, tx) /\ g[tx] = Aside(X, tx)
    <2>1. \A tx \in posted : Aside(X, tx) = IF SettledByTopUp(tx, d) THEN tx.amount ELSE 0
      BY <1>1 DEF Aside
    <2>2. \A tx \in posted : f[tx] = Part(X, tx)
      BY <1>1 DEF Part
    <2> HIDE DEF X, S, f, g
    <2> QED
      BY <1>2, <1>4, <2>1, <2>2
  <1>6. B!Balance(B!Payable(d)) = SumFunctionOnSet(f, posted)
    BY BalanceSum, EmptyAtFirst
  <1> SUFFICES /\ Posted(X, posted) = B!Balance(B!Payable(d)) + B!Amount(S)
               /\ B!Balance(B!Payable(d)) \in Int /\ B!Amount(S) \in Int
    OBVIOUS
  <1> HIDE DEF X, S, f, g
  <1>8. /\ Posted(X, posted) = SumFunctionOnSet(f, posted) + SumFunctionOnSet(g, posted)
        /\ SumFunctionOnSet(f, posted) \in Int
    BY <1>1, <1>3, PostedIs
  <1>9. B!Amount(S) = SumFunctionOnSet(g, posted) /\ SumFunctionOnSet(g, posted) \in Int
    BY <1>2, <1>4, AmountSum
  <1> QED
    BY <1>6, <1>8, <1>9

\* What is posted on a company's debt.
LEMMA CreditPosted ==
    ASSUME Postings(posted), NEW b \in Businesses
    PROVE  Posted(<<"credit", b>>, posted) = B!Balance(B!Credit(b)) /\ B!Balance(B!Credit(b)) \in Int
  <1> DEFINE X == <<"credit", b>>
             a == B!Credit(b)
  <1>1. X \in Aspects /\ X[1] = "credit" /\ X[2] = b
    BY DEF Aspects
  <1>2. \A tx : Part(X, tx) = B!Entry(tx, a) /\ Aside(X, tx) = 0
    BY <1>1 DEF Part, Aside
  <1>3. ASSUME NEW tx \in posted PROVE Weight(X, tx) = B!Entry(tx, a)
    <2>1. B!Entry(tx, a) \in Int
      BY EntryInt DEF Postings, IsPosting, EntriesInt
    <2> QED
      BY <1>2, <2>1 DEF Weight
  <1>4. B!AtFirst(a) = 0
    BY EmptyAtFirst
  <1> QED
    BY <1>1, <1>3, <1>4, BalanceIs

-----------------------------------------------------------------------------
(* What the trips' rows say of a driver.                                   *)

LEMMA RowInts ==
    ASSUME trips \in Seq(TripRows), NEW i \in DOMAIN trips
    PROVE  /\ trips[i] \in TripRows /\ trips[i].kind \in {"RIDE", "DELIVERY"}
           /\ FareOf[trips[i].kind].commission \in Int /\ FareOf[trips[i].kind].tax \in Int
           /\ Share(trips[i]) \in Int /\ B!DriverShare(i) = Share(trips[i])
           /\ Fee.total \in Int /\ Fee.commission \in Int
  <1>1. trips[i] \in TripRows
    OBVIOUS
  <1>2. trips[i].kind \in {"RIDE", "DELIVERY"}
    BY <1>1 DEF TripRows
  <1>3. /\ FareOf[trips[i].kind].total \in Int /\ FareOf[trips[i].kind].commission \in Int
        /\ FareOf[trips[i].kind].tax \in Int /\ Fee.commission \in Int /\ Fee.total \in Int
    BY <1>2, BooksConstants
  <1> QED
    BY <1>1, <1>2, <1>3 DEF Share, B!DriverShare

LEMMA TripPartIs ==
    ASSUME NEW X, NEW i \in DOMAIN trips
    PROVE  TripParts(X, trips, invoices, posted)[i]
               = TripSays(X, trips[i], PaidTrip(i, trips[i], invoices, posted), ReversedTrip(trips[i], posted))
  BY DEF TripParts

\* A driver's wallet: shares of what was paid, and of the fees.
LEMMA WalletTrips ==
    ASSUME trips \in Seq(TripRows), NEW d \in Drivers
    PROVE  LET mine == {i \in DOMAIN trips : trips[i].driver = d}
               shares == B!Total([i \in B!PaidTrips(mine) \cup B!PaidInvoices(mine) |-> B!DriverShare(i)])
               fees == B!Total([i \in mine |-> IF trips[i].fee > 0 THEN Fee.total - Fee.commission ELSE 0])
           IN  /\ TripSum(<<"wallet", d>>, trips, invoices, posted) = shares + fees
               /\ shares \in Int /\ fees \in Int
  <1> DEFINE X == <<"wallet", d>>
             D == DOMAIN trips
             mine == {i \in D : trips[i].driver = d}
             S == B!PaidTrips(mine) \cup B!PaidInvoices(mine)
             f == [i \in S |-> B!DriverShare(i)]
             g == [i \in mine |-> IF trips[i].fee > 0 THEN Fee.total - Fee.commission ELSE 0]
             f1 == [i \in D |-> IF i \in S THEN B!DriverShare(i) ELSE 0]
             g1 == [i \in D |-> IF i \in mine
                                THEN IF trips[i].fee > 0 THEN Fee.total - Fee.commission ELSE 0 ELSE 0]
             h == TripParts(X, trips, invoices, posted)
  <1>1. X[1] = "wallet" /\ X[2] = d
    OBVIOUS
  <1>2. \A i \in D : i \in S <=> trips[i].driver = d /\ PaidTrip(i, trips[i], invoices, posted)
    BY DEF B!PaidTrips, B!PaidInvoices, PaidTrip, PaidFor, PaidByInvoice
  <1>3. S \in SUBSET D /\ mine \in SUBSET D
    BY DEF B!PaidTrips, B!PaidInvoices
  <1>4. /\ DOMAIN f = S /\ \A i \in S : f[i] = B!DriverShare(i)
        /\ DOMAIN g = mine /\ \A i \in D : i \in mine <=> trips[i].driver = d
        /\ \A i \in mine : g[i] = IF trips[i].fee > 0 THEN Fee.total - Fee.commission ELSE 0
    OBVIOUS
  <1>5. /\ \A i \in D : f1[i] = IF i \in S THEN B!DriverShare(i) ELSE 0
        /\ \A i \in D : g1[i] = IF i \in mine
                                THEN IF trips[i].fee > 0 THEN Fee.total - Fee.commission ELSE 0 ELSE 0
    OBVIOUS
  <1>6. IsFiniteSet(D)
    BY DomainFinite
  <1>7. TripSum(X, trips, invoices, posted) = SumFunctionOnSet(h, D)
    BY DEF TripSum
  <1> SUFFICES /\ TripSum(X, trips, invoices, posted) = B!Total(f) + B!Total(g)
               /\ B!Total(f) \in Int /\ B!Total(g) \in Int
    OBVIOUS
  <1>8. \A i \in D : h[i] = TripSays(X, trips[i], PaidTrip(i, trips[i], invoices, posted),
                                     ReversedTrip(trips[i], posted))
    BY TripPartIs
  <1> HIDE DEF S, f, g, f1, g1, h, mine
  <1>9. ASSUME NEW i \in D PROVE h[i] = f1[i] + g1[i] /\ f1[i] \in Int /\ g1[i] \in Int
    <2>1. /\ B!DriverShare(i) = Share(trips[i]) /\ Share(trips[i]) \in Int
          /\ Fee.total \in Int /\ Fee.commission \in Int
      BY RowInts
    <2>2. h[i] = IF trips[i].driver = d
                 THEN (IF PaidTrip(i, trips[i], invoices, posted) THEN Share(trips[i]) ELSE 0)
                         + (IF trips[i].fee > 0 THEN Fee.total - Fee.commission ELSE 0)
                 ELSE 0
      <3>1. h[i] = TripSays(X, trips[i], PaidTrip(i, trips[i], invoices, posted), ReversedTrip(trips[i], posted))
        BY <1>8
      <3> HIDE DEF X
      <3> QED
        BY <1>1, <3>1 DEF TripSays
    <2>3. CASE trips[i].driver = d
      <3>1. g1[i] = IF trips[i].fee > 0 THEN Fee.total - Fee.commission ELSE 0
        BY <1>4, <1>5, <2>3
      <3>2. f1[i] = IF PaidTrip(i, trips[i], invoices, posted) THEN Share(trips[i]) ELSE 0
        BY <1>2, <1>5, <2>1, <2>3
      <3>3. h[i] = f1[i] + g1[i]
        BY <2>2, <2>3, <3>1, <3>2
      <3> QED
        BY <2>1, <3>1, <3>2, <3>3
    <2>4. CASE trips[i].driver # d
      <3>1. g1[i] = 0 /\ f1[i] = 0 /\ h[i] = 0
        BY <1>2, <1>4, <1>5, <2>2, <2>4
      <3> QED
        BY <3>1
    <2> QED
      BY <2>3, <2>4
  <1>10. Ints(f1, D) /\ Ints(g1, D) /\ \A i \in D : h[i] = f1[i] + g1[i]
    BY <1>9 DEF Ints
  <1>11. SumFunctionOnSet(h, D) = SumFunctionOnSet(f1, D) + SumFunctionOnSet(g1, D)
    BY <1>6, <1>10, SumPlus
  <1>12. DOMAIN f \subseteq D /\ Ints(f, DOMAIN f) /\ \A i \in D : f1[i] = IF i \in DOMAIN f THEN f[i] ELSE 0
    <2>1. \A i \in S : f[i] = f1[i] /\ i \in D
      BY <1>3, <1>4, <1>5
    <2> QED
      BY <1>3, <1>4, <1>5, <1>10, <2>1 DEF Ints
  <1>13. DOMAIN g \subseteq D /\ Ints(g, DOMAIN g) /\ \A i \in D : g1[i] = IF i \in DOMAIN g THEN g[i] ELSE 0
    <2>1. \A i \in mine : g[i] = g1[i] /\ i \in D
      BY <1>3, <1>4, <1>5
    <2> QED
      BY <1>3, <1>4, <1>5, <1>10, <2>1 DEF Ints
  <1>14. B!Total(f) = SumFunctionOnSet(f1, D) /\ SumFunctionOnSet(f1, D) \in Int
    BY <1>6, <1>12, TotalPart
  <1>15. B!Total(g) = SumFunctionOnSet(g1, D) /\ SumFunctionOnSet(g1, D) \in Int
    BY <1>6, <1>13, TotalPart
  <1> QED
    BY <1>7, <1>11, <1>14, <1>15

\* A driver's debt: commission and tax of the trips paid for in cash.
LEMMA DebtTrips ==
    ASSUME trips \in Seq(TripRows), NEW d \in Drivers
    PROVE  LET mine == {i \in B!CashTrips : trips[i].driver = d}
               taxes == B!Total([i \in mine |-> FareOf[trips[i].kind].tax])
           IN  /\ TripSum(<<"debt", d>>, trips, invoices, posted) = B!Commissions(mine) + taxes
               /\ B!Commissions(mine) \in Int /\ taxes \in Int
  <1> DEFINE X == <<"debt", d>>
             D == DOMAIN trips
             mine == {i \in B!CashTrips : trips[i].driver = d}
             f == [i \in mine |-> FareOf[trips[i].kind].commission]
             g == [i \in mine |-> FareOf[trips[i].kind].tax]
             f1 == [i \in D |-> IF i \in mine THEN FareOf[trips[i].kind].commission ELSE 0]
             g1 == [i \in D |-> IF i \in mine THEN FareOf[trips[i].kind].tax ELSE 0]
             h == TripParts(X, trips, invoices, posted)
  <1>1. X[1] = "debt" /\ X[2] = d
    OBVIOUS
  <1>2. mine \in SUBSET D /\ \A i \in D : i \in mine <=> Cash(trips[i]) /\ trips[i].driver = d
    BY DEF B!CashTrips, B!InStatus, Cash
  <1>4. /\ DOMAIN f = mine /\ \A i \in mine : f[i] = FareOf[trips[i].kind].commission
        /\ DOMAIN g = mine /\ \A i \in mine : g[i] = FareOf[trips[i].kind].tax
    OBVIOUS
  <1>5. /\ \A i \in D : f1[i] = IF i \in mine THEN FareOf[trips[i].kind].commission ELSE 0
        /\ \A i \in D : g1[i] = IF i \in mine THEN FareOf[trips[i].kind].tax ELSE 0
    OBVIOUS
  <1>6. IsFiniteSet(D)
    BY DomainFinite
  <1>7. TripSum(X, trips, invoices, posted) = SumFunctionOnSet(h, D)
    BY DEF TripSum
  <1> SUFFICES /\ TripSum(X, trips, invoices, posted) = B!Commissions(mine) + B!Total(g)
               /\ B!Commissions(mine) \in Int /\ B!Total(g) \in Int
    OBVIOUS
  <1>8. \A i \in D : h[i] = TripSays(X, trips[i], PaidTrip(i, trips[i], invoices, posted),
                                     ReversedTrip(trips[i], posted))
    BY TripPartIs
  <1> HIDE DEF f, g, f1, g1, h, mine
  <1>9. ASSUME NEW i \in D PROVE h[i] = f1[i] + g1[i] /\ f1[i] \in Int /\ g1[i] \in Int
    <2>1. FareOf[trips[i].kind].commission \in Int /\ FareOf[trips[i].kind].tax \in Int
      BY RowInts
    <2>2. h[i] = IF Cash(trips[i]) /\ trips[i].driver = d
                 THEN FareOf[trips[i].kind].commission + FareOf[trips[i].kind].tax ELSE 0
      <3>1. h[i] = TripSays(X, trips[i], PaidTrip(i, trips[i], invoices, posted), ReversedTrip(trips[i], posted))
        BY <1>8
      <3> HIDE DEF X
      <3> QED
        BY <1>1, <3>1 DEF TripSays
    <2>3. CASE i \in mine
      BY <1>2, <1>5, <2>1, <2>2, <2>3
    <2>4. CASE i \notin mine
      <3>1. g1[i] = 0 /\ f1[i] = 0 /\ h[i] = 0
        BY <1>2, <1>5, <2>2, <2>4
      <3> QED
        BY <3>1
    <2> QED
      BY <2>3, <2>4
  <1>10. Ints(f1, D) /\ Ints(g1, D) /\ \A i \in D : h[i] = f1[i] + g1[i]
    BY <1>9 DEF Ints
  <1>11. SumFunctionOnSet(h, D) = SumFunctionOnSet(f1, D) + SumFunctionOnSet(g1, D)
    BY <1>6, <1>10, SumPlus
  <1>12. DOMAIN f \subseteq D /\ Ints(f, DOMAIN f) /\ \A i \in D : f1[i] = IF i \in DOMAIN f THEN f[i] ELSE 0
    <2>1. \A i \in mine : f[i] = f1[i] /\ i \in D
      BY <1>2, <1>4, <1>5
    <2> QED
      BY <1>2, <1>4, <1>5, <1>10, <2>1 DEF Ints
  <1>13. DOMAIN g \subseteq D /\ Ints(g, DOMAIN g) /\ \A i \in D : g1[i] = IF i \in DOMAIN g THEN g[i] ELSE 0
    <2>1. \A i \in mine : g[i] = g1[i] /\ i \in D
      BY <1>2, <1>4, <1>5
    <2> QED
      BY <1>2, <1>4, <1>5, <1>10, <2>1 DEF Ints
  <1>14. B!Total(f) = SumFunctionOnSet(f1, D) /\ SumFunctionOnSet(f1, D) \in Int
    BY <1>6, <1>12, TotalPart
  <1>15. B!Total(g) = SumFunctionOnSet(g1, D) /\ SumFunctionOnSet(g1, D) \in Int
    BY <1>6, <1>13, TotalPart
  <1>16. B!Commissions(mine) = B!Total(f)
    BY <1>2, <1>4, CommissionsAre
  <1> QED
    BY <1>7, <1>11, <1>14, <1>15, <1>16

\* Rows that say nothing of an aspect.
LEMMA SilentRows ==
    ASSUME Rows(trips, invoices), withdrawals \in Seq(WithdrawalRows)
    PROVE  /\ \A d \in Drivers : InvoiceSum(<<"wallet", d>>, invoices) = 0 /\ InvoiceSum(<<"debt", d>>, invoices) = 0
           /\ \A b \in Businesses : /\ TripSum(<<"credit", b>>, trips, invoices, posted) = 0
                                    /\ WithdrawalSum(<<"credit", b>>, withdrawals) = 0
           /\ WithdrawalSum(<<"revenue", None>>, withdrawals) = 0
  <1>1. /\ IsFiniteSet(DOMAIN trips) /\ IsFiniteSet(DOMAIN invoices) /\ IsFiniteSet(DOMAIN withdrawals)
    BY DomainFinite DEF Rows
  <1>2. ASSUME NEW X, X[1] \notin {"revenue", "credit"} PROVE InvoiceSum(X, invoices) = 0
    <2>1. \A k \in DOMAIN invoices : InvoiceParts(X, invoices)[k] = 0
      BY <1>2 DEF InvoiceParts, InvoiceSays
    <2> QED
      BY <1>1, <2>1, SumZero DEF InvoiceSum
  <1>3. ASSUME NEW X, X[1] \notin {"wallet", "debt"} PROVE WithdrawalSum(X, withdrawals) = 0
    <2>1. \A w \in DOMAIN withdrawals : WithdrawalParts(X, withdrawals)[w] = 0
      BY <1>3 DEF WithdrawalParts, WithdrawalSays
    <2> QED
      BY <1>1, <2>1, SumZero DEF WithdrawalSum
  <1>4. ASSUME NEW X, X[1] \notin {"wallet", "debt", "revenue"} PROVE TripSum(X, trips, invoices, posted) = 0
    <2>1. \A i \in DOMAIN trips : TripParts(X, trips, invoices, posted)[i] = 0
      BY <1>4 DEF TripParts, TripSays
    <2> QED
      BY <1>1, <2>1, SumZero DEF TripSum
  <1>5. ASSUME NEW d PROVE InvoiceSum(<<"wallet", d>>, invoices) = 0 /\ InvoiceSum(<<"debt", d>>, invoices) = 0
    <2>1. <<"wallet", d>>[1] = "wallet" /\ <<"debt", d>>[1] = "debt"
      OBVIOUS
    <2> QED
      BY <1>2, <2>1
  <1>6. ASSUME NEW b
        PROVE  TripSum(<<"credit", b>>, trips, invoices, posted) = 0 /\ WithdrawalSum(<<"credit", b>>, withdrawals) = 0
    <2>1. <<"credit", b>>[1] = "credit"
      OBVIOUS
    <2> QED
      BY <1>3, <1>4, <2>1
  <1>7. WithdrawalSum(<<"revenue", None>>, withdrawals) = 0
    <2>1. <<"revenue", None>>[1] = "revenue"
      OBVIOUS
    <2> QED
      BY <1>3, <2>1
  <1> QED
    BY <1>5, <1>6, <1>7

LEMMA WalletHolds ==
    ASSUME BooksInv, NEW d \in Drivers
    PROVE  B!WalletExplained(d)
  <1> DEFINE X == <<"wallet", d>>
             mine == {i \in DOMAIN trips : trips[i].driver = d}
             shares == B!Total([i \in B!PaidTrips(mine) \cup B!PaidInvoices(mine) |-> B!DriverShare(i)])
             fees == B!Total([i \in mine |-> IF trips[i].fee > 0 THEN Fee.total - Fee.commission ELSE 0])
             payouts == B!Amount({tx \in B!OfType("REFERRAL_PAYOUT") : B!Driver(d) \in DOMAIN tx.entries})
             balance == B!Balance(B!Driver(d))
             p == B!AmountOf(B!Requests("PENDING", {d}))
             c == B!AmountOf(B!Requests("COMPLETED", {d}))
  <1>1. /\ Postings(posted) /\ Rows(trips, invoices) /\ withdrawals \in Seq(WithdrawalRows)
    BY BooksNow
  <1>2. X \in Aspects /\ X[1] # "payable"
    BY DEF Aspects
  <1>3. Posted(X, posted) = TripSum(X, trips, invoices, posted) + InvoiceSum(X, invoices) + WithdrawalSum(X, withdrawals)
    BY <1>2, SaidIs DEF BooksInv, Balanced
  <1>4. InvoiceSum(X, invoices) = 0
    BY <1>1, SilentRows
  <1>5. TripSum(X, trips, invoices, posted) = shares + fees /\ shares \in Int /\ fees \in Int
    BY <1>1, WalletTrips DEF Rows
  <1>6. Posted(X, posted) = balance - payouts /\ balance \in Int /\ payouts \in Int
    BY <1>1, WalletPosted
  <1>7. WithdrawalSum(X, withdrawals) = -(p + c) /\ p \in Int /\ c \in Int
    BY <1>1, WithdrawnIs
  <1> SUFFICES balance + p + c = shares + fees + payouts
    BY DEF B!WalletExplained
  <1> HIDE DEF X, shares, fees, payouts, balance, p, c
  <1>8. balance - payouts = (shares + fees) + 0 + (-(p + c))
    BY <1>3, <1>4, <1>5, <1>6, <1>7
  <1> QED
    BY <1>5, <1>6, <1>7, <1>8

LEMMA DebtHolds ==
    ASSUME BooksInv, NEW d \in Drivers
    PROVE  B!DebtExplained(d)
  <1> DEFINE X == <<"debt", d>>
             mine == {i \in B!CashTrips : trips[i].driver = d}
             commission == B!Commissions(mine)
             taxes == B!Total([i \in mine |-> FareOf[trips[i].kind].tax])
             settled == B!Amount({tx \in B!OfType("COMMISSION_SETTLEMENT") :
                                     tx.ref[1] = "settle topup" /\ B!Payable(d) \in DOMAIN tx.entries})
             balance == B!Balance(B!Payable(d))
             p == B!SettledOf(B!Requests("PENDING", {d}))
             c == B!SettledOf(B!Requests("COMPLETED", {d}))
  <1>1. /\ Postings(posted) /\ Rows(trips, invoices) /\ withdrawals \in Seq(WithdrawalRows)
    BY BooksNow
  <1>2. X \in Aspects /\ X[1] # "payable"
    BY DEF Aspects
  <1>3. Posted(X, posted) = TripSum(X, trips, invoices, posted) + InvoiceSum(X, invoices) + WithdrawalSum(X, withdrawals)
    BY <1>2, SaidIs DEF BooksInv, Balanced
  <1>4. InvoiceSum(X, invoices) = 0
    BY <1>1, SilentRows
  <1>5. TripSum(X, trips, invoices, posted) = commission + taxes /\ commission \in Int /\ taxes \in Int
    BY <1>1, DebtTrips DEF Rows
  <1>6. Posted(X, posted) = balance + settled /\ balance \in Int /\ settled \in Int
    BY <1>1, DebtPosted
  <1>7. WithdrawalSum(X, withdrawals) = -(p + c) /\ p \in Int /\ c \in Int
    BY <1>1, WithdrawnIs
  <1> SUFFICES balance + settled + p + c = commission + taxes
    BY DEF B!DebtExplained
  <1> HIDE DEF X, commission, taxes, settled, balance, p, c
  <1>8. balance + settled = (commission + taxes) + 0 + (-(p + c))
    BY <1>3, <1>4, <1>5, <1>6, <1>7
  <1> QED
    BY <1>5, <1>6, <1>7, <1>8

\* A company's debt is its unpaid invoices.
LEMMA CreditHolds ==
    ASSUME BooksInv, NEW b \in Businesses
    PROVE  /\ B!Outstanding(b) = B!InvoiceAmount(B!Unpaid(b))
           /\ B!CreditStatus(b) = "ON_CREDIT" <=> \E k \in B!Unpaid(b) : invoices[k].amount > 0
  <1> DEFINE X == <<"credit", b>>
             D == DOMAIN invoices
             S == B!Unpaid(b)
             f == [k \in S |-> invoices[k].amount]
             g == InvoiceParts(X, invoices)
  <1>1. /\ Postings(posted) /\ Rows(trips, invoices) /\ withdrawals \in Seq(WithdrawalRows)
    BY BooksNow
  <1>2. X \in Aspects /\ X[1] = "credit" /\ X[2] = b
    BY DEF Aspects
  <1>3. Posted(X, posted) = TripSum(X, trips, invoices, posted) + InvoiceSum(X, invoices) + WithdrawalSum(X, withdrawals)
    BY <1>2, SaidIs DEF BooksInv, Balanced
  <1>4. TripSum(X, trips, invoices, posted) = 0 /\ WithdrawalSum(X, withdrawals) = 0
    BY <1>1, SilentRows
  <1>5. Posted(X, posted) = B!Outstanding(b)
    BY <1>1, CreditPosted DEF B!Outstanding
  <1>6. \A k \in D : invoices[k].amount \in Nat /\ invoices[k].status \in {"PENDING", "PAID"}
    <2>1. \A k \in D : invoices[k] \in InvoiceRows
      BY <1>1 DEF Rows
    <2> QED
      BY <2>1 DEF InvoiceRows
  <1>7. S \in SUBSET D /\ \A k \in D : k \in S <=> invoices[k].status = "PENDING" /\ invoices[k].business = b
    BY DEF B!Unpaid
  <1>8. DOMAIN f = S /\ \A k \in S : f[k] = invoices[k].amount
    OBVIOUS
  <1>9. \A k \in D : g[k] = InvoiceSays(X, invoices[k])
    BY DEF InvoiceParts
  <1>10. IsFiniteSet(D)
    BY <1>1, DomainFinite DEF Rows
  <1>11. InvoiceSum(X, invoices) = SumFunctionOnSet(g, D) /\ B!InvoiceAmount(S) = B!Total(f)
    BY DEF InvoiceSum, B!InvoiceAmount
  <1> HIDE DEF X, S, f, g
  <1>12. \A k \in D : g[k] = IF k \in S THEN invoices[k].amount ELSE 0
    BY <1>2, <1>7, <1>9 DEF InvoiceSays
  <1>13. DOMAIN f \subseteq D /\ Ints(f, DOMAIN f) /\ \A k \in D : g[k] = IF k \in DOMAIN f THEN f[k] ELSE 0
    <2>1. \A k \in S : f[k] \in Int /\ f[k] = invoices[k].amount
      BY <1>6, <1>7, <1>8
    <2> QED
      BY <1>7, <1>8, <1>12, <2>1 DEF Ints
  <1>14. B!Total(f) = SumFunctionOnSet(g, D) /\ SumFunctionOnSet(g, D) \in Int
    BY <1>10, <1>13, TotalPart
  <1>15. B!Outstanding(b) = SumFunctionOnSet(g, D)
    BY <1>3, <1>4, <1>5, <1>11, <1>14
  <1>16. \A k \in D : g[k] \in Nat
    BY <1>6, <1>12
  <1>17. SumFunctionOnSet(g, D) > 0 <=> \E k \in D : g[k] > 0
    BY <1>10, <1>16, SumPositive
  <1>18. (\E k \in D : g[k] > 0) <=> \E k \in S : invoices[k].amount > 0
    BY <1>7, <1>12
  <1>19. B!CreditStatus(b) = "ON_CREDIT" <=> B!Outstanding(b) > 0
    <2>1. ~ \E k \in DOMAIN invoices : invoices[k].business = b /\ invoices[k].status = "OVERDUE"
      BY <1>6
    <2> QED
      BY <2>1 DEF B!CreditStatus
  <1> QED
    BY <1>11, <1>14, <1>15, <1>17, <1>18, <1>19 DEF S

-----------------------------------------------------------------------------
(* Revenue.                                                                *)

\* The commission of some of the trips.
LEMMA CommissionSum ==
    ASSUME trips \in Seq(TripRows), NEW S \in SUBSET DOMAIN trips, NEW g,
           \A i \in DOMAIN trips : g[i] = IF i \in S THEN FareOf[trips[i].kind].commission ELSE 0
    PROVE  /\ B!Commissions(S) = SumFunctionOnSet(g, DOMAIN trips) /\ Ints(g, DOMAIN trips)
           /\ B!Commissions(S) \in Int
  <1> DEFINE f == [i \in S |-> FareOf[trips[i].kind].commission]
             D == DOMAIN trips
  <1>1. DOMAIN f = S /\ \A i \in S : f[i] = FareOf[trips[i].kind].commission
    OBVIOUS
  <1> HIDE DEF f
  <1>2. B!Commissions(S) = B!Total(f) /\ Ints(f, S)
    BY <1>1, CommissionsAre
  <1>3. DOMAIN f \subseteq D /\ Ints(f, DOMAIN f) /\ IsFiniteSet(D)
    BY <1>1, <1>2, DomainFinite
  <1>4. \A i \in D : g[i] = IF i \in DOMAIN f THEN f[i] ELSE 0
    BY <1>1
  <1>5. B!Total(f) = SumFunctionOnSet(g, D) /\ Ints(g, D) /\ SumFunctionOnSet(g, D) \in Int
    BY <1>3, <1>4, TotalPart
  <1> QED
    BY <1>2, <1>5

LEMMA ThreePlus ==
    ASSUME NEW S, IsFiniteSet(S), NEW f, NEW g, NEW h, NEW e, Ints(f, S), Ints(g, S), Ints(h, S),
           \A x \in S : e[x] = f[x] + g[x] + h[x]
    PROVE  /\ SumFunctionOnSet(e, S) = SumFunctionOnSet(f, S) + SumFunctionOnSet(g, S) + SumFunctionOnSet(h, S)
           /\ SumFunctionOnSet(f, S) \in Int /\ SumFunctionOnSet(g, S) \in Int /\ SumFunctionOnSet(h, S) \in Int
           /\ Ints(e, S)
  <1> DEFINE k == [x \in S |-> f[x] + g[x]]
  <1>1. \A x \in S : k[x] = f[x] + g[x]
    OBVIOUS
  <1> HIDE DEF k
  <1>2. Ints(k, S) /\ Ints(e, S) /\ \A x \in S : e[x] = k[x] + h[x]
    BY <1>1 DEF Ints
  <1>3. SumFunctionOnSet(k, S) = SumFunctionOnSet(f, S) + SumFunctionOnSet(g, S)
    BY <1>1, SumPlus
  <1>4. SumFunctionOnSet(e, S) = SumFunctionOnSet(k, S) + SumFunctionOnSet(h, S)
    BY <1>2, SumPlus
  <1> QED
    BY <1>2, <1>3, <1>4, SumInt

LEMMA RevenueTrips ==
    ASSUME TripsOK(trips)
    PROVE  LET taxes == B!Total([i \in B!CashTrips |-> FareOf[trips[i].kind].tax])
               fees == B!Total([i \in DOMAIN trips |-> IF trips[i].fee > 0 THEN Fee.commission ELSE 0])
               rides == B!Commissions(B!CompletedOn("RIDE", B!Ever))
               deliveries == B!Commissions(B!CompletedOn("DELIVERY", B!Ever))
           IN  /\ TripSum(<<"revenue", None>>, trips, invoices, posted) + B!Commissions(B!ReversedTrips)
                     = rides + deliveries + taxes + fees
               /\ taxes \in Int /\ fees \in Int /\ rides \in Int /\ deliveries \in Int
               /\ B!Commissions(B!ReversedTrips) \in Int
               /\ TripSum(<<"revenue", None>>, trips, invoices, posted) \in Int
  <1> DEFINE X == <<"revenue", None>>
             D == DOMAIN trips
             com(i) == FareOf[trips[i].kind].commission
             tax(i) == FareOf[trips[i].kind].tax
             RS == B!CompletedOn("RIDE", B!Ever)
             DS == B!CompletedOn("DELIVERY", B!Ever)
             CS == B!CashTrips
             VS == B!ReversedTrips
             r1 == [i \in D |-> IF i \in RS THEN com(i) ELSE 0]
             d1 == [i \in D |-> IF i \in DS THEN com(i) ELSE 0]
             v1 == [i \in D |-> IF i \in VS THEN com(i) ELSE 0]
             x == [i \in CS |-> tax(i)]
             x1 == [i \in D |-> IF i \in CS THEN tax(i) ELSE 0]
             e == [i \in D |-> IF trips[i].fee > 0 THEN Fee.commission ELSE 0]
             h == TripParts(X, trips, invoices, posted)
             a1 == [i \in D |-> r1[i] + d1[i]]
             b1 == [i \in D |-> h[i] + v1[i]]
  <1>1. X[1] = "revenue"
    OBVIOUS
  <1>2. trips \in Seq(TripRows) /\ \A i \in D : trips[i].status = "COMPLETED" => trips[i].ended \in B!Ever
    BY DEF TripsOK, TripOK
  <1>3. IsFiniteSet(D)
    BY <1>2, DomainFinite
  <1>4. /\ RS \in SUBSET D /\ DS \in SUBSET D /\ CS \in SUBSET D /\ VS \in SUBSET D
        /\ \A i \in D : /\ i \in RS <=> trips[i].kind = "RIDE" /\ trips[i].status = "COMPLETED"
                        /\ i \in DS <=> trips[i].kind = "DELIVERY" /\ trips[i].status = "COMPLETED"
                        /\ i \in CS <=> Cash(trips[i])
                        /\ i \in VS <=> ReversedTrip(trips[i], posted)
    <2>1. RS \in SUBSET D /\ DS \in SUBSET D
          /\ \A i \in D : /\ i \in RS <=> trips[i].kind = "RIDE" /\ trips[i].status = "COMPLETED"
                          /\ i \in DS <=> trips[i].kind = "DELIVERY" /\ trips[i].status = "COMPLETED"
      BY <1>2 DEF B!CompletedOn, B!InStatus, B!Rows
    <2>2. CS \in SUBSET D /\ \A i \in D : i \in CS <=> Cash(trips[i])
      BY DEF B!CashTrips, B!InStatus, Cash
    <2>3. VS \in SUBSET D /\ \A i \in D : i \in VS <=> ReversedTrip(trips[i], posted)
      BY DEF B!ReversedTrips, ReversedTrip
    <2> QED
      BY <2>1, <2>2, <2>3
  <1>5. /\ \A i \in D : r1[i] = IF i \in RS THEN com(i) ELSE 0
        /\ \A i \in D : d1[i] = IF i \in DS THEN com(i) ELSE 0
        /\ \A i \in D : v1[i] = IF i \in VS THEN com(i) ELSE 0
        /\ \A i \in D : x1[i] = IF i \in CS THEN tax(i) ELSE 0
        /\ \A i \in D : e[i] = IF trips[i].fee > 0 THEN Fee.commission ELSE 0
    OBVIOUS
  <1>6. /\ DOMAIN x = CS /\ \A i \in CS : x[i] = tax(i)
        /\ DOMAIN e = D
        /\ \A i \in D : a1[i] = r1[i] + d1[i]
        /\ \A i \in D : b1[i] = h[i] + v1[i]
    OBVIOUS
  <1>7. \A i \in D : com(i) \in Int /\ tax(i) \in Int /\ Fee.commission \in Int
                     /\ trips[i].kind \in {"RIDE", "DELIVERY"} /\ trips[i] \in TripRows
    BY <1>2, RowInts
  <1>8. TripSum(X, trips, invoices, posted) = SumFunctionOnSet(h, D)
    BY DEF TripSum
  <1>9. \A i \in D : h[i] = TripSays(X, trips[i], PaidTrip(i, trips[i], invoices, posted),
                                     ReversedTrip(trips[i], posted))
    BY TripPartIs
  <1> SUFFICES /\ TripSum(X, trips, invoices, posted) + B!Commissions(VS)
                     = B!Commissions(RS) + B!Commissions(DS) + B!Total(x) + B!Total(e)
               /\ B!Total(x) \in Int /\ B!Total(e) \in Int /\ B!Commissions(RS) \in Int
               /\ B!Commissions(DS) \in Int /\ B!Commissions(VS) \in Int
               /\ TripSum(X, trips, invoices, posted) \in Int
    OBVIOUS
  <1> HIDE DEF r1, d1, v1, x, x1, e, h, a1, b1, RS, DS, CS, VS
  <1>10. B!Commissions(RS) = SumFunctionOnSet(r1, D) /\ Ints(r1, D) /\ B!Commissions(RS) \in Int
    BY <1>2, <1>4, <1>5, CommissionSum
  <1>11. B!Commissions(DS) = SumFunctionOnSet(d1, D) /\ Ints(d1, D) /\ B!Commissions(DS) \in Int
    BY <1>2, <1>4, <1>5, CommissionSum
  <1>12. B!Commissions(VS) = SumFunctionOnSet(v1, D) /\ Ints(v1, D) /\ B!Commissions(VS) \in Int
    BY <1>2, <1>4, <1>5, CommissionSum
  <1>13. B!Total(x) = SumFunctionOnSet(x1, D) /\ Ints(x1, D) /\ SumFunctionOnSet(x1, D) \in Int
    <2>1. DOMAIN x \subseteq D /\ Ints(x, DOMAIN x)
      BY <1>4, <1>6, <1>7 DEF Ints
    <2>2. \A i \in D : x1[i] = IF i \in DOMAIN x THEN x[i] ELSE 0
      BY <1>5, <1>6
    <2> QED
      BY <1>3, <2>1, <2>2, TotalPart
  <1>14. B!Total(e) = SumFunctionOnSet(e, D) /\ Ints(e, D) /\ SumFunctionOnSet(e, D) \in Int
    <2>1. Ints(e, D)
      BY <1>5, <1>7 DEF Ints
    <2> QED
      BY <1>3, <1>6, <2>1, TotalIsSum, SumInt
  <1>15. ASSUME NEW i \in D PROVE h[i] + v1[i] = a1[i] + x1[i] + e[i] /\ h[i] \in Int
    <2> DEFINE done == IF trips[i].status = "COMPLETED" THEN com(i) ELSE 0
               back == IF ReversedTrip(trips[i], posted) THEN com(i) ELSE 0
               taxed == IF Cash(trips[i]) THEN tax(i) ELSE 0
               fee == IF trips[i].fee > 0 THEN Fee.commission ELSE 0
    <2>1. h[i] = done - back + taxed + fee
      <3> HIDE DEF X
      <3> QED
        BY <1>1, <1>9 DEF TripSays
    <2>2. done \in Int /\ back \in Int /\ taxed \in Int /\ fee \in Int
      BY <1>7
    <2>3. v1[i] = back /\ x1[i] = taxed /\ e[i] = fee
      BY <1>4, <1>5
    <2>4. a1[i] = done
      <3>1. CASE trips[i].kind = "RIDE"
        <4>1. r1[i] = done /\ d1[i] = 0
          BY <1>4, <1>5, <3>1
        <4> HIDE DEF done
        <4> QED
          BY <1>6, <2>2, <4>1
      <3>2. CASE trips[i].kind = "DELIVERY"
        <4>1. d1[i] = done /\ r1[i] = 0
          BY <1>4, <1>5, <3>2
        <4> HIDE DEF done
        <4> QED
          BY <1>6, <2>2, <4>1
      <3> QED
        BY <1>7, <3>1, <3>2
    <2> HIDE DEF done, back, taxed, fee
    <2> QED
      BY <2>1, <2>2, <2>3, <2>4
  <1>16. Ints(h, D) /\ Ints(a1, D) /\ Ints(b1, D)
    <2>1. Ints(h, D)
      BY <1>15 DEF Ints
    <2>2. Ints(a1, D)
      BY <1>6, <1>10, <1>11 DEF Ints
    <2>3. Ints(b1, D)
      BY <1>6, <1>12, <2>1 DEF Ints
    <2> QED
      BY <2>1, <2>2, <2>3
  <1>17. \A i \in D : b1[i] = a1[i] + x1[i] + e[i]
    BY <1>6, <1>15
  <1>18. SumFunctionOnSet(a1, D) = SumFunctionOnSet(r1, D) + SumFunctionOnSet(d1, D)
    BY <1>3, <1>6, <1>10, <1>11, SumPlus
  <1>19. SumFunctionOnSet(b1, D) = SumFunctionOnSet(h, D) + SumFunctionOnSet(v1, D)
    BY <1>3, <1>6, <1>12, <1>16, SumPlus
  <1>20. SumFunctionOnSet(b1, D) = SumFunctionOnSet(a1, D) + SumFunctionOnSet(x1, D) + SumFunctionOnSet(e, D)
    BY <1>3, <1>13, <1>14, <1>16, <1>17, ThreePlus
  <1>21. SumFunctionOnSet(h, D) \in Int
    BY <1>3, <1>16, SumInt
  <1> QED
    BY <1>8, <1>10, <1>11, <1>12, <1>13, <1>14, <1>18, <1>19, <1>20, <1>21

\* The commission in unpaid invoices, company by company.
LEMMA RevenueInvoices ==
    ASSUME invoices \in Seq(InvoiceRows)
    PROVE  LET unpaid == B!Total([b \in Businesses |-> B!Total([k \in B!Unpaid(b) |-> invoices[k].commission])])
           IN  InvoiceSum(<<"revenue", None>>, invoices) = -unpaid /\ unpaid \in Int
  <1> DEFINE X == <<"revenue", None>>
             D == DOMAIN invoices
             part1(b) == [k \in B!Unpaid(b) |-> invoices[k].commission]
             g == [b \in Businesses |-> B!Total(part1(b))]
             F1 == [p \in D \X Businesses |->
                      IF invoices[p[1]].status = "PENDING" /\ invoices[p[1]].business = p[2]
                      THEN invoices[p[1]].commission ELSE 0]
             f == [k \in D |-> IF invoices[k].status = "PENDING" THEN invoices[k].commission ELSE 0]
             h == InvoiceParts(X, invoices)
  <1>1. X[1] = "revenue"
    OBVIOUS
  <1>2. \A k \in D : /\ invoices[k].commission \in Int /\ invoices[k].business \in Businesses
                     /\ invoices[k].status \in {"PENDING", "PAID"}
    <2>1. \A k \in D : invoices[k] \in InvoiceRows
      OBVIOUS
    <2> QED
      BY <2>1 DEF InvoiceRows
  <1>3. IsFiniteSet(D) /\ IsFiniteSet(Businesses)
    BY DomainFinite, BooksConstants
  <1>4. /\ \A k \in D, b \in Businesses :
               F1[<<k, b>>] = IF invoices[k].status = "PENDING" /\ invoices[k].business = b
                              THEN invoices[k].commission ELSE 0
        /\ \A k \in D : f[k] = IF invoices[k].status = "PENDING" THEN invoices[k].commission ELSE 0
        /\ DOMAIN g = Businesses /\ \A b \in Businesses : g[b] = B!Total(part1(b))
    OBVIOUS
  <1>5. \A k \in D : h[k] = -f[k]
    <2> SUFFICES ASSUME NEW k \in D PROVE h[k] = -f[k]
      OBVIOUS
    <2>1. h[k] = IF invoices[k].status = "PENDING" THEN -invoices[k].commission ELSE 0
      <3>1. h[k] = InvoiceSays(X, invoices[k])
        BY DEF InvoiceParts
      <3> HIDE DEF X, h
      <3> QED
        BY <1>1, <3>1 DEF InvoiceSays
    <2> HIDE DEF h
    <2> QED
      BY <1>2, <2>1
  <1>6. InvoiceSum(X, invoices) = SumFunctionOnSet(h, D)
    BY DEF InvoiceSum
  <1>7. \A b \in Businesses : \A k : k \in B!Unpaid(b)
                <=> k \in D /\ invoices[k].status = "PENDING" /\ invoices[k].business = b
    BY DEF B!Unpaid
  <1>8. \A b : DOMAIN part1(b) = B!Unpaid(b) /\ \A k \in B!Unpaid(b) : part1(b)[k] = invoices[k].commission
    OBVIOUS
  <1> SUFFICES InvoiceSum(X, invoices) = -B!Total(g) /\ B!Total(g) \in Int
    OBVIOUS
  <1> HIDE DEF X, F1, f, g, h, part1
  <1>9. \A k \in D, b \in Businesses : F1[<<k, b>>] \in Int
    <2> SUFFICES ASSUME NEW k \in D, NEW b \in Businesses PROVE F1[<<k, b>>] \in Int
      OBVIOUS
    <2>1. F1[<<k, b>>] = IF invoices[k].status = "PENDING" /\ invoices[k].business = b
                         THEN invoices[k].commission ELSE 0
      BY <1>4
    <2> QED
      BY <1>2, <2>1
  <1>10. \A k \in D : f[k] = SumFunctionOnSet(RowOf(F1, k, Businesses), Businesses)
    <2> SUFFICES ASSUME NEW k \in D
                 PROVE  f[k] = SumFunctionOnSet(RowOf(F1, k, Businesses), Businesses)
      OBVIOUS
    <2> DEFINE q == [b \in Businesses |-> F1[<<k, b>>]]
               c == invoices[k].business
    <2>1. c \in Businesses /\ q[c] = f[k] /\ q[c] \in Int /\ \A b \in Businesses \ {c} : q[b] = 0
      BY <1>2, <1>4
    <2> HIDE DEF q, c
    <2>2. SumFunctionOnSet(q, Businesses) = q[c]
      BY <1>3, <2>1, SumOne
    <2> QED
      BY <2>1, <2>2 DEF q, RowOf
  <1>11. \A b \in Businesses : g[b] = SumFunctionOnSet(ColumnOf(F1, D, b), D)
    <2> SUFFICES ASSUME NEW b \in Businesses
                 PROVE  g[b] = SumFunctionOnSet(ColumnOf(F1, D, b), D)
      OBVIOUS
    <2> DEFINE q == [k \in D |-> F1[<<k, b>>]]
               u == part1(b)
    <2>1. DOMAIN u = B!Unpaid(b) /\ \A k \in B!Unpaid(b) : u[k] = invoices[k].commission
      BY <1>8
    <2>2. DOMAIN u \subseteq D
      BY <1>7, <2>1
    <2>3. Ints(u, DOMAIN u)
      BY <1>2, <1>7, <2>1 DEF Ints
    <2>4. \A k \in D : q[k] = IF k \in DOMAIN u THEN u[k] ELSE 0
      <3>1. \A k \in D : q[k] = IF invoices[k].status = "PENDING" /\ invoices[k].business = b
                                THEN invoices[k].commission ELSE 0
        BY <1>4
      <3> HIDE DEF q, u
      <3> QED
        BY <1>7, <2>1, <3>1
    <2>5. g[b] = B!Total(u)
      BY <1>4
    <2> HIDE DEF q, u
    <2>6. B!Total(u) = SumFunctionOnSet(q, D)
      BY <1>3, <2>2, <2>3, <2>4, TotalPart
    <2> QED
      BY <2>5, <2>6 DEF q, ColumnOf
  <1>12. SumFunctionOnSet(f, D) = SumFunctionOnSet(g, Businesses)
    <2> HIDE DEF D
    <2> QED
      BY SMTT(40), <1>3, <1>9, <1>10, <1>11, SumSwap
  <1>13. Ints(f, D)
    BY <1>2, <1>4 DEF Ints
  <1>14. SumFunctionOnSet(h, D) = -SumFunctionOnSet(f, D) /\ SumFunctionOnSet(f, D) \in Int
    BY <1>3, <1>5, <1>13, SumNeg
  <1>15. B!Total(g) = SumFunctionOnSet(g, Businesses)
    BY <1>4, TotalIsSum
  <1> QED
    BY <1>6, <1>12, <1>14, <1>15

\* What is posted on revenue and on the drivers' debts, and the swaps.
LEMMA RevenuePosted ==
    ASSUME Postings(posted)
    PROVE  LET swaps == B!RevenueByService(B!Ever).KILOWATT
               owed == B!Finance.driversOutstanding
           IN  /\ Posted(<<"revenue", None>>, posted) = B!Balance(B!Revenue) + owed - swaps
               /\ B!Balance(B!Revenue) \in Int /\ owed \in Int /\ swaps \in Int
  <1> DEFINE X == <<"revenue", None>>
             S == {tx \in B!OfType("KILOWATT_PAYMENT") : tx.status = "COMPLETED" /\ tx.day \in B!Ever}
             f == [tx \in posted |-> B!Entry(tx, B!Revenue)]
             d1 == [tx \in posted |-> Debts(tx)]
             p1 == [tx \in posted |-> Part(X, tx)]
             k == [tx \in posted |-> Aside(X, tx)]
             g == [tx \in posted |-> IF tx \in S THEN tx.amount ELSE 0]
             o == [d \in Drivers |-> B!Balance(B!Payable(d))]
             F1 == [p \in posted \X Drivers |-> B!Entry(p[1], B!Payable(p[2]))]
  <1>1. X \in Aspects /\ X[1] = "revenue"
    BY DEF Aspects
  <1>2. S \in SUBSET posted /\ \A tx \in posted : tx \in S <=> Swap(tx)
    BY DEF B!OfType, Swap
  <1>3. \A tx \in posted : p1[tx] = f[tx] + d1[tx] /\ p1[tx] = Part(X, tx) /\ k[tx] = Aside(X, tx)
    BY <1>1 DEF Part
  <1>4. \A tx \in posted : g[tx] = IF tx \in S THEN tx.amount ELSE 0
    OBVIOUS
  <1>5. \A tx \in posted : k[tx] = -g[tx]
    <2>1. \A tx \in posted : Aside(X, tx) = IF Swap(tx) THEN -tx.amount ELSE 0
      BY <1>1 DEF Aside
    <2> HIDE DEF X, S
    <2>2. \A tx \in posted : k[tx] = IF Swap(tx) THEN -tx.amount ELSE 0
      BY <2>1
    <2> HIDE DEF k, g
    <2> QED
      BY <1>2, <1>4, <2>2
  <1>6. B!Balance(B!Revenue) = SumFunctionOnSet(f, posted) /\ \A tx \in posted : B!Entry(tx, B!Revenue) \in Int
    BY BalanceSum, EmptyAtFirst
  <1>7. IsFiniteSet(posted) /\ IsFiniteSet(Drivers)
    BY BooksConstants DEF Postings
  <1>8. \A tx \in posted : d1[tx] \in Int /\ f[tx] \in Int /\ EntriesInt(tx)
    <2>1. \A tx \in posted : EntriesInt(tx)
      BY DEF Postings, IsPosting, EntriesInt
    <2> QED
      BY <1>6, <2>1, DebtsInt
  <1>9. /\ \A tx \in posted, d \in Drivers : F1[<<tx, d>>] = B!Entry(tx, B!Payable(d))
        /\ DOMAIN o = Drivers /\ \A d \in Drivers : o[d] = B!Balance(B!Payable(d))
    OBVIOUS
  <1>10. \A tx \in posted : d1[tx] = SumFunctionOnSet(RowOf(F1, tx, Drivers), Drivers)
    BY DEF Debts, RowOf
  <1>11. \A d \in Drivers : o[d] = SumFunctionOnSet(ColumnOf(F1, posted, d), posted)
    <2> SUFFICES ASSUME NEW d \in Drivers
                 PROVE  o[d] = SumFunctionOnSet(ColumnOf(F1, posted, d), posted)
      OBVIOUS
    <2>1. B!Balance(B!Payable(d)) = SumFunctionOnSet([tx \in posted |-> B!Entry(tx, B!Payable(d))], posted)
      BY BalanceSum, EmptyAtFirst
    <2>2. ColumnOf(F1, posted, d) = [tx \in posted |-> B!Entry(tx, B!Payable(d))]
      BY DEF ColumnOf
    <2> HIDE DEF F1, o
    <2> QED
      BY <1>9, <2>1, <2>2
  <1>12. B!RevenueByService(B!Ever).KILOWATT = B!Amount(S) /\ B!Finance.driversOutstanding = B!Total(o)
    BY DEF B!RevenueByService, B!Finance
  <1> SUFFICES /\ Posted(X, posted) = B!Balance(B!Revenue) + B!Total(o) - B!Amount(S)
               /\ B!Balance(B!Revenue) \in Int /\ B!Total(o) \in Int /\ B!Amount(S) \in Int
    BY <1>12
  <1> HIDE DEF X, S, f, d1, p1, k, g, o, F1
  <1>13. /\ Posted(X, posted) = SumFunctionOnSet(p1, posted) + SumFunctionOnSet(k, posted)
         /\ SumFunctionOnSet(p1, posted) \in Int
    BY <1>1, <1>3, PostedIs
  <1>14. Ints(f, posted) /\ Ints(d1, posted)
    BY <1>8 DEF Ints
  <1>15. SumFunctionOnSet(p1, posted) = SumFunctionOnSet(f, posted) + SumFunctionOnSet(d1, posted)
    BY <1>3, <1>7, <1>14, SumPlus
  <1>16. \A tx \in posted, d \in Drivers : F1[<<tx, d>>] \in Int
    BY <1>8, <1>9, EntryInt
  <1>17. SumFunctionOnSet(d1, posted) = SumFunctionOnSet(o, Drivers)
    BY <1>7, <1>10, <1>11, <1>16, SumSwap
  <1>18. B!Total(o) = SumFunctionOnSet(o, Drivers)
    BY <1>9, TotalIsSum
  <1>19. B!Amount(S) = SumFunctionOnSet(g, posted) /\ Ints(g, posted) /\ SumFunctionOnSet(g, posted) \in Int
    BY <1>2, <1>4, AmountSum
  <1>20. SumFunctionOnSet(k, posted) = -SumFunctionOnSet(g, posted)
    BY <1>5, <1>7, <1>19, SumNeg
  <1>21. SumFunctionOnSet(f, posted) \in Int /\ SumFunctionOnSet(d1, posted) \in Int
    BY <1>7, <1>14, SumInt
  <1> QED
    BY <1>6, <1>13, <1>15, <1>17, <1>18, <1>19, <1>20, <1>21

LEMMA RevenueHolds ==
    ASSUME BooksInv
    PROVE  B!RevenueExplained
  <1> DEFINE X == <<"revenue", None>>
             taxes == B!Total([i \in B!CashTrips |-> FareOf[trips[i].kind].tax])
             fees == B!Total([i \in DOMAIN trips |-> IF trips[i].fee > 0 THEN Fee.commission ELSE 0])
             rides == B!Commissions(B!CompletedOn("RIDE", B!Ever))
             deliveries == B!Commissions(B!CompletedOn("DELIVERY", B!Ever))
             back == B!Commissions(B!ReversedTrips)
             unpaid == B!Total([b \in Businesses |-> B!Total([k \in B!Unpaid(b) |-> invoices[k].commission])])
             swaps == B!RevenueByService(B!Ever).KILOWATT
             owed == B!Finance.driversOutstanding
             balance == B!Balance(B!Revenue)
             says == TripSum(X, trips, invoices, posted)
  <1>1. /\ Postings(posted) /\ Rows(trips, invoices) /\ withdrawals \in Seq(WithdrawalRows) /\ TripsOK(trips)
    BY BooksNow
  <1>2. X \in Aspects /\ X[1] # "payable"
    BY DEF Aspects
  <1>3. Posted(X, posted) = says + InvoiceSum(X, invoices) + WithdrawalSum(X, withdrawals)
    BY <1>2, SaidIs DEF BooksInv, Balanced
  <1>4. WithdrawalSum(X, withdrawals) = 0
    BY <1>1, SilentRows
  <1>5. /\ says + back = rides + deliveries + taxes + fees
        /\ taxes \in Int /\ fees \in Int /\ rides \in Int /\ deliveries \in Int /\ back \in Int /\ says \in Int
    BY <1>1, RevenueTrips
  <1>6. Posted(X, posted) = balance + owed - swaps /\ balance \in Int /\ owed \in Int /\ swaps \in Int
    BY <1>1, RevenuePosted
  <1>7. InvoiceSum(X, invoices) = -unpaid /\ unpaid \in Int
    BY <1>1, RevenueInvoices DEF Rows
  <1>8. /\ B!Dashboard.totalRevenue = balance
        /\ B!RevenueByService(B!Ever).RIDE = rides /\ B!RevenueByService(B!Ever).DELIVERY = deliveries
    BY DEF B!Dashboard, B!RevenueByService
  <1>9. balance + owed + unpaid + back = rides + deliveries + swaps + taxes + fees
    <2> HIDE DEF X, taxes, fees, rides, deliveries, back, unpaid, swaps, owed, balance, says
    <2>1. balance + owed - swaps = says + (-unpaid) + 0
      BY <1>3, <1>4, <1>6, <1>7
    <2> QED
      BY <1>5, <1>6, <1>7, <2>1
  <1> QED
    BY <1>8, <1>9 DEF B!RevenueExplained

-----------------------------------------------------------------------------
(* A rider's history.                                                      *)

LEMMA RiderEntry ==
    ASSUME NEW tx, NEW u, NEW d, NEW total, NEW c, NEW x,
           tx.entries = PaymentEntries(B!Rider(u), d, total, c, x)
    PROVE  /\ B!Entry(tx, B!Rider(u)) = -total
           /\ \A r : B!Rider(r) \in DOMAIN tx.entries => r = u
  <1>1. DOMAIN tx.entries = {B!Rider(u), B!Driver(d), B!Revenue, B!Tax}
    BY DEF PaymentEntries
  <1>2. /\ B!Rider(u) # B!Driver(d) /\ B!Rider(u) # B!Revenue /\ B!Rider(u) # B!Tax
        /\ \A r : /\ B!Rider(r) # B!Driver(d) /\ B!Rider(r) # B!Revenue /\ B!Rider(r) # B!Tax
                  /\ B!Rider(r) = B!Rider(u) => r = u
    BY DEF B!Rider, B!Driver, B!Revenue, B!Tax
  <1>3. tx.entries[B!Rider(u)] = -total
    BY <1>1, <1>2 DEF PaymentEntries
  <1> QED
    BY <1>1, <1>2, <1>3 DEF B!Entry

\* The rows a reference leads to.
LEMMA Leads ==
    ASSUME TripsOK(trips), NEW i \in DOMAIN trips, NEW tx, NEW a
    PROVE  /\ trips[i].tx = <<"trip", i>> /\ tx.ref = <<"trip", i>> => B!Describe(tx, a).related = {i}
           /\ tx.ref = <<"cancellation", i>> => B!Describe(tx, a).related = {i}
           /\ B!Describe(tx, a).signed = B!Entry(tx, a)
  <1> DEFINE paid == {j \in DOMAIN trips : trips[j].tx = tx.ref}
  <1>1. \A j \in DOMAIN trips : trips[j].tx = <<"trip", j>> \/ trips[j].tx = B!NoLink
    BY DEF TripsOK, TripOK
  <1>2. /\ \A j, k : <<"trip", j>> = <<"trip", k>> => j = k
        /\ \A j, k : <<"cancellation", j>> = <<"cancellation", k>> => j = k
        /\ \A j, k : <<"trip", j>> # <<"cancellation", k>>
        /\ \A j : <<"trip", j>> # B!NoLink /\ <<"cancellation", j>> # B!NoLink
    BY DEF B!NoLink
  <1>3. B!Describe(tx, a).related = (IF paid # {} THEN paid ELSE B!LookupCancelled(tx))
        /\ B!Describe(tx, a).signed = B!Entry(tx, a)
    BY DEF B!Describe
  <1>4. ASSUME trips[i].tx = <<"trip", i>>, tx.ref = <<"trip", i>>
        PROVE  B!Describe(tx, a).related = {i}
    <2>1. \A j \in DOMAIN trips : trips[j].tx = tx.ref <=> j = i
      BY <1>1, <1>2, <1>4
    <2>2. paid = {i}
      BY <2>1
    <2> QED
      BY <1>3, <2>2
  <1>5. ASSUME tx.ref = <<"cancellation", i>>
        PROVE  B!Describe(tx, a).related = {i}
    <2>1. \A j \in DOMAIN trips : trips[j].tx # tx.ref
      BY <1>1, <1>2, <1>5
    <2>2. paid = {}
      BY <2>1
    <2>3. B!LookupCancelled(tx) = {i}
      BY <1>2, <1>5 DEF B!LookupCancelled
    <2> QED
      BY <1>3, <2>2, <2>3
  <1> QED
    BY <1>3, <1>4, <1>5

\* What pays for a trip is of a trip.
LEMMA PaymentOf ==
    ASSUME BooksInv, NEW tx \in posted, tx.type \in PaymentTypes
    PROVE  \E i \in DOMAIN trips : OfTrip(tx, i, trips[i])
  <1>1. Of(tx, trips, invoices, withdrawals, others)
    BY BooksNow DEF PostedOK
  <1>2. ASSUME NEW k \in DOMAIN invoices, OfInvoice(tx, k, invoices[k]) PROVE FALSE
    BY <1>2 DEF OfInvoice
  <1>3. ASSUME NEW w \in DOMAIN withdrawals, OfWithdrawal(tx, w, withdrawals[w]) PROVE FALSE
    BY <1>3 DEF OfWithdrawal, PaymentTypes
  <1>4. ASSUME NEW m \in 0 .. others - 1, OfOther(tx, m) PROVE FALSE
    BY <1>4 DEF OfOther
  <1> QED
    BY <1>1, <1>2, <1>3, <1>4 DEF Of

LEMMA HistoryHolds ==
    ASSUME BooksInv, NEW r \in Riders, NEW tx \in B!UserTransactions({B!Rider(r)}),
           tx.type \in {"RIDE_PAYMENT_WALLET", "DELIVERY_PAYMENT_WALLET"}
    PROVE  LET line == B!Describe(tx, B!Rider(r))
           IN  \E i \in line.related :
                   /\ line.related = {i} /\ trips[i].rider = r
                   /\ line.signed = -(IF trips[i].status = "CANCELLED" THEN trips[i].fee
                                      ELSE FareOf[trips[i].kind].total)
  <1>1. tx \in posted /\ B!Rider(r) \in DOMAIN tx.entries
    BY DEF B!UserTransactions
  <1>2. tx.type \in PaymentTypes
    BY DEF PaymentTypes
  <1>3. PICK i \in DOMAIN trips : OfTrip(tx, i, trips[i])
    BY <1>1, <1>2, PaymentOf
  <1>4. TripsOK(trips)
    BY BooksNow
  <1> DEFINE a == B!Rider(r)
             t == trips[i]
  <1>5. CASE /\ tx.ref = <<"trip", i>> /\ t.status = "COMPLETED" /\ t.tx = <<"trip", i>>
             /\ tx.entries = PaymentEntries(B!Rider(t.rider), t.driver, FareOf[t.kind].total,
                                            FareOf[t.kind].commission, FareOf[t.kind].tax)
    <2>1. B!Entry(tx, B!Rider(t.rider)) = -FareOf[t.kind].total /\ r = t.rider
      BY <1>1, <1>5, RiderEntry
    <2>2. B!Describe(tx, a).related = {i} /\ B!Describe(tx, a).signed = B!Entry(tx, a)
      BY <1>4, <1>5, Leads
    <2> QED
      BY <1>5, <2>1, <2>2
  <1>6. CASE /\ tx.ref = <<"cancellation", i>> /\ t.status = "CANCELLED" /\ t.fee = Fee.total
             /\ tx.entries = PaymentEntries(B!Rider(t.rider), t.driver, Fee.total, Fee.commission, 0)
    <2>1. B!Entry(tx, B!Rider(t.rider)) = -Fee.total /\ r = t.rider
      BY <1>1, <1>6, RiderEntry
    <2>2. B!Describe(tx, a).related = {i} /\ B!Describe(tx, a).signed = B!Entry(tx, a)
      BY <1>4, <1>6, Leads
    <2> QED
      BY <1>6, <2>1, <2>2
  <1> QED
    BY <1>2, <1>3, <1>5, <1>6 DEF OfTrip, PaymentTypes

\* What is posted, and what the rows say, make the figures agree.
LEMMA BooksHold ==
    ASSUME BooksInv
    PROVE  B!BooksExplained
  <1>1. B!RevenueExplained
    BY RevenueHolds
  <1>2. \A d \in Drivers : B!WalletExplained(d) /\ B!DebtExplained(d)
    BY WalletHolds, DebtHolds
  <1>3. \A b \in Businesses : /\ B!Outstanding(b) = B!InvoiceAmount(B!Unpaid(b))
                              /\ B!CreditStatus(b) = "ON_CREDIT" <=> \E k \in B!Unpaid(b) : invoices[k].amount > 0
    BY CreditHolds
  <1>4. ASSUME NEW r \in Riders, NEW tx \in B!UserTransactions({B!Rider(r)}),
               tx.type \in {"RIDE_PAYMENT_WALLET", "DELIVERY_PAYMENT_WALLET"}
        PROVE  LET line == B!Describe(tx, B!Rider(r))
               IN  \E i \in line.related :
                       /\ line.related = {i} /\ trips[i].rider = r
                       /\ line.signed = -(IF trips[i].status = "CANCELLED" THEN trips[i].fee
                                          ELSE FareOf[trips[i].kind].total)
    BY <1>4, HistoryHolds
  <1> QED
    BY <1>1, <1>2, <1>3, <1>4 DEF B!BooksExplained

-----------------------------------------------------------------------------
(* The invariant.                                                          *)

LEMMA BooksInit ==
    ASSUME B!Init
    PROVE  BooksInv
  <1>1. /\ trips = <<>> /\ invoices = <<>> /\ withdrawals = <<>>
        /\ posted = {} /\ others = 0 /\ today = 0
    BY DEF B!Init
  <1>2. 0 \in B!Ever
    BY BooksConstants DEF B!Ever
  <1>3. BooksOK(<<>>, <<>>, <<>>, {}, 0, 0)
    BY <1>2, FS_EmptySet
       DEF BooksOK, TripsOK, InvoicesOK, PostedOK, PostedOnce, Reversals, SettledOK
  <1>4. \A X : Posted(X, {}) = 0 /\ Said(X, <<>>, <<>>, <<>>, {}) = 0
    <2>1. DOMAIN <<>> = {}
      OBVIOUS
    <2> QED
      BY <2>1, SumEmpty DEF Posted, Said
  <1>5. Balanced(<<>>, <<>>, <<>>, {})
    BY <1>4 DEF Balanced
  <1> QED
    BY <1>1, <1>3, <1>5 DEF BooksInv

LEMMA BooksNext ==
    ASSUME BooksInv, B!Next
    PROVE  BooksInv'
  <1>1. ASSUME NEW kind \in {"RIDE", "DELIVERY"}, NEW r \in Riders, NEW b \in Businesses \cup {None},
               NEW method \in {"WALLET", "CASH"}, NEW status0 \in {"REQUESTED", "DISPATCHING"},
               B!Book(kind, r, b, method, status0)
        PROVE  BooksInv'
    BY <1>1, BookKept
  <1>2. ASSUME NEW i \in DOMAIN trips,
               \/ B!CompletePaid(i) \/ B!CompleteCash(i) \/ B!CompleteBilled(i)
               \/ B!CancelFree(i) \/ B!CancelLate(i) \/ B!Refund(i)
        PROVE  BooksInv'
    BY <1>2, CompletePaidKept, CompleteCashKept, CompleteBilledKept, CancelFreeKept, CancelLateKept, RefundKept
  <1>3. ASSUME NEW i \in DOMAIN trips,
               B!Dispatch(i) \/ B!NoDrivers(i) \/ \E d \in Drivers : B!Accept(i, d)
        PROVE  BooksInv'
    BY <1>3, SearchKept, AcceptKept
  <1>4. ASSUME NEW k \in DOMAIN invoices, B!PayInvoice(k) PROVE BooksInv'
    BY <1>4, PayInvoiceKept
  <1>5. ASSUME NEW w \in DOMAIN withdrawals, B!TransferSucceeds(w) \/ B!TransferFails(w) PROVE BooksInv'
    BY <1>5, TransferSucceedsKept, TransferFailsKept
  <1>6. ASSUME NEW n \in Amounts, NEW r \in Riders, B!TopUp(r, n) \/ B!PaySwap(r, n) PROVE BooksInv'
    BY <1>6, TopUpKept, PaySwapKept
  <1>7. ASSUME NEW n \in Amounts, NEW d \in Drivers, B!TopUpDriver(d, n) \/ B!Withdraw(d, n) \/ B!Redeem(d, n)
        PROVE  BooksInv'
    BY <1>7, TopUpDriverKept, WithdrawKept, RedeemKept
  <1>8. ASSUME B!ProcessPayouts \/ B!NewDay PROVE BooksInv'
    BY <1>8, ProcessPayoutsKept, NewDayKept
  <1> QED
    BY <1>1, <1>2, <1>3, <1>4, <1>5, <1>6, <1>7, <1>8 DEF B!Next

\* The invariant is about rows and postings alone.
LEMMA BooksStays ==
    ASSUME BooksInv, UNCHANGED bookVars
    PROVE  BooksInv'
  BY DEF BooksInv, bookVars

\* For every fare, fee, amount and number of riders, drivers and companies:
\* what the ledger says and what the rows of trips, invoices and withdrawals
\* say are the same money, account by account and line by line
\* (wallet.service.ts, admin-ops.service.ts:698-757, business.service.ts:381-464).
THEOREM BooksAreExplained == Spec => []BooksExplained
  <1>1. Init => BooksInv
    BY BooksInit DEF Init
  <1>2. BooksInv /\ [Next]_vars => BooksInv'
    <2> SUFFICES ASSUME BooksInv, [Next]_vars PROVE BooksInv'
      OBVIOUS
    <2>1. CASE BooksStep
      BY <2>1, BooksNext DEF BooksStep
    <2>2. CASE UNCHANGED bookVars
      BY <2>2, BooksStays
    <2> QED
      BY <2>1, <2>2 DEF Next, vars, FaresStep, RosterStep, UniquesStep, ChartsStep, TrackingStep
  <1>3. BooksInv => BooksExplained
    BY BooksHold DEF BooksExplained
  <1> QED
    BY <1>1, <1>2, <1>3, PTL DEF Spec
=============================================================================
