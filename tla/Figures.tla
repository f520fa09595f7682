------------------------------ MODULE Figures ------------------------------
(***************************************************************************)
(* The figures of the back office, each by the query of its own service,   *)
(* over the rows and postings of Books, and what must agree among them.    *)
(* A page of a list, a search and the layout of an export are left out: a  *)
(* figure is of everything there is.                                       *)
(***************************************************************************)
EXTENDS Books

Ever == 0 .. MaxDay
Rides(S) == Cardinality({i \in S : trips[i].kind = "RIDE"})
Fares(S) ==
    FareOf["RIDE"].total * Rides(S) + FareOf["DELIVERY"].total * (Cardinality(S) - Rides(S))
Commissions(S) ==
    FareOf["RIDE"].commission * Rides(S) + FareOf["DELIVERY"].commission * (Cardinality(S) - Rides(S))
Amount(S) == Total([tx \in S |-> tx.amount])

Rows(kind) == {i \in DOMAIN trips : trips[i].kind = kind}
InStatus(S, statuses) == {i \in S : trips[i].status \in statuses}
CompletedOn(kind, days) == {i \in InStatus(Rows(kind), {"COMPLETED"}) : trips[i].ended \in days}
OfType(type) == {tx \in posted : tx.type = type}

\* A trip is under way for the back office once it is searched for, for its
\* customer (ActivityService) from the request on.
Active == {"DISPATCHING", "ACCEPTED"}
Ongoing == Active \cup {"REQUESTED"}

Requests(status, ds) ==
    {w \in DOMAIN withdrawals : withdrawals[w].status = status /\ withdrawals[w].driver \in ds}
AmountOf(S) == Total([w \in S |-> withdrawals[w].amount])
SettledOf(S) == Total([w \in S |-> withdrawals[w].settled])

-----------------------------------------------------------------------------
(* Admin operations: dashboard, lists, histories.                          *)

\* getDashboardSummary.
Dashboard ==
    [rides |-> [total |-> Cardinality(Rows("RIDE")),
                completed |-> Cardinality(CompletedOn("RIDE", Ever)),
                cancelled |-> Cardinality(InStatus(Rows("RIDE"), {"CANCELLED"}))],
     activeTrips |-> Cardinality(InStatus(Rows("RIDE"), Active)),
     activeDeliveries |-> Cardinality(InStatus(Rows("DELIVERY"), Active)),
     pendingWithdrawals |-> [count |-> Cardinality(Requests("PENDING", Drivers)),
                             amount |-> AmountOf(Requests("PENDING", Drivers))],
     todayRevenue |-> Commissions(CompletedOn("RIDE", {today})) + Commissions(CompletedOn("DELIVERY", {today})),
     totalRevenue |-> Balance(Revenue)]

\* historySummary, over the settled rows of a person's history.
HistorySummary(S) ==
    LET settled == InStatus(S, {"COMPLETED"})
    IN  [total |-> Cardinality(S), completed |-> Cardinality(settled),
         totalSpent |-> Fares(settled),
         totalEarnings |-> Fares(settled) - Commissions(settled),
         totalCommission |-> Commissions(settled)]

\* rideHistory and deliveryHistory, of a rider and of a driver.
RiderHistory(r, kind) == HistorySummary({i \in Rows(kind) : trips[i].rider = r})
DriverHistory(d, kind) == HistorySummary({i \in Rows(kind) : trips[i].driver = d})

\* Mutant: a cancelled trip counts.
DriverRowAll(d) ==
    LET mine == {i \in InStatus(DOMAIN trips, {"COMPLETED", "CANCELLED"}) : trips[i].driver = d}
    IN  [totalTrips |-> Cardinality(mine), totalEarnings |-> Fares(mine) - Commissions(mine),
         totalCommission |-> Commissions(mine)]

\* driverRows: both kinds together.
DriverRow(d) ==
    LET mine == {i \in InStatus(DOMAIN trips, {"COMPLETED"}) : trips[i].driver = d}
    IN  [totalTrips |-> Cardinality(mine), totalEarnings |-> Fares(mine) - Commissions(mine),
         totalCommission |-> Commissions(mine)]

\* riderRows and riderSummary.
RiderRow(r) ==
    LET mine == {i \in InStatus(DOMAIN trips, {"COMPLETED"}) : trips[i].rider = r}
    IN  [walletBalance |-> Balance(Rider(r)),
         totalTrips |-> Cardinality(mine \cap Rows("RIDE")),
         totalDeliveries |-> Cardinality(mine \cap Rows("DELIVERY"))]
TotalWalletBalance == Total([u \in Riders \cup Drivers |-> Balance(Rider(u))])

\* getDriverWithdrawals.
DriverWithdrawals(d) ==
    [pendingAmount |-> AmountOf(Requests("PENDING", {d})),
     totalWithdrawn |-> AmountOf(Requests("COMPLETED", {d})),
     commissionSettled |-> SettledOf(Requests("COMPLETED", {d}))]

\* getRiderDetail and getDriverDetail: trips and withdrawals by status, what
\* is under way, wallet and debt.
Tally(S) == [status \in {trips[i].status : i \in S} |-> Cardinality({i \in S : trips[i].status = status})]
RiderDetail(r) ==
    LET mine(kind) == {i \in Rows(kind) : trips[i].rider = r}
    IN  [rides |-> Tally(mine("RIDE")), deliveriesSent |-> Tally(mine("DELIVERY")),
         activeRides |-> InStatus(mine("RIDE"), Active), balance |-> Balance(Rider(r))]
DriverDetail(d) ==
    LET mine(kind) == {i \in Rows(kind) : trips[i].driver = d}
    IN  [rides |-> Tally(mine("RIDE")), deliveries |-> Tally(mine("DELIVERY")),
         active |-> InStatus(mine("RIDE") \cup mine("DELIVERY"), Active),
         balance |-> Balance(Driver(d)), outstandingCommission |-> Balance(Payable(d)),
         withdrawals |-> [status \in {"PENDING", "COMPLETED", "FAILED"} |-> AmountOf(Requests(status, {d}))]]
Tallied(tally, status) == IF status \in DOMAIN tally THEN tally[status] ELSE 0

\* getUserTransactions.
UserTransactions(accounts) == {tx \in posted : DOMAIN tx.entries \cap accounts # {}}

-----------------------------------------------------------------------------
(* Finance, analytics, rides, reports.                                     *)

\* AdminFinanceService.stats.
Finance ==
    [todayTopups |-> Amount({tx \in OfType("WALLET_TOPUP") : tx.status = "COMPLETED" /\ tx.day = today}),
     pendingWithdrawals |-> [count |-> Cardinality(Requests("PENDING", Drivers)),
                             amount |-> AmountOf(Requests("PENDING", Drivers))],
     platformCommissionToday |-> Commissions(CompletedOn("RIDE", {today}))
                                     + Commissions(CompletedOn("DELIVERY", {today})),
     driversOutstanding |-> Total([d \in Drivers |-> Balance(Payable(d))])]

\* revenueByService and topupTrend.
RevenueByService(days) ==
    [RIDE |-> Commissions(CompletedOn("RIDE", days)),
     DELIVERY |-> Commissions(CompletedOn("DELIVERY", days)),
     KILOWATT |-> Amount({tx \in OfType("KILOWATT_PAYMENT") : tx.status = "COMPLETED" /\ tx.day \in days})]
TopupTrend(day) == Amount({tx \in OfType("WALLET_TOPUP") : tx.status = "COMPLETED" /\ tx.day = day})

\* exportTransactions and exportWithdrawals.
ExportTransactions ==
    [total |-> Cardinality(posted),
     completed |-> Cardinality({tx \in posted : tx.status = "COMPLETED"}),
     reversed |-> Cardinality({tx \in posted : tx.status = "REVERSED"})]
ExportWithdrawals ==
    [pendingAmount |-> AmountOf(Requests("PENDING", Drivers)),
     paidOut |-> AmountOf(Requests("COMPLETED", Drivers)),
     commission |-> SettledOf(DOMAIN withdrawals)]

\* platformAnalytics: one bucket a day.
Analytics(day) ==
    [trips |-> Cardinality({i \in DOMAIN trips : trips[i].requested = day}),
     revenue |-> Commissions(CompletedOn("RIDE", {day})) + Commissions(CompletedOn("DELIVERY", {day}))]

\* AdminRidesService.stats, exportRides.
RideStats ==
    [totalToday |-> Cardinality({i \in Rows("RIDE") : trips[i].requested = today}),
     activeNow |-> Cardinality(InStatus(Rows("RIDE"), Active)),
     completedToday |-> Cardinality(CompletedOn("RIDE", {today})),
     revenueToday |-> Commissions(CompletedOn("RIDE", {today}))]
ExportRides ==
    [total |-> Cardinality(Rows("RIDE")),
     other |-> Cardinality(Rows("RIDE")) - Cardinality(InStatus(Rows("RIDE"), {"COMPLETED"}))
                   - Cardinality(InStatus(Rows("RIDE"), {"CANCELLED"})),
     revenue |-> Commissions(InStatus(Rows("RIDE"), {"COMPLETED"}))]

\* The ride's own page: the payment behind it and the driver's part.
RideDetail(i) ==
    [transaction |-> {tx \in posted : tx.ref = trips[i].tx},
     driverEarnings |-> IF trips[i].status = "COMPLETED"
                        THEN FareOf["RIDE"].total - FareOf["RIDE"].commission ELSE 0]

\* The lists, filtered by status and by the days of the request.
Listed(S, status, days) == {i \in S : trips[i].status = status /\ trips[i].requested \in days}
ListRides(status, days) == Listed(Rows("RIDE"), status, days)
ListDeliveries(status, days) == Listed(Rows("DELIVERY"), status, days)

\* AdminLogisticsService: deliverySummary and exportDeliveries, each from its
\* own count by status.
CountOf(S, statuses) == Cardinality(InStatus(S, statuses))
DeliverySummary ==
    LET all == Rows("DELIVERY")
    IN  [total |-> Cardinality(all), active |-> CountOf(all, Active),
         completed |-> CountOf(all, {"COMPLETED"}), cancelled |-> CountOf(all, {"CANCELLED"}),
         noDriversFound |-> CountOf(all, {"NO_DRIVERS_FOUND"})]
ExportDeliveries ==
    LET settled == InStatus(Rows("DELIVERY"), {"COMPLETED"})
    IN  [fareVolume |-> Fares(settled), revenue |-> Commissions(settled)]

\* The reports of a period: rides and deliveries by their request, drivers'
\* rides and revenue by completion, invoices by their creation.
RequestedIn(kind, days) == {i \in Rows(kind) : trips[i].requested \in days}
RidersReport(days) ==
    [active |-> Cardinality({trips[i].rider : i \in RequestedIn("RIDE", days)})]
DriversReport(days) == [completedRides |-> Cardinality(CompletedOn("RIDE", days))]
RidesReport(days) ==
    [totalRides |-> Cardinality(RequestedIn("RIDE", days)),
     completedRides |-> CountOf(RequestedIn("RIDE", days), {"COMPLETED"}),
     totalRevenue |-> Commissions(CompletedOn("RIDE", days)),
     totalFareVolume |-> Fares(CompletedOn("RIDE", days))]
LogisticsReport(days) ==
    [total |-> Cardinality(RequestedIn("DELIVERY", days)),
     completed |-> CountOf(RequestedIn("DELIVERY", days), {"COMPLETED"})]
BusinessReport(days) ==
    LET made == {k \in DOMAIN invoices : trips[invoices[k].trip].ended \in days}
        paid == {k \in made : invoices[k].status = "PAID"}
    IN  [invoices |-> Cardinality(made), paidInvoices |-> Cardinality(paid),
         totalInvoiced |-> Total([k \in made |-> invoices[k].amount]),
         totalPaid |-> Total([k \in paid |-> invoices[k].amount])]
FinanceReport(days) ==
    [totalRecognizedRevenue |-> Balance(Revenue),
     volume |-> Cardinality({tx \in posted : tx.day \in days}),
     totalWithdrawals |-> Amount({tx \in OfType("WALLET_WITHDRAWAL") : tx.day \in days})]

\* DriverProfilesService.getDriverCards; ActivityService.list.
TripCount(d) ==
    LET done(kind) == {i \in InStatus(Rows(kind), {"COMPLETED"}) : trips[i].driver = d}
    IN  Cardinality(done("RIDE")) + Cardinality(done("DELIVERY"))
Activity(r) ==
    LET mine == {i \in DOMAIN trips : trips[i].rider = r}
    IN  [ongoing |-> InStatus(mine, Ongoing), past |-> mine \ InStatus(mine, Ongoing)]

\* FleetPartnersService.getEarnings, for the drivers of a partner.
FleetEarnings(ds) ==
    Total([tx \in posted |-> Total([d \in ds |-> IF Entry(tx, Driver(d)) > 0 THEN Entry(tx, Driver(d)) ELSE 0])])

\* annotateCredit, businessStats, getBusinessDetail.
Outstanding(b) == Balance(Credit(b))
CreditStatus(b) ==
    IF \E k \in DOMAIN invoices : invoices[k].business = b /\ invoices[k].status = "OVERDUE" THEN "OVERDUE"
    ELSE IF Outstanding(b) > 0 THEN "ON_CREDIT" ELSE "NO_CREDIT"
TotalOutstanding == Total([b \in Businesses |-> Balance(Credit(b))])
Unpaid(b) == {k \in DOMAIN invoices : invoices[k].business = b /\ invoices[k].status = "PENDING"}
InvoiceAmount(S) == Total([k \in S |-> invoices[k].amount])

BusinessDetail(b) ==
    [outstanding |-> Outstanding(b),
     invoices |-> [status \in {"PENDING", "PAID"} |->
                      InvoiceAmount({k \in DOMAIN invoices : invoices[k].business = b
                                                             /\ invoices[k].status = status})]]

\* listAllBusinesses by a credit status, and exportBusinesses over the list.
ListBusinesses(creditStatus) == {b \in Businesses : CreditStatus(b) = creditStatus}
ExportBusinesses ==
    [total |-> Cardinality(Businesses),
     overdue |-> Cardinality(ListBusinesses("OVERDUE")),
     onCredit |-> Cardinality(ListBusinesses("ON_CREDIT")),
     outstanding |-> Total([b \in Businesses |-> Outstanding(b)])]

-----------------------------------------------------------------------------
(* WalletHistoryService: what a wallet's owner is shown.                   *)

\* Mutant of LookupCancelled: by the link of the row.
LookupCancelledByLink(tx) == {i \in DOMAIN trips : tx.ref = trips[i].tx /\ trips[i].fee > 0}

\* lookupCancelled: a fee has no link on its row and is found by reference.
LookupCancelled(tx) == {i \in DOMAIN trips : tx.ref = <<"cancellation", i>>}

\* describe: the trip that a payment leads to.
Describe(tx, a) ==
    [signed |-> Entry(tx, a),
     related |-> LET paid == {i \in DOMAIN trips : trips[i].tx = tx.ref}
                 IN  IF paid # {} THEN paid ELSE LookupCancelled(tx)]

-----------------------------------------------------------------------------
(* Properties.                                                             *)

RevenuesAgree(dash, fin, rides) ==
    /\ dash.todayRevenue = fin.platformCommissionToday
    /\ dash.todayRevenue = RideStats.revenueToday + RevenueByService({today}).DELIVERY
    /\ Total([day \in Ever |-> Analytics(day).revenue])
           = Total([d \in Drivers |-> DriverRow(d).totalCommission])
    /\ ExportRides.revenue = rides.totalRevenue
    /\ ExportDeliveries.revenue = RevenueByService(Ever).DELIVERY
    /\ ExportDeliveries.fareVolume + rides.totalFareVolume
           = Total([r \in Riders |-> RiderHistory(r, "RIDE").totalSpent + RiderHistory(r, "DELIVERY").totalSpent])
    /\ dash.totalRevenue = FinanceReport(Ever).totalRecognizedRevenue

TripsAgree(dash, rides) ==
    LET export == ExportRides
        deliveries == LogisticsReport(Ever)
        stats == RideStats
    IN  /\ dash.rides.total = Total([r \in Riders |-> RiderHistory(r, "RIDE").total])
        /\ dash.rides.total - dash.rides.completed - dash.rides.cancelled = export.other
        /\ dash.activeTrips <= export.other /\ dash.activeTrips = stats.activeNow
        /\ rides.totalRides = export.total
        /\ rides.completedRides = DriversReport(Ever).completedRides
        /\ stats.totalToday = RidesReport({today}).totalRides
        /\ stats.completedToday = DriversReport({today}).completedRides
        /\ RidersReport(Ever).active = Cardinality({r \in Riders : RiderHistory(r, "RIDE").total > 0})
        /\ LET d == DeliverySummary
           IN  /\ d.active = dash.activeDeliveries
               /\ d.total = deliveries.total /\ d.completed = deliveries.completed
               /\ d.total - d.active - d.completed - d.cancelled - d.noDriversFound
                      = CountOf(Rows("DELIVERY"), {"REQUESTED"})
        /\ dash.activeTrips + dash.activeDeliveries + CountOf(DOMAIN trips, {"REQUESTED"})
               = Total([r \in Riders |-> Cardinality(Activity(r).ongoing)])
        /\ \A r \in Riders :
              LET ridden == RiderHistory(r, "RIDE")
                  activity == Activity(r)
              IN  /\ Cardinality(activity.past) + Cardinality(activity.ongoing)
                         = ridden.total + RiderHistory(r, "DELIVERY").total
                  /\ RiderRow(r).totalTrips = ridden.completed
        /\ \A d \in Drivers :
              LET row == DriverRow(d)
              IN  /\ row.totalTrips = TripCount(d)
                  /\ row.totalEarnings
                     = DriverHistory(d, "RIDE").totalEarnings + DriverHistory(d, "DELIVERY").totalEarnings
        /\ Total([day \in Ever |-> Analytics(day).trips]) = Len(trips)

QueuesAgree(dash, fin) ==
    LET queue == ExportWithdrawals
        export == ExportTransactions
        report == FinanceReport(Ever)
        billed == BusinessReport(Ever)
    IN  /\ dash.pendingWithdrawals = fin.pendingWithdrawals
        /\ queue.pendingAmount = Total([d \in Drivers |-> DriverWithdrawals(d).pendingAmount])
        /\ queue.pendingAmount = dash.pendingWithdrawals.amount
        /\ queue.paidOut = Total([d \in Drivers |-> DriverWithdrawals(d).totalWithdrawn])
        /\ report.volume = export.total
        /\ export.total = export.completed + export.reversed
        /\ Cardinality(OfType("REFUND")) = export.reversed
        /\ fin.todayTopups = TopupTrend(today)
        /\ TotalOutstanding = billed.totalInvoiced - billed.totalPaid
        /\ report.totalWithdrawals = AmountOf(DOMAIN withdrawals)

\* The page of a person, of a ride and of a company against the lists.
DetailsAgree(fin) ==
    /\ \A r \in Riders :
          LET d == RiderDetail(r)
              row == RiderRow(r)
          IN  /\ Tallied(d.rides, "COMPLETED") = row.totalTrips
              /\ Tallied(d.deliveriesSent, "COMPLETED") = row.totalDeliveries
              /\ d.activeRides \subseteq Activity(r).ongoing
    /\ \A d \in Drivers :
          LET detail == DriverDetail(d)
              taken == DriverWithdrawals(d)
          IN  /\ Tallied(detail.rides, "COMPLETED") + Tallied(detail.deliveries, "COMPLETED") = TripCount(d)
              /\ detail.withdrawals["PENDING"] = taken.pendingAmount
              /\ detail.withdrawals["COMPLETED"] = taken.totalWithdrawn
    /\ fin.driversOutstanding = Total([d \in Drivers |-> DriverDetail(d).outstandingCommission])
    /\ \A i \in Rows("RIDE") :
          LET d == RideDetail(i)
          IN  /\ d.transaction # {} <=> trips[i].status = "COMPLETED" /\ trips[i].method = "WALLET"
              /\ d.driverEarnings <= IF trips[i].driver \in Drivers
                                     THEN DriverHistory(trips[i].driver, "RIDE").totalEarnings ELSE 0
    /\ Cardinality(ListRides("COMPLETED", {today})) = RidesReport({today}).completedRides
    /\ Cardinality(ListDeliveries("COMPLETED", {today})) = LogisticsReport({today}).completed
    /\ LET export == ExportBusinesses
       IN  /\ export.outstanding = TotalOutstanding
           /\ export.total = export.overdue + export.onCredit + Cardinality(ListBusinesses("NO_CREDIT"))
    /\ \A b \in Businesses :
          LET d == BusinessDetail(b)
          IN  d.outstanding = d.invoices["PENDING"]

\* Figures of the same thing on different screens are the same after any
\* trips, payments, refunds, withdrawals and days: revenue, trips, earnings,
\* the queue of withdrawals, a person's and a company's own page
\* (admin-ops.service.ts:169-245, 655-757, 1026-1284, business.service.ts:232-481,
\* admin-finance.service.ts:48-410, admin-rides.service.ts, reports.service.ts:
\* "an exported figure always matches the on-screen one").
FiguresAgree ==
    LET dash == Dashboard
        fin == Finance
        rides == RidesReport(Ever)
    IN  /\ RevenuesAgree(dash, fin, rides) /\ TripsAgree(dash, rides) /\ QueuesAgree(dash, fin)
        /\ DetailsAgree(fin)

DriverShare(i) == FareOf[trips[i].kind].total - FareOf[trips[i].kind].commission - FareOf[trips[i].kind].tax
PaidTrips(S) == {i \in S : \E tx \in posted : tx.ref = trips[i].tx /\ tx.status = "COMPLETED"}
ReversedTrips == {i \in DOMAIN trips : \E tx \in posted : tx.ref = trips[i].tx /\ tx.status = "REVERSED"}
PaidInvoices(S) == {i \in S : \E k \in DOMAIN invoices : invoices[k].trip = i /\ invoices[k].status = "PAID"}
CashTrips == {i \in InStatus(DOMAIN trips, {"COMPLETED"}) : trips[i].method = "CASH"}

\* Revenue in the ledger is what the trips' rows say, less what is not there
\* yet (debts of drivers, unpaid invoices) or not any more (refunds), and the
\* fees and the tax of settled cash trips, which no row counts as revenue.
RevenueExplained ==
    LET rows == RevenueByService(Ever)
    IN  Dashboard.totalRevenue + Finance.driversOutstanding
            + Total([b \in Businesses |-> Total([k \in Unpaid(b) |-> invoices[k].commission])])
            + Commissions(ReversedTrips)
        = rows.RIDE + rows.DELIVERY + rows.KILOWATT
            + Total([i \in CashTrips |-> FareOf[trips[i].kind].tax])
            + Total([i \in DOMAIN trips |-> IF trips[i].fee > 0 THEN Fee.commission ELSE 0])

\* A driver's wallet and what was taken out of it is what trips paid from
\* wallets and invoices brought, the fees and the referral payouts.
WalletExplained(d) ==
    LET mine == {i \in DOMAIN trips : trips[i].driver = d}
    IN  Balance(Driver(d)) + AmountOf(Requests("PENDING", {d})) + AmountOf(Requests("COMPLETED", {d}))
        = Total([i \in PaidTrips(mine) \cup PaidInvoices(mine) |-> DriverShare(i)])
            + Total([i \in mine |-> IF trips[i].fee > 0 THEN Fee.total - Fee.commission ELSE 0])
            + Amount({tx \in OfType("REFERRAL_PAYOUT") : Driver(d) \in DOMAIN tx.entries})

\* What a driver owes and has settled, by withdrawals that did not fail and by
\* top-ups, is commission and tax of the trips the driver was paid for in cash.
DebtExplained(d) ==
    LET mine == {i \in CashTrips : trips[i].driver = d}
        settled == {tx \in OfType("COMMISSION_SETTLEMENT") :
                       tx.ref[1] = "settle topup" /\ Payable(d) \in DOMAIN tx.entries}
    IN  Balance(Payable(d)) + Amount(settled)
            + SettledOf(Requests("PENDING", {d})) + SettledOf(Requests("COMPLETED", {d}))
        = Commissions(mine) + Total([i \in mine |-> FareOf[trips[i].kind].tax])

\* The ledger and the rows tell the same story: revenue, a driver's wallet
\* and debt, a company's debt (its unpaid invoices), and every payment on a rider's
\* history leads to the trip it was for (admin-ops.service.ts:199-244,
\* business.service.ts:381-464, wallet-history.service.ts:68-270).
BooksExplained ==
    /\ RevenueExplained
    /\ \A d \in Drivers : WalletExplained(d) /\ DebtExplained(d)
    /\ \A b \in Businesses :
          /\ Outstanding(b) = InvoiceAmount(Unpaid(b))
          /\ CreditStatus(b) = "ON_CREDIT" <=> \E k \in Unpaid(b) : invoices[k].amount > 0
    /\ \A r \in Riders : \A tx \in UserTransactions({Rider(r)}) :
          tx.type \in {"RIDE_PAYMENT_WALLET", "DELIVERY_PAYMENT_WALLET"} =>
              LET line == Describe(tx, Rider(r))
              IN  \E i \in line.related :
                      /\ line.related = {i} /\ trips[i].rider = r
                      /\ line.signed = -(IF trips[i].status = "CANCELLED" THEN trips[i].fee
                                      ELSE FareOf[trips[i].kind].total)

\* Doc: fleet-partners.service.ts:55-56: the credits of DRIVER_WALLET capture
\* "WALLET-paid ride/delivery earnings".
FleetEarnsFromTrips ==
    FleetEarnings(Drivers) <=
        Total([i \in {k \in DOMAIN trips : trips[k].status = "COMPLETED" /\ trips[k].method = "WALLET"} |->
                  DriverShare(i)])
            + Total([i \in DOMAIN trips |-> trips[i].fee])

\* Doc: admin-finance.service.ts:342-346 (exportWithdrawals), of "Commission
\* auto-settled": "Outstanding cash-ride commission deducted from withdrawals
\* before payout", as each driver's own summary counts it.
SettledAgrees ==
    ExportWithdrawals.commission = Total([d \in Drivers |-> DriverWithdrawals(d).commissionSettled])

\* Doc: admin-ops.service.ts:870-874 (exportRiders), of "Total wallet balance":
\* "Sum of every rider wallet balance."
RiderBalancesAgree == TotalWalletBalance = Total([r \in Riders |-> RiderRow(r).walletBalance])

\* Doc: admin-ops.service.ts:132-134: "a driver what they earned (fare minus
\* platform commission)".
EarnedIsReceived ==
    \A d \in Drivers : DriverRow(d).totalEarnings
        = Total([i \in {k \in InStatus(DOMAIN trips, {"COMPLETED"}) : trips[k].driver = d} |-> DriverShare(i)])
=============================================================================
