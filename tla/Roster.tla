------------------------------- MODULE Roster -------------------------------
(***************************************************************************)
(* Who there is and what the back office is shown of them: riders and      *)
(* drivers, their account status, their availability and position, and the *)
(* state of their documents (admin-ops.service.ts, analytics.service.ts,   *)
(* reports.service.ts, kyc.service.ts listPending, rides/dispatch.service). *)
(* The same people are counted by queries written apart, some over users,  *)
(* some over driver_statuses, some over the Redis set of positions, some   *)
(* over documents.                                                         *)
(*                                                                         *)
(* Positions are only there or not; the set of positions and the row of a  *)
(* driver are written by two statements (setDriverStatus), and read by two. *)
(* Signing up and codes are in Membership and Sessions.                    *)
(***************************************************************************)
EXTENDS Integers, Sequences, FiniteSetsExt

CONSTANTS
    Users,
    Types,                  \* the types of a driver's documents
    Assigned,               \* the roles of those whom administrators assign deliveries
    MaxDocuments, MaxDay,   \* bounds
    None

RosterAssumption ==
    /\ MaxDocuments \in Nat /\ MaxDay \in Nat /\ IsFiniteSet(Users)
    /\ None \notin {"ONLINE", "ON_TRIP", "OFFLINE"}
    /\ None \notin [role : {"RIDER", "DRIVER", "BUSINESS_ADMIN"}, created : 0 .. MaxDay,
                   status : {"PENDING_VERIFICATION", "ACTIVE", "SUSPENDED"}]

VARIABLES
    user,       \* User rows: role, status, day of creation
    avail,      \* DriverStatus rows
    geo,        \* the drivers in the Redis set of positions
    leaving,    \* drivers whose row is OFFLINE already and who leave the set next
    documents,  \* KycDocument rows, in order of creation
    day

vars == <<user, avail, geo, leaving, documents, day>>

Init ==
    /\ user = [u \in Users |-> None]
    /\ avail = [u \in Users |-> None]
    /\ geo = {} /\ leaving = {}
    /\ documents = <<>> /\ day = 0

Known == {u \in Users : user[u] # None}
InRole(role) == {u \in Known : user[u].role = role}
Roles == {"RIDER", "DRIVER"}
Statuses == {"PENDING_VERIFICATION", "ACTIVE", "SUSPENDED"}

-----------------------------------------------------------------------------
(* Accounts.                                                               *)

\* register and a first sign-in with a provider.
Register(u, role) ==
    /\ user[u] = None
    /\ user' = [user EXCEPT ![u] = [role |-> role, status |-> "PENDING_VERIFICATION", created |-> day]]
    /\ UNCHANGED <<avail, geo, leaving, documents, day>>

SetStatus(u, from, to) ==
    /\ u \in Known /\ user[u].status \in from /\ user[u].role \in Roles
    /\ user' = [user EXCEPT ![u].status = to]
    /\ UNCHANGED <<avail, geo, leaving, documents, day>>

\* verifyOtp, suspendUser, activateUser.
Verify(u) == SetStatus(u, {"PENDING_VERIFICATION"}, "ACTIVE")
SuspendUser(u) == SetStatus(u, Statuses, "SUSPENDED")
ActivateUser(u) == SetStatus(u, Statuses, "ACTIVE")

\* A rider founds a company and is its administrator then; one who is removed
\* from a company is a rider again.
Found(u) ==
    /\ u \in InRole("RIDER")
    /\ user' = [user EXCEPT ![u].role = "BUSINESS_ADMIN"]
    /\ UNCHANGED <<avail, geo, leaving, documents, day>>
RemoveMember(u) ==
    /\ u \in InRole("BUSINESS_ADMIN")
    /\ user' = [user EXCEPT ![u].role = "RIDER"]
    /\ UNCHANGED <<avail, geo, leaving, documents, day>>

-----------------------------------------------------------------------------
(* Availability and positions.                                             *)

\* setDriverStatus: first the row; an old one's vehicle and mode stay.
SetDriverStatus(u, a) ==
    /\ u \in InRole("DRIVER")
    /\ avail' = [avail EXCEPT ![u] = a]
    /\ leaving' = IF a = "OFFLINE" THEN leaving \cup {u} ELSE leaving
    /\ UNCHANGED <<user, geo, documents, day>>

\* Then the set of positions.
LeaveMap(u) ==
    /\ u \in leaving
    /\ leaving' = leaving \ {u}
    /\ geo' = geo \ {u}
    /\ UNCHANGED <<user, avail, documents, day>>

\* pushLocation: whatever the row says.
PushLocation(u) ==
    /\ u \in InRole("DRIVER")
    /\ geo' = geo \cup {u}
    /\ UNCHANGED <<user, avail, leaving, documents, day>>

\* acceptOffer needs the driver's row; assignDriver makes one if there is none,
\* of whomever it is given.
AcceptOffer(u) ==
    /\ avail[u] # None
    /\ avail' = [avail EXCEPT ![u] = "ON_TRIP"]
    /\ UNCHANGED <<user, geo, leaving, documents, day>>
AssignDriver(u) ==
    /\ u \in UNION {InRole(role) : role \in Assigned}
    /\ avail' = [avail EXCEPT ![u] = "ON_TRIP"]
    /\ UNCHANGED <<user, geo, leaving, documents, day>>
\* completeTrip and cancel.
TripEnds(u) ==
    /\ avail[u] # None
    /\ avail' = [avail EXCEPT ![u] = "ONLINE"]
    /\ UNCHANGED <<user, geo, leaving, documents, day>>

-----------------------------------------------------------------------------
(* Documents.                                                              *)

UploadDocument(u, type) ==
    /\ u \in InRole("DRIVER") /\ Len(documents) < MaxDocuments
    /\ documents' = Append(documents, [driver |-> u, type |-> type, status |-> "PENDING"])
    /\ UNCHANGED <<user, avail, geo, leaving, day>>

Pending(i) == documents[i].status = "PENDING"
Of(u) == {i \in DOMAIN documents : documents[i].driver = u}

\* Mutant of ToReview: the newest document only.
ToReviewNewest(u) == {i \in Of(u) : Pending(i) /\ i = Max(Of(u))}

\* approve and reject take all that a driver has waiting.
ToReview(u) == {i \in Of(u) : Pending(i)}

Review(u, verdict) ==
    /\ ToReview(u) # {}
    /\ documents' = [i \in DOMAIN documents |->
                        IF i \in ToReview(u) THEN [documents[i] EXCEPT !.status = verdict]
                                             ELSE documents[i]]
    /\ UNCHANGED <<user, avail, geo, leaving, day>>

\* A bound: the day passes between the first sign-up and the last.
NewDay ==
    /\ day < MaxDay /\ Known \notin {{}, Users}
    /\ day' = day + 1
    /\ UNCHANGED <<user, avail, geo, leaving, documents>>

Next ==
    \/ \E u \in Users :
          \/ \E role \in Roles : Register(u, role)
          \/ Verify(u) \/ SuspendUser(u) \/ ActivateUser(u) \/ Found(u) \/ RemoveMember(u)
          \/ \E a \in {"ONLINE", "OFFLINE"} : SetDriverStatus(u, a)
          \/ LeaveMap(u) \/ PushLocation(u) \/ AcceptOffer(u) \/ AssignDriver(u) \/ TripEnds(u)
          \/ \E type \in Types : UploadDocument(u, type)
          \/ \E verdict \in {"APPROVED", "REJECTED"} : Review(u, verdict)
    \/ NewDay

Spec == Init /\ [][Next]_vars

-----------------------------------------------------------------------------
(* The figures.                                                            *)

WithRow(availabilities) == {u \in Users : avail[u] \in availabilities}
Created(role, days) == {u \in InRole(role) : user[u].created \in days}
HasPending == {u \in Users : \E i \in Of(u) : Pending(i)}

\* getDashboardSummary, getNeedsAttention.
Dashboard ==
    [riders |-> Cardinality(InRole("RIDER")),
     drivers |-> Cardinality(InRole("DRIVER")),
     onlineDrivers |-> Cardinality(WithRow({"ONLINE", "ON_TRIP"})),
     pendingKyc |-> Cardinality(HasPending)]
NeedsAttention == [kyc |-> Cardinality(HasPending)]

\* listPending: a page of drivers, the oldest first, and the counts.
ListPending ==
    [drivers |-> {documents[i].driver : i \in {j \in DOMAIN documents : Pending(j)}},
     pendingDocuments |-> Cardinality({i \in DOMAIN documents : Pending(i)})]

\* getLiveMap: positions first, rows then.
LiveMap == {u \in geo : avail[u] = "ONLINE"}

\* getFleetMap; a driver without a position is listed without one.
FleetMap ==
    [drivers |-> [u \in WithRow({"ONLINE", "ON_TRIP"}) |->
                     [status |-> avail[u], placed |-> u \in geo]],
     onlineDrivers |-> Cardinality(WithRow({"ONLINE"})),
     offlineDrivers |-> Cardinality(WithRow({"OFFLINE"}))]

\* findNearbyDrivers and nearestDriverDistances, wherever the pickup is.
Nearby == {u \in geo : avail[u] = "ONLINE"}

\* nearestDriverDistances: a quote says when the nearest driver would arrive,
\* if one is near.
ArrivalIsQuoted == \E u \in geo : avail[u] = "ONLINE"

\* getDriverPosition, getLiveLocation.
HasPosition(u) == u \in geo

\* driverKycStates: by the latest document of each type.
KycState(u) ==
    LET latest == {documents[Max({i \in Of(u) : documents[i].type = type})].status :
                      type \in {documents[i].type : i \in Of(u)}}
    IN  IF latest = {} THEN "NOT_SUBMITTED"
        ELSE IF "PENDING" \in latest THEN "PENDING"
        ELSE IF "REJECTED" \in latest THEN "REJECTED" ELSE "APPROVED"
KycStates == {"NOT_SUBMITTED", "PENDING", "REJECTED", "APPROVED"}

\* tallyByStatus, riderSummary, driverSummary; the new ones since a day.
CountBy(role, status) == Cardinality({u \in InRole(role) : user[u].status = status})
Summary(role) ==
    [total |-> Cardinality(InRole(role)),
     byStatus |-> [s \in Statuses |-> CountBy(role, s)],
     newSince |-> [d \in 0 .. MaxDay |-> Cardinality(Created(role, d .. MaxDay))]]
DriverSummary ==
    LET count(a) == Cardinality({u \in InRole("DRIVER") : avail[u] = a})
        kyc(s) == Cardinality({u \in Users : KycState(u) = s})
        total == Summary("DRIVER").total
    IN  [total |-> total, online |-> count("ONLINE") + count("ON_TRIP"),
         available |-> count("ONLINE"), onTrip |-> count("ON_TRIP"),
         offline |-> total - count("ONLINE") - count("ON_TRIP"),
         pendingKyc |-> kyc("PENDING"), approvedKyc |-> kyc("APPROVED"), rejectedKyc |-> kyc("REJECTED"),
         kycNotSubmitted |-> total - kyc("PENDING") - kyc("APPROVED") - kyc("REJECTED")]

\* userListWhere and driverListWhere: the lists, their totals and the exports.
UserList(role, statuses) == {u \in InRole(role) : user[u].status \in statuses}
ByAvailability(a) ==
    {u \in InRole("DRIVER") : avail[u] = a \/ (a = "OFFLINE" /\ avail[u] = None)}
ByKyc(s) ==
    IF s = "NOT_SUBMITTED" THEN {u \in InRole("DRIVER") : Of(u) = {}}
    ELSE {u \in InRole("DRIVER") : KycState(u) = s}

\* listRiders, listDrivers: what a filter leaves, and the cards of everyone.
ListRiders(statuses) == [rows |-> UserList("RIDER", statuses), summary |-> Summary("RIDER")]
DriverListWhere(statuses, a, kyc) ==
    UserList("DRIVER", statuses) \cap ByAvailability(a) \cap ByKyc(kyc)
ListDrivers(statuses, a, kyc) ==
    [rows |-> DriverListWhere(statuses, a, kyc), summary |-> DriverSummary]

\* exportRiders, exportDrivers: the cards are of everyone, the records and the
\* rows of the filter.
ExportRiders(statuses) ==
    [total |-> Summary("RIDER").total, active |-> CountBy("RIDER", "ACTIVE"),
     pendingVerification |-> CountBy("RIDER", "PENDING_VERIFICATION"),
     suspended |-> CountBy("RIDER", "SUSPENDED"),
     records |-> Cardinality(UserList("RIDER", statuses))]
ExportDrivers(statuses, a, kyc) ==
    [total |-> Summary("DRIVER").total, cards |-> DriverSummary,
     suspended |-> CountBy("DRIVER", "SUSPENDED"),
     records |-> Cardinality(DriverListWhere(statuses, a, kyc))]

\* userGrowth: a baseline and the days of a window on top of it.
UserGrowth(role, from) ==
    [d \in from .. MaxDay |-> Cardinality(Created(role, 0 .. (from - 1)))
                                  + Cardinality(Created(role, from .. d))]

\* ridersReport, driversReport.
RidersReport(days) ==
    [totalRiders |-> Cardinality(InRole("RIDER")),
     newRidersInPeriod |-> Cardinality(Created("RIDER", days))]
DriversReport ==
    [totalDrivers |-> Cardinality(InRole("DRIVER")),
     onlineDrivers |-> Cardinality(WithRow({"ONLINE", "ON_TRIP"}))]

-----------------------------------------------------------------------------
(* Properties.                                                             *)

Partition(parts, S) ==
    /\ UNION parts = S
    /\ \A p, q \in parts : p # q => p \cap q = {}

\* People are counted the same on every screen, after any sign-ups, changes of
\* status and role, availability, trips, uploads and reviews: users by status,
\* drivers by availability (with and without a row) and by the state of their
\* documents (of any document, of the latest ones), the maps and who can be
\* offered a trip, the growth (admin-ops.service.ts:169-346, 425-653, 759-810,
\* analytics.service.ts:113-150, reports.service.ts:116-169, kyc.service.ts:142-186),
\* as long as administrators assign deliveries to drivers.
RosterAgrees ==
    LET dash == Dashboard
        drivers == DriverSummary
        fleet == FleetMap
    IN  /\ \A role \in Roles :
              LET summary == Summary(role)
                  growth == UserGrowth(role, 0)
              IN  /\ Partition({UserList(role, {s}) : s \in Statuses}, InRole(role))
                  /\ \A s \in Statuses : Cardinality(UserList(role, {s})) = summary.byStatus[s]
                  /\ \A d \in 0 .. MaxDay :
                        /\ UserGrowth(role, d)[MaxDay] = summary.total
                        /\ summary.newSince[d] =
                               growth[MaxDay] - (IF d = 0 THEN 0 ELSE growth[d - 1])
        /\ LET riders == ExportRiders({"ACTIVE", "SUSPENDED"})
           IN  /\ riders.active + riders.suspended = riders.records
               /\ riders.total = riders.records + riders.pendingVerification
               /\ riders.records = Cardinality(ListRiders({"ACTIVE", "SUSPENDED"}).rows)
        /\ drivers.total = SumFunction([f \in {"ONLINE", "ON_TRIP", "OFFLINE"} \X KycStates |->
                                           Cardinality(DriverListWhere(Statuses, f[1], f[2]))])
        /\ LET export == ExportDrivers({"ACTIVE"}, "ONLINE", "APPROVED")
           IN  /\ export.cards = drivers /\ export.suspended <= drivers.total - export.records
               /\ export.records <= drivers.available
        /\ dash.riders = RidersReport(0 .. MaxDay).newRidersInPeriod
        /\ dash.drivers = DriversReport.totalDrivers
        /\ dash.onlineDrivers = drivers.online /\ dash.onlineDrivers = DriversReport.onlineDrivers
        /\ Partition({ByAvailability(a) : a \in {"ONLINE", "ON_TRIP", "OFFLINE"}}, InRole("DRIVER"))
        /\ Cardinality(ByAvailability("OFFLINE")) = drivers.offline
        /\ DOMAIN fleet.drivers = ByAvailability("ONLINE") \cup ByAvailability("ON_TRIP")
        /\ fleet.onlineDrivers = drivers.available /\ fleet.offlineDrivers <= drivers.offline
        /\ LiveMap = {u \in DOMAIN fleet.drivers : fleet.drivers[u] = [status |-> "ONLINE", placed |-> TRUE]}
        /\ LiveMap = Nearby /\ (ArrivalIsQuoted <=> Nearby # {})
        /\ Partition({ByKyc(s) : s \in KycStates}, InRole("DRIVER"))
        /\ Cardinality(ByKyc("NOT_SUBMITTED")) = drivers.kycNotSubmitted
        /\ dash.pendingKyc = drivers.pendingKyc /\ ByKyc("PENDING") = ListPending.drivers
        /\ NeedsAttention.kyc > 0 <=> ListPending.pendingDocuments > 0

\* Doc: admin-ops.service.ts:576: the summary's online drivers are "the same
\* definition as the dashboard's online figure".
OnlineAgrees == Dashboard.onlineDrivers = DriverSummary.online

\* Doc: dispatch.service.ts:107-108: the last position is "null once the
\* driver goes offline (setDriverStatus removes them from it)".
OfflineHasNoPosition ==
    \A u \in Users : avail[u] = "OFFLINE" /\ u \notin leaving => ~HasPosition(u)
=============================================================================
