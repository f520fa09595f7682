---------------------------- MODULE ScreenProofs ----------------------------
(***************************************************************************)
(* Theorems about Office: what is shown of the same thing is the same on   *)
(* every screen.  People are counted alike (RosterInv), the timeline of a  *)
(* delivery follows its calls (FollowInv), money and trips add up alike    *)
(* (BooksInv, of OfficeProofs, with LinksInv, from each row to what was    *)
(* posted for it and back) and charts divide their windows (ChartsInv).    *)
(***************************************************************************)
EXTENDS OfficeProofs

-----------------------------------------------------------------------------
(* People: what the tables of users, positions and documents keep.         *)

UserRows ==
    [role : {"RIDER", "DRIVER", "BUSINESS_ADMIN"}, created : 0 .. MaxDay,
     status : {"PENDING_VERIFICATION", "ACTIVE", "SUSPENDED"}]
Availabilities == {"ONLINE", "ON_TRIP", "OFFLINE"}
DocumentRows == [driver : Drivers, type : Types, status : {"PENDING", "APPROVED", "REJECTED"}]
IsDriver(us, u) == u \in Drivers /\ us[u] # None /\ us[u].role = "DRIVER"

\* A document that waits is the latest of its type, or the latest waits, too.
DocumentsWait(docs) ==
    \A i, j \in DOMAIN docs :
        i < j /\ docs[i].driver = docs[j].driver /\ docs[i].type = docs[j].type
            /\ docs[i].status = "PENDING" => docs[j].status = "PENDING"

UsersOK(us) == us \in [Drivers -> UserRows \cup {None}]
AvailOK(av, us) ==
    /\ av \in [Drivers -> Availabilities \cup {None}]
    /\ \A u \in Drivers : av[u] # None => IsDriver(us, u)
DocsOK(docs, us) ==
    /\ docs \in Seq(DocumentRows) /\ DocumentsWait(docs)
    /\ \A i \in DOMAIN docs : IsDriver(us, docs[i].driver)

RosterInv ==
    /\ day \in 0 .. MaxDay /\ geo \subseteq Drivers
    /\ UsersOK(user) /\ AvailOK(avail, user) /\ DocsOK(documents, user)

\* The assumptions on the constants, in the terms of this module.
LEMMA RosterConstants ==
    /\ MaxDay \in Nat /\ IsFiniteSet(Drivers)
    /\ None \notin Availabilities /\ None \notin UserRows
  BY OfficeAssumption DEF R!RosterAssumption, R!IsFiniteSet, IsFiniteSet, Availabilities, UserRows

\* Drivers stay drivers when a user is written.
DriversStay(us, us2) == \A u \in Drivers : IsDriver(us, u) => IsDriver(us2, u)

\* Writing a user leaves the rest as it is, when drivers stay drivers.
LEMMA UsersWritten ==
    ASSUME RosterInv, UsersOK(user'), DriversStay(user, user'),
           UNCHANGED <<avail, geo, leaving, documents, day>>
    PROVE  RosterInv'
  <1>1. AvailOK(avail, user')
    BY DEF RosterInv, AvailOK, DriversStay
  <1>2. DocsOK(documents, user')
    <2>1. \A i \in DOMAIN documents : documents[i].driver \in Drivers
      BY DEF RosterInv, DocsOK, IsDriver
    <2> QED
      BY <2>1 DEF RosterInv, DocsOK, DriversStay
  <1> QED
    BY <1>1, <1>2 DEF RosterInv

\* Writing a driver's availability.
LEMMA AvailWritten ==
    ASSUME RosterInv, NEW u \in Drivers, IsDriver(user, u), NEW a \in Availabilities,
           avail' = [avail EXCEPT ![u] = a], UNCHANGED <<user, geo, documents, day>>
    PROVE  RosterInv'
  <1>1. AvailOK(avail', user)
    BY DEF RosterInv, AvailOK
  <1> QED
    BY <1>1 DEF RosterInv

\* There is nobody at first.
LEMMA RosterInit == R!Init => RosterInv
  BY RosterConstants DEF R!Init, RosterInv, UsersOK, AvailOK, DocsOK, DocumentsWait

\* Who has a role is known and has it.
LEMMA InRoleIs ==
    ASSUME NEW u, NEW role, u \in R!InRole(role)
    PROVE  u \in Drivers /\ user[u] # None /\ user[u].role = role
  BY DEF R!InRole, R!Known

\* Registering, verifying, suspending, activating, founding and leaving a company.
LEMMA UserKept ==
    ASSUME RosterInv, NEW u \in Drivers,
           \/ \E role \in R!Roles : R!Register(u, role)
           \/ R!Verify(u) \/ R!SuspendUser(u) \/ R!ActivateUser(u) \/ R!Found(u) \/ R!RemoveMember(u)
    PROVE  RosterInv'
  <1>1. UsersOK(user)
    BY DEF RosterInv
  <1>2. ASSUME NEW role \in R!Roles, R!Register(u, role) PROVE RosterInv'
    <2> DEFINE row == [role |-> role, status |-> "PENDING_VERIFICATION", created |-> day]
    <2>1. /\ user[u] = None /\ user' = [user EXCEPT ![u] = row]
          /\ UNCHANGED <<avail, geo, leaving, documents, day>>
      BY <1>2 DEF R!Register
    <2>2. row \in UserRows
      BY DEF UserRows, R!Roles, RosterInv
    <2> HIDE DEF row
    <2>3. UsersOK(user') /\ DriversStay(user, user')
      BY <1>1, <2>1, <2>2 DEF UsersOK, DriversStay, IsDriver
    <2> QED
      BY <2>1, <2>3, UsersWritten
  <1>3. ASSUME NEW from, NEW to \in R!Statuses, R!SetStatus(u, from, to) PROVE RosterInv'
    <2>1. /\ user[u] # None /\ user' = [user EXCEPT ![u].status = to]
          /\ UNCHANGED <<avail, geo, leaving, documents, day>>
      BY <1>3 DEF R!SetStatus, R!Known
    <2>2. user[u] \in UserRows /\ [user[u] EXCEPT !.status = to] \in UserRows
          /\ [user[u] EXCEPT !.status = to].role = user[u].role
      BY <1>1, <2>1 DEF UsersOK, UserRows, R!Statuses
    <2>3. UsersOK(user') /\ DriversStay(user, user')
      BY <1>1, <2>1, <2>2, RosterConstants DEF UsersOK, DriversStay, IsDriver
    <2> QED
      BY <2>1, <2>3, UsersWritten
  <1>4. ASSUME NEW from \in {"RIDER", "BUSINESS_ADMIN"}, NEW to \in {"RIDER", "BUSINESS_ADMIN"},
               u \in R!InRole(from), user' = [user EXCEPT ![u].role = to],
               UNCHANGED <<avail, geo, leaving, documents, day>>
        PROVE RosterInv'
    <2>1. user[u] # None /\ user[u].role = from
      BY <1>4, InRoleIs
    <2>2. user[u] \in UserRows /\ [user[u] EXCEPT !.role = to] \in UserRows
      BY <1>1, <2>1 DEF UsersOK, UserRows
    <2>3. UsersOK(user') /\ DriversStay(user, user')
      BY <1>1, <1>4, <2>1, <2>2, RosterConstants DEF UsersOK, DriversStay, IsDriver
    <2> QED
      BY <1>4, <2>3, UsersWritten
  <1>5. R!Verify(u) \/ R!SuspendUser(u) \/ R!ActivateUser(u) => RosterInv'
    BY <1>3 DEF R!Verify, R!SuspendUser, R!ActivateUser, R!Statuses
  <1>6. R!Found(u) \/ R!RemoveMember(u) => RosterInv'
    BY <1>4 DEF R!Found, R!RemoveMember
  <1> QED
    BY <1>2, <1>5, <1>6

\* Going online or offline, taking an offer, being assigned, ending a trip.
LEMMA AvailKept ==
    ASSUME RosterInv, Assigned \subseteq {"DRIVER"}, NEW u \in Drivers,
           \/ \E a \in {"ONLINE", "OFFLINE"} : R!SetDriverStatus(u, a)
           \/ R!AcceptOffer(u) \/ R!AssignDriver(u) \/ R!TripEnds(u)
    PROVE  RosterInv'
  <1>1. ASSUME NEW a \in {"ONLINE", "OFFLINE"}, R!SetDriverStatus(u, a) PROVE RosterInv'
    <2>1. /\ IsDriver(user, u) /\ avail' = [avail EXCEPT ![u] = a]
          /\ UNCHANGED <<user, geo, documents, day>>
      BY <1>1, InRoleIs DEF R!SetDriverStatus, IsDriver
    <2> QED
      BY <2>1, AvailWritten DEF Availabilities
  <1>2. CASE R!AcceptOffer(u)
    <2>1. IsDriver(user, u)
      BY <1>2 DEF R!AcceptOffer, RosterInv, AvailOK
    <2> QED
      BY <1>2, <2>1, AvailWritten DEF R!AcceptOffer, Availabilities
  <1>3. CASE R!AssignDriver(u)
    <2>1. u \in R!InRole("DRIVER")
      BY <1>3 DEF R!AssignDriver
    <2>2. IsDriver(user, u)
      BY <2>1, InRoleIs DEF IsDriver
    <2> QED
      BY <1>3, <2>2, AvailWritten DEF R!AssignDriver, Availabilities
  <1>4. CASE R!TripEnds(u)
    <2>1. IsDriver(user, u)
      BY <1>4 DEF R!TripEnds, RosterInv, AvailOK
    <2> QED
      BY <1>4, <2>1, AvailWritten DEF R!TripEnds, Availabilities
  <1> QED
    BY <1>1, <1>2, <1>3, <1>4

\* Uploading a document, and judging those that wait.
LEMMA DocumentsKept ==
    ASSUME RosterInv, NEW u \in Drivers,
           \/ \E type \in Types : R!UploadDocument(u, type)
           \/ \E verdict \in {"APPROVED", "REJECTED"} : R!Review(u, verdict)
    PROVE  RosterInv'
  <1>1. PICK n \in Nat : DOMAIN documents = 1 .. n /\ Len(documents) = n
    BY DEF RosterInv, DocsOK
  <1>2. \A i \in 1 .. n : documents[i] \in DocumentRows /\ IsDriver(user, documents[i].driver)
    BY <1>1 DEF RosterInv, DocsOK
  <1>3. ASSUME NEW type \in Types, R!UploadDocument(u, type) PROVE RosterInv'
    <2> DEFINE row == [driver |-> u, type |-> type, status |-> "PENDING"]
    <2>1. /\ IsDriver(user, u) /\ documents' = Append(documents, row)
          /\ UNCHANGED <<user, avail, geo, day>>
      BY <1>3, InRoleIs DEF R!UploadDocument, IsDriver
    <2>2. row \in DocumentRows /\ row.status = "PENDING" /\ row.driver = u
      BY DEF DocumentRows
    <2> HIDE DEF row
    <2>3. /\ documents' \in Seq(DocumentRows) /\ DOMAIN documents' = 1 .. n + 1
          /\ documents'[n + 1] = row /\ \A i \in 1 .. n : documents'[i] = documents[i]
      BY <1>1, <2>1, <2>2 DEF RosterInv, DocsOK
    <2>4. DocumentsWait(documents')
      <3> SUFFICES ASSUME NEW i \in 1 .. n + 1, NEW j \in 1 .. n + 1, i < j,
                          documents'[i].driver = documents'[j].driver,
                          documents'[i].type = documents'[j].type,
                          documents'[i].status = "PENDING"
                   PROVE  documents'[j].status = "PENDING"
        BY <2>3 DEF DocumentsWait
      <3>1. CASE j = n + 1
        BY <2>2, <2>3, <3>1
      <3>2. CASE j # n + 1
        <4>1. i \in 1 .. n /\ j \in 1 .. n
          BY <3>2
        <4> QED
          BY <1>1, <2>3, <4>1 DEF RosterInv, DocsOK, DocumentsWait
      <3> QED
        BY <3>1, <3>2
    <2>5. \A i \in DOMAIN documents' : IsDriver(user, documents'[i].driver)
      <3> SUFFICES ASSUME NEW i \in 1 .. n + 1 PROVE IsDriver(user, documents'[i].driver)
        BY <2>3
      <3> QED
        BY <1>2, <2>1, <2>2, <2>3
    <2> QED
      BY <2>1, <2>3, <2>4, <2>5 DEF RosterInv, DocsOK
  <1>4. ASSUME NEW verdict \in {"APPROVED", "REJECTED"}, R!Review(u, verdict) PROVE RosterInv'
    <2>1. /\ documents' = [i \in DOMAIN documents |->
                              IF i \in R!ToReview(u) THEN [documents[i] EXCEPT !.status = verdict]
                                                     ELSE documents[i]]
          /\ UNCHANGED <<user, avail, geo, day>>
      BY <1>4 DEF R!Review
    <2>2. ASSUME NEW i \in 1 .. n
          PROVE  /\ documents'[i] \in DocumentRows
                 /\ documents'[i].driver = documents[i].driver /\ documents'[i].type = documents[i].type
                 /\ documents'[i].status = IF documents[i].driver = u /\ documents[i].status = "PENDING"
                                           THEN verdict ELSE documents[i].status
      <3>1. i \in R!ToReview(u) <=> documents[i].driver = u /\ documents[i].status = "PENDING"
        BY <1>1 DEF R!ToReview, R!Of, R!Pending
      <3>2. documents[i] \in DocumentRows
        BY <1>2
      <3> QED
        BY <1>1, <2>1, <3>1, <3>2 DEF DocumentRows
    <2>3. documents' \in Seq(DocumentRows) /\ DOMAIN documents' = 1 .. n
      <3>1. documents' \in [1 .. n -> DocumentRows]
        BY <1>1, <2>1, <2>2
      <3> QED
        BY <3>1
    <2>4. DocumentsWait(documents')
      BY <1>1, <2>2, <2>3 DEF RosterInv, DocsOK, DocumentsWait
    <2>5. \A i \in DOMAIN documents' : IsDriver(user, documents'[i].driver)
      BY <1>2, <2>2, <2>3
    <2> QED
      BY <2>1, <2>3, <2>4, <2>5 DEF RosterInv, DocsOK
  <1> QED
    BY <1>3, <1>4

\* Every step about people.
LEMMA RosterNext ==
    ASSUME RosterInv, Assigned \subseteq {"DRIVER"}, R!Next
    PROVE  RosterInv'
  <1>1. ASSUME NEW u \in Drivers, R!LeaveMap(u) \/ R!PushLocation(u) PROVE RosterInv'
    <2>1. /\ geo' \subseteq geo \cup {u} /\ UNCHANGED <<user, avail, documents, day>>
      BY <1>1 DEF R!LeaveMap, R!PushLocation
    <2> QED
      BY <2>1 DEF RosterInv
  <1>2. CASE R!NewDay
    <2>1. day' \in 0 .. MaxDay /\ UNCHANGED <<user, avail, geo, documents>>
      BY <1>2, RosterConstants DEF R!NewDay, RosterInv
    <2> QED
      BY <2>1 DEF RosterInv
  <1> QED
    BY <1>1, <1>2, UserKept, AvailKept, DocumentsKept DEF R!Next

-----------------------------------------------------------------------------
(* People: what the screens count.                                         *)

\* The counts of Roster are those of the lemmas,
LEMMA RosterCardIs == \A S : R!Cardinality(S) = Cardinality(S)
  BY DEF R!Cardinality, Cardinality, R!IsFiniteSet, IsFiniteSet

\* and so are its sums.
LEMMA RosterSumIs == \A f : R!SumFunction(f) = SumFunctionOnSet(f, DOMAIN f)
  BY DEF R!SumFunction, R!SumFunctionOnSet, R!FoldFunctionOnSet, R!MapThenFoldSet,
         SumFunctionOnSet, FoldFunctionOnSet, MapThenFoldSet

\* The users that the screens are about.
Kind(role) == {u \in Drivers : user[u] # None /\ user[u].role = role}

\* The users of a role are finitely many.
LEMMA KindIs ==
    ASSUME RosterInv, NEW role
    PROVE  /\ R!InRole(role) = Kind(role) /\ IsFiniteSet(Kind(role))
           /\ \A S \in SUBSET Kind(role) : IsFiniteSet(S) /\ Cardinality(S) \in Nat
  <1>1. R!InRole(role) = Kind(role)
    BY DEF R!InRole, R!Known, Kind
  <1>2. IsFiniteSet(Kind(role))
    <2>1. Kind(role) \in SUBSET Drivers
      BY DEF Kind
    <2> QED
      BY <2>1, RosterConstants, FS_Subset
  <1>3. \A S \in SUBSET Kind(role) : IsFiniteSet(S) /\ Cardinality(S) \in Nat
    BY <1>2, FS_Subset, FS_CardinalityType
  <1> QED
    BY <1>1, <1>2, <1>3

\* What their rows hold.
LEMMA RowIs ==
    ASSUME RosterInv, NEW role, NEW u \in Kind(role)
    PROVE  /\ user[u] \in UserRows /\ user[u].status \in R!Statuses
           /\ user[u].created \in 0 .. MaxDay
  BY DEF RosterInv, UsersOK, Kind, UserRows, R!Statuses

\* Two parts of the users of a role.
LEMMA KindParts ==
    ASSUME RosterInv, NEW role, NEW S \in SUBSET Kind(role), NEW X, NEW Y,
           \A x : x \in S <=> x \in X \/ x \in Y, \A x \in X : x \notin Y
    PROVE  /\ Cardinality(S) = Cardinality(X) + Cardinality(Y)
           /\ Cardinality(X) \in Nat /\ Cardinality(Y) \in Nat
  BY SMTT(40), KindIs, CountParts

\* The lists by status divide the users of a role, and the cards count them.
LEMMA StatusesAgree ==
    ASSUME RosterInv, NEW role \in R!Roles
    PROVE  /\ R!Partition({R!UserList(role, {s}) : s \in R!Statuses}, R!InRole(role))
           /\ \A s \in R!Statuses : R!Cardinality(R!UserList(role, {s})) = R!Summary(role).byStatus[s]
  <1> DEFINE L(s) == {u \in Kind(role) : user[u].status = s}
  <1>1. \A s : R!UserList(role, {s}) = L(s) /\ R!CountBy(role, s) = Cardinality(L(s))
    BY KindIs, RosterCardIs DEF R!UserList, R!CountBy
  <1>2. R!Partition({L(s) : s \in R!Statuses}, Kind(role))
    <2>1. UNION {L(s) : s \in R!Statuses} = Kind(role)
      BY RowIs
    <2>2. \A p, q \in {L(s) : s \in R!Statuses} : p # q => p \cap q = {}
      OBVIOUS
    <2> QED
      BY <2>1, <2>2 DEF R!Partition
  <1>3. {R!UserList(role, {s}) : s \in R!Statuses} = {L(s) : s \in R!Statuses}
    BY <1>1
  <1>4. \A s \in R!Statuses : R!Summary(role).byStatus[s] = R!CountBy(role, s)
    BY DEF R!Summary
  <1> HIDE DEF L
  <1> QED
    BY <1>1, <1>2, <1>3, <1>4, KindIs, RosterCardIs

\* Those of a role who were there on some days.
Since(role, days) == {u \in Kind(role) : user[u].created \in days}

\* Who was there before a day and who came since.
LEMMA SinceParts ==
    ASSUME RosterInv, NEW role, NEW d \in 0 .. MaxDay
    PROVE  /\ Since(role, 0 .. MaxDay) = Kind(role)
           /\ Cardinality(Kind(role)) = Cardinality(Since(role, 0 .. (d - 1))) + Cardinality(Since(role, d .. MaxDay))
           /\ Cardinality(Since(role, 0 .. (d - 1))) \in Nat /\ Cardinality(Since(role, d .. MaxDay)) \in Nat
           /\ Cardinality(Since(role, 0 .. (0 - 1))) = 0
  <1>1. \A u \in Kind(role) : user[u].created \in 0 .. MaxDay
    BY RowIs
  <1>2. Since(role, 0 .. MaxDay) = Kind(role)
    BY <1>1 DEF Since
  <1>3. /\ \A u : u \in Kind(role) <=> u \in Since(role, 0 .. (d - 1)) \/ u \in Since(role, d .. MaxDay)
        /\ \A u \in Since(role, 0 .. (d - 1)) : u \notin Since(role, d .. MaxDay)
    BY <1>1, RosterConstants DEF Since
  <1>4. Since(role, 0 .. (0 - 1)) = {}
    BY DEF Since
  <1>5. /\ Cardinality(Kind(role)) = Cardinality(Since(role, 0 .. (d - 1))) + Cardinality(Since(role, d .. MaxDay))
        /\ Cardinality(Since(role, 0 .. (d - 1))) \in Nat /\ Cardinality(Since(role, d .. MaxDay)) \in Nat
    <2>1. Kind(role) \in SUBSET Kind(role)
      OBVIOUS
    <2> QED
      BY <1>3, <2>1, KindParts
  <1>6. Cardinality(Since(role, 0 .. (0 - 1))) = 0
    BY <1>4, FS_EmptySet
  <1> QED
    BY <1>2, <1>5, <1>6

\* The growth of a role ends at its card, and its increments are those of the card.
LEMMA GrowthAgrees ==
    ASSUME RosterInv, NEW role \in R!Roles, NEW d \in 0 .. MaxDay
    PROVE  /\ R!UserGrowth(role, d)[MaxDay] = R!Summary(role).total
           /\ R!Summary(role).newSince[d] =
                  R!UserGrowth(role, 0)[MaxDay] - (IF d = 0 THEN 0 ELSE R!UserGrowth(role, 0)[d - 1])
  <1> DEFINE N(days) == Cardinality(Since(role, days))
  <1>1. \A days : R!Cardinality(R!Created(role, days)) = N(days)
    <2>1. \A days : R!Created(role, days) = Since(role, days)
      BY KindIs DEF R!Created, Since
    <2> QED
      BY <2>1, RosterCardIs
  <1>2. MaxDay \in Nat
    BY RosterConstants
  <1>3. \A e \in 0 .. MaxDay : \A x \in e .. MaxDay :
            R!UserGrowth(role, e)[x] = N(0 .. (e - 1)) + N(e .. x)
    BY <1>1 DEF R!UserGrowth
  <1>4. R!Summary(role).total = Cardinality(Kind(role)) /\ R!Summary(role).newSince[d] = N(d .. MaxDay)
    BY <1>1, KindIs, RosterCardIs DEF R!Summary
  <1>5. /\ Cardinality(Kind(role)) = N(0 .. (d - 1)) + N(d .. MaxDay) /\ N(0 .. (0 - 1)) = 0
        /\ N(0 .. (d - 1)) \in Nat /\ N(d .. MaxDay) \in Nat
        /\ N(0 .. MaxDay) = Cardinality(Kind(role))
    BY SinceParts
  <1> HIDE DEF N
  <1>6. R!UserGrowth(role, d)[MaxDay] = N(0 .. (d - 1)) + N(d .. MaxDay)
    BY <1>2, <1>3
  <1>7. R!UserGrowth(role, 0)[MaxDay] = N(0 .. (0 - 1)) + N(0 .. MaxDay)
    BY <1>2, <1>3
  <1>8. d # 0 => R!UserGrowth(role, 0)[d - 1] = N(0 .. (0 - 1)) + N(0 .. (d - 1))
    <2> SUFFICES ASSUME d # 0 PROVE R!UserGrowth(role, 0)[d - 1] = N(0 .. (0 - 1)) + N(0 .. (d - 1))
      OBVIOUS
    <2>1. 0 \in 0 .. MaxDay /\ d - 1 \in 0 .. MaxDay
      BY <1>2
    <2> QED
      BY <1>3, <2>1
  <1> QED
    BY <1>4, <1>5, <1>6, <1>7, <1>8

\* The riders' list, cards and export.
LEMMA RidersAgree ==
    ASSUME RosterInv
    PROVE  LET riders == R!ExportRiders({"ACTIVE", "SUSPENDED"})
           IN  /\ riders.active + riders.suspended = riders.records
               /\ riders.total = riders.records + riders.pendingVerification
               /\ riders.records = R!Cardinality(R!ListRiders({"ACTIVE", "SUSPENDED"}).rows)
  <1> DEFINE K == Kind("RIDER")
             L(s) == {u \in K : user[u].status = s}
             Both == {u \in K : user[u].status \in {"ACTIVE", "SUSPENDED"}}
             riders == R!ExportRiders({"ACTIVE", "SUSPENDED"})
  <1>1. /\ riders.active = Cardinality(L("ACTIVE")) /\ riders.suspended = Cardinality(L("SUSPENDED"))
        /\ riders.pendingVerification = Cardinality(L("PENDING_VERIFICATION"))
        /\ riders.records = Cardinality(Both) /\ riders.total = Cardinality(K)
        /\ R!ListRiders({"ACTIVE", "SUSPENDED"}).rows = Both
    BY KindIs, RosterCardIs DEF R!ExportRiders, R!Summary, R!CountBy, R!UserList, R!ListRiders
  <1>2. Cardinality(Both) = Cardinality(L("ACTIVE")) + Cardinality(L("SUSPENDED"))
    <2>1. /\ \A x : x \in Both <=> x \in L("ACTIVE") \/ x \in L("SUSPENDED")
          /\ \A x \in L("ACTIVE") : x \notin L("SUSPENDED")
      OBVIOUS
    <2>2. Both \in SUBSET Kind("RIDER")
      OBVIOUS
    <2> HIDE DEF Both, L
    <2> QED
      BY <2>1, <2>2, KindParts
  <1>3. Cardinality(K) = Cardinality(Both) + Cardinality(L("PENDING_VERIFICATION"))
    <2>1. /\ \A x : x \in K <=> x \in Both \/ x \in L("PENDING_VERIFICATION")
          /\ \A x \in Both : x \notin L("PENDING_VERIFICATION")
      BY RowIs DEF R!Statuses
    <2>2. IsFiniteSet(K)
      BY KindIs
    <2> DEFINE P == L("PENDING_VERIFICATION")
    <2>3. (\A x : x \in K <=> x \in Both \/ x \in P) /\ \A x \in Both : x \notin P
      BY <2>1
    <2> HIDE DEF Both, L, K, P
    <2>4. Cardinality(K) = Cardinality(Both) + Cardinality(P)
      BY <2>2, <2>3, CountParts
    <2> QED
      BY <2>4 DEF P
  <1> HIDE DEF L, Both, K
  <1> QED
    BY <1>1, <1>2, <1>3, RosterCardIs

\* The documents of a driver are judged by the latest of each type.
LEMMA KycIs ==
    ASSUME RosterInv, NEW u \in Drivers
    PROVE  /\ R!KycState(u) \in R!KycStates
           /\ R!KycState(u) = "NOT_SUBMITTED" <=> R!Of(u) = {}
           /\ R!KycState(u) = "PENDING" <=> \E i \in R!Of(u) : R!Pending(i)
           /\ R!Of(u) # {} => u \in Kind("DRIVER")
  <1> DEFINE Typed(type) == {i \in R!Of(u) : documents[i].type = type}
             types == {documents[i].type : i \in R!Of(u)}
             last(type) == R!Max(Typed(type))
             latest == {documents[last(type)].status : type \in types}
  <1>1. PICK n \in Nat : DOMAIN documents = 1 .. n
    BY DEF RosterInv, DocsOK
  <1>2. /\ R!Of(u) \in SUBSET (1 .. n) /\ \A i \in R!Of(u) : documents[i].driver = u
        /\ \A i \in R!Of(u) : documents[i] \in DocumentRows
    BY <1>1 DEF R!Of, RosterInv, DocsOK
  <1>3. ASSUME NEW type \in types
        PROVE  last(type) \in Typed(type) /\ \A i \in Typed(type) : last(type) >= i
    <2>1. Typed(type) # {} /\ Typed(type) \subseteq Int
      BY <1>2
    <2>2. IsFiniteSet(Typed(type))
      <3>1. Typed(type) \in SUBSET (1 .. n)
        BY <1>2
      <3> QED
        BY <3>1, FS_Interval, FS_Subset
    <2> HIDE DEF Typed, types
    <2>3. \E m \in Typed(type) : \A i \in Typed(type) : i <= m
      BY <2>1, <2>2, HasLargest
    <2>4. \E m \in Typed(type) : \A i \in Typed(type) : m >= i
      BY <2>1, <2>3
    <2> QED
      BY <2>4 DEF R!Max
  <1>4. R!KycState(u) =
            IF latest = {} THEN "NOT_SUBMITTED"
            ELSE IF "PENDING" \in latest THEN "PENDING"
            ELSE IF "REJECTED" \in latest THEN "REJECTED" ELSE "APPROVED"
    BY DEF R!KycState
  <1>5. latest = {} <=> R!Of(u) = {}
    <2>1. types = {} <=> R!Of(u) = {}
      OBVIOUS
    <2> HIDE DEF last, types
    <2>2. latest = {} <=> types = {}
      OBVIOUS
    <2> QED
      BY <2>1, <2>2
  <1>6. "PENDING" \in latest <=> \E i \in R!Of(u) : R!Pending(i)
    <2>1. ASSUME "PENDING" \in latest PROVE \E i \in R!Of(u) : R!Pending(i)
      <3>1. PICK type \in types : documents[last(type)].status = "PENDING"
        BY <2>1
      <3>2. last(type) \in R!Of(u)
        BY <1>3
      <3> HIDE DEF last
      <3> QED
        BY <3>1, <3>2 DEF R!Pending
    <2>2. ASSUME NEW i \in R!Of(u), R!Pending(i) PROVE "PENDING" \in latest
      <3> DEFINE type == documents[i].type
                 m == last(type)
      <3>1. type \in types /\ i \in Typed(type)
        OBVIOUS
      <3>2. m \in Typed(type) /\ m >= i
        BY <1>3, <3>1
      <3>3. m \in R!Of(u) /\ documents[m].type = documents[i].type
        BY <3>2
      <3> HIDE DEF m
      <3>4. m \in 1 .. n /\ i \in 1 .. n /\ documents[m].driver = documents[i].driver
        BY <1>2, <3>3
      <3>5. documents[m].status = "PENDING"
        <4>1. CASE m = i
          BY <2>2, <4>1 DEF R!Pending
        <4>2. CASE i < m
          BY <1>1, <2>2, <3>3, <3>4, <4>2 DEF R!Pending, RosterInv, DocsOK, DocumentsWait
        <4> QED
          BY <3>2, <3>4, <4>1, <4>2
      <3> QED
        BY <3>1, <3>5 DEF m
    <2> QED
      BY <2>1, <2>2
  <1>7. R!Of(u) # {} => u \in Kind("DRIVER")
    BY DEF R!Of, RosterInv, DocsOK, IsDriver, Kind
  <1> HIDE DEF latest
  <1> QED
    BY <1>4, <1>5, <1>6, <1>7 DEF R!KycStates

\* The list of drivers by documents.
LEMMA ByKycIs ==
    ASSUME RosterInv, NEW s \in R!KycStates
    PROVE  R!ByKyc(s) = {u \in Kind("DRIVER") : R!KycState(u) = s}
  <1>1. \A u \in Kind("DRIVER") : u \in Drivers
    BY DEF Kind
  <1>2. R!InRole("DRIVER") = Kind("DRIVER")
    BY KindIs
  <1> QED
    BY <1>1, <1>2, KycIs DEF R!ByKyc

\* A driver's availability, as the lists have it.
Av(u) == IF avail[u] = None THEN "OFFLINE" ELSE avail[u]

\* The list of drivers by availability.
LEMMA AvIs ==
    ASSUME RosterInv
    PROVE  /\ \A u \in Drivers : Av(u) \in Availabilities
           /\ \A a \in Availabilities : R!ByAvailability(a) = {u \in Kind("DRIVER") : Av(u) = a}
           /\ \A u \in Drivers : avail[u] # None => u \in Kind("DRIVER")
           /\ \A a \in {"ONLINE", "ON_TRIP"} : \A u \in Drivers : Av(u) = a <=> avail[u] = a
  <1>1. \A u \in Drivers : Av(u) \in Availabilities
    BY DEF RosterInv, AvailOK, Av, Availabilities
  <1>2. \A a \in Availabilities : R!ByAvailability(a) = {u \in Kind("DRIVER") : Av(u) = a}
    BY KindIs, RosterConstants DEF R!ByAvailability, Av, Availabilities
  <1>3. \A u \in Drivers : avail[u] # None => u \in Kind("DRIVER")
    BY DEF RosterInv, AvailOK, IsDriver, Kind
  <1>4. \A a \in {"ONLINE", "ON_TRIP"} : \A u \in Drivers : Av(u) = a <=> avail[u] = a
    BY RosterConstants DEF Av, Availabilities
  <1> QED
    BY <1>1, <1>2, <1>3, <1>4

Placed(a) == {u \in Kind("DRIVER") : Av(u) = a}
Judged(s) == {u \in Kind("DRIVER") : R!KycState(u) = s}

\* Drivers by availability and by documents add up to the drivers.
LEMMA PartsOfDrivers ==
    ASSUME RosterInv
    PROVE  /\ \A a : IsFiniteSet(Placed(a)) /\ Cardinality(Placed(a)) \in Nat
           /\ \A s : IsFiniteSet(Judged(s)) /\ Cardinality(Judged(s)) \in Nat
           /\ Cardinality(Kind("DRIVER")) =
                  Cardinality(Placed("ONLINE")) + Cardinality(Placed("ON_TRIP")) + Cardinality(Placed("OFFLINE"))
           /\ Cardinality(Placed("ONLINE") \cup Placed("ON_TRIP")) =
                  Cardinality(Placed("ONLINE")) + Cardinality(Placed("ON_TRIP"))
           /\ Cardinality(Kind("DRIVER")) =
                  Cardinality(Judged("PENDING")) + Cardinality(Judged("APPROVED"))
                      + Cardinality(Judged("REJECTED")) + Cardinality(Judged("NOT_SUBMITTED"))
  <1>1. /\ \A a : IsFiniteSet(Placed(a)) /\ Cardinality(Placed(a)) \in Nat
        /\ \A s : IsFiniteSet(Judged(s)) /\ Cardinality(Judged(s)) \in Nat
    BY KindIs DEF Placed, Judged
  <1>2. \A u \in Kind("DRIVER") : Av(u) \in Availabilities /\ R!KycState(u) \in R!KycStates
    BY AvIs, KycIs DEF Kind
  <1> DEFINE D == Kind("DRIVER")
             Out == Placed("ONLINE") \cup Placed("ON_TRIP")
             Known1 == Judged("PENDING") \cup Judged("APPROVED")
             Known2 == Known1 \cup Judged("REJECTED")
  <1>3. IsFiniteSet(D) /\ IsFiniteSet(Out) /\ IsFiniteSet(Known1) /\ IsFiniteSet(Known2)
    BY <1>1, KindIs, FS_Union
  <1>4. /\ \A x : x \in D <=> x \in Out \/ x \in Placed("OFFLINE")
        /\ \A x \in Out : x \notin Placed("OFFLINE")
    BY <1>2 DEF Placed, Availabilities
  <1>5. /\ \A x : x \in Out <=> x \in Placed("ONLINE") \/ x \in Placed("ON_TRIP")
        /\ \A x \in Placed("ONLINE") : x \notin Placed("ON_TRIP")
    BY DEF Placed
  <1>6. /\ \A x : x \in D <=> x \in Known2 \/ x \in Judged("NOT_SUBMITTED")
        /\ \A x \in Known2 : x \notin Judged("NOT_SUBMITTED")
    BY <1>2 DEF Judged, R!KycStates
  <1>7. /\ \A x : x \in Known2 <=> x \in Known1 \/ x \in Judged("REJECTED")
        /\ \A x \in Known1 : x \notin Judged("REJECTED")
    BY DEF Judged
  <1>8. /\ \A x : x \in Known1 <=> x \in Judged("PENDING") \/ x \in Judged("APPROVED")
        /\ \A x \in Judged("PENDING") : x \notin Judged("APPROVED")
    BY DEF Judged
  <1> HIDE DEF D, Out, Known1, Known2
  <1>9. Cardinality(D) = Cardinality(Out) + Cardinality(Placed("OFFLINE"))
    BY <1>3, <1>4, CountParts
  <1>10. Cardinality(Out) = Cardinality(Placed("ONLINE")) + Cardinality(Placed("ON_TRIP"))
    BY <1>3, <1>5, CountParts
  <1>11. Cardinality(D) = Cardinality(Known2) + Cardinality(Judged("NOT_SUBMITTED"))
    BY <1>3, <1>6, CountParts
  <1>12. Cardinality(Known2) = Cardinality(Known1) + Cardinality(Judged("REJECTED"))
    BY <1>3, <1>7, CountParts
  <1>13. Cardinality(Known1) = Cardinality(Judged("PENDING")) + Cardinality(Judged("APPROVED"))
    BY <1>3, <1>8, CountParts
  <1>14. /\ Cardinality(D) = Cardinality(Placed("ONLINE")) + Cardinality(Placed("ON_TRIP")) + Cardinality(Placed("OFFLINE"))
         /\ Cardinality(D) = Cardinality(Judged("PENDING")) + Cardinality(Judged("APPROVED"))
                      + Cardinality(Judged("REJECTED")) + Cardinality(Judged("NOT_SUBMITTED"))
    BY <1>9, <1>10, <1>11, <1>12, <1>13
  <1> QED
    BY <1>1, <1>10, <1>14 DEF D, Out

\* The cards of the drivers.
LEMMA CardsOfDrivers ==
    ASSUME RosterInv
    PROVE  LET drivers == R!DriverSummary
           IN  /\ drivers.total = Cardinality(Kind("DRIVER"))
               /\ drivers.online = Cardinality(Placed("ONLINE")) + Cardinality(Placed("ON_TRIP"))
               /\ drivers.available = Cardinality(Placed("ONLINE"))
               /\ drivers.offline = Cardinality(Placed("OFFLINE"))
               /\ drivers.pendingKyc = Cardinality(Judged("PENDING"))
               /\ drivers.kycNotSubmitted = Cardinality(Judged("NOT_SUBMITTED"))
  <1>1. R!InRole("DRIVER") = Kind("DRIVER")
    BY KindIs
  <1>2. /\ {u \in Kind("DRIVER") : avail[u] = "ONLINE"} = Placed("ONLINE")
        /\ {u \in Kind("DRIVER") : avail[u] = "ON_TRIP"} = Placed("ON_TRIP")
    BY AvIs DEF Placed, Kind
  <1>3. \A s \in {"PENDING", "APPROVED", "REJECTED"} : {u \in Drivers : R!KycState(u) = s} = Judged(s)
    BY KycIs DEF Judged, Kind
  <1>4. R!Summary("DRIVER").total = Cardinality(Kind("DRIVER"))
    BY <1>1, RosterCardIs DEF R!Summary
  <1> DEFINE drivers == R!DriverSummary
  <1>5. /\ drivers.total = Cardinality(Kind("DRIVER"))
        /\ drivers.online = Cardinality(Placed("ONLINE")) + Cardinality(Placed("ON_TRIP"))
        /\ drivers.available = Cardinality(Placed("ONLINE"))
        /\ drivers.offline = Cardinality(Kind("DRIVER")) - Cardinality(Placed("ONLINE")) - Cardinality(Placed("ON_TRIP"))
    BY <1>1, <1>2, <1>4, RosterCardIs DEF R!DriverSummary
  <1>6. /\ drivers.pendingKyc = Cardinality(Judged("PENDING"))
        /\ drivers.kycNotSubmitted = Cardinality(Kind("DRIVER")) - Cardinality(Judged("PENDING"))
               - Cardinality(Judged("APPROVED")) - Cardinality(Judged("REJECTED"))
    BY <1>3, <1>4, RosterCardIs DEF R!DriverSummary
  <1> HIDE DEF drivers
  <1>7. /\ drivers.offline = Cardinality(Placed("OFFLINE"))
        /\ drivers.kycNotSubmitted = Cardinality(Judged("NOT_SUBMITTED"))
    BY <1>5, <1>6, PartsOfDrivers
  <1> QED
    BY <1>5, <1>6, <1>7 DEF drivers

\* Every driver is in one place of the list by availability and documents.
LEMMA ListsPartition ==
    ASSUME RosterInv
    PROVE  R!DriverSummary.total =
               R!SumFunction([f \in {"ONLINE", "ON_TRIP", "OFFLINE"} \X R!KycStates |->
                                 R!Cardinality(R!DriverListWhere(R!Statuses, f[1], f[2]))])
  <1> DEFINE P == {"ONLINE", "ON_TRIP", "OFFLINE"} \X R!KycStates
             g == [f \in P |-> R!Cardinality(R!DriverListWhere(R!Statuses, f[1], f[2]))]
             c == [u \in Kind("DRIVER") |-> <<Av(u), R!KycState(u)>>]
  <1>1. IsFiniteSet(P) /\ DOMAIN g = P
    <2>1. /\ IsFiniteSet({"ONLINE", "ON_TRIP", "OFFLINE"})
          /\ IsFiniteSet({"NOT_SUBMITTED", "PENDING", "REJECTED", "APPROVED"})
      BY SmallSets
    <2> QED
      BY <2>1, FS_Product DEF R!KycStates
  <1>2. \A u \in Kind("DRIVER") : c[u] \in P
    BY AvIs, KycIs DEF Availabilities, Kind
  <1>3. ASSUME NEW f \in P PROVE g[f] = Cardinality(Class(Kind("DRIVER"), c, f))
    <2>1. f[1] \in Availabilities /\ f[2] \in R!KycStates /\ f = <<f[1], f[2]>>
      BY DEF Availabilities
    <2>2. /\ R!UserList("DRIVER", R!Statuses) = Kind("DRIVER")
          /\ R!ByAvailability(f[1]) = {u \in Kind("DRIVER") : Av(u) = f[1]}
          /\ R!ByKyc(f[2]) = {u \in Kind("DRIVER") : R!KycState(u) = f[2]}
      <3>1. R!UserList("DRIVER", R!Statuses) = Kind("DRIVER")
        BY KindIs, RowIs DEF R!UserList
      <3> QED
        BY <2>1, <3>1, AvIs, ByKycIs
    <2>3. R!DriverListWhere(R!Statuses, f[1], f[2]) = Class(Kind("DRIVER"), c, f)
      BY <2>1, <2>2 DEF R!DriverListWhere, Class
    <2> QED
      BY <2>3, RosterCardIs
  <1> HIDE DEF P, g, c
  <1>4. SumFunctionOnSet(g, P) = Cardinality(Kind("DRIVER"))
    BY <1>1, <1>2, <1>3, KindIs, CountClasses
  <1>5. R!SumFunction(g) = SumFunctionOnSet(g, P)
    BY <1>1, RosterSumIs
  <1> QED
    BY <1>4, <1>5, CardsOfDrivers DEF g, P

\* The drivers' export.
LEMMA ExportAgrees ==
    ASSUME RosterInv
    PROVE  LET drivers == R!DriverSummary
               export == R!ExportDrivers({"ACTIVE"}, "ONLINE", "APPROVED")
           IN  /\ export.cards = drivers /\ export.suspended <= drivers.total - export.records
               /\ export.records <= drivers.available
  <1> DEFINE K == Kind("DRIVER")
             export == R!ExportDrivers({"ACTIVE"}, "ONLINE", "APPROVED")
             Shown == R!DriverListWhere({"ACTIVE"}, "ONLINE", "APPROVED")
             Gone == {u \in K : user[u].status = "SUSPENDED"}
  <1>1. /\ export.cards = R!DriverSummary /\ export.suspended = Cardinality(Gone)
        /\ export.records = Cardinality(Shown)
    BY KindIs, RosterCardIs DEF R!ExportDrivers, R!CountBy
  <1>2. Shown \subseteq Placed("ONLINE") /\ \A u \in Shown : u \in K /\ user[u].status = "ACTIVE"
    BY KindIs, AvIs DEF R!DriverListWhere, R!UserList, Placed, Availabilities
  <1>3. Shown \in SUBSET Placed("ONLINE") /\ Shown \in SUBSET (K \ Gone)
    BY <1>2
  <1>4. (\A x : x \in K <=> x \in Gone \/ x \in K \ Gone) /\ \A x \in Gone : x \notin K \ Gone
    OBVIOUS
  <1> HIDE DEF Shown, Gone, K, export
  <1>5. IsFiniteSet(K) /\ IsFiniteSet(Placed("ONLINE")) /\ Cardinality(Placed("ONLINE")) \in Nat
    BY KindIs, PartsOfDrivers DEF K
  <1>6. /\ Cardinality(K) = Cardinality(Gone) + Cardinality(K \ Gone)
        /\ Cardinality(Gone) \in Nat /\ Cardinality(K \ Gone) \in Nat
    BY ZenonT(60), <1>4, <1>5, CountParts
  <1>7. Cardinality(Shown) <= Cardinality(Placed("ONLINE")) /\ Cardinality(Shown) <= Cardinality(K \ Gone)
        /\ Cardinality(Shown) \in Nat
    <2>1. IsFiniteSet(K \ Gone)
      BY <1>5, FS_Difference
    <2> QED
      BY <1>3, <1>5, <2>1, FS_Subset, FS_CardinalityType
  <1> QED
    BY <1>1, <1>6, <1>7, CardsOfDrivers DEF K, export

\* The dashboard, the lists and the report count drivers alike.
LEMMA DashboardAgrees ==
    ASSUME RosterInv
    PROVE  LET dash == R!Dashboard
               drivers == R!DriverSummary
           IN  /\ dash.riders = R!RidersReport(0 .. MaxDay).newRidersInPeriod
               /\ dash.drivers = R!DriversReport.totalDrivers
               /\ dash.onlineDrivers = drivers.online /\ dash.onlineDrivers = R!DriversReport.onlineDrivers
               /\ dash.pendingKyc = drivers.pendingKyc
  <1>1. R!Created("RIDER", 0 .. MaxDay) = Kind("RIDER")
    BY KindIs, RowIs DEF R!Created
  <1>2. R!WithRow({"ONLINE", "ON_TRIP"}) = Placed("ONLINE") \cup Placed("ON_TRIP")
    BY AvIs, RosterConstants DEF R!WithRow, Placed, Kind, Availabilities
  <1>3. R!HasPending = Judged("PENDING")
    BY KycIs DEF R!HasPending, Judged, Kind
  <1>4. R!Cardinality(R!WithRow({"ONLINE", "ON_TRIP"})) =
            Cardinality(Placed("ONLINE")) + Cardinality(Placed("ON_TRIP"))
    BY <1>2, RosterCardIs, PartsOfDrivers
  <1> QED
    BY <1>1, <1>3, <1>4, KindIs, RosterCardIs, CardsOfDrivers DEF R!Dashboard, R!RidersReport, R!DriversReport

\* The maps of administrators and riders show the drivers of the cards.
LEMMA MapsAgree ==
    ASSUME RosterInv
    PROVE  LET drivers == R!DriverSummary
               fleet == R!FleetMap
           IN  /\ DOMAIN fleet.drivers = R!ByAvailability("ONLINE") \cup R!ByAvailability("ON_TRIP")
               /\ fleet.onlineDrivers = drivers.available /\ fleet.offlineDrivers <= drivers.offline
               /\ R!LiveMap = {u \in DOMAIN fleet.drivers :
                                  fleet.drivers[u] = [status |-> "ONLINE", placed |-> TRUE]}
               /\ R!LiveMap = R!Nearby /\ (R!ArrivalIsQuoted <=> R!Nearby # {})
  <1> DEFINE fleet == R!FleetMap
  <1>1. \A a \in {"ONLINE", "ON_TRIP"} : R!ByAvailability(a) = {u \in Drivers : avail[u] = a}
    BY AvIs, RosterConstants DEF Availabilities, Kind
  <1>2. DOMAIN fleet.drivers = {u \in Drivers : avail[u] \in {"ONLINE", "ON_TRIP"}}
    BY DEF R!FleetMap, R!WithRow
  <1>3. DOMAIN fleet.drivers = R!ByAvailability("ONLINE") \cup R!ByAvailability("ON_TRIP")
    BY <1>1, <1>2
  <1>4. fleet.onlineDrivers = Cardinality(Placed("ONLINE"))
    <2>1. R!WithRow({"ONLINE"}) = Placed("ONLINE")
      BY AvIs, RosterConstants DEF R!WithRow, Placed, Kind, Availabilities
    <2> QED
      BY <2>1, RosterCardIs DEF R!FleetMap
  <1>5. fleet.offlineDrivers <= Cardinality(Placed("OFFLINE"))
    <2>1. R!WithRow({"OFFLINE"}) \in SUBSET Placed("OFFLINE")
      BY AvIs, RosterConstants DEF R!WithRow, Placed, Av, Availabilities
    <2>2. Cardinality(R!WithRow({"OFFLINE"})) <= Cardinality(Placed("OFFLINE"))
      BY <2>1, PartsOfDrivers, FS_Subset
    <2> QED
      BY <2>2, RosterCardIs DEF R!FleetMap
  <1>6. R!LiveMap = {u \in DOMAIN fleet.drivers : fleet.drivers[u] = [status |-> "ONLINE", placed |-> TRUE]}
    <2>1. \A u \in DOMAIN fleet.drivers : fleet.drivers[u] = [status |-> avail[u], placed |-> u \in geo]
      BY DEF R!FleetMap
    <2>2. ASSUME NEW u \in DOMAIN fleet.drivers
          PROVE  fleet.drivers[u] = [status |-> "ONLINE", placed |-> TRUE] <=> avail[u] = "ONLINE" /\ u \in geo
      <3> DEFINE row == fleet.drivers[u]
                 placed == u \in geo
      <3>1. row = [status |-> avail[u], placed |-> placed]
        BY <2>1
      <3>2. placed = TRUE <=> u \in geo
        OBVIOUS
      <3> HIDE DEF row, placed
      <3>3. row.status = avail[u] /\ row.placed = placed
        BY <3>1
      <3>4. row = [status |-> "ONLINE", placed |-> TRUE] => avail[u] = "ONLINE" /\ placed = TRUE
        <4> SUFFICES ASSUME row = [status |-> "ONLINE", placed |-> TRUE]
                     PROVE  avail[u] = "ONLINE" /\ placed = TRUE
          OBVIOUS
        <4>1. [status |-> "ONLINE", placed |-> TRUE].status = "ONLINE"
          OBVIOUS
        <4>2. [status |-> "ONLINE", placed |-> TRUE].placed = TRUE
          BY Zenon
        <4> QED
          BY <3>3, <4>1, <4>2, Zenon
      <3>5. avail[u] = "ONLINE" /\ placed = TRUE => row = [status |-> "ONLINE", placed |-> TRUE]
        BY <3>1
      <3> QED
        BY <3>2, <3>4, <3>5 DEF row
    <2> HIDE DEF fleet
    <2>3. R!LiveMap = {u \in DOMAIN fleet.drivers : avail[u] = "ONLINE" /\ u \in geo}
      BY <1>2 DEF R!LiveMap, RosterInv
    <2> QED
      BY <2>2, <2>3
  <1>7. R!LiveMap = R!Nearby /\ (R!ArrivalIsQuoted <=> R!Nearby # {})
    BY DEF R!LiveMap, R!Nearby, R!ArrivalIsQuoted
  <1> HIDE DEF fleet
  <1> QED
    BY <1>3, <1>4, <1>5, <1>6, <1>7, CardsOfDrivers DEF fleet

\* The lists by documents divide the drivers, and the queue has those who wait.
LEMMA DocumentsAgree ==
    ASSUME RosterInv
    PROVE  /\ R!Partition({R!ByKyc(s) : s \in R!KycStates}, R!InRole("DRIVER"))
           /\ R!Cardinality(R!ByKyc("NOT_SUBMITTED")) = R!DriverSummary.kycNotSubmitted
           /\ R!ByKyc("PENDING") = R!ListPending.drivers
           /\ R!NeedsAttention.kyc > 0 <=> R!ListPending.pendingDocuments > 0
  <1>1. \A s \in R!KycStates : R!ByKyc(s) = Judged(s)
    BY ByKycIs DEF Judged
  <1>2. R!Partition({Judged(s) : s \in R!KycStates}, Kind("DRIVER"))
    <2>1. UNION {Judged(s) : s \in R!KycStates} = Kind("DRIVER")
      BY KycIs DEF Judged, Kind
    <2>2. \A p, q \in {Judged(s) : s \in R!KycStates} : p # q => p \cap q = {}
      BY DEF Judged
    <2> QED
      BY <2>1, <2>2 DEF R!Partition
  <1>3. {R!ByKyc(s) : s \in R!KycStates} = {Judged(s) : s \in R!KycStates}
    BY <1>1
  <1>4. R!ByKyc("NOT_SUBMITTED") = Judged("NOT_SUBMITTED") /\ R!ByKyc("PENDING") = Judged("PENDING")
    BY <1>1 DEF R!KycStates
  <1>5. \A u : u \in Judged("PENDING") <=> \E i \in DOMAIN documents : documents[i].driver = u /\ R!Pending(i)
    <2>1. \A i \in DOMAIN documents : documents[i].driver \in Drivers
      BY DEF RosterInv, DocsOK, IsDriver
    <2>2. \A u \in Drivers : R!Of(u) = {i \in DOMAIN documents : documents[i].driver = u}
      BY DEF R!Of
    <2>3. \A u \in Drivers : (\E i \in R!Of(u) : R!Pending(i)) => u \in Kind("DRIVER")
      BY KycIs
    <2> QED
      BY <2>1, <2>2, <2>3, KycIs DEF Judged, Kind
  <1>6. R!ListPending.drivers = Judged("PENDING")
    <2>1. R!ListPending.drivers = {documents[i].driver : i \in {j \in DOMAIN documents : R!Pending(j)}}
      BY DEF R!ListPending
    <2> QED
      BY <1>5, <2>1
  <1>7. R!HasPending = Judged("PENDING")
    BY KycIs DEF R!HasPending, Judged, Kind
  <1> DEFINE W == {i \in DOMAIN documents : R!Pending(i)}
  <1>8. IsFiniteSet(W)
    <2>1. PICK n \in Nat : DOMAIN documents = 1 .. n
      BY DEF RosterInv, DocsOK
    <2>2. W \in SUBSET (1 .. n)
      BY <2>1
    <2>3. IsFiniteSet(1 .. n)
      BY FS_Interval
    <2> HIDE DEF W
    <2> QED
      BY <2>2, <2>3, FS_Subset
  <1>9. W = {} <=> Judged("PENDING") = {}
    BY <1>5
  <1>10. /\ R!NeedsAttention.kyc = Cardinality(Judged("PENDING"))
         /\ R!ListPending.pendingDocuments = Cardinality(W)
    BY <1>7, RosterCardIs DEF R!NeedsAttention, R!ListPending
  <1> HIDE DEF W
  <1>11. R!NeedsAttention.kyc > 0 <=> R!ListPending.pendingDocuments > 0
    <2>1. /\ Cardinality(W) = 0 <=> W = {}
          /\ Cardinality(Judged("PENDING")) = 0 <=> Judged("PENDING") = {}
      BY <1>8, PartsOfDrivers, FS_EmptySet
    <2>2. Cardinality(W) \in Nat /\ Cardinality(Judged("PENDING")) \in Nat
      BY <1>8, PartsOfDrivers, FS_CardinalityType
    <2> QED
      BY <1>9, <1>10, <2>1, <2>2
  <1> QED
    BY <1>2, <1>3, <1>4, <1>6, <1>11, KindIs, RosterCardIs, CardsOfDrivers

\* The lists by availability divide the drivers.
LEMMA AvailabilitiesAgree ==
    ASSUME RosterInv
    PROVE  /\ R!Partition({R!ByAvailability(a) : a \in {"ONLINE", "ON_TRIP", "OFFLINE"}}, R!InRole("DRIVER"))
           /\ R!Cardinality(R!ByAvailability("OFFLINE")) = R!DriverSummary.offline
  <1>1. \A a \in Availabilities : R!ByAvailability(a) = Placed(a)
    BY AvIs DEF Placed
  <1>2. R!Partition({Placed(a) : a \in Availabilities}, Kind("DRIVER"))
    <2>1. UNION {Placed(a) : a \in Availabilities} = Kind("DRIVER")
      BY AvIs DEF Placed, Kind
    <2>2. \A p, q \in {Placed(a) : a \in Availabilities} : p # q => p \cap q = {}
      BY DEF Placed
    <2> QED
      BY <2>1, <2>2 DEF R!Partition
  <1>3. {R!ByAvailability(a) : a \in Availabilities} = {Placed(a) : a \in Availabilities}
    BY <1>1
  <1>4. R!ByAvailability("OFFLINE") = Placed("OFFLINE")
    BY <1>1 DEF Availabilities
  <1>5. R!Partition({R!ByAvailability(a) : a \in Availabilities}, Kind("DRIVER"))
    BY <1>2, <1>3
  <1> QED
    BY <1>4, <1>5, KindIs, RosterCardIs, CardsOfDrivers DEF Availabilities

\* All screens of people agree.
LEMMA RosterHolds ==
    ASSUME RosterInv
    PROVE  R!RosterAgrees
  <1>1. ASSUME NEW role \in R!Roles
        PROVE  LET summary == R!Summary(role)
                   growth == R!UserGrowth(role, 0)
               IN  /\ R!Partition({R!UserList(role, {s}) : s \in R!Statuses}, R!InRole(role))
                   /\ \A s \in R!Statuses : R!Cardinality(R!UserList(role, {s})) = summary.byStatus[s]
                   /\ \A d \in 0 .. MaxDay :
                         /\ R!UserGrowth(role, d)[MaxDay] = summary.total
                         /\ summary.newSince[d] = growth[MaxDay] - (IF d = 0 THEN 0 ELSE growth[d - 1])
    BY StatusesAgree, GrowthAgrees
  <1> QED
    BY <1>1, RidersAgree, ListsPartition, ExportAgrees, DashboardAgrees, AvailabilitiesAgree, MapsAgree,
       DocumentsAgree DEF R!RosterAgrees

\* For any users and number of days, when administrators assign deliveries to
\* drivers alone: every screen counts the same people, and the lists by status,
\* availability and documents divide them
\* (admin-ops.service.ts, analytics.service.ts, kyc.service.ts).
THEOREM PeopleAgree ==
    ASSUME Assigned \subseteq {"DRIVER"}
    PROVE  Spec => [](part = "roster" => R!RosterAgrees)
  <1>1. Init => RosterInv
    BY RosterInit DEF Init
  <1>2. RosterInv /\ [Next]_vars => RosterInv'
    <2> SUFFICES ASSUME RosterInv, [Next]_vars PROVE RosterInv'
      OBVIOUS
    <2>1. CASE RosterStep
      BY <2>1, RosterNext DEF RosterStep
    <2>2. CASE ~ RosterStep
      <3>1. UNCHANGED rosterVars
        BY <2>2 DEF Next, BooksStep, FaresStep, UniquesStep, ChartsStep, TrackingStep, vars
      <3> QED
        BY <3>1 DEF RosterInv, rosterVars
    <2> QED
      BY <2>1, <2>2
  <1>3. RosterInv => (part = "roster" => R!RosterAgrees)
    BY RosterHolds
  <1> QED
    BY <1>1, <1>2, <1>3, PTL DEF Spec

-----------------------------------------------------------------------------
(* The timeline of a delivery.                                             *)

\* What is stamped before a call may write, and what a status comes after.
Before(c) ==
    IF c \in {"arrive", "pickup"} THEN {"ACCEPTED"}
    ELSE IF c \in {"dropoff", "proof"} THEN {"ACCEPTED", "PICKED_UP"}
    ELSE IF c = "complete" THEN {"ACCEPTED", "PICKED_UP", "DELIVERED"} ELSE {}
Reached(s) ==
    IF s = "ACCEPTED" THEN {"ACCEPTED"}
    ELSE IF s = "PICKED_UP" THEN {"ACCEPTED", "PICKED_UP"}
    ELSE IF s = "COMPLETED" THEN {"ACCEPTED", "PICKED_UP", "DELIVERED"} ELSE {}
CallNames == {"assign", "arrive", "pickup", "dropoff", "proof", "complete", "cancel"}

FollowInv ==
    /\ onMap \in BOOLEAN
    /\ followTask \in [Tasks -> CallNames \cup {None}]
    /\ \A t \in Tasks : followTask[t] # None => Before(followTask[t]) \subseteq stamped
    /\ Reached(status) \subseteq stamped
    /\ "REQUESTED" \in stamped
    /\ \A c \in CallNames : T!Calls[c].step \in stamped => Before(c) \subseteq stamped

\* The calls of a delivery, one by one.
LEMMA CallsAre ==
    /\ DOMAIN T!Calls = CallNames
    /\ T!Calls["assign"].step = "ACCEPTED" /\ T!Calls["arrive"].step = "ARRIVED_AT_PICKUP"
    /\ T!Calls["pickup"].step = "PICKED_UP" /\ T!Calls["dropoff"].step = "ARRIVED_AT_DROPOFF"
    /\ T!Calls["proof"].step = "DELIVERED" /\ T!Calls["complete"].step = "COMPLETED"
    /\ T!Calls["cancel"].step = "CANCELLED"
    /\ \A c \in CallNames :
          /\ T!Calls[c].from \subseteq {"WAITING", "ACCEPTED", "PICKED_UP"}
          /\ c \in {"arrive", "pickup"} => T!Calls[c].from = {"ACCEPTED"}
          /\ c \in {"dropoff", "proof", "complete"} => T!Calls[c].from = {"PICKED_UP"}
          /\ T!Calls[c].to # None => Reached(T!Calls[c].to) \subseteq Before(c) \cup {T!Calls[c].step}
  <1>1. DOMAIN T!Calls = CallNames
    BY DEF T!Calls, CallNames
  <1>2. \A c \in CallNames : c = "assign" \/ c = "arrive" \/ c = "pickup" \/ c = "dropoff"
                              \/ c = "proof" \/ c = "complete" \/ c = "cancel"
    BY DEF CallNames
  <1>3. /\ T!Calls["assign"] = [from |-> {"WAITING"}, step |-> "ACCEPTED", to |-> "ACCEPTED"]
        /\ T!Calls["arrive"] = [from |-> {"ACCEPTED"}, step |-> "ARRIVED_AT_PICKUP", to |-> None]
        /\ T!Calls["pickup"] = [from |-> {"ACCEPTED"}, step |-> "PICKED_UP", to |-> "PICKED_UP"]
        /\ T!Calls["dropoff"] = [from |-> {"PICKED_UP"}, step |-> "ARRIVED_AT_DROPOFF", to |-> None]
        /\ T!Calls["proof"] = [from |-> {"PICKED_UP"}, step |-> "DELIVERED", to |-> None]
        /\ T!Calls["complete"] = [from |-> {"PICKED_UP"}, step |-> "COMPLETED", to |-> "COMPLETED"]
        /\ T!Calls["cancel"] = [from |-> {"WAITING", "ACCEPTED"}, step |-> "CANCELLED", to |-> "CANCELLED"]
    BY DEF T!Calls
  <1>4. /\ T!Calls["assign"].step = "ACCEPTED" /\ T!Calls["arrive"].step = "ARRIVED_AT_PICKUP"
        /\ T!Calls["pickup"].step = "PICKED_UP" /\ T!Calls["dropoff"].step = "ARRIVED_AT_DROPOFF"
        /\ T!Calls["proof"].step = "DELIVERED" /\ T!Calls["complete"].step = "COMPLETED"
        /\ T!Calls["cancel"].step = "CANCELLED"
    BY <1>3
  <1>5. ASSUME NEW c \in CallNames
        PROVE  /\ T!Calls[c].from \subseteq {"WAITING", "ACCEPTED", "PICKED_UP"}
               /\ c \in {"arrive", "pickup"} => T!Calls[c].from = {"ACCEPTED"}
               /\ c \in {"dropoff", "proof", "complete"} => T!Calls[c].from = {"PICKED_UP"}
               /\ T!Calls[c].to # None => Reached(T!Calls[c].to) \subseteq Before(c) \cup {T!Calls[c].step}
    BY <1>2, <1>3 DEF Before, Reached
  <1> QED
    BY <1>1, <1>4, <1>5

\* A delivery begins as requested.
LEMMA FollowInit == Init => FollowInv
  <1> SUFFICES ASSUME Init PROVE FollowInv
    OBVIOUS
  <1>1. /\ status = "WAITING" /\ stamped = {"REQUESTED"}
        /\ followTask = [t \in Tasks |-> None] /\ onMap \in BOOLEAN
    BY DEF Init, T!Init
  <1>2. \A c \in CallNames : T!Calls[c].step # "REQUESTED"
    BY CallsAre DEF CallNames
  <1> QED
    BY <1>1, <1>2 DEF FollowInv, Reached

\* Every step of a delivery.
LEMMA FollowNext == FollowInv /\ T!Next => FollowInv'
  <1> SUFFICES ASSUME FollowInv, T!Next PROVE FollowInv'
    OBVIOUS
  <1>1. CASE T!Claim
    BY <1>1, CallsAre DEF T!Claim, FollowInv, Reached, CallNames, Before
  <1>2. CASE T!VerifyReceiverOtp \/ T!Move
    BY <1>2 DEF T!VerifyReceiverOtp, T!Move, FollowInv
  <1>3. ASSUME NEW t \in Tasks, T!Throw(t) PROVE FollowInv'
    BY <1>3 DEF T!Throw, FollowInv
  <1>4. ASSUME NEW t \in Tasks, NEW c \in CallNames, T!Read(t, c) PROVE FollowInv'
    <2>1. /\ followTask' = [followTask EXCEPT ![t] = c] /\ status \in T!Calls[c].from
          /\ c = "complete" => "DELIVERED" \in stamped
          /\ UNCHANGED <<status, stamped, onMap>>
      BY <1>4 DEF T!Read, T!Allowed
    <2>2. Before(c) \subseteq stamped
      BY <2>1, CallsAre DEF FollowInv, Before, Reached
    <2>3. \A u \in Tasks : followTask'[u] # None => Before(followTask'[u]) \subseteq stamped
      BY <2>1, <2>2 DEF FollowInv
    <2> QED
      BY <2>1, <2>3 DEF FollowInv
  <1>5. ASSUME NEW t \in Tasks, T!Write(t) PROVE FollowInv'
    <2> DEFINE c == followTask[t]
    <2>1. /\ c # None /\ stamped' = stamped \cup {T!Calls[c].step}
          /\ status' = IF T!Calls[c].to = None THEN status ELSE T!Calls[c].to
          /\ followTask' = [followTask EXCEPT ![t] = None] /\ onMap' = onMap
      BY <1>5 DEF T!Write
    <2>2. c \in CallNames /\ Before(c) \subseteq stamped
      BY <2>1 DEF FollowInv
    <2>3. Reached(status') \subseteq stamped'
      BY <2>1, <2>2, CallsAre DEF FollowInv
    <2>4. \A u \in Tasks : followTask'[u] # None => Before(followTask'[u]) \subseteq stamped'
      BY <2>1 DEF FollowInv
    <2>5. ASSUME NEW e \in CallNames, T!Calls[e].step \in stamped' PROVE Before(e) \subseteq stamped'
      <3>1. CASE T!Calls[e].step \in stamped
        BY <3>1, <2>1 DEF FollowInv
      <3>2. CASE T!Calls[e].step = T!Calls[c].step
        <4>1. e = c
          BY <3>2, <2>2, CallsAre DEF CallNames
        <4> QED
          BY <4>1, <2>1, <2>2
      <3> QED
        BY <3>1, <3>2, <2>1, <2>5
    <2> QED
      BY <2>1, <2>3, <2>4, <2>5 DEF FollowInv
  <1> QED
    BY <1>1, <1>2, <1>3, <1>4, <1>5, CallsAre DEF T!Next

\* Every step of Office.
LEMMA FollowInvNext == FollowInv /\ [Next]_vars => FollowInv'
  <1> SUFFICES ASSUME FollowInv, [Next]_vars PROVE FollowInv'
    OBVIOUS
  <1>1. CASE TrackingStep
    BY <1>1, FollowNext DEF TrackingStep
  <1>2. CASE ~ TrackingStep
    <2>1. UNCHANGED trackVars
      BY <1>2 DEF Next, BooksStep, FaresStep, RosterStep, UniquesStep, ChartsStep, vars, screenVars
    <2> QED
      BY <2>1 DEF FollowInv, trackVars
  <1> QED
    BY <1>1, <1>2

\* The invariant gives the timeline.
LEMMA TimelineFollows == FollowInv => T!TimelineHolds
  <1> SUFFICES ASSUME FollowInv PROVE T!TimelineHolds
    OBVIOUS
  <1>1. /\ Len(T!Timeline) = 7 /\ DOMAIN T!Timeline = 1 .. 7
        /\ T!Timeline[1] = "REQUESTED" /\ T!Timeline[2] = "ACCEPTED"
        /\ T!Timeline[3] = "ARRIVED_AT_PICKUP" /\ T!Timeline[4] = "PICKED_UP"
        /\ T!Timeline[5] = "ARRIVED_AT_DROPOFF" /\ T!Timeline[6] = "DELIVERED"
        /\ T!Timeline[7] = "COMPLETED"
    BY DEF T!Timeline
  <1>2. /\ "REQUESTED" \in stamped
        /\ "ARRIVED_AT_PICKUP" \in stamped => "ACCEPTED" \in stamped
        /\ "PICKED_UP" \in stamped => "ACCEPTED" \in stamped
        /\ "ARRIVED_AT_DROPOFF" \in stamped => {"ACCEPTED", "PICKED_UP"} \subseteq stamped
        /\ "DELIVERED" \in stamped => {"ACCEPTED", "PICKED_UP"} \subseteq stamped
        /\ "COMPLETED" \in stamped => {"ACCEPTED", "PICKED_UP", "DELIVERED"} \subseteq stamped
    BY CallsAre DEF FollowInv, Before, CallNames
  <1>3. ASSUME NEW i \in 1 .. 7, NEW j \in 1 .. 7, i < j, T!Timeline[j] \in stamped
        PROVE  T!Timeline[i] \in stamped \cup T!Taps
    BY <1>1, <1>2, <1>3 DEF T!Taps
  <1>4. status = "COMPLETED" => T!HasProof
    BY DEF FollowInv, Reached, T!HasProof
  <1>5. T!GetDelivery = T!TrackDelivery
    BY DEF FollowInv, T!GetDelivery, T!TrackDelivery
  <1> QED
    BY <1>1, <1>3, <1>4, <1>5 DEF T!TimelineHolds

\* Whatever calls overlap: a stop of the timeline is stamped only after those
\* before it, but for the two that the driver's screen taps in any order; a
\* completed delivery has its proof; and customer and administrator see one
\* timeline (logistics.service.ts, logistics-trip.service.ts).
THEOREM TimelinesHold == Spec => [](part = "tracking" => T!TimelineHolds)
  <1>1. FollowInv => (part = "tracking" => T!TimelineHolds)
    BY TimelineFollows
  <1> QED
    BY <1>1, FollowInit, FollowInvNext, PTL DEF Spec

-----------------------------------------------------------------------------
(* Money: what links the rows and the postings.                            *)

PostingLinked(tx, wd, P) ==
    /\ tx.type = "REFUND" <=> tx.ref[1] = "refund"
    /\ tx.type = "WALLET_WITHDRAWAL" <=> tx.ref[1] = "withdraw"
    /\ \A w \in DOMAIN wd : tx.ref = <<"withdraw", w>> => tx.amount = wd[w].amount
    /\ tx.status = "REVERSED" => \E s \in P : s.ref = <<"refund", tx.ref>>
TripLinked(t, P) ==
    /\ t.kind = "RIDE" => t.business = None
    /\ t.tx = B!NoLink \/ \E tx \in P : tx.ref = t.tx
LinksOK(tr, wd, P) ==
    /\ \A i \in DOMAIN tr : TripLinked(tr[i], P)
    /\ \A w \in DOMAIN wd : \E tx \in P : tx.ref = <<"withdraw", w>>
    /\ \A tx \in P : PostingLinked(tx, wd, P)
LinksInv == LinksOK(trips, withdrawals, posted)

\* No reference is lost, and no amount of a withdrawal changes.
RefsStay(P, P2) == \A q \in P : \E p \in P2 : p.ref = q.ref
AmountsStay(wd, wd2) == \A w \in DOMAIN wd : w \in DOMAIN wd2 /\ wd2[w].amount = wd[w].amount

LEMMA LinksStep ==
    ASSUME BooksInv, LinksInv, NEW tr2, NEW wd2, NEW P2,
           RefsStay(posted, P2), AmountsStay(withdrawals, wd2),
           \A p \in P2 \ posted : PostingLinked(p, wd2, P2),
           \A i \in DOMAIN tr2 : TripLinked(tr2[i], P2),
           \A w \in DOMAIN wd2 \ DOMAIN withdrawals : \E tx \in P2 : tx.ref = <<"withdraw", w>>
    PROVE  LinksOK(tr2, wd2, P2)
  <1>1. ASSUME NEW w \in DOMAIN wd2 PROVE \E tx \in P2 : tx.ref = <<"withdraw", w>>
    BY DEF LinksInv, LinksOK, RefsStay
  <1>2. ASSUME NEW p \in P2 PROVE PostingLinked(p, wd2, P2)
    <2>1. CASE p \notin posted
      BY <2>1
    <2>2. CASE p \in posted
      <3>1. PostingLinked(p, withdrawals, posted)
        BY <2>2 DEF LinksInv, LinksOK
      <3>2. ASSUME NEW w \in DOMAIN wd2, p.ref = <<"withdraw", w>> PROVE p.amount = wd2[w].amount
        <4>1. RefOK(p.ref, trips, invoices, withdrawals, others)
          BY <2>2, BooksNow, RefsAre
        <4>2. p.ref[1] = "withdraw" /\ p.ref[2] = w
          BY <3>2
        <4>3. w \in DOMAIN withdrawals
          BY <4>1, <4>2 DEF RefOK
        <4> QED
          BY <3>1, <3>2, <4>3 DEF AmountsStay, PostingLinked
      <3>3. p.status = "REVERSED" => \E s \in P2 : s.ref = <<"refund", p.ref>>
        BY <3>1 DEF PostingLinked, RefsStay
      <3> QED
        BY <3>1, <3>2, <3>3 DEF PostingLinked
    <2> QED
      BY <2>1, <2>2
  <1> QED
    BY <1>1, <1>2 DEF LinksOK

\* What most calls post: neither a refund nor a withdrawal.
Fresh(p) ==
    /\ p.type \notin {"REFUND", "WALLET_WITHDRAWAL"} /\ p.ref[1] \notin {"refund", "withdraw"}
    /\ p.status = "COMPLETED"

LEMMA FreshLinked ==
    ASSUME NEW p, Fresh(p), NEW wd, NEW P
    PROVE  PostingLinked(p, wd, P)
  <1>1. \A w : p.ref # <<"withdraw", w>>
    BY DEF Fresh
  <1> QED
    BY <1>1 DEF Fresh, PostingLinked

\* A step that posts such postings and leaves the withdrawals.
LEMMA FreshStep ==
    ASSUME BooksInv, LinksInv, posted \subseteq posted', UNCHANGED withdrawals,
           \A p \in posted' \ posted : Fresh(p),
           \A i \in DOMAIN trips' : TripLinked(trips'[i], posted')
    PROVE  LinksInv'
  <1>1. RefsStay(posted, posted') /\ AmountsStay(withdrawals, withdrawals')
    BY DEF RefsStay, AmountsStay
  <1>2. \A p \in posted' \ posted : PostingLinked(p, withdrawals', posted')
    BY FreshLinked
  <1>3. \A w \in DOMAIN withdrawals' \ DOMAIN withdrawals : \E tx \in posted' : tx.ref = <<"withdraw", w>>
    OBVIOUS
  <1>4. LinksOK(trips', withdrawals', posted')
    BY <1>1, <1>2, <1>3, LinksStep
  <1> QED
    BY <1>4 DEF LinksInv

\* A trip's links stay while postings are added, and while the row keeps its
\* kind, its company and its link.
LEMMA TripsStayLinked ==
    ASSUME LinksInv, RefsStay(posted, posted'), DOMAIN trips' = DOMAIN trips,
           \A i \in DOMAIN trips : \/ TripLinked(trips'[i], posted')
                                   \/ /\ trips'[i].kind = trips[i].kind
                                      /\ trips'[i].business = trips[i].business
                                      /\ trips'[i].tx = trips[i].tx
    PROVE  \A i \in DOMAIN trips' : TripLinked(trips'[i], posted')
  BY DEF LinksInv, LinksOK, TripLinked, RefsStay

LEMMA AddedStay ==
    ASSUME posted \subseteq posted'
    PROVE  RefsStay(posted, posted')
  BY DEF RefsStay

LEMMA PostingIs ==
    ASSUME NEW type, NEW ref, NEW amount, NEW entries, NEW p, p = B!Posting(type, ref, amount, entries)
    PROVE  p.type = type /\ p.ref = ref /\ p.amount = amount /\ p.status = "COMPLETED"
  BY DEF B!Posting

LEMMA PaymentIs ==
    ASSUME NEW type, NEW ref, NEW from, NEW d, NEW total, NEW c, NEW x,
           NEW p, p = B!Payment(type, ref, from, d, total, c, x)
    PROVE  p.type = type /\ p.ref = ref /\ p.amount = total /\ p.status = "COMPLETED"
  <1> DEFINE e == [a \in {from, B!Driver(d), B!Revenue, B!Tax} |->
                CASE a = from -> -total [] a = B!Driver(d) -> total - c - x
                  [] a = B!Revenue -> c [] a = B!Tax -> x]
  <1>1. p = B!Posting(type, ref, total, e)
    BY DEF B!Payment
  <1> HIDE DEF e
  <1> QED
    BY <1>1, PostingIs

LEMMA AccrualIs ==
    ASSUME NEW type, NEW ref, NEW a, NEW amount, NEW p, p = B!Accrual(type, ref, a, amount)
    PROVE  p.type = type /\ p.ref = ref /\ p.amount = amount /\ p.status = "COMPLETED"
  <1> DEFINE e == B!Move(B!Clearing, a, amount)
  <1>1. p = B!Posting(type, ref, amount, e)
    BY DEF B!Accrual
  <1> HIDE DEF e
  <1> QED
    BY <1>1, PostingIs

LEMMA SettlementIs ==
    ASSUME NEW d, NEW ref, NEW amount, NEW p, p = B!Settlement(d, ref, amount)
    PROVE  p.type = "COMMISSION_SETTLEMENT" /\ p.ref = ref /\ p.amount = amount /\ p.status = "COMPLETED"
  <1> DEFINE e == B!Move(B!Payable(d), B!Revenue, amount)
  <1>1. p = B!Posting("COMMISSION_SETTLEMENT", ref, amount, e)
    BY DEF B!Settlement
  <1> HIDE DEF e
  <1> QED
    BY <1>1, PostingIs

-----------------------------------------------------------------------------
(* Each step keeps the links.                                              *)

LEMMA BookLinks ==
    ASSUME BooksInv, LinksInv, NEW kind, NEW r, NEW b, NEW method, NEW status0,
           B!Book(kind, r, b, method, status0)
    PROVE  LinksInv'
  <1> DEFINE t == [kind |-> kind, rider |-> r, business |-> b, method |-> method,
                   driver |-> None, status |-> status0,
                   requested |-> today, ended |-> None, tx |-> B!NoLink, fee |-> 0]
  <1>1. /\ trips' = Append(trips, t) /\ (kind = "RIDE" => b = None)
        /\ UNCHANGED <<invoices, withdrawals, posted, others, today>>
    BY DEF B!Book
  <1>2. TripLinked(t, posted)
    BY <1>1 DEF TripLinked
  <1>3. trips \in Seq(TripRows)
    BY BooksNow DEF Rows
  <1> HIDE DEF t
  <1>4. \A i \in DOMAIN trips' : trips'[i] = t \/ (i \in DOMAIN trips /\ trips'[i] = trips[i])
    BY <1>1, <1>3
  <1>5. \A i \in DOMAIN trips' : TripLinked(trips'[i], posted')
    BY <1>1, <1>2, <1>4 DEF LinksInv, LinksOK
  <1> QED
    BY <1>1, <1>5, FreshStep

\* One row changes and nothing is posted.
LEMMA RowLinks ==
    ASSUME BooksInv, LinksInv, NEW i \in DOMAIN trips, NEW t, trips' = [trips EXCEPT ![i] = t],
           t.kind = trips[i].kind, t.business = trips[i].business,
           t.tx = trips[i].tx \/ t.tx = B!NoLink \/ \E tx \in posted' : tx.ref = t.tx,
           posted \subseteq posted', \A p \in posted' \ posted : Fresh(p), UNCHANGED withdrawals
    PROVE  LinksInv'
  <1>1. trips \in Seq(TripRows)
    BY BooksNow DEF Rows
  <1>2. DOMAIN trips' = DOMAIN trips /\ \A j \in DOMAIN trips : trips'[j] = IF j = i THEN t ELSE trips[j]
    BY <1>1
  <1>3. RefsStay(posted, posted')
    BY AddedStay
  <1>4. ASSUME NEW j \in DOMAIN trips PROVE TripLinked(trips'[j], posted')
    <2>1. TripLinked(trips[j], posted)
      BY DEF LinksInv, LinksOK
    <2>2. CASE j # i
      BY <1>2, <1>3, <2>1, <2>2 DEF TripLinked, RefsStay
    <2>3. CASE j = i
      BY <1>2, <1>3, <2>1, <2>3 DEF TripLinked, RefsStay
    <2> QED
      BY <2>2, <2>3
  <1> QED
    BY <1>2, <1>4, FreshStep

LEMMA SearchLinks ==
    ASSUME BooksInv, LinksInv, NEW i \in DOMAIN trips,
           B!Dispatch(i) \/ B!NoDrivers(i) \/ \E d \in Drivers : B!Accept(i, d)
    PROVE  LinksInv'
  <1>0. trips \in Seq(TripRows)
    BY BooksNow DEF Rows
  <1>1. trips[i] \in TripRows
    BY <1>0
  <1>2. ASSUME NEW s, trips' = [trips EXCEPT ![i].status = s], UNCHANGED <<withdrawals, posted>>
        PROVE  LinksInv'
    <2> DEFINE t == [trips[i] EXCEPT !.status = s]
    <2>1. trips' = [trips EXCEPT ![i] = t]
      BY <1>2
    <2>2. t.kind = trips[i].kind /\ t.business = trips[i].business /\ t.tx = trips[i].tx
      BY <1>1 DEF TripRows
    <2> HIDE DEF t
    <2> QED
      BY <1>2, <2>1, <2>2, RowLinks
  <1>3. ASSUME NEW d \in Drivers, B!Accept(i, d) PROVE LinksInv'
    <2> DEFINE t == [trips[i] EXCEPT !.status = "ACCEPTED", !.driver = d]
    <2>1. trips' = [trips EXCEPT ![i] = t] /\ UNCHANGED <<withdrawals, posted>>
      BY <1>3 DEF B!Accept
    <2>2. t.kind = trips[i].kind /\ t.business = trips[i].business /\ t.tx = trips[i].tx
      BY <1>1 DEF TripRows
    <2> HIDE DEF t
    <2> QED
      BY <2>1, <2>2, RowLinks
  <1> QED
    BY <1>2, <1>3 DEF B!Dispatch, B!NoDrivers, B!Search

\* A trip ends with one posting or none.
LEMMA EndLinks ==
    ASSUME BooksInv, LinksInv, NEW i \in DOMAIN trips, NEW status1, NEW tx1, NEW fee1,
           B!Ended(i, status1, tx1, fee1),
           posted \subseteq posted', \A p \in posted' \ posted : Fresh(p), UNCHANGED withdrawals,
           tx1 = B!NoLink \/ \E p \in posted' : p.ref = tx1
    PROVE  LinksInv'
  <1>0. trips \in Seq(TripRows)
    BY BooksNow DEF Rows
  <1>1. trips[i] \in TripRows
    BY <1>0
  <1> DEFINE t == End(i, status1, tx1, fee1)
  <1>2. trips' = [trips EXCEPT ![i] = t]
    BY DEF B!Ended, End
  <1>3. t.kind = trips[i].kind /\ t.business = trips[i].business /\ t.tx = tx1
    BY <1>1 DEF TripRows, End
  <1> HIDE DEF t
  <1> QED
    BY <1>2, <1>3, RowLinks

LEMMA CompletePaidLinks ==
    ASSUME BooksInv, LinksInv, NEW i \in DOMAIN trips, B!CompletePaid(i)
    PROVE  LinksInv'
  <1> DEFINE t == trips[i]
             f == FareOf[t.kind]
             tx == B!Payment(B!PaidFromWallet(t.kind), <<"trip", i>>, B!Rider(t.rider), t.driver,
                             f.total, f.commission, f.tax)
  <1>1. posted' = posted \cup {tx} /\ B!Ended(i, "COMPLETED", tx.ref, 0) /\ UNCHANGED withdrawals
    BY DEF B!CompletePaid
  <1>2. tx.type = B!PaidFromWallet(t.kind) /\ tx.ref = <<"trip", i>> /\ tx.status = "COMPLETED"
    BY PaymentIs
  <1> HIDE DEF tx
  <1>3. Fresh(tx)
    BY <1>2 DEF Fresh, B!PaidFromWallet
  <1> QED
    BY <1>1, <1>3, EndLinks

LEMMA CompleteCashLinks ==
    ASSUME BooksInv, LinksInv, NEW i \in DOMAIN trips, B!CompleteCash(i)
    PROVE  LinksInv'
  <1> DEFINE t == trips[i]
             f == FareOf[t.kind]
             tx == B!Accrual(B!PaidInCash(t.kind), <<"commission", i>>,
                             B!Payable(t.driver), f.commission + f.tax)
  <1>1. posted' = posted \cup {tx} /\ B!Ended(i, "COMPLETED", B!NoLink, 0) /\ UNCHANGED withdrawals
    BY DEF B!CompleteCash
  <1>2. tx.type = B!PaidInCash(t.kind) /\ tx.ref = <<"commission", i>> /\ tx.status = "COMPLETED"
    BY AccrualIs
  <1> HIDE DEF tx
  <1>3. Fresh(tx)
    BY <1>2 DEF Fresh, B!PaidInCash
  <1> QED
    BY <1>1, <1>3, EndLinks

LEMMA CompleteBilledLinks ==
    ASSUME BooksInv, LinksInv, NEW i \in DOMAIN trips, B!CompleteBilled(i)
    PROVE  LinksInv'
  <1> DEFINE t == trips[i]
             f == FareOf[t.kind]
             tx == B!Accrual("BUSINESS_DELIVERY_ACCRUAL", <<"trip", i>>, B!Credit(t.business), f.total)
  <1>1. posted' = posted \cup {tx} /\ B!Ended(i, "COMPLETED", B!NoLink, 0) /\ UNCHANGED withdrawals
    BY DEF B!CompleteBilled
  <1>2. tx.type = "BUSINESS_DELIVERY_ACCRUAL" /\ tx.ref = <<"trip", i>> /\ tx.status = "COMPLETED"
    BY AccrualIs
  <1> HIDE DEF tx
  <1>3. Fresh(tx)
    BY <1>2 DEF Fresh
  <1> QED
    BY <1>1, <1>3, EndLinks

LEMMA CancelLinks ==
    ASSUME BooksInv, LinksInv, NEW i \in DOMAIN trips, B!CancelFree(i) \/ B!CancelLate(i)
    PROVE  LinksInv'
  <1>1. CASE B!CancelFree(i)
    BY <1>1, EndLinks DEF B!CancelFree
  <1>2. CASE B!CancelLate(i)
    <2> DEFINE t == trips[i]
               tx == B!Payment(B!PaidFromWallet(t.kind), <<"cancellation", i>>, B!Rider(t.rider), t.driver,
                               Fee.total, Fee.commission, 0)
    <2>1. posted' = posted \cup {tx} /\ B!Ended(i, "CANCELLED", B!NoLink, Fee.total) /\ UNCHANGED withdrawals
      BY <1>2 DEF B!CancelLate
    <2>2. tx.type = B!PaidFromWallet(t.kind) /\ tx.ref = <<"cancellation", i>> /\ tx.status = "COMPLETED"
      BY PaymentIs
    <2> HIDE DEF tx
    <2>3. Fresh(tx)
      BY <2>2 DEF Fresh, B!PaidFromWallet
    <2> QED
      BY <2>1, <2>3, EndLinks
  <1> QED
    BY <1>1, <1>2

\* Postings while the trips and the withdrawals stay.
LEMMA PostLinks ==
    ASSUME BooksInv, LinksInv, posted \subseteq posted', \A p \in posted' \ posted : Fresh(p),
           UNCHANGED <<trips, withdrawals>>
    PROVE  LinksInv'
  <1>1. RefsStay(posted, posted')
    BY AddedStay
  <1>2. \A i \in DOMAIN trips' : TripLinked(trips'[i], posted')
    BY <1>1, TripsStayLinked
  <1> QED
    BY <1>2, FreshStep

LEMMA PayInvoiceLinks ==
    ASSUME BooksInv, LinksInv, NEW k \in DOMAIN invoices, B!PayInvoice(k)
    PROVE  LinksInv'
  <1> DEFINE v == invoices[k]
             t == trips[v.trip]
             pay == B!Payment("BUSINESS_INVOICE_PAYMENT", <<"invoice", k>>, B!Wallet(v.business), t.driver,
                              v.amount, v.commission, FareOf[t.kind].tax)
             moved == B!Move(B!Credit(v.business), B!Clearing, v.amount)
             settle == B!Posting("BUSINESS_INVOICE_PAYMENT", <<"settlement", k>>, v.amount, moved)
  <1>1. posted' = posted \cup {pay, settle} /\ UNCHANGED <<trips, withdrawals>>
    BY SMTT(40) DEF B!PayInvoice
  <1>2. pay.type = "BUSINESS_INVOICE_PAYMENT" /\ pay.ref = <<"invoice", k>> /\ pay.status = "COMPLETED"
    BY PaymentIs
  <1> HIDE DEF pay, moved
  <1>3. settle.type = "BUSINESS_INVOICE_PAYMENT" /\ settle.ref = <<"settlement", k>> /\ settle.status = "COMPLETED"
    BY PostingIs
  <1> HIDE DEF settle
  <1>4. Fresh(pay) /\ Fresh(settle)
    BY <1>2, <1>3 DEF Fresh
  <1> QED
    BY <1>1, <1>4, PostLinks

LEMMA OtherLinks ==
    ASSUME BooksInv, LinksInv, NEW n \in Amounts, NEW r,
           B!TopUp(r, n) \/ B!PaySwap(r, n) \/ B!Redeem(r, n) \/ B!TopUpDriver(r, n)
    PROVE  LinksInv'
  <1>1. CASE B!TopUp(r, n)
    <2> DEFINE tx == B!TopUpOf(r, <<"topup", others>>, n)
    <2>1. posted' = posted \cup {tx} /\ UNCHANGED <<trips, withdrawals>>
      BY <1>1 DEF B!TopUp
    <2>2. tx.type = "WALLET_TOPUP" /\ tx.ref = <<"topup", others>> /\ tx.status = "COMPLETED"
      BY AccrualIs DEF B!TopUpOf
    <2> HIDE DEF tx
    <2>3. Fresh(tx)
      BY <2>2 DEF Fresh
    <2> QED
      BY <2>1, <2>3, PostLinks
  <1>2. CASE B!PaySwap(r, n)
    <2> DEFINE e == B!Move(B!Rider(r), B!Revenue, n)
               tx == B!Posting("KILOWATT_PAYMENT", <<"swap", others>>, n, e)
    <2>1. posted' = posted \cup {tx} /\ UNCHANGED <<trips, withdrawals>>
      BY <1>2 DEF B!PaySwap
    <2> HIDE DEF e
    <2>2. tx.type = "KILOWATT_PAYMENT" /\ tx.ref = <<"swap", others>> /\ tx.status = "COMPLETED"
      BY PostingIs
    <2> HIDE DEF tx
    <2>3. Fresh(tx)
      BY <2>2 DEF Fresh
    <2> QED
      BY <2>1, <2>3, PostLinks
  <1>3. CASE B!Redeem(r, n)
    <2> DEFINE tx == B!Accrual("REFERRAL_PAYOUT", <<"referral", others, r>>, B!Referrals, n)
    <2>1. posted' = posted \cup {tx} /\ UNCHANGED <<trips, withdrawals>>
      BY <1>3 DEF B!Redeem
    <2>2. tx.type = "REFERRAL_PAYOUT" /\ tx.ref = <<"referral", others, r>> /\ tx.status = "COMPLETED"
      BY AccrualIs
    <2> HIDE DEF tx
    <2>3. Fresh(tx)
      BY <2>2 DEF Fresh
    <2> QED
      BY <2>1, <2>3, PostLinks
  <1>4. CASE B!TopUpDriver(r, n)
    <2> DEFINE m == B!Least(B!Balance(B!Payable(r)), n)
               ref == <<"settle topup", others>>
               settle == B!Settlement(r, ref, m)
               tx == B!TopUpOf(r, <<"topup", others>>, n - m)
    <2>1. /\ posted' = posted \cup {settle : k \in {1} \cap 1 .. m} \cup {tx : k \in {1} \cap 1 .. (n - m)}
          /\ UNCHANGED <<trips, withdrawals>>
      BY <1>4 DEF B!TopUpDriver
    <2>2. tx.type = "WALLET_TOPUP" /\ tx.ref = <<"topup", others>> /\ tx.status = "COMPLETED"
      BY AccrualIs DEF B!TopUpOf
    <2>3. settle.type = "COMMISSION_SETTLEMENT" /\ settle.ref = ref /\ settle.status = "COMPLETED"
      <3> HIDE DEF m, ref
      <3> QED
        BY SettlementIs
    <2>7. ref[1] \notin {"refund", "withdraw"}
      <3>1. \A c : <<c, others>>[1] = c
        OBVIOUS
      <3>2. ref[1] = "settle topup"
        BY <3>1
      <3> HIDE DEF ref
      <3> QED
        BY <3>2
    <2> HIDE DEF tx, settle, m, ref
    <2>4. Fresh(tx)
      BY <2>2 DEF Fresh
    <2>6. Fresh(settle)
      BY <2>3, <2>7 DEF Fresh
    <2>5. posted \subseteq posted' /\ \A p \in posted' \ posted : p \in {tx, settle}
      BY <2>1
    <2> QED
      BY <2>1, <2>4, <2>5, <2>6, PostLinks
  <1> QED
    BY <1>1, <1>2, <1>3, <1>4

LEMMA PayoutLinks ==
    ASSUME BooksInv, LinksInv, B!ProcessPayouts
    PROVE  LinksInv'
  <1> DEFINE due == {tx \in posted : tx.ref[1] = "referral"
                    /\ \A paid \in posted : paid.ref # <<"payout", tx.ref>>}
             e(tx) == B!Move(B!Referrals, B!Driver(tx.ref[3]), tx.amount)
             p(tx) == B!Posting("REFERRAL_PAYOUT", <<"payout", tx.ref>>, tx.amount, e(tx))
  <1>1. posted' = posted \cup {p(tx) : tx \in due} /\ UNCHANGED <<trips, withdrawals>>
    BY DEF B!ProcessPayouts
  <1>2. \A tx : p(tx).type = "REFERRAL_PAYOUT" /\ p(tx).ref = <<"payout", tx.ref>> /\ p(tx).status = "COMPLETED"
    <2> TAKE tx
    <2> HIDE DEF e
    <2> QED
      BY PostingIs
  <1> HIDE DEF p, due
  <1>3. \A tx : Fresh(p(tx))
    BY <1>2 DEF Fresh
  <1> QED
    BY <1>1, <1>3, PostLinks

\* A refund and the mark on what it refunds.
LEMMA UndoLinks ==
    ASSUME NEW tr, NEW wd, NEW P, LinksOK(tr, wd, P), NEW tx \in P, IsPosting(tx),
           NEW s, RefundOf(tx, s), s.status # "REVERSED", tx.ref[1] # "refund"
    PROVE  LinksOK(tr, wd, Undo(P, tx, s))
  <1> DEFINE P2 == Undo(P, tx, s)
             r == Reversed(tx)
  <1>1. r.ref = tx.ref /\ r.type = tx.type /\ r.amount = tx.amount
    BY DEF Reversed, IsPosting
  <1>2. s.type = "REFUND" /\ s.ref = <<"refund", tx.ref>> /\ s.ref[1] = "refund"
    BY DEF RefundOf
  <1>3. \A p : p \in P2 <=> (p \in P /\ p # tx) \/ p = r \/ p = s
    BY DEF Undo
  <1> HIDE DEF P2, r
  <1>4. RefsStay(P, P2)
    BY <1>1, <1>3 DEF RefsStay
  <1>5. PostingLinked(tx, wd, P)
    BY DEF LinksOK
  <1>6. PostingLinked(r, wd, P2)
    BY <1>1, <1>2, <1>3, <1>5 DEF PostingLinked
  <1>7. PostingLinked(s, wd, P2)
    <2>1. \A w : s.ref # <<"withdraw", w>>
      BY <1>2
    <2> QED
      BY <1>2, <2>1 DEF PostingLinked
  <1>8. ASSUME NEW p \in P PROVE PostingLinked(p, wd, P2)
    <2>1. PostingLinked(p, wd, P)
      BY DEF LinksOK
    <2> QED
      BY <1>4, <2>1 DEF PostingLinked, RefsStay
  <1>9. \A p \in P2 : PostingLinked(p, wd, P2)
    BY <1>3, <1>6, <1>7, <1>8
  <1>10. \A i \in DOMAIN tr : TripLinked(tr[i], P2)
    BY <1>4 DEF LinksOK, TripLinked, RefsStay
  <1>11. \A w \in DOMAIN wd : \E p \in P2 : p.ref = <<"withdraw", w>>
    BY <1>4 DEF LinksOK, RefsStay
  <1>12. LinksOK(tr, wd, P2)
    BY <1>9, <1>10, <1>11 DEF LinksOK
  <1> QED
    BY <1>12 DEF P2

LEMMA RefundedLinks ==
    ASSUME today \in B!Ever, NEW tr, NEW wd, NEW P, LinksOK(tr, wd, P), NEW tx \in P, IsPosting(tx),
           tx.ref[1] # "refund"
    PROVE  /\ LinksOK(tr, wd, B!Refunded(P, tx))
           /\ \A q \in P : q # tx => q \in B!Refunded(P, tx)
  <1> DEFINE entries == [a \in DOMAIN tx.entries |-> -tx.entries[a]]
             ref == <<"refund", tx.ref>>
             s == B!Posting("REFUND", ref, tx.amount, entries)
  <1>1. B!Refunded(P, tx) = Undo(P, tx, s)
    BY DEF B!Refunded, Undo, Reversed
  <1>2. /\ \A a \in DOMAIN entries : entries[a] \in Int
        /\ DOMAIN entries = DOMAIN tx.entries
        /\ \A a \in DOMAIN tx.entries : entries[a] = -tx.entries[a]
        /\ tx.amount \in Int
    BY DEF IsPosting
  <1> HIDE DEF entries, ref
  <1>3. IsPosting(s) /\ s.ref = ref /\ s.type = "REFUND" /\ s.entries = entries
    BY <1>2, AmountIs
  <1>4. s.status = "COMPLETED"
    BY PostingIs
  <1>5. RefundOf(tx, s)
    BY <1>2, <1>3 DEF RefundOf, ref
  <1> HIDE DEF s
  <1>6. LinksOK(tr, wd, Undo(P, tx, s))
    BY <1>4, <1>5, UndoLinks
  <1>7. \A q \in P : q # tx => q \in Undo(P, tx, s)
    BY DEF Undo
  <1> QED
    BY <1>1, <1>6, <1>7

LEMMA RefundLinks ==
    ASSUME BooksInv, LinksInv, NEW i \in DOMAIN trips, B!Refund(i)
    PROVE  LinksInv'
  <1>1. PICK tx \in posted : tx.ref = trips[i].tx /\ posted' = B!Refunded(posted, tx)
    BY DEF B!Refund
  <1>2. tx.ref = <<"trip", i>>
    BY <1>1, BooksNow, LinkIs
  <1>3. IsPosting(tx) /\ today \in B!Ever /\ tx.ref[1] # "refund"
    BY <1>2, BooksNow DEF PostedOK
  <1>4. LinksOK(trips, withdrawals, posted')
    BY <1>1, <1>3, RefundedLinks DEF LinksInv
  <1> QED
    BY <1>4 DEF LinksInv, B!Refund

\* The links are about the amounts of the withdrawals alone.
LEMMA SameAmounts ==
    ASSUME NEW tr, NEW wd, NEW P, LinksOK(tr, wd, P), NEW wd2, DOMAIN wd2 = DOMAIN wd,
           \A w \in DOMAIN wd : wd2[w].amount = wd[w].amount
    PROVE  LinksOK(tr, wd2, P)
  <1>1. \A p \in P : PostingLinked(p, wd, P)
    BY DEF LinksOK
  <1>2. \A p \in P : PostingLinked(p, wd2, P)
    BY <1>1 DEF PostingLinked
  <1> QED
    BY <1>2 DEF LinksOK

LEMMA StatusWritten ==
    ASSUME withdrawals \in Seq(WithdrawalRows), NEW w \in DOMAIN withdrawals, NEW s,
           withdrawals' = [withdrawals EXCEPT ![w].status = s]
    PROVE  /\ DOMAIN withdrawals' = DOMAIN withdrawals
           /\ \A j \in DOMAIN withdrawals : withdrawals'[j].amount = withdrawals[j].amount
  <1>1. \A j \in DOMAIN withdrawals : withdrawals[j] \in WithdrawalRows
    OBVIOUS
  <1> QED
    BY <1>1 DEF WithdrawalRows

LEMMA TransferLinks ==
    ASSUME BooksInv, LinksInv, NEW w \in DOMAIN withdrawals, B!TransferSucceeds(w) \/ B!TransferFails(w)
    PROVE  LinksInv'
  <1>1. withdrawals \in Seq(WithdrawalRows) /\ today \in B!Ever /\ \A q \in posted : IsPosting(q)
    BY BooksNow DEF PostedOK
  <1>2. CASE B!TransferSucceeds(w)
    <2>1. withdrawals' = [withdrawals EXCEPT ![w].status = "COMPLETED"] /\ UNCHANGED <<trips, posted>>
      BY <1>2 DEF B!TransferSucceeds
    <2> QED
      BY <1>1, <2>1, StatusWritten, SameAmounts DEF LinksInv
  <1>3. CASE B!TransferFails(w)
    <2>1. withdrawals' = [withdrawals EXCEPT ![w].status = "FAILED"] /\ UNCHANGED trips
      BY <1>3 DEF B!TransferFails
    <2>2. PICK tx \in posted :
            /\ tx.ref = <<"withdraw", w>>
            /\ \/ \E s \in posted : /\ s.ref = <<"settle", w>>
                                    /\ posted' = B!Refunded(B!Refunded(posted, tx), s)
               \/ posted' = B!Refunded(posted, tx)
      BY <1>3 DEF B!TransferFails
    <2> DEFINE P == B!Refunded(posted, tx)
    <2>3. tx.ref[1] # "refund"
      BY <2>2
    <2>4. LinksOK(trips, withdrawals, P) /\ \A q \in posted : q # tx => q \in P
      BY <1>1, <2>3, RefundedLinks DEF LinksInv
    <2> HIDE DEF P
    <2>5. ASSUME NEW s \in posted, s.ref = <<"settle", w>>
          PROVE  LinksOK(trips, withdrawals, B!Refunded(P, s))
      <3>1. s # tx /\ s.ref[1] # "refund"
        BY <2>2, <2>5
      <3> QED
        BY <1>1, <2>4, <3>1, RefundedLinks
    <2>6. LinksOK(trips, withdrawals, posted')
      BY <2>2, <2>4, <2>5 DEF P
    <2>7. LinksOK(trips, withdrawals', posted')
      BY <1>1, <2>1, <2>6, StatusWritten, SameAmounts
    <2> QED
      BY <2>1, <2>7 DEF LinksInv
  <1> QED
    BY <1>2, <1>3

LEMMA WithdrawLinks ==
    ASSUME BooksInv, LinksInv, NEW d \in Drivers, NEW n \in Amounts, B!Withdraw(d, n)
    PROVE  LinksInv'
  <1> DEFINE m == B!Least(B!Balance(B!Payable(d)), n)
             k0 == Len(withdrawals) + 1
             ref == <<"withdraw", k0>>
             ref2 == <<"settle", k0>>
             e == B!Move(B!Driver(d), B!Clearing, n)
             tx == B!Posting("WALLET_WITHDRAWAL", ref, n, e)
             s == B!Settlement(d, ref2, m)
             row == [driver |-> d, amount |-> n, settled |-> m,
                     status |-> IF m = n THEN "COMPLETED" ELSE "PENDING"]
  <1>1. /\ posted' = posted \cup {tx} \cup {s : k \in {1} \cap 1 .. m}
        /\ withdrawals' = Append(withdrawals, row) /\ UNCHANGED trips
    BY DEF B!Withdraw
  <1>2. withdrawals \in Seq(WithdrawalRows)
    BY BooksNow
  <1>3. row.amount = n
    OBVIOUS
  <1>4. tx.type = "WALLET_WITHDRAWAL" /\ tx.ref = ref /\ tx.amount = n /\ tx.status = "COMPLETED"
    <2> HIDE DEF e
    <2> QED
      BY PostingIs
  <1>5. s.type = "COMMISSION_SETTLEMENT" /\ s.ref = ref2 /\ s.status = "COMPLETED"
    <2> HIDE DEF m, ref2
    <2> QED
      BY SettlementIs
  <1> HIDE DEF tx, s, row, m
  <1>6. /\ DOMAIN withdrawals' = DOMAIN withdrawals \cup {k0} /\ withdrawals'[k0] = row
        /\ \A w \in DOMAIN withdrawals : withdrawals'[w] = withdrawals[w]
    BY <1>1, <1>2
  <1>7. posted \cup {tx} \subseteq posted' /\ \A p \in posted' \ posted : p \in {tx, s}
    BY <1>1
  <1>8. Fresh(s)
    BY <1>5 DEF Fresh
  <1>9. PostingLinked(tx, withdrawals', posted')
    <2>1. ref[1] = "withdraw" /\ \A w : ref = <<"withdraw", w>> => w = k0
      OBVIOUS
    <2> HIDE DEF ref, k0
    <2> QED
      BY <1>3, <1>4, <1>6, <2>1 DEF PostingLinked
  <1>10. \A p \in posted' \ posted : PostingLinked(p, withdrawals', posted')
    BY <1>7, <1>8, <1>9, FreshLinked
  <1>11. RefsStay(posted, posted') /\ AmountsStay(withdrawals, withdrawals')
    BY <1>6, <1>7 DEF RefsStay, AmountsStay
  <1>12. \A w \in DOMAIN withdrawals' \ DOMAIN withdrawals : \E p \in posted' : p.ref = <<"withdraw", w>>
    BY <1>4, <1>6, <1>7
  <1>13. \A i \in DOMAIN trips' : TripLinked(trips'[i], posted')
    BY <1>1, <1>11, TripsStayLinked
  <1>14. LinksOK(trips', withdrawals', posted')
    BY <1>10, <1>11, <1>12, <1>13, LinksStep
  <1> QED
    BY <1>14 DEF LinksInv

LEMMA LinksInit ==
    ASSUME B!Init
    PROVE  LinksInv
  <1>1. trips = <<>> /\ withdrawals = <<>> /\ posted = {}
    BY DEF B!Init
  <1> QED
    BY <1>1 DEF LinksInv, LinksOK

LEMMA LinksNext ==
    ASSUME BooksInv, LinksInv, B!Next
    PROVE  LinksInv'
  <1>1. ASSUME NEW kind \in {"RIDE", "DELIVERY"}, NEW r \in Riders, NEW b \in Businesses \cup {None},
               NEW method \in {"WALLET", "CASH"}, NEW status0 \in {"REQUESTED", "DISPATCHING"},
               B!Book(kind, r, b, method, status0)
        PROVE  LinksInv'
    BY <1>1, BookLinks
  <1>2. ASSUME NEW i \in DOMAIN trips,
               \/ B!CompletePaid(i) \/ B!CompleteCash(i) \/ B!CompleteBilled(i)
               \/ B!CancelFree(i) \/ B!CancelLate(i) \/ B!Refund(i)
        PROVE  LinksInv'
    BY <1>2, CompletePaidLinks, CompleteCashLinks, CompleteBilledLinks, CancelLinks, RefundLinks
  <1>3. ASSUME NEW i \in DOMAIN trips,
               B!Dispatch(i) \/ B!NoDrivers(i) \/ \E d \in Drivers : B!Accept(i, d)
        PROVE  LinksInv'
    BY <1>3, SearchLinks
  <1>4. ASSUME NEW k \in DOMAIN invoices, B!PayInvoice(k) PROVE LinksInv'
    BY <1>4, PayInvoiceLinks
  <1>5. ASSUME NEW w \in DOMAIN withdrawals, B!TransferSucceeds(w) \/ B!TransferFails(w) PROVE LinksInv'
    BY <1>5, TransferLinks
  <1>6. ASSUME NEW n \in Amounts, NEW r \in Riders, B!TopUp(r, n) \/ B!PaySwap(r, n) PROVE LinksInv'
    BY <1>6, OtherLinks
  <1>7. ASSUME NEW n \in Amounts, NEW d \in Drivers, B!TopUpDriver(d, n) \/ B!Withdraw(d, n) \/ B!Redeem(d, n)
        PROVE  LinksInv'
    BY <1>7, OtherLinks, WithdrawLinks
  <1>8. ASSUME B!ProcessPayouts PROVE LinksInv'
    BY <1>8, PayoutLinks
  <1>9. ASSUME B!NewDay PROVE LinksInv'
    BY <1>9 DEF B!NewDay, LinksInv
  <1> QED
    BY <1>1, <1>2, <1>3, <1>4, <1>5, <1>6, <1>7, <1>8, <1>9 DEF B!Next

-----------------------------------------------------------------------------
(* Trips counted, and their fares and commissions added up, by classes.    *)

TripOne == [i \in DOMAIN trips |-> 1]
TripFare == [i \in DOMAIN trips |-> FareOf[trips[i].kind].total]
TripCommission == [i \in DOMAIN trips |-> FareOf[trips[i].kind].commission]

LEMMA TripFacts ==
    ASSUME BooksInv, NEW i \in DOMAIN trips
    PROVE  /\ trips[i].kind \in {"RIDE", "DELIVERY"} /\ trips[i].rider \in Riders
           /\ trips[i].requested \in B!Ever
           /\ trips[i].status \in {"REQUESTED", "DISPATCHING", "NO_DRIVERS_FOUND", "ACCEPTED",
                                   "COMPLETED", "CANCELLED"}
           /\ trips[i].status = "COMPLETED" => trips[i].driver \in Drivers /\ trips[i].ended \in B!Ever
  <1>1. TripOK(i, trips[i])
    BY BooksNow DEF TripsOK
  <1> QED
    BY <1>1 DEF TripOK, TripRows

LEMMA TripsFinite ==
    ASSUME BooksInv
    PROVE  /\ trips \in Seq(TripRows) /\ IsFiniteSet(DOMAIN trips)
           /\ Ints(TripOne, DOMAIN trips) /\ Ints(TripFare, DOMAIN trips) /\ Ints(TripCommission, DOMAIN trips)
           /\ \A i \in DOMAIN trips : TripFare[i] \in Nat /\ TripCommission[i] \in Nat
                                         /\ TripCommission[i] <= TripFare[i]
  <1>1. trips \in Seq(TripRows)
    BY BooksNow DEF Rows
  <1>2. \A i \in DOMAIN trips : /\ FareOf[trips[i].kind].total \in Nat /\ FareOf[trips[i].kind].commission \in Nat
                                /\ FareOf[trips[i].kind].commission <= FareOf[trips[i].kind].total
    BY TripFacts, BooksConstants
  <1>3. IsFiniteSet(DOMAIN trips)
    BY <1>1, DomainFinite
  <1> QED
    BY <1>1, <1>2, <1>3 DEF Ints, TripOne, TripFare, TripCommission

\* The three measures of a set of trips are sums.
LEMMA Measures ==
    ASSUME BooksInv, NEW S \in SUBSET DOMAIN trips
    PROVE  /\ IsFiniteSet(S) /\ Ints(TripOne, S) /\ Ints(TripFare, S) /\ Ints(TripCommission, S)
           /\ B!Cardinality(S) = SumFunctionOnSet(TripOne, S) /\ B!Cardinality(S) \in Nat
           /\ B!Fares(S) = SumFunctionOnSet(TripFare, S) /\ B!Fares(S) \in Int
           /\ B!Commissions(S) = SumFunctionOnSet(TripCommission, S) /\ B!Commissions(S) \in Int
  <1>1. IsFiniteSet(S) /\ Ints(TripOne, S) /\ Ints(TripFare, S) /\ Ints(TripCommission, S)
        /\ trips \in Seq(TripRows)
    BY TripsFinite, FS_Subset DEF Ints
  <1>2. B!Cardinality(S) = SumFunctionOnSet(TripOne, S) /\ B!Cardinality(S) \in Nat
    <2>1. \A i \in S : TripOne[i] = 1
      BY DEF TripOne
    <2> QED
      BY <1>1, <2>1, CountIsSum, CardIs, FS_CardinalityType
  <1>3. B!Fares(S) = SumFunctionOnSet(TripFare, S)
    <2> DEFINE a == FareOf["RIDE"].total
               b == FareOf["DELIVERY"].total
    <2>1. a \in Int /\ b \in Int
      BY BooksConstants
    <2>2. \A i \in S : TripFare[i] = IF trips[i].kind = "RIDE" THEN a ELSE b
      BY <1>1, KindIsEither DEF TripFare
    <2>3. B!Fares(S) = a * B!Rides(S) + b * (B!Cardinality(S) - B!Rides(S))
      BY DEF B!Fares
    <2> HIDE DEF a, b
    <2> QED
      BY ZenonT(60), <1>1, <2>1, <2>2, <2>3, KindSum
  <1>4. B!Commissions(S) = SumFunctionOnSet(TripCommission, S)
    <2> DEFINE a == FareOf["RIDE"].commission
               b == FareOf["DELIVERY"].commission
    <2>1. a \in Int /\ b \in Int
      BY BooksConstants
    <2>2. \A i \in S : TripCommission[i] = IF trips[i].kind = "RIDE" THEN a ELSE b
      BY <1>1, KindIsEither DEF TripCommission
    <2>3. B!Commissions(S) = a * B!Rides(S) + b * (B!Cardinality(S) - B!Rides(S))
      BY DEF B!Commissions
    <2> HIDE DEF a, b
    <2> QED
      BY ZenonT(60), <1>1, <2>1, <2>2, <2>3, KindSum
  <1> QED
    BY <1>1, <1>2, <1>3, <1>4, SumInt

\* The sum over two parts.
LEMMA SumParts ==
    ASSUME NEW S, IsFiniteSet(S), NEW f, Ints(f, S), NEW A, NEW A2,
           \A x : x \in S <=> x \in A \/ x \in A2, \A x \in A : x \notin A2
    PROVE  SumFunctionOnSet(f, S) = SumFunctionOnSet(f, A) + SumFunctionOnSet(f, A2)
  <1> DEFINE g == [x \in S |-> IF x \in A THEN f[x] ELSE 0]
             h == [x \in S |-> IF x \in A2 THEN f[x] ELSE 0]
  <1>1. /\ A \in SUBSET S /\ A2 \in SUBSET S /\ Ints(f, A) /\ Ints(f, A2) /\ Ints(g, S) /\ Ints(h, S)
        /\ \A x \in A : g[x] = f[x]
        /\ \A x \in S \ A : g[x] = 0
        /\ \A x \in A2 : h[x] = f[x]
        /\ \A x \in S \ A2 : h[x] = 0
    BY DEF Ints
  <1>2. \A x \in S : f[x] = g[x] + h[x]
    BY DEF Ints
  <1> HIDE DEF g, h
  <1>3. SumFunctionOnSet(g, S) = SumFunctionOnSet(f, A) /\ SumFunctionOnSet(h, S) = SumFunctionOnSet(f, A2)
    BY <1>1, SumPart
  <1>4. SumFunctionOnSet(f, S) = SumFunctionOnSet(g, S) + SumFunctionOnSet(h, S)
    BY <1>1, <1>2, SumPlus
  <1> QED
    BY <1>3, <1>4

LEMMA TripsParts ==
    ASSUME BooksInv, NEW S \in SUBSET DOMAIN trips, NEW A, NEW A2,
           \A x : x \in S <=> x \in A \/ x \in A2, \A x \in A : x \notin A2
    PROVE  /\ B!Cardinality(S) = B!Cardinality(A) + B!Cardinality(A2)
           /\ B!Fares(S) = B!Fares(A) + B!Fares(A2)
           /\ B!Commissions(S) = B!Commissions(A) + B!Commissions(A2)
  <1>1. A \in SUBSET DOMAIN trips /\ A2 \in SUBSET DOMAIN trips
    OBVIOUS
  <1>2. /\ IsFiniteSet(S) /\ Ints(TripOne, S) /\ Ints(TripFare, S) /\ Ints(TripCommission, S)
        /\ \A T1 \in {S, A, A2} : /\ B!Cardinality(T1) = SumFunctionOnSet(TripOne, T1)
                                  /\ B!Fares(T1) = SumFunctionOnSet(TripFare, T1)
                                  /\ B!Commissions(T1) = SumFunctionOnSet(TripCommission, T1)
    BY <1>1, Measures
  <1>3. \A f : Ints(f, S) => SumFunctionOnSet(f, S) = SumFunctionOnSet(f, A) + SumFunctionOnSet(f, A2)
    BY <1>2, SumParts
  <1> QED
    BY <1>2, <1>3

LEMMA TripsBy ==
    ASSUME BooksInv, NEW S \in SUBSET DOMAIN trips, NEW T1, IsFiniteSet(T1),
           NEW c, \A i \in S : c[i] \in T1, NEW g, DOMAIN g = T1
    PROVE  /\ (\A y \in T1 : g[y] = B!Cardinality(Class(S, c, y))) => B!Total(g) = B!Cardinality(S)
           /\ (\A y \in T1 : g[y] = B!Fares(Class(S, c, y))) => B!Total(g) = B!Fares(S)
           /\ (\A y \in T1 : g[y] = B!Commissions(Class(S, c, y))) => B!Total(g) = B!Commissions(S)
  <1>1. \A y \in T1 : Class(S, c, y) \in SUBSET DOMAIN trips
    BY DEF Class
  <1>2. ASSUME NEW f, Ints(f, S), \A y \in T1 : g[y] = SumFunctionOnSet(f, Class(S, c, y))
        PROVE  B!Total(g) = SumFunctionOnSet(f, S)
    <2>1. IsFiniteSet(S)
      BY Measures
    <2>2. SumFunctionOnSet(g, T1) = SumFunctionOnSet(f, S)
      BY <1>2, <2>1, SumClasses
    <2> QED
      BY <2>2, TotalIsSum
  <1>3. ASSUME \A y \in T1 : g[y] = B!Cardinality(Class(S, c, y)) PROVE B!Total(g) = B!Cardinality(S)
    BY <1>1, <1>2, <1>3, Measures
  <1>4. ASSUME \A y \in T1 : g[y] = B!Fares(Class(S, c, y)) PROVE B!Total(g) = B!Fares(S)
    BY <1>1, <1>2, <1>4, Measures
  <1>5. ASSUME \A y \in T1 : g[y] = B!Commissions(Class(S, c, y)) PROVE B!Total(g) = B!Commissions(S)
    BY <1>1, <1>2, <1>5, Measures
  <1> QED
    BY <1>3, <1>4, <1>5

-----------------------------------------------------------------------------
(* Revenue.                                                                *)

Done == {i \in DOMAIN trips : trips[i].status = "COMPLETED"}
DoneOf(kind) == {i \in Done : trips[i].kind = kind}

LEMMA DoneIs ==
    ASSUME BooksInv
    PROVE  /\ Done = B!InStatus(DOMAIN trips, {"COMPLETED"}) /\ Done \in SUBSET DOMAIN trips
           /\ \A kind : /\ DoneOf(kind) = B!InStatus(B!Rows(kind), {"COMPLETED"})
                        /\ DoneOf(kind) = B!CompletedOn(kind, B!Ever)
                        /\ DoneOf(kind) \in SUBSET DOMAIN trips
           /\ \A i \in Done : trips[i].ended \in B!Ever /\ trips[i].driver \in Drivers /\ trips[i].rider \in Riders
           /\ \A i : i \in Done <=> i \in DoneOf("RIDE") \/ i \in DoneOf("DELIVERY")
           /\ \A i \in DoneOf("RIDE") : i \notin DoneOf("DELIVERY")
           /\ IsFiniteSet(B!Ever) /\ IsFiniteSet(Drivers) /\ IsFiniteSet(Riders)
  <1>1. \A i \in DOMAIN trips : /\ trips[i].kind \in {"RIDE", "DELIVERY"} /\ trips[i].rider \in Riders
                                /\ trips[i].status = "COMPLETED" => trips[i].driver \in Drivers
                                                                       /\ trips[i].ended \in B!Ever
    BY TripFacts
  <1>2. IsFiniteSet(B!Ever) /\ IsFiniteSet(Drivers) /\ IsFiniteSet(Riders)
    BY BooksConstants, FS_Interval DEF B!Ever
  <1> QED
    BY <1>1, <1>2 DEF Done, DoneOf, B!InStatus, B!Rows, B!CompletedOn

\* Revenue by days and by drivers.
LEMMA RevenueByDays ==
    ASSUME BooksInv
    PROVE  B!Total([date \in B!Ever |-> B!Analytics(date).revenue]) = B!Commissions(Done)
  <1> DEFINE g == [date \in B!Ever |-> B!Analytics(date).revenue]
             c == [i \in Done |-> trips[i].ended]
  <1>1. ASSUME NEW date \in B!Ever PROVE g[date] = B!Commissions(Class(Done, c, date))
    <2> DEFINE A == B!CompletedOn("RIDE", {date})
               A2 == B!CompletedOn("DELIVERY", {date})
               S == Class(Done, c, date)
    <2>1. g[date] = B!Commissions(A) + B!Commissions(A2)
      BY DEF B!Analytics
    <2>2. \A i : i \in S <=> i \in DOMAIN trips /\ trips[i].status = "COMPLETED" /\ trips[i].ended = date
      BY DEF Class, Done
    <2>3. \A i : i \in DOMAIN trips => trips[i].kind \in {"RIDE", "DELIVERY"}
      BY TripFacts
    <2>4. \A x : x \in S <=> x \in A \/ x \in A2
      BY <2>2, <2>3 DEF B!CompletedOn, B!InStatus, B!Rows
    <2>5. \A x \in A : x \notin A2
      BY DEF B!CompletedOn, B!InStatus, B!Rows
    <2>6. S \in SUBSET DOMAIN trips
      BY <2>2
    <2> HIDE DEF A, A2, S, g
    <2>7. B!Commissions(S) = B!Commissions(A) + B!Commissions(A2)
      BY <2>4, <2>5, <2>6, TripsParts
    <2> QED
      BY <2>1, <2>7 DEF S
  <1>2. /\ DOMAIN g = B!Ever /\ \A i \in Done : c[i] \in B!Ever
    BY DoneIs
  <1> HIDE DEF g, c
  <1>3. B!Total(g) = B!Commissions(Done)
    BY <1>1, <1>2, DoneIs, TripsBy
  <1> QED
    BY <1>3 DEF g

LEMMA RevenueByDrivers ==
    ASSUME BooksInv
    PROVE  B!Total([d \in Drivers |-> B!DriverRow(d).totalCommission]) = B!Commissions(Done)
  <1> DEFINE g == [d \in Drivers |-> B!DriverRow(d).totalCommission]
             c == [i \in Done |-> trips[i].driver]
  <1>1. ASSUME NEW d \in Drivers PROVE g[d] = B!Commissions(Class(Done, c, d))
    <2>1. Class(Done, c, d) = {i \in B!InStatus(DOMAIN trips, {"COMPLETED"}) : trips[i].driver = d}
      BY DEF Class, Done, B!InStatus
    <2> QED
      BY <2>1 DEF B!DriverRow
  <1>2. /\ DOMAIN g = Drivers /\ \A i \in Done : c[i] \in Drivers
    BY DoneIs
  <1> HIDE DEF g, c
  <1>3. B!Total(g) = B!Commissions(Done)
    BY <1>1, <1>2, DoneIs, TripsBy
  <1> QED
    BY <1>3 DEF g

LEMMA FaresByRiders ==
    ASSUME BooksInv
    PROVE  B!Total([r \in Riders |-> B!RiderHistory(r, "RIDE").totalSpent + B!RiderHistory(r, "DELIVERY").totalSpent])
              = B!Fares(DoneOf("RIDE")) + B!Fares(DoneOf("DELIVERY"))
  <1> DEFINE g == [r \in Riders |-> B!RiderHistory(r, "RIDE").totalSpent + B!RiderHistory(r, "DELIVERY").totalSpent]
             c == [i \in Done |-> trips[i].rider]
  <1>1. ASSUME NEW r \in Riders PROVE g[r] = B!Fares(Class(Done, c, r))
    <2> DEFINE A(kind) == B!InStatus({i \in B!Rows(kind) : trips[i].rider = r}, {"COMPLETED"})
               S == Class(Done, c, r)
    <2>1. \A kind : B!RiderHistory(r, kind).totalSpent = B!Fares(A(kind))
      BY DEF B!RiderHistory, B!HistorySummary
    <2>2. \A i : i \in S <=> i \in DOMAIN trips /\ trips[i].status = "COMPLETED" /\ trips[i].rider = r
      BY DEF Class, Done
    <2>3. \A i : i \in DOMAIN trips => trips[i].kind \in {"RIDE", "DELIVERY"}
      BY TripFacts
    <2>4. \A x : x \in S <=> x \in A("RIDE") \/ x \in A("DELIVERY")
      BY <2>2, <2>3 DEF B!InStatus, B!Rows
    <2>5. \A x \in A("RIDE") : x \notin A("DELIVERY")
      BY DEF B!InStatus, B!Rows
    <2>6. S \in SUBSET DOMAIN trips
      BY <2>2
    <2>7. g[r] = B!Fares(A("RIDE")) + B!Fares(A("DELIVERY"))
      BY <2>1
    <2> HIDE DEF A, S, g
    <2>8. B!Fares(S) = B!Fares(A("RIDE")) + B!Fares(A("DELIVERY"))
      BY <2>4, <2>5, <2>6, TripsParts
    <2> QED
      BY <2>7, <2>8 DEF S
  <1>2. /\ DOMAIN g = Riders /\ \A i \in Done : c[i] \in Riders
    BY DoneIs
  <1> HIDE DEF g, c
  <1>3. B!Total(g) = B!Fares(Done)
    BY <1>1, <1>2, DoneIs, TripsBy
  <1>4. B!Fares(Done) = B!Fares(DoneOf("RIDE")) + B!Fares(DoneOf("DELIVERY"))
    BY DoneIs, TripsParts
  <1> QED
    BY <1>3, <1>4 DEF g

LEMMA RevenuesHold ==
    ASSUME BooksInv
    PROVE  B!RevenuesAgree(B!Dashboard, B!Finance, B!RidesReport(B!Ever))
  <1>1. B!Dashboard.todayRevenue = B!Finance.platformCommissionToday
    BY DEF B!Dashboard, B!Finance
  <1>2. B!Dashboard.todayRevenue = B!RideStats.revenueToday + B!RevenueByService({today}).DELIVERY
    BY DEF B!Dashboard, B!RideStats, B!RevenueByService
  <1>3. B!Total([date \in B!Ever |-> B!Analytics(date).revenue])
           = B!Total([d \in Drivers |-> B!DriverRow(d).totalCommission])
    BY RevenueByDays, RevenueByDrivers
  <1>4. B!ExportRides.revenue = B!RidesReport(B!Ever).totalRevenue
    BY DoneIs DEF B!ExportRides, B!RidesReport
  <1>5. B!ExportDeliveries.revenue = B!RevenueByService(B!Ever).DELIVERY
    BY DoneIs DEF B!ExportDeliveries, B!RevenueByService
  <1>6. B!ExportDeliveries.fareVolume = B!Fares(DoneOf("DELIVERY"))
    BY DoneIs DEF B!ExportDeliveries
  <1>7. B!RidesReport(B!Ever).totalFareVolume = B!Fares(DoneOf("RIDE"))
    BY DoneIs DEF B!RidesReport
  <1>8. B!ExportDeliveries.fareVolume + B!RidesReport(B!Ever).totalFareVolume
           = B!Total([r \in Riders |-> B!RiderHistory(r, "RIDE").totalSpent + B!RiderHistory(r, "DELIVERY").totalSpent])
    <2>1. B!Fares(DoneOf("RIDE")) \in Int /\ B!Fares(DoneOf("DELIVERY")) \in Int
      BY DoneIs, Measures
    <2> QED
      BY <1>6, <1>7, <2>1, FaresByRiders
  <1>9. B!Dashboard.totalRevenue = B!FinanceReport(B!Ever).totalRecognizedRevenue
    BY DEF B!Dashboard, B!FinanceReport
  <1> QED
    BY <1>1, <1>2, <1>3, <1>4, <1>5, <1>8, <1>9 DEF B!RevenuesAgree

-----------------------------------------------------------------------------
(* Counts of trips.                                                        *)

RowsOf(kind) == {i \in DOMAIN trips : trips[i].kind = kind}
Standing(kind, statuses) == {i \in RowsOf(kind) : trips[i].status \in statuses}

LEMMA RowsAre ==
    ASSUME BooksInv
    PROVE  /\ \A kind : /\ RowsOf(kind) = B!Rows(kind) /\ RowsOf(kind) \in SUBSET DOMAIN trips
                        /\ RowsOf(kind) = B!RequestedIn(kind, B!Ever)
                        /\ Standing(kind, {"COMPLETED"}) = B!CompletedOn(kind, B!Ever)
                        /\ \A statuses : /\ Standing(kind, statuses) = B!InStatus(B!Rows(kind), statuses)
                                         /\ Standing(kind, statuses) \in SUBSET DOMAIN trips
           /\ \A i \in DOMAIN trips : trips[i].rider \in Riders /\ trips[i].requested \in B!Ever
           /\ \A i \in DOMAIN trips : i \in RowsOf("RIDE") \/ i \in RowsOf("DELIVERY")
           /\ \A i \in RowsOf("RIDE") : i \notin RowsOf("DELIVERY")
  <1>1. \A i \in DOMAIN trips : /\ trips[i].kind \in {"RIDE", "DELIVERY"} /\ trips[i].rider \in Riders
                                /\ trips[i].requested \in B!Ever
                                /\ trips[i].status = "COMPLETED" => trips[i].ended \in B!Ever
    BY TripFacts
  <1> QED
    BY <1>1 DEF RowsOf, Standing, B!Rows, B!RequestedIn, B!InStatus, B!CompletedOn

LEMMA RidesByRiders ==
    ASSUME BooksInv
    PROVE  B!Dashboard.rides.total = B!Total([r \in Riders |-> B!RiderHistory(r, "RIDE").total])
  <1> DEFINE g == [r \in Riders |-> B!RiderHistory(r, "RIDE").total]
             S == RowsOf("RIDE")
             c == [i \in S |-> trips[i].rider]
  <1>1. \A r \in Riders : g[r] = B!Cardinality(Class(S, c, r))
    <2> TAKE r \in Riders
    <2>1. Class(S, c, r) = {i \in B!Rows("RIDE") : trips[i].rider = r}
      BY RowsAre DEF Class
    <2> QED
      BY <2>1 DEF B!RiderHistory, B!HistorySummary
  <1>2. DOMAIN g = Riders /\ S \in SUBSET DOMAIN trips /\ \A i \in S : c[i] \in Riders
    BY RowsAre
  <1>3. B!Dashboard.rides.total = B!Cardinality(S)
    BY RowsAre DEF B!Dashboard
  <1> HIDE DEF g, c, S
  <1>4. B!Total(g) = B!Cardinality(S)
    BY <1>1, <1>2, DoneIs, TripsBy
  <1> QED
    BY <1>3, <1>4 DEF g

LEMMA OtherRides ==
    ASSUME BooksInv
    PROVE  LET dash == B!Dashboard
               export == B!ExportRides
           IN  /\ dash.rides.total - dash.rides.completed - dash.rides.cancelled = export.other
               /\ dash.activeTrips <= export.other /\ dash.activeTrips = B!RideStats.activeNow
  <1> DEFINE S == RowsOf("RIDE")
             Over == Standing("RIDE", {"COMPLETED"})
             Left == Standing("RIDE", {"CANCELLED"})
             Act == Standing("RIDE", B!Active)
             Rest == S \ Over
             Rest2 == Rest \ Left
             Rest3 == Rest2 \ Act
  <1>1. /\ S = B!Rows("RIDE") /\ Over = B!CompletedOn("RIDE", B!Ever)
        /\ Over = B!InStatus(B!Rows("RIDE"), {"COMPLETED"}) /\ Left = B!InStatus(B!Rows("RIDE"), {"CANCELLED"})
        /\ Act = B!InStatus(B!Rows("RIDE"), B!Active)
    BY RowsAre
  <1>2. /\ B!Dashboard.rides.total = B!Cardinality(S) /\ B!Dashboard.rides.completed = B!Cardinality(Over)
        /\ B!Dashboard.rides.cancelled = B!Cardinality(Left) /\ B!Dashboard.activeTrips = B!Cardinality(Act)
        /\ B!RideStats.activeNow = B!Cardinality(Act)
        /\ B!ExportRides.other = B!Cardinality(S) - B!Cardinality(Over) - B!Cardinality(Left)
    <2> HIDE DEF S, Over, Left, Act
    <2> QED
      BY <1>1 DEF B!Dashboard, B!RideStats, B!ExportRides
  <1>3. /\ S \in SUBSET DOMAIN trips /\ Rest \in SUBSET DOMAIN trips /\ Rest2 \in SUBSET DOMAIN trips
        /\ Act \in SUBSET DOMAIN trips /\ Rest3 \in SUBSET DOMAIN trips
        /\ Over \in SUBSET DOMAIN trips /\ Left \in SUBSET DOMAIN trips
    BY RowsAre
  <1>4. \A x : x \in S <=> x \in Over \/ x \in Rest
    BY DEF Standing
  <1>5. \A x : x \in Rest <=> x \in Left \/ x \in Rest2
    BY DEF Standing
  <1>6. \A x : x \in Rest2 <=> x \in Act \/ x \in Rest3
    BY DEF Standing, B!Active
  <1>7. \A x \in Over : x \notin Rest
    OBVIOUS
  <1>8. \A x \in Left : x \notin Rest2
    OBVIOUS
  <1>9. \A x \in Act : x \notin Rest3
    OBVIOUS
  <1> HIDE DEF S, Over, Left, Act, Rest, Rest2, Rest3
  <1>10. /\ B!Cardinality(S) = B!Cardinality(Over) + B!Cardinality(Rest)
         /\ B!Cardinality(Rest) = B!Cardinality(Left) + B!Cardinality(Rest2)
         /\ B!Cardinality(Rest2) = B!Cardinality(Act) + B!Cardinality(Rest3)
    BY <1>3, <1>4, <1>5, <1>6, <1>7, <1>8, <1>9, TripsParts
  <1>11. /\ B!Cardinality(S) \in Nat /\ B!Cardinality(Over) \in Nat /\ B!Cardinality(Rest) \in Nat
         /\ B!Cardinality(Left) \in Nat /\ B!Cardinality(Rest2) \in Nat /\ B!Cardinality(Act) \in Nat
         /\ B!Cardinality(Rest3) \in Nat
    BY <1>3, Measures
  <1> QED
    BY <1>2, <1>10, <1>11

LEMMA RidesReported ==
    ASSUME BooksInv
    PROVE  /\ B!RidesReport(B!Ever).totalRides = B!ExportRides.total
           /\ B!RidesReport(B!Ever).completedRides = B!DriversReport(B!Ever).completedRides
           /\ B!RideStats.totalToday = B!RidesReport({today}).totalRides
           /\ B!RideStats.completedToday = B!DriversReport({today}).completedRides
  <1>1. B!RidesReport(B!Ever).totalRides = B!ExportRides.total
    BY RowsAre DEF B!RidesReport, B!ExportRides
  <1>2. B!RidesReport(B!Ever).completedRides = B!DriversReport(B!Ever).completedRides
    <2>1. B!InStatus(B!RequestedIn("RIDE", B!Ever), {"COMPLETED"}) = B!CompletedOn("RIDE", B!Ever)
      BY RowsAre
    <2> QED
      BY <2>1 DEF B!RidesReport, B!DriversReport, B!CountOf
  <1>3. {i \in B!Rows("RIDE") : trips[i].requested = today} = B!RequestedIn("RIDE", {today})
    BY DEF B!RequestedIn
  <1>4. B!RideStats.totalToday = B!RidesReport({today}).totalRides
    BY <1>3 DEF B!RideStats, B!RidesReport
  <1>5. B!RideStats.completedToday = B!DriversReport({today}).completedRides
    BY DEF B!RideStats, B!DriversReport
  <1> QED
    BY <1>1, <1>2, <1>4, <1>5

LEMMA ActiveRiders ==
    ASSUME BooksInv
    PROVE  B!RidersReport(B!Ever).active = B!Cardinality({r \in Riders : B!RiderHistory(r, "RIDE").total > 0})
  <1> DEFINE S == {trips[i].rider : i \in B!RequestedIn("RIDE", B!Ever)}
             T1 == {r \in Riders : B!RiderHistory(r, "RIDE").total > 0}
  <1>1. ASSUME NEW r \in Riders PROVE B!RiderHistory(r, "RIDE").total > 0 <=> r \in S
    <2> DEFINE mine == {i \in B!Rows("RIDE") : trips[i].rider = r}
    <2>1. B!RiderHistory(r, "RIDE").total = B!Cardinality(mine)
      BY DEF B!RiderHistory, B!HistorySummary
    <2>2. mine \in SUBSET DOMAIN trips
      BY RowsAre
    <2>3. IsFiniteSet(mine) /\ Cardinality(mine) \in Nat /\ B!Cardinality(mine) = Cardinality(mine)
      BY <2>2, Measures, CardIs
    <2>4. Cardinality(mine) = 0 <=> mine = {}
      BY <2>3, FS_EmptySet
    <2>5. r \in S <=> mine # {}
      BY RowsAre
    <2> HIDE DEF mine, S
    <2> QED
      BY <2>1, <2>3, <2>4, <2>5
  <1>2. S \subseteq Riders
    BY RowsAre
  <1>3. S = T1
    BY <1>1, <1>2
  <1> QED
    BY <1>3 DEF B!RidersReport

LEMMA DeliveriesReported ==
    ASSUME BooksInv
    PROVE  LET d == B!DeliverySummary
               deliveries == B!LogisticsReport(B!Ever)
           IN  /\ d.active = B!Dashboard.activeDeliveries
               /\ d.total = deliveries.total /\ d.completed = deliveries.completed
               /\ d.total - d.active - d.completed - d.cancelled - d.noDriversFound
                      = B!CountOf(B!Rows("DELIVERY"), {"REQUESTED"})
  <1> DEFINE S == RowsOf("DELIVERY")
             P1(s) == Standing("DELIVERY", s)
             Act == P1(B!Active)
             Over == P1({"COMPLETED"})
             Left == P1({"CANCELLED"})
             Lost == P1({"NO_DRIVERS_FOUND"})
             Asked == P1({"REQUESTED"})
             S2 == S \ Act
             S3 == S2 \ Over
             S4 == S3 \ Left
             n(X) == B!Cardinality(X)
  <1>1. /\ S = B!Rows("DELIVERY") /\ S = B!RequestedIn("DELIVERY", B!Ever)
        /\ \A s : P1(s) = B!InStatus(B!Rows("DELIVERY"), s)
    BY RowsAre
  <1>2. /\ B!DeliverySummary.total = n(S) /\ B!DeliverySummary.active = n(Act)
        /\ B!DeliverySummary.completed = n(Over) /\ B!DeliverySummary.cancelled = n(Left)
        /\ B!DeliverySummary.noDriversFound = n(Lost)
        /\ B!CountOf(B!Rows("DELIVERY"), {"REQUESTED"}) = n(Asked)
        /\ B!Dashboard.activeDeliveries = n(Act)
        /\ B!LogisticsReport(B!Ever).total = n(S) /\ B!LogisticsReport(B!Ever).completed = n(Over)
    <2> HIDE DEF S, P1
    <2> QED
      BY <1>1 DEF B!DeliverySummary, B!CountOf, B!Dashboard, B!LogisticsReport
  <1>3. /\ S \in SUBSET DOMAIN trips /\ S2 \in SUBSET DOMAIN trips /\ S3 \in SUBSET DOMAIN trips
        /\ S4 \in SUBSET DOMAIN trips /\ Lost \in SUBSET DOMAIN trips
        /\ Act \in SUBSET DOMAIN trips /\ Over \in SUBSET DOMAIN trips /\ Left \in SUBSET DOMAIN trips
        /\ Asked \in SUBSET DOMAIN trips
    BY RowsAre
  <1>4. /\ \A x : x \in S <=> x \in Act \/ x \in S2
        /\ \A x : x \in S2 <=> x \in Over \/ x \in S3
        /\ \A x : x \in S3 <=> x \in Left \/ x \in S4
    BY DEF Standing, B!Active
  <1>5. \A x : x \in S4 <=> x \in Lost \/ x \in Asked
    <2>1. \A i \in DOMAIN trips : trips[i].status \in {"REQUESTED", "DISPATCHING", "NO_DRIVERS_FOUND", "ACCEPTED",
                                                       "COMPLETED", "CANCELLED"}
      BY TripFacts
    <2> QED
      BY <2>1, RowsAre DEF Standing, B!Active
  <1>6. /\ \A x \in Act : x \notin S2
        /\ \A x \in Over : x \notin S3
        /\ \A x \in Left : x \notin S4
        /\ \A x \in Lost : x \notin Asked
    BY DEF Standing
  <1> HIDE DEF S, Act, Over, Left, Lost, Asked, S2, S3, S4
  <1>7. n(S) = n(Act) + n(S2) /\ n(S2) = n(Over) + n(S3) /\ n(S3) = n(Left) + n(S4) /\ n(S4) = n(Lost) + n(Asked)
    BY <1>3, <1>4, <1>5, <1>6, TripsParts
  <1>8. /\ n(S) \in Nat /\ n(Act) \in Nat /\ n(S2) \in Nat /\ n(Over) \in Nat /\ n(S3) \in Nat /\ n(Left) \in Nat
        /\ n(S4) \in Nat /\ n(Lost) \in Nat /\ n(Asked) \in Nat
    BY <1>3, Measures
  <1> QED
    BY <1>2, <1>7, <1>8

LEMMA OngoingTrips ==
    ASSUME BooksInv
    PROVE  B!Dashboard.activeTrips + B!Dashboard.activeDeliveries + B!CountOf(DOMAIN trips, {"REQUESTED"})
              = B!Total([r \in Riders |-> B!Cardinality(B!Activity(r).ongoing)])
  <1> DEFINE g == [r \in Riders |-> B!Cardinality(B!Activity(r).ongoing)]
             S == B!InStatus(DOMAIN trips, B!Ongoing)
             Act == B!InStatus(DOMAIN trips, B!Active)
             Asked == B!InStatus(DOMAIN trips, {"REQUESTED"})
             A(kind) == Standing(kind, B!Active)
             c == [i \in S |-> trips[i].rider]
  <1>1. \A r \in Riders : g[r] = B!Cardinality(Class(S, c, r))
    <2> TAKE r \in Riders
    <2>1. Class(S, c, r) = B!Activity(r).ongoing
      BY DEF Class, B!Activity, B!InStatus
    <2> QED
      BY <2>1
  <1>2. /\ DOMAIN g = Riders /\ S \in SUBSET DOMAIN trips /\ Act \in SUBSET DOMAIN trips
        /\ Asked \in SUBSET DOMAIN trips
        /\ \A i \in S : c[i] \in Riders
        /\ A("RIDE") \in SUBSET DOMAIN trips /\ A("DELIVERY") \in SUBSET DOMAIN trips
    BY RowsAre DEF B!InStatus
  <1>3. /\ B!Dashboard.activeTrips = B!Cardinality(A("RIDE"))
        /\ B!Dashboard.activeDeliveries = B!Cardinality(A("DELIVERY"))
        /\ B!CountOf(DOMAIN trips, {"REQUESTED"}) = B!Cardinality(Asked)
    <2>1. \A kind : A(kind) = B!InStatus(B!Rows(kind), B!Active)
      BY RowsAre
    <2> HIDE DEF A
    <2> QED
      BY <2>1 DEF B!Dashboard, B!CountOf
  <1>4. \A x : x \in S <=> x \in Act \/ x \in Asked
    BY DEF B!InStatus, B!Ongoing
  <1>5. \A x \in Act : x \notin Asked
    BY DEF B!InStatus, B!Active
  <1>6. \A x : x \in Act <=> x \in A("RIDE") \/ x \in A("DELIVERY")
    BY RowsAre DEF B!InStatus, Standing
  <1>7. \A x \in A("RIDE") : x \notin A("DELIVERY")
    BY RowsAre DEF Standing
  <1> HIDE DEF g, c, S, Act, Asked, A
  <1>8. B!Total(g) = B!Cardinality(S)
    BY <1>1, <1>2, DoneIs, TripsBy
  <1>9. /\ B!Cardinality(S) = B!Cardinality(Act) + B!Cardinality(Asked)
        /\ B!Cardinality(Act) = B!Cardinality(A("RIDE")) + B!Cardinality(A("DELIVERY"))
    BY <1>2, <1>4, <1>5, <1>6, <1>7, TripsParts
  <1>10. B!Cardinality(A("RIDE")) \in Nat /\ B!Cardinality(A("DELIVERY")) \in Nat /\ B!Cardinality(Asked) \in Nat
    BY <1>2, Measures
  <1> QED
    BY <1>3, <1>8, <1>9, <1>10 DEF g

LEMMA TripsOfRider ==
    ASSUME BooksInv, NEW r \in Riders
    PROVE  LET ridden == B!RiderHistory(r, "RIDE")
               activity == B!Activity(r)
           IN  /\ B!Cardinality(activity.past) + B!Cardinality(activity.ongoing)
                      = ridden.total + B!RiderHistory(r, "DELIVERY").total
               /\ B!RiderRow(r).totalTrips = ridden.completed
  <1> DEFINE mine == {i \in DOMAIN trips : trips[i].rider = r}
             On1 == B!InStatus(mine, B!Ongoing)
             Past == mine \ On1
             A(kind) == {i \in B!Rows(kind) : trips[i].rider = r}
             n(X) == B!Cardinality(X)
  <1>1. /\ mine \in SUBSET DOMAIN trips /\ On1 \in SUBSET DOMAIN trips /\ Past \in SUBSET DOMAIN trips
        /\ A("RIDE") \in SUBSET DOMAIN trips /\ A("DELIVERY") \in SUBSET DOMAIN trips
    BY DEF B!InStatus, B!Rows
  <1>2. /\ \A x : x \in mine <=> x \in Past \/ x \in On1
        /\ \A x \in Past : x \notin On1
    BY DEF B!InStatus
  <1>3. /\ \A x : x \in mine <=> x \in A("RIDE") \/ x \in A("DELIVERY")
        /\ \A x \in A("RIDE") : x \notin A("DELIVERY")
    BY RowsAre
  <1>4. B!RiderRow(r).totalTrips = B!RiderHistory(r, "RIDE").completed
    <2> DEFINE S == B!InStatus(A("RIDE"), {"COMPLETED"})
               done == {i \in B!InStatus(DOMAIN trips, {"COMPLETED"}) : trips[i].rider = r}
    <2>1. done \cap B!Rows("RIDE") = S
      BY DEF B!InStatus, B!Rows
    <2>2. B!RiderHistory(r, "RIDE").completed = n(S)
      BY DEF B!RiderHistory, B!HistorySummary
    <2>3. B!RiderRow(r).totalTrips = n(done \cap B!Rows("RIDE"))
      BY DEF B!RiderRow
    <2> HIDE DEF S, done
    <2> QED
      BY <2>1, <2>2, <2>3
  <1>5. /\ B!Activity(r).past = Past /\ B!Activity(r).ongoing = On1
        /\ B!RiderHistory(r, "RIDE").total = n(A("RIDE"))
        /\ B!RiderHistory(r, "DELIVERY").total = n(A("DELIVERY"))
    BY DEF B!Activity, B!RiderHistory, B!HistorySummary
  <1> HIDE DEF mine, On1, Past, A
  <1>6. n(mine) = n(Past) + n(On1) /\ n(mine) = n(A("RIDE")) + n(A("DELIVERY"))
    BY <1>1, <1>2, <1>3, TripsParts
  <1> QED
    BY <1>4, <1>5, <1>6

LEMMA TripsOfDriver ==
    ASSUME BooksInv, NEW d \in Drivers
    PROVE  LET row == B!DriverRow(d)
           IN  /\ row.totalTrips = B!TripCount(d)
               /\ row.totalEarnings
                      = B!DriverHistory(d, "RIDE").totalEarnings + B!DriverHistory(d, "DELIVERY").totalEarnings
  <1> DEFINE S == {i \in B!InStatus(DOMAIN trips, {"COMPLETED"}) : trips[i].driver = d}
             A(kind) == {i \in B!InStatus(B!Rows(kind), {"COMPLETED"}) : trips[i].driver = d}
             H(kind) == B!InStatus({i \in B!Rows(kind) : trips[i].driver = d}, {"COMPLETED"})
             n(X) == B!Cardinality(X)
             f(X) == B!Fares(X)
             m(X) == B!Commissions(X)
  <1>1. S \in SUBSET DOMAIN trips /\ A("RIDE") \in SUBSET DOMAIN trips /\ A("DELIVERY") \in SUBSET DOMAIN trips
    BY DEF B!InStatus, B!Rows
  <1>2. A("RIDE") = H("RIDE") /\ A("DELIVERY") = H("DELIVERY")
    BY DEF B!InStatus
  <1>3. /\ \A x : x \in S <=> x \in A("RIDE") \/ x \in A("DELIVERY")
        /\ \A x \in A("RIDE") : x \notin A("DELIVERY")
    BY RowsAre DEF B!InStatus, B!Rows, RowsOf
  <1>4. /\ B!DriverRow(d).totalTrips = n(S) /\ B!DriverRow(d).totalEarnings = f(S) - m(S)
        /\ B!TripCount(d) = n(A("RIDE")) + n(A("DELIVERY"))
        /\ B!DriverHistory(d, "RIDE").totalEarnings = f(H("RIDE")) - m(H("RIDE"))
        /\ B!DriverHistory(d, "DELIVERY").totalEarnings = f(H("DELIVERY")) - m(H("DELIVERY"))
    BY DEF B!DriverRow, B!TripCount, B!DriverHistory, B!HistorySummary
  <1> HIDE DEF S, A, H
  <1>5. /\ n(S) = n(A("RIDE")) + n(A("DELIVERY"))
        /\ f(S) = f(A("RIDE")) + f(A("DELIVERY"))
        /\ m(S) = m(A("RIDE")) + m(A("DELIVERY"))
    BY <1>1, <1>3, TripsParts
  <1>6. /\ f(A("RIDE")) \in Int /\ f(A("DELIVERY")) \in Int /\ m(A("RIDE")) \in Int /\ m(A("DELIVERY")) \in Int
    BY <1>1, Measures
  <1> QED
    BY <1>2, <1>4, <1>5, <1>6

LEMMA TripsByDays ==
    ASSUME BooksInv
    PROVE  B!Total([date \in B!Ever |-> B!Analytics(date).trips]) = Len(trips)
  <1> DEFINE g == [date \in B!Ever |-> B!Analytics(date).trips]
             D == DOMAIN trips
             c == [i \in D |-> trips[i].requested]
  <1>1. \A date \in B!Ever : g[date] = B!Cardinality(Class(D, c, date))
    <2> TAKE date \in B!Ever
    <2>1. Class(D, c, date) = {i \in DOMAIN trips : trips[i].requested = date}
      BY DEF Class
    <2> QED
      BY <2>1 DEF B!Analytics
  <1>2. DOMAIN g = B!Ever /\ D \in SUBSET DOMAIN trips /\ \A i \in D : c[i] \in B!Ever
    BY RowsAre
  <1>3. B!Cardinality(D) = Len(trips)
    <2>1. D = 1 .. Len(trips) /\ Len(trips) \in Nat
      BY TripsFinite
    <2>2. Cardinality(1 .. Len(trips)) = Len(trips)
      <3> DEFINE n == Len(trips)
      <3>1. 1 \in Int /\ n \in Nat
        BY <2>1
      <3> HIDE DEF n
      <3>2. Cardinality(1 .. n) = IF 1 > n THEN 0 ELSE n - 1 + 1
        BY <3>1, FS_Interval
      <3>3. Cardinality(1 .. n) = n
        BY <3>1, <3>2
      <3> QED
        BY <3>3 DEF n
    <2> HIDE DEF D
    <2> QED
      BY <2>1, <2>2, CardIs
  <1> HIDE DEF g, c, D
  <1>4. B!Total(g) = B!Cardinality(D)
    BY <1>1, <1>2, DoneIs, TripsBy
  <1> QED
    BY <1>3, <1>4 DEF g

LEMMA TripsHold ==
    ASSUME BooksInv
    PROVE  B!TripsAgree(B!Dashboard, B!RidesReport(B!Ever))
  BY RidesByRiders, OtherRides, RidesReported, ActiveRiders, DeliveriesReported, OngoingTrips,
     TripsOfRider, TripsOfDriver, TripsByDays DEF B!TripsAgree

-----------------------------------------------------------------------------
(* Withdrawals, postings and invoices.                                     *)

\* A total over a set is the sum of any function that says the same there.
LEMMA TotalOf ==
    ASSUME NEW S, IsFiniteSet(S), NEW f, Ints(f, S), NEW g, DOMAIN g = S, \A x \in S : g[x] = f[x]
    PROVE  B!Total(g) = SumFunctionOnSet(f, S) /\ SumFunctionOnSet(f, S) \in Int
  BY TotalIsSum, SumSame, SumInt

\* A total by classes is the sum of all.
LEMMA TotalBy ==
    ASSUME NEW S, IsFiniteSet(S), NEW f, Ints(f, S), NEW T1, IsFiniteSet(T1),
           NEW c, \A x \in S : c[x] \in T1,
           NEW g, DOMAIN g = T1, \A y \in T1 : g[y] = SumFunctionOnSet(f, Class(S, c, y))
    PROVE  B!Total(g) = SumFunctionOnSet(f, S)
  BY TotalIsSum, SumClasses

Withdrawn == [w \in DOMAIN withdrawals |-> withdrawals[w].amount]
Invoiced == [k \in DOMAIN invoices |-> invoices[k].amount]

LEMMA WithdrawnOf ==
    ASSUME BooksInv
    PROVE  /\ IsFiniteSet(DOMAIN withdrawals) /\ Ints(Withdrawn, DOMAIN withdrawals)
           /\ \A w \in DOMAIN withdrawals : withdrawals[w].driver \in Drivers
           /\ \A S \in SUBSET DOMAIN withdrawals :
                 IsFiniteSet(S) /\ Ints(Withdrawn, S) /\ B!AmountOf(S) = SumFunctionOnSet(Withdrawn, S)
  <1>1. withdrawals \in Seq(WithdrawalRows)
    BY BooksNow
  <1>2. \A w \in DOMAIN withdrawals : withdrawals[w] \in WithdrawalRows
    BY <1>1
  <1>3. IsFiniteSet(DOMAIN withdrawals)
    BY <1>1, DomainFinite
  <1>4. Ints(Withdrawn, DOMAIN withdrawals) /\ \A w \in DOMAIN withdrawals : withdrawals[w].driver \in Drivers
    BY <1>2 DEF Ints, Withdrawn, WithdrawalRows
  <1>5. ASSUME NEW S \in SUBSET DOMAIN withdrawals
        PROVE  IsFiniteSet(S) /\ Ints(Withdrawn, S) /\ B!AmountOf(S) = SumFunctionOnSet(Withdrawn, S)
    <2> DEFINE g == [w \in S |-> withdrawals[w].amount]
    <2>1. IsFiniteSet(S) /\ Ints(Withdrawn, S)
      BY <1>3, <1>4, FS_Subset DEF Ints
    <2>2. DOMAIN g = S /\ \A w \in S : g[w] = Withdrawn[w]
      BY DEF Withdrawn
    <2>3. B!AmountOf(S) = B!Total(g)
      BY DEF B!AmountOf
    <2> HIDE DEF g
    <2> QED
      BY <2>1, <2>2, <2>3, TotalOf
  <1> QED
    BY <1>3, <1>4, <1>5

LEMMA RequestsByDriver ==
    ASSUME BooksInv, NEW s
    PROVE  B!AmountOf(B!Requests(s, Drivers)) = B!Total([d \in Drivers |-> B!AmountOf(B!Requests(s, {d}))])
  <1> DEFINE g == [d \in Drivers |-> B!AmountOf(B!Requests(s, {d}))]
             S == B!Requests(s, Drivers)
             c == [w \in S |-> withdrawals[w].driver]
  <1>1. S \in SUBSET DOMAIN withdrawals /\ \A w \in S : c[w] \in Drivers
    BY DEF B!Requests
  <1>2. ASSUME NEW d \in Drivers PROVE Class(S, c, d) = B!Requests(s, {d})
    BY DEF Class, B!Requests
  <1>3. DOMAIN g = Drivers /\ \A d \in Drivers : g[d] = B!AmountOf(Class(S, c, d))
    BY <1>2
  <1>4. \A d \in Drivers : Class(S, c, d) \in SUBSET DOMAIN withdrawals
    BY <1>1 DEF Class
  <1>5. \A d \in Drivers : g[d] = SumFunctionOnSet(Withdrawn, Class(S, c, d))
    BY <1>3, <1>4, WithdrawnOf
  <1>6. IsFiniteSet(S) /\ Ints(Withdrawn, S) /\ B!AmountOf(S) = SumFunctionOnSet(Withdrawn, S)
    BY <1>1, WithdrawnOf
  <1> HIDE DEF g, S, c
  <1>7. B!Total(g) = SumFunctionOnSet(Withdrawn, S)
    BY <1>1, <1>3, <1>5, <1>6, DoneIs, TotalBy
  <1> QED
    BY <1>6, <1>7 DEF g, S

LEMMA QueueAgrees ==
    ASSUME BooksInv
    PROVE  /\ B!Dashboard.pendingWithdrawals = B!Finance.pendingWithdrawals
           /\ B!ExportWithdrawals.pendingAmount = B!Total([d \in Drivers |-> B!DriverWithdrawals(d).pendingAmount])
           /\ B!ExportWithdrawals.pendingAmount = B!Dashboard.pendingWithdrawals.amount
           /\ B!ExportWithdrawals.paidOut = B!Total([d \in Drivers |-> B!DriverWithdrawals(d).totalWithdrawn])
  <1>1. B!Dashboard.pendingWithdrawals = B!Finance.pendingWithdrawals
    BY DEF B!Dashboard, B!Finance
  <1>2. B!ExportWithdrawals.pendingAmount = B!Dashboard.pendingWithdrawals.amount
    BY DEF B!Dashboard, B!ExportWithdrawals
  <1>3. [d \in Drivers |-> B!DriverWithdrawals(d).pendingAmount]
            = [d \in Drivers |-> B!AmountOf(B!Requests("PENDING", {d}))]
    BY DEF B!DriverWithdrawals
  <1>4. [d \in Drivers |-> B!DriverWithdrawals(d).totalWithdrawn]
            = [d \in Drivers |-> B!AmountOf(B!Requests("COMPLETED", {d}))]
    BY DEF B!DriverWithdrawals
  <1>5. /\ B!ExportWithdrawals.pendingAmount = B!AmountOf(B!Requests("PENDING", Drivers))
        /\ B!ExportWithdrawals.paidOut = B!AmountOf(B!Requests("COMPLETED", Drivers))
    BY DEF B!ExportWithdrawals
  <1>6. B!ExportWithdrawals.pendingAmount = B!Total([d \in Drivers |-> B!DriverWithdrawals(d).pendingAmount])
    BY <1>3, <1>5, RequestsByDriver
  <1>7. B!ExportWithdrawals.paidOut = B!Total([d \in Drivers |-> B!DriverWithdrawals(d).totalWithdrawn])
    BY <1>4, <1>5, RequestsByDriver
  <1> QED
    BY <1>1, <1>2, <1>6, <1>7

LEMMA PostingsCounted ==
    ASSUME BooksInv
    PROVE  /\ B!FinanceReport(B!Ever).volume = B!ExportTransactions.total
           /\ B!ExportTransactions.total = B!ExportTransactions.completed + B!ExportTransactions.reversed
  <1> DEFINE S1 == {tx \in posted : tx.status = "COMPLETED"}
             S2 == {tx \in posted : tx.status = "REVERSED"}
  <1>1. Postings(posted)
    BY BooksNow
  <1>2. \A tx \in posted : tx.status \in {"COMPLETED", "REVERSED"} /\ tx.day \in B!Ever
    BY <1>1 DEF Postings, IsPosting
  <1>3. {tx \in posted : tx.day \in B!Ever} = posted
    BY <1>2
  <1>4. \A x : x \in posted <=> x \in S1 \/ x \in S2
    BY <1>2
  <1>5. \A x \in S1 : x \notin S2
    OBVIOUS
  <1>6. /\ B!ExportTransactions.total = B!Cardinality(posted)
        /\ B!ExportTransactions.completed = B!Cardinality(S1)
        /\ B!ExportTransactions.reversed = B!Cardinality(S2)
        /\ B!FinanceReport(B!Ever).volume = B!Cardinality({tx \in posted : tx.day \in B!Ever})
    BY DEF B!ExportTransactions, B!FinanceReport
  <1> HIDE DEF S1, S2
  <1>7. Cardinality(posted) = Cardinality(S1) + Cardinality(S2)
    BY <1>1, <1>4, <1>5, CountParts DEF Postings
  <1> QED
    BY <1>3, <1>6, <1>7, CardIs

\* A refund for each posting that is reversed.
LEMMA RefundsCounted ==
    ASSUME BooksInv, LinksInv
    PROVE  B!Cardinality(B!OfType("REFUND")) = B!ExportTransactions.reversed
  <1> DEFINE S == {tx \in posted : tx.type = "REFUND"}
             R2 == {tx \in posted : tx.status = "REVERSED"}
             c == [s \in S |-> CHOOSE t \in R2 : t.ref = s.ref[2]]
             g == [t \in R2 |-> 1]
  <1>1. IsFiniteSet(posted) /\ PostedOnce(posted) /\ Reversals(posted)
    BY BooksNow DEF PostedOK
  <1>2. IsFiniteSet(S) /\ IsFiniteSet(R2)
    BY <1>1, FS_Subset
  <1>3. ASSUME NEW s \in S
        PROVE  s \in posted /\ s.ref = <<"refund", s.ref[2]>> /\ c[s] \in R2 /\ c[s].ref = s.ref[2]
    <2>1. s \in posted /\ PostingLinked(s, withdrawals, posted)
      BY DEF LinksInv, LinksOK
    <2>2. s.ref[1] = "refund"
      BY <2>1 DEF PostingLinked
    <2>3. s.ref = <<"refund", s.ref[2]>> /\ \E t \in R2 : t.ref = s.ref[2]
      BY <1>1, <2>1, <2>2 DEF Reversals
    <2> HIDE DEF R2
    <2> QED
      BY <2>1, <2>3
  <1>4. ASSUME NEW t \in R2 PROVE \E s \in S : Class(S, c, t) = {s}
    <2>1. PostingLinked(t, withdrawals, posted) /\ t \in posted
      BY DEF LinksInv, LinksOK
    <2>2. PICK s \in posted : s.ref = <<"refund", t.ref>>
      BY <2>1 DEF PostingLinked
    <2>3. s.ref[1] = "refund" /\ s.ref[2] = t.ref
      BY <2>2
    <2>4. s \in S
      BY <2>3 DEF LinksInv, LinksOK, PostingLinked
    <2>5. c[s] = t
      BY <1>1, <1>3, <2>1, <2>3, <2>4 DEF PostedOnce
    <2>6. ASSUME NEW u \in S, c[u] = t PROVE u = s
      <3>1. u.ref = s.ref /\ u \in posted
        BY <1>3, <2>2, <2>6
      <3> QED
        BY <1>1, <3>1 DEF PostedOnce
    <2> HIDE DEF S, c
    <2> QED
      BY <2>4, <2>5, <2>6 DEF Class
  <1>5. \A t \in R2 : g[t] = 1 /\ g[t] = Cardinality(Class(S, c, t))
    BY <1>4, FS_Singleton
  <1>6. \A s \in S : c[s] \in R2
    BY <1>3
  <1>7. B!Cardinality(B!OfType("REFUND")) = Cardinality(S)
    BY CardIs DEF B!OfType
  <1>8. B!ExportTransactions.reversed = Cardinality(R2)
    BY CardIs DEF B!ExportTransactions
  <1> HIDE DEF S, R2, c, g
  <1>9. SumFunctionOnSet(g, R2) = Cardinality(S)
    BY <1>2, <1>5, <1>6, CountClasses
  <1>10. SumFunctionOnSet(g, R2) = Cardinality(R2)
    BY <1>2, <1>5, CountIsSum
  <1> QED
    BY <1>7, <1>8, <1>9, <1>10

\* What the postings of the withdrawals add up to.
LEMMA WithdrawalsReported ==
    ASSUME BooksInv, LinksInv
    PROVE  B!FinanceReport(B!Ever).totalWithdrawals = B!AmountOf(DOMAIN withdrawals)
  <1> DEFINE S == {tx \in B!OfType("WALLET_WITHDRAWAL") : tx.day \in B!Ever}
             f == [tx \in S |-> tx.amount]
             c == [tx \in S |-> tx.ref[2]]
             D == DOMAIN withdrawals
  <1>1. IsFiniteSet(posted) /\ PostedOnce(posted) /\ Postings(posted)
        /\ PostedOK(posted, trips, invoices, withdrawals, others)
    BY BooksNow DEF PostedOK
  <1>2. IsFiniteSet(S) /\ S \subseteq posted
    BY <1>1, FS_Subset DEF B!OfType
  <1>3. DOMAIN f = S /\ Ints(f, S) /\ \A tx \in S : f[tx] = tx.amount
    BY <1>1, <1>2 DEF Ints, Postings, IsPosting
  <1>4. ASSUME NEW tx \in S PROVE c[tx] \in D /\ tx.ref = <<"withdraw", c[tx]>>
    <2>1. tx.ref[1] = "withdraw"
      BY <1>2 DEF LinksInv, LinksOK, PostingLinked, B!OfType
    <2>2. PICK w \in D : OfWithdrawal(tx, w, withdrawals[w])
      BY <1>1, <1>2, <2>1, WithdrawalFound
    <2>3. tx.ref = <<"withdraw", w>>
      <3>1. <<"settle", w>>[1] # "withdraw"
        OBVIOUS
      <3> QED
        BY <2>1, <2>2, <3>1 DEF OfWithdrawal
    <2>4. c[tx] = w
      BY <2>3
    <2> QED
      BY <2>3, <2>4
  <1>5. ASSUME NEW w \in D PROVE \E tx \in S : Class(S, c, w) = {tx} /\ f[tx] = Withdrawn[w]
    <2>1. PICK tx \in posted : tx.ref = <<"withdraw", w>>
      BY DEF LinksInv, LinksOK
    <2>2. PostingLinked(tx, withdrawals, posted) /\ tx.ref[1] = "withdraw" /\ tx.ref[2] = w
      BY <2>1 DEF LinksInv, LinksOK
    <2>3. tx.type = "WALLET_WITHDRAWAL" /\ tx.amount = withdrawals[w].amount /\ tx.day \in B!Ever
      BY <1>1, <2>1, <2>2 DEF PostingLinked, Postings, IsPosting
    <2>4. tx \in S /\ c[tx] = w
      BY <2>2, <2>3 DEF B!OfType
    <2>5. \A u \in S : c[u] = w => u = tx
      BY ZenonT(60), <1>1, <1>2, <1>4, <2>1 DEF PostedOnce
    <2>6. f[tx] = Withdrawn[w]
      BY <2>3, <2>4 DEF Withdrawn
    <2> HIDE DEF S, c, f
    <2> QED
      BY <2>4, <2>5, <2>6 DEF Class
  <1>6. B!FinanceReport(B!Ever).totalWithdrawals = B!Total(f)
    BY DEF B!FinanceReport, B!Amount
  <1>7. \A tx \in S : c[tx] \in D
    BY <1>4
  <1>8. IsFiniteSet(D) /\ Ints(Withdrawn, D) /\ B!AmountOf(D) = SumFunctionOnSet(Withdrawn, D)
    BY WithdrawnOf
  <1> HIDE DEF S, f, c, D
  <1>9. \A w \in D : Withdrawn[w] = SumFunctionOnSet(f, Class(S, c, w))
    <2> TAKE w \in D
    <2>1. PICK tx \in S : Class(S, c, w) = {tx} /\ f[tx] = Withdrawn[w]
      BY <1>5
    <2>2. IsFiniteSet({tx}) /\ f[tx] \in Int
      BY <1>3, FS_Singleton DEF Ints
    <2>3. SumFunctionOnSet(f, {tx}) = f[tx]
      BY <2>2, SumOne
    <2> QED
      BY <2>1, <2>3
  <1>10. SumFunctionOnSet(Withdrawn, D) = SumFunctionOnSet(f, S)
    BY <1>2, <1>3, <1>7, <1>8, <1>9, SumClasses
  <1>11. B!Total(f) = SumFunctionOnSet(f, S)
    BY <1>3, TotalIsSum
  <1> QED
    BY <1>6, <1>8, <1>10, <1>11 DEF D

LEMMA InvoicedOf ==
    ASSUME BooksInv
    PROVE  /\ IsFiniteSet(DOMAIN invoices) /\ Ints(Invoiced, DOMAIN invoices)
           /\ \A k \in DOMAIN invoices : /\ invoices[k].business \in Businesses
                                         /\ invoices[k].status \in {"PENDING", "PAID"}
                                         /\ trips[invoices[k].trip].ended \in B!Ever
           /\ \A S \in SUBSET DOMAIN invoices :
                 /\ IsFiniteSet(S) /\ Ints(Invoiced, S) /\ SumFunctionOnSet(Invoiced, S) \in Int
                 /\ B!InvoiceAmount(S) = SumFunctionOnSet(Invoiced, S)
                 /\ B!Total([k \in S |-> invoices[k].amount]) = SumFunctionOnSet(Invoiced, S)
  <1>1. invoices \in Seq(InvoiceRows) /\ InvoicesOK(invoices, trips)
    BY BooksNow DEF InvoicesOK
  <1>2. \A k \in DOMAIN invoices : invoices[k] \in InvoiceRows
    BY <1>1
  <1>3. IsFiniteSet(DOMAIN invoices)
    BY <1>1, DomainFinite
  <1>4. Ints(Invoiced, DOMAIN invoices)
    BY <1>2 DEF Ints, Invoiced, InvoiceRows
  <1>5. \A k \in DOMAIN invoices : invoices[k].business \in Businesses /\ invoices[k].status \in {"PENDING", "PAID"}
    BY <1>2 DEF InvoiceRows
  <1>6. \A k \in DOMAIN invoices : trips[invoices[k].trip].ended \in B!Ever
    BY <1>1, TripFacts DEF InvoicesOK
  <1>7. ASSUME NEW S \in SUBSET DOMAIN invoices
        PROVE  /\ IsFiniteSet(S) /\ Ints(Invoiced, S) /\ SumFunctionOnSet(Invoiced, S) \in Int
               /\ B!InvoiceAmount(S) = SumFunctionOnSet(Invoiced, S)
               /\ B!Total([k \in S |-> invoices[k].amount]) = SumFunctionOnSet(Invoiced, S)
    <2> DEFINE g == [k \in S |-> invoices[k].amount]
    <2>1. IsFiniteSet(S) /\ Ints(Invoiced, S)
      BY <1>3, <1>4, FS_Subset DEF Ints
    <2>2. DOMAIN g = S /\ \A k \in S : g[k] = Invoiced[k]
      BY DEF Invoiced
    <2>3. B!InvoiceAmount(S) = B!Total(g)
      BY DEF B!InvoiceAmount
    <2> HIDE DEF g
    <2>4. B!Total(g) = SumFunctionOnSet(Invoiced, S) /\ SumFunctionOnSet(Invoiced, S) \in Int
      BY <2>1, <2>2, TotalOf
    <2> QED
      BY <2>1, <2>3, <2>4 DEF g
  <1> QED
    BY <1>3, <1>4, <1>5, <1>6, <1>7

\* What the companies owe is what was invoiced and is not paid.
LEMMA DebtsBilled ==
    ASSUME BooksInv
    PROVE  LET billed == B!BusinessReport(B!Ever) IN B!TotalOutstanding = billed.totalInvoiced - billed.totalPaid
  <1> DEFINE D == DOMAIN invoices
             Due == {k \in D : invoices[k].status = "PENDING"}
             Over == {k \in D : invoices[k].status = "PAID"}
             c == [k \in Due |-> invoices[k].business]
             g == [b \in Businesses |-> B!Balance(B!Credit(b))]
  <1>1. {k \in D : trips[invoices[k].trip].ended \in B!Ever} = D
    BY InvoicedOf
  <1>2. /\ B!BusinessReport(B!Ever).totalInvoiced = B!Total([k \in D |-> invoices[k].amount])
        /\ B!BusinessReport(B!Ever).totalPaid = B!Total([k \in Over |-> invoices[k].amount])
    BY <1>1 DEF B!BusinessReport
  <1>3. D \in SUBSET DOMAIN invoices /\ Due \in SUBSET DOMAIN invoices /\ Over \in SUBSET DOMAIN invoices
    OBVIOUS
  <1>4. /\ \A x : x \in D <=> x \in Due \/ x \in Over
        /\ \A x \in Due : x \notin Over
    BY InvoicedOf
  <1>5. \A b \in Businesses : g[b] = SumFunctionOnSet(Invoiced, Class(Due, c, b))
    <2> TAKE b \in Businesses
    <2>1. Class(Due, c, b) = B!Unpaid(b) /\ B!Unpaid(b) \in SUBSET DOMAIN invoices
      BY DEF Class, B!Unpaid
    <2>2. g[b] = B!InvoiceAmount(B!Unpaid(b))
      BY CreditHolds DEF B!Outstanding
    <2> QED
      BY <2>1, <2>2, InvoicedOf
  <1>6. DOMAIN g = Businesses /\ \A k \in Due : c[k] \in Businesses
    BY InvoicedOf
  <1>7. B!TotalOutstanding = B!Total(g)
    BY DEF B!TotalOutstanding
  <1>8. IsFiniteSet(Businesses)
    BY BooksConstants
  <1> HIDE DEF D, Due, Over, c, g
  <1>9. /\ IsFiniteSet(D) /\ Ints(Invoiced, D) /\ IsFiniteSet(Due) /\ Ints(Invoiced, Due)
        /\ SumFunctionOnSet(Invoiced, Due) \in Int /\ SumFunctionOnSet(Invoiced, Over) \in Int
        /\ B!BusinessReport(B!Ever).totalInvoiced = SumFunctionOnSet(Invoiced, D)
        /\ B!BusinessReport(B!Ever).totalPaid = SumFunctionOnSet(Invoiced, Over)
    BY <1>2, <1>3, InvoicedOf
  <1>10. B!Total(g) = SumFunctionOnSet(Invoiced, Due)
    BY <1>5, <1>6, <1>8, <1>9, TotalBy
  <1>11. SumFunctionOnSet(Invoiced, D) = SumFunctionOnSet(Invoiced, Due) + SumFunctionOnSet(Invoiced, Over)
    BY <1>4, <1>9, SumParts
  <1> QED
    BY <1>7, <1>9, <1>10, <1>11

LEMMA QueuesHold ==
    ASSUME BooksInv, LinksInv
    PROVE  B!QueuesAgree(B!Dashboard, B!Finance)
  <1>1. B!Finance.todayTopups = B!TopupTrend(today)
    BY DEF B!Finance, B!TopupTrend
  <1> QED
    BY <1>1, QueueAgrees, PostingsCounted, RefundsCounted, WithdrawalsReported, DebtsBilled DEF B!QueuesAgree

-----------------------------------------------------------------------------
(* The pages of a person, of a ride and of a company.                      *)

LEMMA TallyIs ==
    ASSUME NEW S, NEW s
    PROVE  B!Tallied(B!Tally(S), s) = B!Cardinality({i \in S : trips[i].status = s})
  <1> DEFINE A2 == {i \in S : trips[i].status = s}
             Seen == {trips[i].status : i \in S}
             g == B!Tally(S)
  <1>1. g = [s2 \in Seen |-> B!Cardinality({i \in S : trips[i].status = s2})]
    BY DEF B!Tally
  <1>2. CASE s \in Seen
    <2>1. s \in DOMAIN g /\ g[s] = B!Cardinality(A2)
      BY <1>1, <1>2
    <2> QED
      BY <2>1 DEF B!Tallied
  <1>3. CASE s \notin Seen
    <2>1. A2 = {}
      BY <1>3
    <2>2. B!Cardinality(A2) = 0
      BY <2>1, CardIs, FS_EmptySet
    <2>3. s \notin DOMAIN g
      BY <1>1, <1>3
    <2> QED
      BY <2>2, <2>3 DEF B!Tallied
  <1> QED
    BY <1>2, <1>3

LEMMA PageOfRider ==
    ASSUME NEW r \in Riders
    PROVE  LET d == B!RiderDetail(r)
               row == B!RiderRow(r)
           IN  /\ B!Tallied(d.rides, "COMPLETED") = row.totalTrips
               /\ B!Tallied(d.deliveriesSent, "COMPLETED") = row.totalDeliveries
               /\ d.activeRides \subseteq B!Activity(r).ongoing
  <1> DEFINE A(kind) == {i \in B!Rows(kind) : trips[i].rider = r}
             Over(kind) == {i \in A(kind) : trips[i].status = "COMPLETED"}
             done == {i \in B!InStatus(DOMAIN trips, {"COMPLETED"}) : trips[i].rider = r}
  <1>1. \A kind : Over(kind) = done \cap B!Rows(kind)
    BY DEF B!InStatus, B!Rows
  <1>2. \A kind : B!Tallied(B!Tally(A(kind)), "COMPLETED") = B!Cardinality(Over(kind))
    BY TallyIs
  <1>3. B!InStatus(A("RIDE"), B!Active) \subseteq B!Activity(r).ongoing
    BY DEF B!InStatus, B!Rows, B!Activity, B!Active, B!Ongoing
  <1>4. /\ B!RiderDetail(r).rides = B!Tally(A("RIDE"))
        /\ B!RiderDetail(r).deliveriesSent = B!Tally(A("DELIVERY"))
        /\ B!RiderDetail(r).activeRides = B!InStatus(A("RIDE"), B!Active)
    BY DEF B!RiderDetail
  <1>5. /\ B!RiderRow(r).totalTrips = B!Cardinality(done \cap B!Rows("RIDE"))
        /\ B!RiderRow(r).totalDeliveries = B!Cardinality(done \cap B!Rows("DELIVERY"))
    BY DEF B!RiderRow
  <1> HIDE DEF A, Over, done
  <1> QED
    BY <1>1, <1>2, <1>3, <1>4, <1>5

LEMMA PageOfDriver ==
    ASSUME NEW d \in Drivers
    PROVE  LET detail == B!DriverDetail(d)
               taken == B!DriverWithdrawals(d)
           IN  /\ B!Tallied(detail.rides, "COMPLETED") + B!Tallied(detail.deliveries, "COMPLETED") = B!TripCount(d)
               /\ detail.withdrawals["PENDING"] = taken.pendingAmount
               /\ detail.withdrawals["COMPLETED"] = taken.totalWithdrawn
  <1> DEFINE A(kind) == {i \in B!Rows(kind) : trips[i].driver = d}
             Over(kind) == {i \in A(kind) : trips[i].status = "COMPLETED"}
             Done2(kind) == {i \in B!InStatus(B!Rows(kind), {"COMPLETED"}) : trips[i].driver = d}
             W == [s \in {"PENDING", "COMPLETED", "FAILED"} |-> B!AmountOf(B!Requests(s, {d}))]
  <1>1. \A kind : Over(kind) = Done2(kind)
    BY DEF B!InStatus
  <1>2. \A kind : B!Tallied(B!Tally(A(kind)), "COMPLETED") = B!Cardinality(Over(kind))
    BY TallyIs
  <1>3. /\ B!DriverDetail(d).rides = B!Tally(A("RIDE"))
        /\ B!DriverDetail(d).deliveries = B!Tally(A("DELIVERY"))
        /\ B!DriverDetail(d).withdrawals = W
    BY DEF B!DriverDetail
  <1>4. B!TripCount(d) = B!Cardinality(Done2("RIDE")) + B!Cardinality(Done2("DELIVERY"))
    BY DEF B!TripCount
  <1>5. /\ W["PENDING"] = B!AmountOf(B!Requests("PENDING", {d}))
        /\ W["COMPLETED"] = B!AmountOf(B!Requests("COMPLETED", {d}))
    OBVIOUS
  <1>6. /\ B!DriverWithdrawals(d).pendingAmount = B!AmountOf(B!Requests("PENDING", {d}))
        /\ B!DriverWithdrawals(d).totalWithdrawn = B!AmountOf(B!Requests("COMPLETED", {d}))
    BY DEF B!DriverWithdrawals
  <1> HIDE DEF A, Over, Done2, W
  <1> QED
    BY <1>1, <1>2, <1>3, <1>4, <1>5, <1>6

\* The payment behind a ride.
LEMMA PaymentShown ==
    ASSUME BooksInv, LinksInv, NEW i \in B!Rows("RIDE")
    PROVE  B!RideDetail(i).transaction # {} <=> trips[i].status = "COMPLETED" /\ trips[i].method = "WALLET"
  <1>1. i \in DOMAIN trips /\ trips[i].kind = "RIDE"
    BY DEF B!Rows
  <1>2. TripOK(i, trips[i]) /\ TripLinked(trips[i], posted)
    BY <1>1, BooksNow DEF TripsOK, LinksInv, LinksOK
  <1>3. trips[i].tx = IF trips[i].status = "COMPLETED" /\ trips[i].method = "WALLET"
                      THEN <<"trip", i>> ELSE B!NoLink
    BY <1>1, <1>2 DEF TripOK, TripLinked
  <1>4. \A tx \in posted : tx.ref # B!NoLink
    BY BooksNow, RefsAre
  <1>5. <<"trip", i>> # B!NoLink
    BY DEF B!NoLink
  <1>6. B!RideDetail(i).transaction = {tx \in posted : tx.ref = trips[i].tx}
    BY DEF B!RideDetail
  <1>7. CASE trips[i].status = "COMPLETED" /\ trips[i].method = "WALLET"
    <2>1. trips[i].tx # B!NoLink
      BY <1>3, <1>5, <1>7
    <2>2. \E tx \in posted : tx.ref = trips[i].tx
      BY <1>2, <2>1 DEF TripLinked
    <2> QED
      BY <1>6, <1>7, <2>2
  <1>8. CASE ~ (trips[i].status = "COMPLETED" /\ trips[i].method = "WALLET")
    <2>1. trips[i].tx = B!NoLink
      BY <1>3, <1>8
    <2> QED
      BY <1>4, <1>6, <1>8, <2>1
  <1> QED
    BY <1>7, <1>8

\* What a driver earned with one ride is part of what the rides earned.
LEMMA EarningsShown ==
    ASSUME BooksInv, NEW i \in B!Rows("RIDE")
    PROVE  B!RideDetail(i).driverEarnings <= IF trips[i].driver \in Drivers
                  THEN B!DriverHistory(trips[i].driver, "RIDE").totalEarnings ELSE 0
  <1> DEFINE d == trips[i].driver
             S == B!InStatus({k \in B!Rows("RIDE") : trips[k].driver = d}, {"COMPLETED"})
             net == [k \in DOMAIN trips |-> TripFare[k] - TripCommission[k]]
             mine == FareOf["RIDE"].total - FareOf["RIDE"].commission
  <1>1. i \in DOMAIN trips /\ trips[i].kind = "RIDE" /\ S \in SUBSET DOMAIN trips
        /\ (trips[i].status = "COMPLETED" => d \in Drivers /\ i \in S)
    BY TripFacts DEF B!Rows, B!InStatus
  <1>2. \A k \in DOMAIN trips : /\ net[k] \in Nat /\ net[k] + TripCommission[k] = TripFare[k]
                                /\ TripFare[k] \in Nat /\ TripCommission[k] \in Nat
    BY TripsFinite
  <1>3. net[i] = mine
    BY <1>1 DEF TripFare, TripCommission
  <1>4. B!RideDetail(i).driverEarnings = IF trips[i].status = "COMPLETED" THEN mine ELSE 0
    BY DEF B!RideDetail
  <1>5. B!DriverHistory(d, "RIDE").totalEarnings = B!Fares(S) - B!Commissions(S)
    BY DEF B!DriverHistory, B!HistorySummary
  <1> HIDE DEF S, net, mine, d
  <1>6. /\ IsFiniteSet(S) /\ B!Fares(S) = SumFunctionOnSet(TripFare, S)
        /\ B!Commissions(S) = SumFunctionOnSet(TripCommission, S)
        /\ B!Fares(S) \in Int /\ B!Commissions(S) \in Int
        /\ Ints(TripCommission, S)
    BY <1>1, Measures
  <1>7. Ints(net, S) /\ \A k \in S : net[k] \in Nat /\ TripFare[k] = net[k] + TripCommission[k]
    BY <1>1, <1>2 DEF Ints
  <1>8. B!Fares(S) = SumFunctionOnSet(net, S) + B!Commissions(S) /\ SumFunctionOnSet(net, S) \in Nat
    BY <1>6, <1>7, SumPlus, SumPositive
  <1>9. B!DriverHistory(d, "RIDE").totalEarnings = SumFunctionOnSet(net, S)
    BY <1>5, <1>6, <1>8
  <1>10. CASE trips[i].status = "COMPLETED"
    <2>1. i \in S /\ d \in Drivers
      BY <1>1, <1>10
    <2>2. SumFunctionOnSet(net, S) = net[i] + SumFunctionOnSet(net, S \ {i})
      BY <1>6, <1>7, <2>1, SumRemove
    <2>3. SumFunctionOnSet(net, S \ {i}) \in Nat
      <3>1. IsFiniteSet(S \ {i}) /\ \A k \in S \ {i} : net[k] \in Nat
        BY <1>6, <1>7, FS_Subset
      <3> QED
        BY <3>1, SumPositive
    <2>4. net[i] \in Nat
      BY <1>7, <2>1
    <2>5. B!RideDetail(i).driverEarnings <= SumFunctionOnSet(net, S)
      BY <1>3, <1>4, <1>10, <2>2, <2>3, <2>4
    <2> QED
      BY <1>9, <2>1, <2>5 DEF d
  <1>11. CASE trips[i].status # "COMPLETED"
    <2>1. B!RideDetail(i).driverEarnings = 0
      BY <1>4, <1>11
    <2> QED
      BY <1>8, <1>9, <2>1 DEF d
  <1> QED
    BY <1>10, <1>11

LEMMA ListsShown ==
    /\ B!Cardinality(B!ListRides("COMPLETED", {today})) = B!RidesReport({today}).completedRides
    /\ B!Cardinality(B!ListDeliveries("COMPLETED", {today})) = B!LogisticsReport({today}).completed
  <1>1. B!ListRides("COMPLETED", {today}) = B!InStatus(B!RequestedIn("RIDE", {today}), {"COMPLETED"})
    BY DEF B!ListRides, B!Listed, B!InStatus, B!RequestedIn
  <1>2. B!ListDeliveries("COMPLETED", {today}) = B!InStatus(B!RequestedIn("DELIVERY", {today}), {"COMPLETED"})
    BY DEF B!ListDeliveries, B!Listed, B!InStatus, B!RequestedIn
  <1> QED
    BY <1>1, <1>2 DEF B!RidesReport, B!LogisticsReport, B!CountOf

LEMMA CompaniesShown ==
    ASSUME BooksInv
    PROVE  LET export == B!ExportBusinesses
           IN  /\ export.outstanding = B!TotalOutstanding
               /\ export.total = export.overdue + export.onCredit + B!Cardinality(B!ListBusinesses("NO_CREDIT"))
  <1> DEFINE A(s) == B!ListBusinesses(s)
             Rest == Businesses \ A("OVERDUE")
  <1>1. B!ExportBusinesses.outstanding = B!TotalOutstanding
    BY DEF B!ExportBusinesses, B!TotalOutstanding, B!Outstanding
  <1>2. \A b \in Businesses : B!CreditStatus(b) \in {"OVERDUE", "ON_CREDIT", "NO_CREDIT"}
    BY DEF B!CreditStatus
  <1>3. /\ \A x : x \in Businesses <=> x \in A("OVERDUE") \/ x \in Rest
        /\ \A x \in A("OVERDUE") : x \notin Rest
        /\ \A x : x \in Rest <=> x \in A("ON_CREDIT") \/ x \in A("NO_CREDIT")
        /\ \A x \in A("ON_CREDIT") : x \notin A("NO_CREDIT")
    BY <1>2 DEF B!ListBusinesses
  <1>4. /\ B!ExportBusinesses.total = B!Cardinality(Businesses)
        /\ B!ExportBusinesses.overdue = B!Cardinality(A("OVERDUE"))
        /\ B!ExportBusinesses.onCredit = B!Cardinality(A("ON_CREDIT"))
    BY DEF B!ExportBusinesses
  <1>5. IsFiniteSet(Businesses) /\ IsFiniteSet(Rest)
    BY BooksConstants, FS_Subset
  <1> HIDE DEF A, Rest
  <1>6. /\ Cardinality(Businesses) = Cardinality(A("OVERDUE")) + Cardinality(Rest)
        /\ Cardinality(A("OVERDUE")) \in Nat /\ Cardinality(Rest) \in Nat
    <2> DEFINE Late == A("OVERDUE")
    <2>1. /\ \A x : x \in Businesses <=> x \in Late \/ x \in Rest
          /\ \A x \in Late : x \notin Rest
      BY <1>3
    <2> HIDE DEF Late
    <2>2. /\ Cardinality(Businesses) = Cardinality(Late) + Cardinality(Rest)
          /\ Cardinality(Late) \in Nat /\ Cardinality(Rest) \in Nat
      BY <1>5, <2>1, CountParts
    <2> QED
      BY <2>2 DEF Late
  <1>7. /\ Cardinality(Rest) = Cardinality(A("ON_CREDIT")) + Cardinality(A("NO_CREDIT"))
        /\ Cardinality(A("ON_CREDIT")) \in Nat /\ Cardinality(A("NO_CREDIT")) \in Nat
    BY <1>3, <1>5, CountParts
  <1>8. B!ExportBusinesses.total = B!ExportBusinesses.overdue + B!ExportBusinesses.onCredit + B!Cardinality(A("NO_CREDIT"))
    BY <1>4, <1>6, <1>7, CardIs
  <1> QED
    BY <1>1, <1>8 DEF A

LEMMA CompanyShown ==
    ASSUME BooksInv, NEW b \in Businesses
    PROVE  B!BusinessDetail(b).outstanding = B!BusinessDetail(b).invoices["PENDING"]
  <1> DEFINE A(s) == {k \in DOMAIN invoices : invoices[k].business = b /\ invoices[k].status = s}
             g == [s \in {"PENDING", "PAID"} |-> B!InvoiceAmount(A(s))]
  <1>1. B!BusinessDetail(b).outstanding = B!Outstanding(b) /\ B!BusinessDetail(b).invoices = g
    BY DEF B!BusinessDetail
  <1>2. A("PENDING") = B!Unpaid(b)
    BY DEF B!Unpaid
  <1>3. g["PENDING"] = B!InvoiceAmount(A("PENDING"))
    OBVIOUS
  <1> HIDE DEF A, g
  <1> QED
    BY <1>1, <1>2, <1>3, CreditHolds

LEMMA DetailsHold ==
    ASSUME BooksInv, LinksInv
    PROVE  B!DetailsAgree(B!Finance)
  <1>1. B!Finance.driversOutstanding = B!Total([d \in Drivers |-> B!DriverDetail(d).outstandingCommission])
    BY DEF B!Finance, B!DriverDetail
  <1> QED
    BY <1>1, PageOfRider, PageOfDriver, PaymentShown, EarningsShown, ListsShown, CompaniesShown, CompanyShown
       DEF B!DetailsAgree

LEMMA FiguresHold ==
    ASSUME BooksInv, LinksInv
    PROVE  B!FiguresAgree
  BY RevenuesHold, TripsHold, QueuesHold, DetailsHold DEF B!FiguresAgree

\* The invariant is about rows and postings alone.
LEMMA LinksStay ==
    ASSUME LinksInv, UNCHANGED bookVars
    PROVE  LinksInv'
  BY DEF LinksInv, bookVars

-----------------------------------------------------------------------------
(* Charts: the calendar.                                                   *)

LEMMA ChartCardIs == \A S : C!Cardinality(S) = Cardinality(S)
  BY DEF C!Cardinality, Cardinality, C!IsFiniteSet, IsFiniteSet

LEMMA ChartSumIs == \A s : C!Sum(s) = SumFunctionOnSet(s, DOMAIN s)
  BY DEF C!Sum, C!MapThenSumSet, C!MapThenFoldSet,
         SumFunctionOnSet, FoldFunctionOnSet, MapThenFoldSet

LEMMA TwelveMonths ==
    ASSUME NEW m \in Nat
    PROVE  /\ m \div 12 \in Nat /\ m % 12 \in 0 .. 11 /\ m = 12 * (m \div 12) + (m % 12)
           /\ m % 12 < 11 => (m + 1) \div 12 = m \div 12 /\ (m + 1) % 12 = (m % 12) + 1
           /\ m % 12 = 11 => (m + 1) \div 12 = m \div 12 + 1 /\ (m + 1) % 12 = 0
  OBVIOUS

LEMMA MonthsInYear ==
    /\ \A r \in 0 .. 11 : C!BeforeMonth[r + 1] \in Nat
    /\ \A r \in 0 .. 10 : C!BeforeMonth[r + 1] + 28 <= C!BeforeMonth[r + 2]
    /\ C!BeforeMonth[1] = 0 /\ C!BeforeMonth[12] = 334
  <1>1. \A r \in 0 .. 11 : r \in {0, 1, 2, 3, 4, 5, 6, 7, 8, 9, 10, 11}
    OBVIOUS
  <1> QED
    BY <1>1 DEF C!BeforeMonth

\* The leap days before a month.
LeapDays(year, month) == {y \in 0 .. year : C!Leap(BaseYear + y) /\ (y < year \/ month > 1)}

LEMMA LeapDaysFinite ==
    ASSUME NEW year \in Nat, NEW month
    PROVE  IsFiniteSet(LeapDays(year, month)) /\ Cardinality(LeapDays(year, month)) \in Nat
  <1>1. IsFiniteSet(0 .. year)
    BY FS_Interval
  <1>2. LeapDays(year, month) \subseteq 0 .. year
    BY DEF LeapDays
  <1> QED
    BY <1>1, <1>2, FS_Subset, FS_CardinalityType

LEMMA FirstDayIs ==
    ASSUME NEW m \in Nat
    PROVE  /\ C!FirstDay(m) = 365 * (m \div 12) + C!BeforeMonth[(m % 12) + 1]
                                  + Cardinality(LeapDays(m \div 12, m % 12))
           /\ C!FirstDay(m) \in Nat
  <1>1. m \div 12 \in Nat /\ m % 12 \in 0 .. 11
    BY TwelveMonths
  <1>2. Cardinality(LeapDays(m \div 12, m % 12)) \in Nat
    BY <1>1, LeapDaysFinite
  <1>3. C!FirstDay(m) = 365 * (m \div 12) + C!BeforeMonth[(m % 12) + 1]
                                  + Cardinality(LeapDays(m \div 12, m % 12))
    BY ChartCardIs DEF C!FirstDay, LeapDays
  <1>4. C!BeforeMonth[(m % 12) + 1] \in Nat
    BY <1>1, MonthsInYear
  <1> QED
    BY <1>1, <1>2, <1>3, <1>4

\* A month has days.
LEMMA MonthHasDays ==
    ASSUME NEW m \in Nat
    PROVE  C!FirstDay(m) < C!FirstDay(m + 1)
  <1> DEFINE y == m \div 12
             r == m % 12
             b(k) == C!BeforeMonth[k]
             n(z, k) == Cardinality(LeapDays(z, k))
  <1>1. y \in Nat /\ r \in 0 .. 11
    BY TwelveMonths
  <1>2. m + 1 \in Nat
    OBVIOUS
  <1>3. C!FirstDay(m) = 365 * y + b(r + 1) + n(y, r)
    BY ZenonT(60), FirstDayIs
  <1>4. CASE r < 11
    <2>1. (m + 1) \div 12 = y /\ (m + 1) % 12 = r + 1
      BY <1>4, TwelveMonths
    <2>2. C!FirstDay(m + 1) = 365 * y + b(r + 2) + n(y, r + 1)
      <3>1. C!FirstDay(m + 1) = 365 * y + b((r + 1) + 1) + n(y, r + 1)
        BY ZenonT(60), <1>2, <2>1, FirstDayIs
      <3>2. (r + 1) + 1 = r + 2
        BY <1>1
      <3> QED
        BY <3>1, <3>2
    <2>3. LeapDays(y, r) \subseteq LeapDays(y, r + 1)
      BY <1>1 DEF LeapDays
    <2>4. n(y, r) \in Nat /\ n(y, r + 1) \in Nat /\ n(y, r) <= n(y, r + 1)
      BY <1>1, <2>3, LeapDaysFinite, FS_Subset
    <2>5. b(r + 1) \in Nat /\ b(r + 2) \in Nat /\ b(r + 1) + 28 <= b(r + 2)
      <3>1. r + 1 \in 0 .. 11 /\ r \in 0 .. 10 /\ (r + 1) + 1 = r + 2
        BY <1>1, <1>4
      <3> QED
        BY <3>1, MonthsInYear
    <2> HIDE DEF y, r, b, n
    <2> QED
      BY <1>1, <1>3, <2>2, <2>4, <2>5
  <1>5. CASE r = 11
    <2>1. (m + 1) \div 12 = y + 1 /\ (m + 1) % 12 = 0
      BY <1>5, TwelveMonths
    <2>2. C!FirstDay(m + 1) = 365 * (y + 1) + b(0 + 1) + n(y + 1, 0)
      BY ZenonT(60), <1>2, <2>1, FirstDayIs
    <2>3. LeapDays(y, r) = LeapDays(y + 1, 0)
      BY <1>1, <1>5 DEF LeapDays
    <2>4. n(y, r) \in Nat /\ n(y, r) = n(y + 1, 0)
      BY <1>1, <2>3, LeapDaysFinite
    <2>5. b(0 + 1) = 0 /\ b(r + 1) = 334
      BY <1>5, MonthsInYear
    <2> HIDE DEF y, r, b, n
    <2> QED
      BY <1>1, <1>3, <2>2, <2>4, <2>5
  <1> QED
    BY <1>1, <1>4, <1>5

\* What grows with each step grows.
LEMMA Grows ==
    ASSUME NEW a \in Int, NEW f, NEW j \in Int,
           \A i \in a .. j : f[i] \in Int, \A i \in a .. j - 1 : f[i] < f[i + 1]
    PROVE  \A i \in a .. j - 1 : f[i] < f[j]
  <1> DEFINE Bad == {i \in a .. j - 1 : ~ (f[i] < f[j])}
  <1>1. SUFFICES ASSUME Bad # {} PROVE FALSE
    OBVIOUS
  <1>2. IsFiniteSet(Bad) /\ Bad \subseteq Int
    <2>1. IsFiniteSet(a .. j - 1)
      BY FS_Interval
    <2> QED
      BY <2>1, FS_Subset
  <1>3. PICK i \in Bad : \A k \in Bad : k <= i
    <2> HIDE DEF Bad
    <2> QED
      BY <1>1, <1>2, HasLargest
  <1>4. i \in a .. j - 1 /\ f[i] < f[i + 1] /\ ~ (f[i] < f[j]) /\ f[i] \in Int /\ f[j] \in Int /\ f[i + 1] \in Int
    <2>1. i \in a .. j - 1 /\ i \in a .. j /\ i + 1 \in a .. j /\ j \in a .. j /\ ~ (f[i] < f[j])
      OBVIOUS
    <2> HIDE DEF Bad
    <2> QED
      BY <2>1
  <1>5. i + 1 # j
    BY <1>4
  <1>6. i + 1 \in Bad
    <2>1. i + 1 \in a .. j - 1
      BY <1>4, <1>5
    <2>2. ~ (f[i + 1] < f[j])
      BY <1>4
    <2> QED
      BY <2>1, <2>2
  <1>7. i + 1 <= i
    BY <1>3, <1>6
  <1> QED
    BY <1>4, <1>7

\* Among things that grow there is a last one up to a limit.
LEMMA LastUpTo ==
    ASSUME NEW a \in Int, NEW j \in Int, NEW f, \A i \in a .. j : f[i] \in Int, NEW x \in Int,
           a < j, f[a] <= x, x < f[j]
    PROVE  \E i \in a .. j - 1 : f[i] <= x /\ x < f[i + 1]
  <1> DEFINE Low == {i \in a .. j - 1 : f[i] <= x}
  <1>1. IsFiniteSet(Low) /\ Low \subseteq Int /\ a \in Low
    <2>1. IsFiniteSet(a .. j - 1)
      BY FS_Interval
    <2> QED
      BY <2>1, FS_Subset
  <1>2. PICK i \in Low : \A k \in Low : k <= i
    <2> HIDE DEF Low
    <2> QED
      BY <1>1, HasLargest
  <1>3. i \in a .. j - 1 /\ f[i] <= x
    OBVIOUS
  <1>4. CASE i + 1 = j
    BY <1>3, <1>4
  <1>5. CASE i + 1 # j
    <2>1. i + 1 \in a .. j - 1 /\ i + 1 \in a .. j
      BY <1>3, <1>5
    <2>2. i + 1 \notin Low
      <3>1. ~ (i + 1 <= i)
        BY <1>3
      <3> HIDE DEF Low
      <3> QED
        BY <1>2, <3>1
    <2>3. ~ (f[i + 1] <= x) /\ f[i + 1] \in Int
      BY <2>1, <2>2
    <2> QED
      BY <1>3, <2>3
  <1> QED
    BY <1>4, <1>5

LEMMA MonthsFollow ==
    ASSUME NEW m \in Nat, NEW k \in Nat, m < k
    PROVE  C!FirstDay(m) < C!FirstDay(k)
  <1> DEFINE f == [i \in 0 .. k |-> C!FirstDay(i)]
  <1>1. \A i \in 0 .. k : i \in Nat /\ f[i] = C!FirstDay(i) /\ f[i] \in Int
    BY FirstDayIs
  <1>2. \A i \in 0 .. k - 1 : f[i] < f[i + 1]
    <2> TAKE i \in 0 .. k - 1
    <2>1. i \in 0 .. k /\ i + 1 \in 0 .. k /\ i \in Nat
      OBVIOUS
    <2> HIDE DEF f
    <2> QED
      BY <1>1, <2>1, MonthHasDays
  <1>3. m \in 0 .. k - 1 /\ m \in 0 .. k /\ k \in 0 .. k
    OBVIOUS
  <1>4. \A i \in 0 .. k : f[i] \in Int
    BY <1>1
  <1> HIDE DEF f
  <1>5. 0 \in Int /\ k \in Int
    OBVIOUS
  <1>6. \A i \in 0 .. k - 1 : f[i] < f[k]
    BY Zenon, <1>2, <1>4, <1>5, Grows
  <1> QED
    BY <1>1, <1>3, <1>6

LEMMA YearsBegin == C!FirstDay(0) = 0
  <1>1. 0 \div 12 = 0 /\ 0 % 12 = 0
    BY TwelveMonths
  <1>2. LeapDays(0, 0) = {}
    BY DEF LeapDays
  <1>3. C!FirstDay(0) = 365 * 0 + C!BeforeMonth[0 + 1] + Cardinality(LeapDays(0, 0))
    BY <1>1, FirstDayIs
  <1>4. C!BeforeMonth[0 + 1] = 0
    BY MonthsInYear
  <1>5. Cardinality(LeapDays(0, 0)) = 0
    BY <1>2, FS_EmptySet
  <1> QED
    BY <1>3, <1>4, <1>5

\* An instant within the years has its month, and no other.
InMonth(h, m) == C!FirstDay(m) <= C!DayOf(h) /\ C!DayOf(h) < C!FirstDay(m + 1)

LEMMA OneMonth ==
    ASSUME NEW h \in Nat, NEW m \in Nat, NEW k \in Nat, InMonth(h, m), InMonth(h, k)
    PROVE  m = k
  <1>0. C!DayOf(h) \in Nat
    BY DEF C!DayOf
  <1>1. ASSUME NEW i \in Nat, NEW j \in Nat, i < j, InMonth(h, i), InMonth(h, j) PROVE FALSE
    <2>1. i + 1 \in Nat /\ (i + 1 = j \/ i + 1 < j)
      BY <1>1
    <2>2. C!FirstDay(i + 1) \in Nat /\ C!FirstDay(j) \in Nat
      BY <2>1, FirstDayIs
    <2>3. C!FirstDay(i + 1) <= C!FirstDay(j)
      <3>1. CASE i + 1 = j
        BY <2>2, <3>1
      <3>2. CASE i + 1 < j
        BY <2>1, <2>2, <3>2, MonthsFollow
      <3> QED
        BY <2>1, <3>1, <3>2
    <2> QED
      BY <1>0, <1>1, <2>2, <2>3 DEF InMonth
  <1>2. m = k \/ m < k \/ k < m
    OBVIOUS
  <1> QED
    BY <1>1, <1>2

LEMMA MonthIs ==
    ASSUME Years \in Nat, NEW h \in Nat, C!DayOf(h) < C!FirstDay(12 * Years)
    PROVE  /\ C!MonthOf(h) \in 0 .. 12 * Years - 1 /\ InMonth(h, C!MonthOf(h))
           /\ \A m \in Nat : C!MonthOf(h) = m <=> InMonth(h, m)
  <1> DEFINE j == 12 * Years
             f == [i \in 0 .. j |-> C!FirstDay(i)]
             x == C!DayOf(h)
  <1>1. j \in Nat /\ x \in Nat
    BY DEF C!DayOf
  <1>2. \A i \in 0 .. j : i \in Nat /\ f[i] = C!FirstDay(i) /\ f[i] \in Int
    BY FirstDayIs
  <1>3. x < C!FirstDay(j)
    OBVIOUS
  <1>4. 0 < j
    <2>1. j # 0
      <3> HIDE DEF j
      <3> QED
        BY <1>1, <1>3, YearsBegin
    <2> HIDE DEF j
    <2> QED
      BY <1>1, <2>1
  <1> HIDE DEF j, f, x
  <1>5. 0 \in 0 .. j /\ j \in 0 .. j
    BY <1>1
  <1>6. f[0] <= x /\ x < f[j]
    BY <1>1, <1>2, <1>3, <1>5, YearsBegin
  <1>7. PICK m \in 0 .. j - 1 : f[m] <= x /\ x < f[m + 1]
    BY <1>1, <1>2, <1>4, <1>6, LastUpTo
  <1>8. m \in 0 .. j /\ m + 1 \in 0 .. j /\ m \in Nat
    BY <1>1, <1>7
  <1>9. \E k \in 0 .. 12 * Years - 1 : C!FirstDay(k) <= C!DayOf(h) /\ C!DayOf(h) < C!FirstDay(k + 1)
    BY <1>2, <1>7, <1>8 DEF j, x
  <1>10. C!MonthOf(h) \in 0 .. 12 * Years - 1 /\ InMonth(h, C!MonthOf(h))
    BY <1>9 DEF C!MonthOf, InMonth
  <1>11. C!MonthOf(h) \in Nat
    BY <1>10
  <1> QED
    BY <1>10, <1>11, OneMonth

-----------------------------------------------------------------------------
(* Charts: the invariant.  What is over is before now, and there is time   *)
(* left until the years end.                                               *)

TimeLeft == MaxTicks - ticks
LongestTick(longest) ==
    /\ longest \in Nat /\ \A hours \in Ticks : hours <= longest
    /\ now + TimeLeft * longest < 24 * C!FirstDay(12 * Years)
ChartsInv ==
    /\ now \in Nat /\ ticks \in 0 .. MaxTicks
    /\ IsFiniteSet(rows) /\ rows \subseteq 0 .. now
    /\ 24 * C!FirstDay(12) <= now
    /\ \E longest \in Nat : LongestTick(longest)

LEMMA ChartsConstants ==
    /\ BaseYear \in Nat /\ Years \in Nat /\ MaxTicks \in Nat
    /\ Starts \subseteq Nat /\ Ticks \subseteq Nat
    /\ \E longest \in Ticks : \A hours \in Ticks, d \in Starts :
          hours <= longest /\ C!FirstDay(12) <= d
              /\ 24 * d + MaxTicks * longest < 24 * C!FirstDay(12 * Years)
  BY OfficeAssumption DEF C!ChartsAssumption

LEMMA ChartsInit ==
    ASSUME C!Init
    PROVE  ChartsInv
  <1>1. PICK d \in Starts : now = 24 * d
    BY DEF C!Init, C!Openings
  <1>2. rows = {} /\ ticks = 0
    BY DEF C!Init
  <1>3. PICK longest \in Ticks : \A hours \in Ticks, d2 \in Starts :
            hours <= longest /\ C!FirstDay(12) <= d2
                /\ 24 * d2 + MaxTicks * longest < 24 * C!FirstDay(12 * Years)
    BY ChartsConstants
  <1>4. d \in Nat /\ longest \in Nat /\ MaxTicks \in Nat /\ C!FirstDay(12) \in Nat
    BY ChartsConstants, FirstDayIs
  <1>5. C!FirstDay(12) <= d /\ 24 * d + MaxTicks * longest < 24 * C!FirstDay(12 * Years)
        /\ \A hours \in Ticks : hours <= longest
    BY <1>1, <1>3
  <1>6. TimeLeft = MaxTicks
    BY <1>2, <1>4 DEF TimeLeft
  <1>7. LongestTick(longest)
    BY <1>1, <1>4, <1>5, <1>6 DEF LongestTick
  <1>8. now \in Nat /\ 24 * C!FirstDay(12) <= now /\ ticks \in 0 .. MaxTicks
    BY <1>1, <1>2, <1>4, <1>5
  <1> QED
    BY <1>2, <1>4, <1>7, <1>8, FS_EmptySet DEF ChartsInv

LEMMA ChartsNext ==
    ASSUME ChartsInv, C!Next
    PROVE  ChartsInv'
  <1>0. MaxTicks \in Nat /\ Ticks \subseteq Nat
    BY ChartsConstants
  <1>1. PICK longest \in Nat : LongestTick(longest)
    BY DEF ChartsInv
  <1>2. CASE C!Happen
    <2>1. rows' = rows \cup {now} /\ UNCHANGED <<now, ticks>>
      BY <1>2 DEF C!Happen
    <2>2. IsFiniteSet(rows') /\ rows' \subseteq 0 .. now'
      BY <2>1, FS_AddElement DEF ChartsInv
    <2>3. LongestTick(longest)'
      BY <1>1, <2>1 DEF LongestTick, TimeLeft
    <2> QED
      BY <1>1, <2>1, <2>2, <2>3 DEF ChartsInv
  <1>3. ASSUME NEW hours \in Ticks, C!Pass(hours) PROVE ChartsInv'
    <2>1. ticks < MaxTicks /\ now' = now + hours /\ ticks' = ticks + 1 /\ rows' = rows
      BY <1>3 DEF C!Pass
    <2>2. now \in Nat /\ hours \in Nat /\ ticks \in 0 .. MaxTicks /\ rows \subseteq 0 .. now
          /\ 24 * C!FirstDay(12) <= now /\ IsFiniteSet(rows) /\ C!FirstDay(12) \in Nat
      BY <1>0, FirstDayIs DEF ChartsInv
    <2>3. now' \in Nat /\ ticks' \in 0 .. MaxTicks /\ rows' \subseteq 0 .. now' /\ 24 * C!FirstDay(12) <= now'
      BY <1>0, <2>1, <2>2
    <2>4. hours <= longest /\ now + TimeLeft * longest < 24 * C!FirstDay(12 * Years)
      BY <1>1 DEF LongestTick
    <2>5. TimeLeft \in Nat /\ TimeLeft' \in Nat /\ TimeLeft' = TimeLeft - 1
      BY <1>0, <2>1, <2>2 DEF TimeLeft
    <2>6. TimeLeft' * longest = TimeLeft * longest - longest /\ TimeLeft * longest \in Nat
      BY <2>5
    <2>7. 12 * Years \in Nat
      BY ChartsConstants
    <2>8. C!FirstDay(12 * Years) \in Nat
      BY <2>7, FirstDayIs
    <2>9. now' + TimeLeft' * longest < 24 * C!FirstDay(12 * Years)
      <3> DEFINE p == TimeLeft * longest
                 q == TimeLeft' * longest
      <3>1. p \in Nat /\ q = p - longest /\ now + p < 24 * C!FirstDay(12 * Years)
        BY <2>4, <2>6
      <3> HIDE DEF p, q
      <3>2. now' + q < 24 * C!FirstDay(12 * Years)
        BY <2>1, <2>2, <2>4, <2>8, <3>1
      <3> QED
        BY <3>2 DEF q
    <2>10. LongestTick(longest)'
      BY <1>1, <2>9 DEF LongestTick
    <2> QED
      BY <2>1, <2>2, <2>3, <2>10 DEF ChartsInv
  <1> QED
    BY <1>2, <1>3 DEF C!Next

-----------------------------------------------------------------------------
(* Charts: the buckets.                                                    *)

LEMMA CountsAre ==
    ASSUME NEW range \in C!Ranges
    PROVE  /\ C!Count(range) \in 1 .. 30
           /\ \/ range = "day" /\ C!Unit(range) = "hour" /\ C!Count(range) = 24
              \/ range = "7days" /\ C!Unit(range) = "day" /\ C!Count(range) = 7
              \/ range = "month" /\ C!Unit(range) = "day" /\ C!Count(range) = 30
              \/ range = "6months" /\ C!Unit(range) = "month" /\ C!Count(range) = 6
              \/ range = "year" /\ C!Unit(range) = "month" /\ C!Count(range) = 12
  BY DEF C!Ranges, C!Count, C!Unit

LEMMA BucketIs ==
    ASSUME ChartsInv, NEW range \in C!Ranges, NEW i \in 1 .. C!Count(range)
    PROVE  LET b == C!BuildBuckets(range)[i]
               n == C!Count(range)
               first == C!MonthOf(now) - (n - 1)
           IN  /\ C!Unit(range) = "hour" => b.start = C!StartOfDay + (i - 1) /\ b.end = C!StartOfDay + i
               /\ C!Unit(range) = "day" => /\ b.start = C!StartOfDay - (n - 1) * 24 + (i - 1) * 24
                                           /\ b.end = C!StartOfDay - (n - 1) * 24 + i * 24
               /\ C!Unit(range) = "month" => /\ b.start = 24 * C!FirstDay(first + i - 1)
                                             /\ b.end = 24 * C!FirstDay(first + i)
  <1> DEFINE n == C!Count(range)
             step == IF C!Unit(range) = "hour" THEN 1 ELSE 24
             anchor == IF C!Unit(range) = "hour" THEN C!StartOfDay ELSE C!StartOfDay - (n - 1) * step
             first == C!MonthOf(now) - (n - 1)
             b == C!BuildBuckets(range)[i]
  <1>1. i \in 1 .. n
    OBVIOUS
  <1>2. b = IF C!Unit(range) = "month"
            THEN [start |-> 24 * C!FirstDay(first + i - 1), end |-> 24 * C!FirstDay(first + i)]
            ELSE [start |-> anchor + (i - 1) * step, end |-> anchor + i * step]
    BY <1>1 DEF C!BuildBuckets
  <1>3. i \in Int /\ C!StartOfDay \in Int
    BY DEF C!StartOfDay, C!DayOf, ChartsInv
  <1> HIDE DEF b, n
  <1>4. CASE C!Unit(range) = "hour"
    <2>1. b.start = C!StartOfDay + (i - 1) * 1 /\ b.end = C!StartOfDay + i * 1
      BY <1>2, <1>4
    <2>2. b.start = C!StartOfDay + (i - 1) /\ b.end = C!StartOfDay + i
      BY <1>3, <2>1
    <2> QED
      BY <1>4, <2>2 DEF b
  <1>5. CASE C!Unit(range) = "day"
    BY <1>2, <1>5 DEF b, n
  <1>6. CASE C!Unit(range) = "month"
    BY <1>2, <1>6 DEF b, n
  <1> QED
    BY <1>4, <1>5, <1>6, CountsAre

\* Today, its hours and its month.
LEMMA NowIs ==
    ASSUME ChartsInv
    PROVE  /\ now \in Nat /\ C!StartOfDay \in Nat /\ C!StartOfDay = 24 * C!DayOf(now)
           /\ C!StartOfDay <= now /\ now < C!StartOfDay + 24
           /\ C!MonthOf(now) \in Nat /\ 12 <= C!MonthOf(now) /\ C!MonthOf(now) < 12 * Years
           /\ 24 * C!FirstDay(C!MonthOf(now)) <= now /\ now < 24 * C!FirstDay(C!MonthOf(now) + 1)
           /\ \A h \in 0 .. now : h \in Nat /\ \A m \in Nat : C!MonthOf(h) = m <=> InMonth(h, m)
           /\ Years \in Nat /\ 334 <= C!DayOf(now)
  <1> DEFINE m == C!MonthOf(now)
             last == C!FirstDay(12 * Years)
  <1>1. now \in Nat /\ ticks \in 0 .. MaxTicks /\ 24 * C!FirstDay(12) <= now /\ Years \in Nat /\ MaxTicks \in Nat
    BY ChartsConstants DEF ChartsInv
  <1>2. PICK longest \in Nat : LongestTick(longest)
    BY DEF ChartsInv
  <1>3. TimeLeft * longest \in Nat
    BY <1>1 DEF TimeLeft
  <1>4. 12 * Years \in Nat
    BY <1>1
  <1>5. last \in Nat /\ C!FirstDay(12) \in Nat
    BY <1>4, FirstDayIs
  <1>6. now + TimeLeft * longest < 24 * last
    BY <1>2 DEF LongestTick
  <1> HIDE DEF last
  <1>7. now < 24 * last
    BY <1>1, <1>3, <1>5, <1>6
  <1>8. \A h \in 0 .. now : h \in Nat /\ C!DayOf(h) < last /\ C!DayOf(h) \in Nat
    BY <1>1, <1>5, <1>7 DEF C!DayOf
  <1>9. now \in 0 .. now
    BY <1>1
  <1>10. \A h \in 0 .. now : h \in Nat /\ \A k \in Nat : C!MonthOf(h) = k <=> InMonth(h, k)
    BY <1>1, <1>8, MonthIs DEF last
  <1>11. m \in 0 .. 12 * Years - 1 /\ InMonth(now, m)
    BY <1>1, <1>8, <1>9, MonthIs DEF last
  <1>12. m \in Nat /\ m < 12 * Years /\ m + 1 \in Nat
    BY <1>1, <1>11
  <1>13. C!FirstDay(12) <= C!DayOf(now) /\ C!DayOf(now) \in Nat
    BY <1>1, <1>5 DEF C!DayOf
  <1>14. C!FirstDay(m) \in Nat /\ C!FirstDay(m + 1) \in Nat
    BY <1>12, FirstDayIs
  <1>15. C!FirstDay(m) <= C!DayOf(now) /\ C!DayOf(now) < C!FirstDay(m + 1)
    BY <1>11 DEF InMonth
  <1> HIDE DEF m
  <1>16. 12 <= m
    <2>1. SUFFICES ASSUME m < 12 PROVE FALSE
      BY <1>12
    <2>2. m + 1 = 12 \/ m + 1 < 12
      BY <1>12, <2>1
    <2>3. C!FirstDay(m + 1) <= C!FirstDay(12)
      <3>1. CASE m + 1 = 12
        BY <1>5, <3>1
      <3>2. CASE m + 1 < 12
        BY <1>5, <1>12, <1>14, <3>2, MonthsFollow
      <3> QED
        BY <2>2, <3>1, <3>2
    <2> QED
      BY <1>5, <1>13, <1>14, <1>15, <2>3
  <1>17. 24 * C!FirstDay(m) <= now /\ now < 24 * C!FirstDay(m + 1)
    BY <1>1, <1>14, <1>15 DEF C!DayOf
  <1>18. /\ C!StartOfDay = 24 * C!DayOf(now) /\ C!StartOfDay \in Nat
         /\ C!StartOfDay <= now /\ now < C!StartOfDay + 24
    BY <1>1 DEF C!StartOfDay, C!DayOf
  <1>19. 334 <= C!FirstDay(12)
    <2>1. 12 \div 12 = 1 /\ 12 % 12 = 0
      BY TwelveMonths
    <2>2. C!FirstDay(12) = 365 * 1 + C!BeforeMonth[0 + 1] + Cardinality(LeapDays(1, 0))
      BY <2>1, FirstDayIs
    <2>3. C!BeforeMonth[0 + 1] = 0
      BY MonthsInYear
    <2>4. Cardinality(LeapDays(1, 0)) \in Nat
      BY LeapDaysFinite
    <2> QED
      BY <2>2, <2>3, <2>4
  <1>20. 334 <= C!DayOf(now)
    BY <1>5, <1>13, <1>19
  <1> QED
    BY <1>1, <1>10, <1>12, <1>16, <1>17, <1>18, <1>20 DEF m

\* What a chart's buckets are to each other, to now and to the keys of rows.
Divides(b, n, unit) ==
    /\ \A i \in 1 .. n : b[i].start \in Int /\ b[i].end \in Int /\ b[i].start < b[i].end
    /\ \A i \in 1 .. n - 1 : b[i].end = b[i + 1].start
    /\ b[1].start <= now /\ now < b[n].end
    /\ \A i \in 1 .. n, h \in 0 .. now :
          C!KeyOf(unit, h) = C!KeyOf(unit, b[i].start) <=> b[i].start <= h /\ h < b[i].end

LEMMA HoursDivide ==
    ASSUME ChartsInv, NEW range \in C!Ranges, C!Unit(range) = "hour"
    PROVE  Divides(C!BuildBuckets(range), C!Count(range), "hour")
  <1> DEFINE b == C!BuildBuckets(range)
             n == C!Count(range)
  <1>1. n = 24
    BY CountsAre
  <1>2. \A i \in 1 .. n : b[i].start = C!StartOfDay + (i - 1) /\ b[i].end = C!StartOfDay + i
    BY BucketIs
  <1>3. now \in Nat /\ C!StartOfDay \in Nat /\ C!StartOfDay <= now /\ now < C!StartOfDay + 24
    BY NowIs
  <1> HIDE DEF b, n
  <1>4. \A i \in 1 .. n : b[i].start \in Int /\ b[i].end \in Int /\ b[i].start < b[i].end
    BY <1>1, <1>2, <1>3
  <1>5. \A i \in 1 .. n - 1 : b[i].end = b[i + 1].start
    BY <1>1, <1>2, <1>3
  <1>6. b[1].start <= now /\ now < b[n].end
    BY <1>1, <1>2, <1>3
  <1>7. \A i \in 1 .. n, h \in 0 .. now : h = b[i].start <=> b[i].start <= h /\ h < b[i].end
    BY <1>1, <1>2, <1>3
  <1>8. \A h : C!KeyOf("hour", h) = h
    BY DEF C!KeyOf
  <1> QED
    BY <1>4, <1>5, <1>6, <1>7, <1>8 DEF Divides, b, n

LEMMA DaysDivide ==
    ASSUME ChartsInv, NEW range \in C!Ranges, C!Unit(range) = "day"
    PROVE  Divides(C!BuildBuckets(range), C!Count(range), "day")
  <1> DEFINE b == C!BuildBuckets(range)
             n == C!Count(range)
             first == C!DayOf(now) - n
  <1>1. n \in 1 .. 30
    BY CountsAre
  <1>2. \A i \in 1 .. n : /\ b[i].start = C!StartOfDay - (n - 1) * 24 + (i - 1) * 24
                          /\ b[i].end = C!StartOfDay - (n - 1) * 24 + i * 24
    BY BucketIs
  <1>3. now \in Nat /\ C!StartOfDay = 24 * C!DayOf(now) /\ C!StartOfDay <= now /\ now < C!StartOfDay + 24
        /\ C!DayOf(now) \in Int
    BY NowIs DEF C!DayOf
  <1> HIDE DEF b, n
  <1>4. first \in Int /\ first = C!DayOf(now) - n
    BY <1>1, <1>3
  <1> HIDE DEF first
  <1>5. \A i \in 1 .. n : b[i].start = 24 * (first + i) /\ b[i].end = 24 * (first + i) + 24
    BY <1>1, <1>2, <1>3, <1>4
  <1>6. \A i \in 1 .. n : b[i].start \in Int /\ b[i].end \in Int /\ b[i].start < b[i].end
    BY <1>1, <1>4, <1>5
  <1>7. \A i \in 1 .. n - 1 : b[i].end = b[i + 1].start
    BY <1>1, <1>4, <1>5
  <1>8. b[1].start <= now /\ now < b[n].end
    BY <1>1, <1>3, <1>4, <1>5
  <1>9. \A h : C!KeyOf("day", h) = C!DayOf(h)
    BY DEF C!KeyOf
  <1>10. ASSUME NEW i \in 1 .. n, NEW h \in 0 .. now
         PROVE  C!DayOf(h) = C!DayOf(b[i].start) <=> b[i].start <= h /\ h < b[i].end
    <2> DEFINE k == first + i
    <2>1. k \in Int /\ h \in Int
      BY <1>1, <1>4
    <2>2. b[i].start = 24 * k /\ b[i].end = 24 * k + 24
      BY <1>5
    <2> HIDE DEF k
    <2>3. C!DayOf(b[i].start) = k
      BY <2>1, <2>2 DEF C!DayOf
    <2>4. C!DayOf(h) = k <=> 24 * k <= h /\ h < 24 * k + 24
      BY <2>1 DEF C!DayOf
    <2> QED
      BY <2>2, <2>3, <2>4
  <1> QED
    BY <1>6, <1>7, <1>8, <1>9, <1>10 DEF Divides, b, n

LEMMA MonthsDivide ==
    ASSUME ChartsInv, NEW range \in C!Ranges, C!Unit(range) = "month"
    PROVE  Divides(C!BuildBuckets(range), C!Count(range), "month")
  <1> DEFINE b == C!BuildBuckets(range)
             n == C!Count(range)
             last == C!MonthOf(now)
             first == last - n
  <1>1. n \in 1 .. 12
    BY CountsAre
  <1>2. \A i \in 1 .. n : /\ b[i].start = 24 * C!FirstDay(last - (n - 1) + i - 1)
                          /\ b[i].end = 24 * C!FirstDay(last - (n - 1) + i)
    BY BucketIs
  <1>3. /\ now \in Nat /\ last \in Nat /\ 12 <= last
        /\ 24 * C!FirstDay(last) <= now /\ now < 24 * C!FirstDay(last + 1)
        /\ \A h \in 0 .. now : h \in Nat /\ \A m \in Nat : C!MonthOf(h) = m <=> InMonth(h, m)
    BY NowIs
  <1> HIDE DEF b, n, last
  <1>4. first \in Nat /\ \A i \in 1 .. n : /\ first + i \in Nat /\ first + i <= last
                                           /\ last - (n - 1) + i - 1 = first + i
                                           /\ last - (n - 1) + i = first + i + 1
                                           /\ first + i + 1 \in Nat
    BY <1>1, <1>3
  <1>5. \A i \in 1 .. n : b[i].start = 24 * C!FirstDay(first + i) /\ b[i].end = 24 * C!FirstDay(first + i + 1)
    BY <1>2, <1>4
  <1>6. first + n = last
    BY <1>1, <1>3
  <1> HIDE DEF first
  <1>7. \A m \in Nat : C!FirstDay(m) \in Nat /\ C!FirstDay(m) < C!FirstDay(m + 1) /\ C!FirstDay(m + 1) \in Nat
    <2> TAKE m \in Nat
    <2>1. m + 1 \in Nat
      OBVIOUS
    <2> QED
      BY <2>1, FirstDayIs, MonthHasDays
  <1>8. \A i \in 1 .. n : b[i].start \in Int /\ b[i].end \in Int /\ b[i].start < b[i].end
    <2> TAKE i \in 1 .. n
    <2>1. first + i \in Nat
      BY <1>4
    <2> QED
      BY <1>5, <1>7, <2>1
  <1>9. \A i \in 1 .. n - 1 : b[i].end = b[i + 1].start
    <2> TAKE i \in 1 .. n - 1
    <2>1. i \in 1 .. n /\ i + 1 \in 1 .. n /\ first + (i + 1) = first + i + 1
      BY <1>1, <1>4
    <2> QED
      BY <1>5, <2>1
  <1>10. b[1].start <= now /\ now < b[n].end
    <2>1. 1 \in 1 .. n /\ n \in 1 .. n
      BY <1>1
    <2>2. b[n].end = 24 * C!FirstDay(last + 1)
      BY <1>5, <1>6, <2>1
    <2>3. b[1].start = 24 * C!FirstDay(first + 1) /\ first + 1 \in Nat /\ first + 1 <= last
      BY <1>4, <1>5, <2>1
    <2>4. C!FirstDay(first + 1) <= C!FirstDay(last)
      <3>1. CASE first + 1 = last
        BY <1>3, <1>7, <3>1
      <3>2. CASE first + 1 < last
        BY <1>3, <1>7, <2>3, <3>2, MonthsFollow
      <3> QED
        BY <1>3, <2>3, <3>1, <3>2
    <2> QED
      BY <1>3, <1>7, <2>2, <2>3, <2>4
  <1>11. \A h : C!KeyOf("month", h) = C!MonthOf(h)
    BY DEF C!KeyOf
  <1>12. ASSUME NEW i \in 1 .. n, NEW h \in 0 .. now
         PROVE  C!MonthOf(h) = C!MonthOf(b[i].start) <=> b[i].start <= h /\ h < b[i].end
    <2> DEFINE k == first + i
    <2>1. k \in Nat /\ k <= last /\ h \in Nat
      BY <1>3, <1>4
    <2>2. b[i].start = 24 * C!FirstDay(k) /\ b[i].end = 24 * C!FirstDay(k + 1)
      BY <1>5
    <2> HIDE DEF k
    <2>3. C!FirstDay(k) \in Nat /\ C!FirstDay(k) < C!FirstDay(k + 1) /\ C!FirstDay(k + 1) \in Nat
      BY <1>7, <2>1
    <2>4. b[i].start \in 0 .. now
      <3>1. C!FirstDay(k) <= C!FirstDay(last)
        <4>1. CASE k = last
          BY <2>3, <4>1
        <4>2. CASE k < last
          BY <1>3, <1>7, <2>1, <4>2, MonthsFollow
        <4> QED
          BY <1>3, <2>1, <4>1, <4>2
      <3> QED
        BY <1>3, <1>7, <2>2, <2>3, <3>1
    <2>5. InMonth(b[i].start, k)
      BY <2>2, <2>3 DEF InMonth, C!DayOf
    <2>6. C!MonthOf(b[i].start) = k
      BY <1>3, <2>1, <2>4, <2>5
    <2>7. C!MonthOf(h) = k <=> InMonth(h, k)
      BY <1>3, <2>1
    <2>8. InMonth(h, k) <=> b[i].start <= h /\ h < b[i].end
      BY <2>1, <2>2, <2>3 DEF InMonth, C!DayOf
    <2> QED
      BY <2>6, <2>7, <2>8
  <1> QED
    BY <1>8, <1>9, <1>10, <1>11, <1>12 DEF Divides, b, n

-----------------------------------------------------------------------------
(* Charts: what follows from the division.                                 *)

Consecutive(b, n) ==
    /\ \A i \in 1 .. n : b[i].start \in Int /\ b[i].end \in Int /\ b[i].start < b[i].end
    /\ \A i \in 1 .. n - 1 : b[i].end = b[i + 1].start

\* Consecutive buckets cover their window, and do not overlap.
LEMMA BucketsCover ==
    ASSUME NEW n \in Nat \ {0}, NEW b, Consecutive(b, n)
    PROVE  /\ \A i \in 1 .. n : b[1].start <= b[i].start /\ b[i].end <= b[n].end
           /\ \A h \in Int : b[1].start <= h /\ h < b[n].end =>
                 \E i \in 1 .. n : b[i].start <= h /\ h < b[i].end
           /\ \A h \in Int, i, j \in 1 .. n :
                 b[i].start <= h /\ h < b[i].end /\ b[j].start <= h /\ h < b[j].end => i = j
  <1> DEFINE f == [i \in 1 .. n + 1 |-> IF i = n + 1 THEN b[n].end ELSE b[i].start]
  <1>0. /\ 1 \in 1 .. n /\ n \in 1 .. n /\ n + 1 \in 1 .. n + 1 /\ n + 1 \in Int /\ 1 \in Int /\ 1 < n + 1
        /\ \A i \in 1 .. n : i \in 1 .. n + 1 /\ i + 1 \in 1 .. n + 1 /\ i # n + 1 /\ i \in Int /\ i + 1 \in Int
    OBVIOUS
  <1>1. f[n + 1] = b[n].end /\ \A i \in 1 .. n : f[i] = b[i].start
    BY <1>0
  <1> HIDE DEF f
  <1>2. \A i \in 1 .. n : f[i + 1] = b[i].end
    <2> TAKE i \in 1 .. n
    <2>1. CASE i = n
      BY <1>1, <2>1
    <2>2. CASE i # n
      <3>1. i \in 1 .. n - 1 /\ i + 1 \in 1 .. n
        BY <2>2
      <3> QED
        BY <1>1, <3>1 DEF Consecutive
    <2> QED
      BY <2>1, <2>2
  <1>3. \A i \in 1 .. n + 1 : f[i] \in Int
    <2> TAKE i \in 1 .. n + 1
    <2>1. i = n + 1 \/ i \in 1 .. n
      OBVIOUS
    <2> QED
      BY <1>0, <1>1, <2>1 DEF Consecutive
  <1>4. \A i \in 1 .. n : f[i] < f[i + 1]
    BY <1>1, <1>2 DEF Consecutive
  <1>5. ASSUME NEW j \in 1 .. n + 1 PROVE \A i \in 1 .. j - 1 : f[i] < f[j]
    <2>1. 1 \in Int /\ j \in Int
      OBVIOUS
    <2>2. \A i \in 1 .. j : f[i] \in Int
      BY <1>3
    <2>3. \A i \in 1 .. j - 1 : f[i] < f[i + 1]
      BY <1>4
    <2> QED
      BY Zenon, <2>1, <2>2, <2>3, Grows
  <1>6. ASSUME NEW i \in 1 .. n PROVE b[1].start <= b[i].start /\ b[i].end <= b[n].end
    <2>1. b[1].start <= b[i].start
      <3>1. i = 1 \/ 1 \in 1 .. i - 1
        OBVIOUS
      <3>2. f[1] = b[1].start /\ f[i] = b[i].start /\ f[1] \in Int /\ f[i] \in Int
        BY <1>0, <1>1, <1>3
      <3>3. i \in 1 .. n + 1
        BY <1>0
      <3>4. i = 1 \/ f[1] < f[i]
        BY <1>5, <3>1, <3>3
      <3> QED
        BY <3>2, <3>4
    <2>2. b[i].end <= b[n].end
      <3>1. i = n \/ i + 1 \in 1 .. (n + 1) - 1
        OBVIOUS
      <3>2. f[n + 1] = b[n].end /\ f[i + 1] = b[i].end /\ f[n + 1] \in Int /\ f[i + 1] \in Int
        BY <1>0, <1>1, <1>2, <1>3
      <3>4. i = n \/ f[i + 1] < f[n + 1]
        BY <1>0, <1>5, <3>1
      <3> QED
        BY <3>2, <3>4
    <2> QED
      BY <2>1, <2>2
  <1>7. ASSUME NEW h \in Int, b[1].start <= h, h < b[n].end
        PROVE  \E i \in 1 .. n : b[i].start <= h /\ h < b[i].end
    <2>1. f[1] <= h /\ h < f[n + 1]
      BY <1>0, <1>1, <1>7
    <2>2. PICK i \in 1 .. (n + 1) - 1 : f[i] <= h /\ h < f[i + 1]
      BY <1>0, <1>3, <2>1, LastUpTo
    <2>3. i \in 1 .. n
      OBVIOUS
    <2> QED
      BY <1>1, <1>2, <2>2, <2>3
  <1>8. ASSUME NEW i \in 1 .. n, NEW j \in 1 .. n, i < j PROVE b[i].end <= b[j].start
    <2>1. j \in 1 .. n + 1 /\ (i + 1 = j \/ i + 1 \in 1 .. j - 1)
      BY <1>8
    <2>2. i + 1 = j \/ f[i + 1] < f[j]
      BY <1>5, <2>1
    <2>3. f[i + 1] = b[i].end /\ f[j] = b[j].start /\ f[i + 1] \in Int /\ f[j] \in Int
      BY <1>0, <1>1, <1>2, <1>3
    <2> QED
      BY <2>2, <2>3
  <1>9. ASSUME NEW h \in Int, NEW i \in 1 .. n, NEW j \in 1 .. n, i < j,
               b[i].start <= h, h < b[i].end, b[j].start <= h, h < b[j].end
        PROVE  FALSE
    <2>1. b[i].end <= b[j].start /\ b[i].end \in Int /\ b[j].start \in Int
      BY <1>8, <1>9 DEF Consecutive
    <2> QED
      BY <1>9, <2>1
  <1>10. ASSUME NEW h \in Int, NEW i \in 1 .. n, NEW j \in 1 .. n,
                b[i].start <= h /\ h < b[i].end /\ b[j].start <= h /\ h < b[j].end
         PROVE  i = j
    <2>1. i = j \/ i < j \/ j < i
      OBVIOUS
    <2> QED
      BY <1>9, <1>10, <2>1
  <1> QED
    BY <1>6, <1>7, <1>10

\* What is counted by consecutive buckets is counted in the window.
LEMMA BucketsCount ==
    ASSUME NEW n \in Nat \ {0}, NEW b, Consecutive(b, n), NEW S, IsFiniteSet(S), S \subseteq Int, NEW s,
           \A i \in 1 .. n : s[i] = Cardinality({h \in S : b[i].start <= h /\ h < b[i].end})
    PROVE  SumFunctionOnSet(s, 1 .. n) = Cardinality({h \in S : b[1].start <= h /\ h < b[n].end})
  <1> DEFINE W == {h \in S : b[1].start <= h /\ h < b[n].end}
             c == [h \in W |-> CHOOSE i \in 1 .. n : b[i].start <= h /\ h < b[i].end]
  <1>1. IsFiniteSet(W) /\ W \subseteq Int /\ IsFiniteSet(1 .. n)
    <2>1. n \in Int /\ 1 \in Int
      OBVIOUS
    <2>2. IsFiniteSet(1 .. n)
      BY <2>1, FS_Interval
    <2> QED
      BY <2>2, FS_Subset
  <1>2. ASSUME NEW h \in W PROVE c[h] \in 1 .. n /\ b[c[h]].start <= h /\ h < b[c[h]].end
    <2>1. \E i \in 1 .. n : b[i].start <= h /\ h < b[i].end
      BY <1>1, BucketsCover
    <2>2. c[h] = CHOOSE i \in 1 .. n : b[i].start <= h /\ h < b[i].end
      OBVIOUS
    <2> HIDE DEF c, W
    <2> QED
      BY <2>1, <2>2
  <1>3. ASSUME NEW i \in 1 .. n
        PROVE  Class(W, c, i) = {h \in S : b[i].start <= h /\ h < b[i].end}
    <2>1. ASSUME NEW h \in Class(W, c, i) PROVE h \in S /\ b[i].start <= h /\ h < b[i].end
      <3>1. h \in W /\ c[h] = i
        BY DEF Class
      <3>2. h \in S
        BY <3>1
      <3> HIDE DEF c, W
      <3> QED
        BY <1>2, <3>1, <3>2
    <2>2. ASSUME NEW h \in S, b[i].start <= h, h < b[i].end PROVE h \in Class(W, c, i)
      <3>1. b[1].start <= b[i].start /\ b[i].end <= b[n].end
        BY BucketsCover
      <3>2. b[1].start \in Int /\ b[n].end \in Int /\ b[i].start \in Int /\ b[i].end \in Int /\ h \in Int
        BY DEF Consecutive
      <3>3. b[1].start <= h /\ h < b[n].end
        BY <2>2, <3>1, <3>2
      <3>4. h \in W
        BY <3>3
      <3> HIDE DEF c, W
      <3>5. c[h] = i
        BY <1>2, <2>2, <3>2, <3>4, BucketsCover
      <3> QED
        BY <3>4, <3>5 DEF Class
    <2> HIDE DEF c, W
    <2> QED
      BY <2>1, <2>2
  <1> HIDE DEF c, W
  <1> DEFINE I == 1 .. n
  <1>4. \A y \in I : s[y] = Cardinality(Class(W, c, y))
    BY <1>3
  <1>5. \A x \in W : c[x] \in I
    BY <1>2
  <1>6. IsFiniteSet(I)
    BY <1>1
  <1>7. IsFiniteSet(W)
    BY <1>1
  <1> HIDE DEF I
  <1>8. SumFunctionOnSet(s, I) = Cardinality(W)
    BY <1>4, <1>5, <1>6, <1>7, CountClasses
  <1> QED
    BY <1>8 DEF W, I

LEMMA BucketsDivide ==
    ASSUME ChartsInv, NEW range \in C!Ranges
    PROVE  Divides(C!BuildBuckets(range), C!Count(range), C!Unit(range))
  <1>1. CASE C!Unit(range) = "hour"
    BY <1>1, HoursDivide
  <1>2. CASE C!Unit(range) = "day"
    BY <1>2, DaysDivide
  <1>3. CASE C!Unit(range) = "month"
    BY <1>3, MonthsDivide
  <1> QED
    BY <1>1, <1>2, <1>3, CountsAre

Within(b, i) == {h \in rows : b[i].start <= h /\ h < b[i].end}

\* A chart shows in each bucket what fell into it.
LEMMA SeriesIs ==
    ASSUME ChartsInv, NEW range \in C!Ranges
    PROVE  LET b == C!BuildBuckets(range)
               n == C!Count(range)
           IN  /\ DOMAIN C!Series(range) = 1 .. n
               /\ \A i \in 1 .. n : C!Series(range)[i] = Cardinality(Within(b, i))
               /\ C!Sum(C!Series(range)) = Cardinality(C!InWindow(range, rows))
  <1> DEFINE b == C!BuildBuckets(range)
             n == C!Count(range)
             unit == C!Unit(range)
             s == C!Series(range)
             found == C!InWindow(range, rows)
  <1>1. n \in Nat \ {0} /\ n \in 1 .. 30
    BY CountsAre
  <1>2. Divides(b, n, unit) /\ Consecutive(b, n)
    <2>1. Divides(b, n, unit)
      BY BucketsDivide
    <2> HIDE DEF b, n, unit
    <2> QED
      BY <2>1 DEF Divides, Consecutive
  <1>3. IsFiniteSet(rows) /\ rows \subseteq 0 .. now /\ rows \subseteq Int /\ now \in Nat
    BY DEF ChartsInv
  <1>4. found = {h \in rows : b[1].start <= h /\ h < b[n].end}
    BY DEF C!InWindow
  <1>5. s = [i \in 1 .. n |-> C!Cardinality({h \in found : C!KeyOf(unit, h) = C!KeyOf(unit, b[i].start)})]
    BY DEF C!Series
  <1> HIDE DEF b, n, unit, s, found
  <1>6. DOMAIN s = 1 .. n
    BY <1>5
  <1>7. ASSUME NEW i \in 1 .. n
        PROVE  s[i] = Cardinality(Within(b, i))
    <2> DEFINE keyed == {h \in found : C!KeyOf(unit, h) = C!KeyOf(unit, b[i].start)}
    <2>1. s[i] = Cardinality(keyed)
      BY <1>5, ChartCardIs
    <2>2. ASSUME NEW h \in rows
          PROVE  C!KeyOf(unit, h) = C!KeyOf(unit, b[i].start) <=> b[i].start <= h /\ h < b[i].end
      BY <1>2, <1>3 DEF Divides
    <2>3. ASSUME NEW h \in rows, b[i].start <= h, h < b[i].end
          PROVE  h \in found
      <3>1. b[1].start <= b[i].start /\ b[i].end <= b[n].end
        BY <1>1, <1>2, BucketsCover
      <3>2. 1 \in 1 .. n /\ n \in 1 .. n
        BY <1>1
      <3>3. /\ b[1].start \in Int /\ b[n].end \in Int /\ b[i].start \in Int /\ b[i].end \in Int
            /\ h \in Int
        BY <1>2, <1>3, <3>2 DEF Consecutive
      <3> QED
        BY <1>4, <2>3, <3>1, <3>3
    <2>4. found \subseteq rows
      BY <1>4
    <2>5. keyed = Within(b, i)
      BY <2>2, <2>3, <2>4 DEF Within
    <2> QED
      BY <2>1, <2>5
  <1>8. SumFunctionOnSet(s, 1 .. n) = Cardinality(found)
    <2>1. \A i \in 1 .. n : s[i] = Cardinality({h \in rows : b[i].start <= h /\ h < b[i].end})
      BY <1>7 DEF Within
    <2> QED
      BY <1>1, <1>2, <1>3, <1>4, <2>1, BucketsCount
  <1>9. C!Sum(s) = Cardinality(found)
    BY <1>6, <1>8, ChartSumIs
  <1> QED
    BY <1>6, <1>7, <1>9 DEF b, n, s, found

\* A chart is a division of its window, and now is in the window.
LEMMA ChartDivides ==
    ASSUME ChartsInv, NEW range \in C!Ranges
    PROVE  LET b == C!BuildBuckets(range)
               n == C!Count(range)
           IN  /\ \A i \in 1 .. n - 1 : b[i].end = b[i + 1].start
               /\ C!InWindow(range, {now}) = {now}
               /\ \A i \in 1 .. n : b[i].start < b[i].end
  <1> DEFINE b == C!BuildBuckets(range)
             n == C!Count(range)
  <1>1. Divides(b, n, C!Unit(range))
    BY BucketsDivide
  <1>2. C!InWindow(range, {now}) = {h \in {now} : b[1].start <= h /\ h < b[n].end}
    BY DEF C!InWindow
  <1> HIDE DEF b, n
  <1>3. C!InWindow(range, {now}) = {now}
    BY <1>1, <1>2 DEF Divides
  <1>4. (\A i \in 1 .. n - 1 : b[i].end = b[i + 1].start) /\ \A i \in 1 .. n : b[i].start < b[i].end
    BY <1>1 DEF Divides
  <1> QED
    BY <1>3, <1>4 DEF b, n

\* Buckets that begin and end together show the same.
LEMMA SameBucket ==
    ASSUME ChartsInv, NEW range1 \in C!Ranges, NEW range2 \in C!Ranges,
           NEW i \in 1 .. C!Count(range1), NEW j \in 1 .. C!Count(range2),
           C!BuildBuckets(range1)[i].start = C!BuildBuckets(range2)[j].start,
           C!BuildBuckets(range1)[i].end = C!BuildBuckets(range2)[j].end
    PROVE  C!Series(range1)[i] = C!Series(range2)[j]
  <1>1. Within(C!BuildBuckets(range1), i) = Within(C!BuildBuckets(range2), j)
    BY DEF Within
  <1> QED
    BY <1>1, SeriesIs

\* What happened today.
RowsToday == {h \in rows : h >= C!StartOfDay}

LEMMA TodayByHours ==
    ASSUME ChartsInv
    PROVE  C!Sum(C!Series("day")) = Cardinality(RowsToday)
  <1> DEFINE b == C!BuildBuckets("day")
  <1>0. "day" \in C!Ranges
    BY DEF C!Ranges
  <1>1. C!Unit("day") = "hour" /\ C!Count("day") = 24
    BY DEF C!Unit, C!Count
  <1>2. 1 \in 1 .. C!Count("day") /\ 24 \in 1 .. C!Count("day")
    BY <1>1
  <1>3. b[1].start = C!StartOfDay + (1 - 1) /\ b[24].end = C!StartOfDay + 24
    BY <1>0, <1>1, <1>2, BucketIs
  <1>4. C!InWindow("day", rows) = {h \in rows : b[1].start <= h /\ h < b[24].end}
    BY <1>1 DEF C!InWindow
  <1>5. rows \subseteq 0 .. now
    BY DEF ChartsInv
  <1>6. now \in Nat /\ C!StartOfDay \in Nat /\ now < C!StartOfDay + 24
    BY NowIs
  <1> HIDE DEF b
  <1>7. C!InWindow("day", rows) = RowsToday
    <2>1. ASSUME NEW h \in rows
          PROVE  (b[1].start <= h /\ h < b[24].end) <=> h >= C!StartOfDay
      <3>1. h \in Nat /\ h <= now
        BY <1>5, <1>6
      <3> QED
        BY <1>3, <1>6, <3>1
    <2> QED
      BY <1>4, <2>1 DEF RowsToday
  <1> QED
    BY <1>0, <1>7, SeriesIs

LEMMA TodayByDays ==
    ASSUME ChartsInv, NEW range \in C!Ranges, C!Unit(range) = "day"
    PROVE  C!Series(range)[C!Count(range)] = Cardinality(RowsToday)
  <1> DEFINE b == C!BuildBuckets(range)
             n == C!Count(range)
  <1>1. n \in 1 .. 30 /\ n \in 1 .. n
    BY CountsAre
  <1>2. /\ b[n].start = C!StartOfDay - (n - 1) * 24 + (n - 1) * 24
        /\ b[n].end = C!StartOfDay - (n - 1) * 24 + n * 24
    BY <1>1, BucketIs
  <1>3. C!Series(range)[n] = Cardinality(Within(b, n))
    BY <1>1, SeriesIs
  <1>4. rows \subseteq 0 .. now
    BY DEF ChartsInv
  <1>5. now \in Nat /\ C!StartOfDay \in Nat /\ now < C!StartOfDay + 24
    BY NowIs
  <1> HIDE DEF b, n
  <1>6. b[n].start = C!StartOfDay /\ b[n].end = C!StartOfDay + 24
    BY <1>1, <1>2, <1>5
  <1>7. Within(b, n) = RowsToday
    <2>1. ASSUME NEW h \in rows
          PROVE  (b[n].start <= h /\ h < b[n].end) <=> h >= C!StartOfDay
      <3>1. h \in Nat /\ h <= now
        BY <1>4, <1>5
      <3> QED
        BY <1>5, <1>6, <3>1
    <2> QED
      BY <2>1 DEF Within, RowsToday
  <1> QED
    BY <1>3, <1>7 DEF n

\* A week is the end of a month, and half a year of a year.
LEMMA WeekOfMonth ==
    ASSUME ChartsInv, NEW i \in 1 .. 7
    PROVE  C!Series("7days")[i] = C!Series("month")[23 + i]
  <1> DEFINE b == C!BuildBuckets("7days")
             d == C!BuildBuckets("month")
             j == 23 + i
  <1>0. "7days" \in C!Ranges /\ "month" \in C!Ranges
    BY DEF C!Ranges
  <1>1. C!Unit("7days") = "day" /\ C!Count("7days") = 7 /\ C!Unit("month") = "day" /\ C!Count("month") = 30
    BY DEF C!Unit, C!Count
  <1>2. i \in 1 .. C!Count("7days") /\ j \in 1 .. C!Count("month") /\ i \in Int /\ j = 23 + i
    BY <1>1
  <1> HIDE DEF j
  <1>3. b[i].start = C!StartOfDay - (7 - 1) * 24 + (i - 1) * 24 /\ b[i].end = C!StartOfDay - (7 - 1) * 24 + i * 24
    BY <1>0, <1>1, <1>2, BucketIs
  <1>4. d[j].start = C!StartOfDay - (30 - 1) * 24 + (j - 1) * 24 /\ d[j].end = C!StartOfDay - (30 - 1) * 24 + j * 24
    BY <1>0, <1>1, <1>2, BucketIs
  <1>5. C!StartOfDay \in Nat
    BY NowIs
  <1> HIDE DEF b, d
  <1>6. b[i].start = d[j].start /\ b[i].end = d[j].end
    BY <1>2, <1>3, <1>4, <1>5
  <1> QED
    BY <1>0, <1>2, <1>6, SameBucket DEF b, d

LEMMA HalfOfYear ==
    ASSUME ChartsInv, NEW i \in 1 .. 6
    PROVE  C!Series("6months")[i] = C!Series("year")[6 + i]
  <1> DEFINE b == C!BuildBuckets("6months")
             d == C!BuildBuckets("year")
             j == 6 + i
             last == C!MonthOf(now)
  <1>0. "6months" \in C!Ranges /\ "year" \in C!Ranges
    BY DEF C!Ranges
  <1>1. C!Unit("6months") = "month" /\ C!Count("6months") = 6 /\ C!Unit("year") = "month" /\ C!Count("year") = 12
    BY DEF C!Unit, C!Count
  <1>2. i \in 1 .. C!Count("6months") /\ j \in 1 .. C!Count("year") /\ i \in Int /\ j = 6 + i
    BY <1>1
  <1> HIDE DEF j
  <1>3. b[i].start = 24 * C!FirstDay(last - (6 - 1) + i - 1) /\ b[i].end = 24 * C!FirstDay(last - (6 - 1) + i)
    BY <1>0, <1>1, <1>2, BucketIs
  <1>4. d[j].start = 24 * C!FirstDay(last - (12 - 1) + j - 1) /\ d[j].end = 24 * C!FirstDay(last - (12 - 1) + j)
    BY <1>0, <1>1, <1>2, BucketIs
  <1>5. last \in Nat
    BY NowIs
  <1> HIDE DEF b, d, last
  <1>6. last - (6 - 1) + i - 1 = last - (12 - 1) + j - 1 /\ last - (6 - 1) + i = last - (12 - 1) + j
    BY <1>2, <1>5
  <1>7. b[i].start = d[j].start /\ b[i].end = d[j].end
    BY <1>3, <1>4, <1>6
  <1> QED
    BY <1>0, <1>2, <1>7, SameBucket DEF b, d

\* Charts and cards agree.
LEMMA ChartsHold ==
    ASSUME ChartsInv
    PROVE  C!ChartsAgree
  <1> DEFINE series == [range \in C!Ranges |-> C!Series(range)]
             today0 == C!Cardinality({h \in rows : h >= C!StartOfDay})
  <1>0. /\ {"day", "7days", "month", "6months", "year"} = C!Ranges
        /\ C!Unit("7days") = "day" /\ C!Unit("month") = "day"
    BY DEF C!Ranges, C!Unit
  <1>1. \A range \in C!Ranges : series[range] = C!Series(range)
    OBVIOUS
  <1>2. today0 = Cardinality(RowsToday)
    BY ChartCardIs DEF RowsToday
  <1> HIDE DEF series, today0
  <1>3. ASSUME NEW range \in C!Ranges
        PROVE  LET b == C!BuildBuckets(range)
               IN  /\ \A i \in 1 .. C!Count(range) - 1 : b[i].end = b[i + 1].start
                   /\ C!InWindow(range, {now}) = {now}
                   /\ \A i \in 1 .. C!Count(range) :
                         /\ b[i].start < b[i].end
                         /\ series[range][i]
                               = C!Cardinality({h \in rows : b[i].start <= h /\ h < b[i].end})
                   /\ C!Sum(series[range]) = C!Cardinality(C!InWindow(range, rows))
    BY <1>1, ChartDivides, SeriesIs, ChartCardIs DEF Within
  <1>4. /\ C!Sum(series["day"]) = today0
        /\ series["7days"][C!Count("7days")] = today0 /\ series["month"][C!Count("month")] = today0
    BY <1>0, <1>1, <1>2, TodayByHours, TodayByDays
  <1>5. /\ \A i \in 1 .. 7 : series["7days"][i] = series["month"][23 + i]
        /\ \A i \in 1 .. 6 : series["6months"][i] = series["year"][6 + i]
    BY <1>0, <1>1, WeekOfMonth, HalfOfYear
  <1> QED
    BY <1>3, <1>4, <1>5 DEF C!ChartsAgree, series, today0

LEMMA ChartsStay ==
    ASSUME ChartsInv, UNCHANGED chartVars
    PROVE  ChartsInv'
  BY DEF ChartsInv, LongestTick, TimeLeft, chartVars

-----------------------------------------------------------------------------
(* What the screens show, always.                                          *)

\* For any riders, drivers, businesses, fares and days: the cards, reports,
\* lists and pages of money and of trips show the same
\* (admin-ops.service.ts, admin-finance.service.ts, reports.service.ts).
THEOREM FiguresAlwaysAgree == Spec => [](part = "books" => B!FiguresAgree)
  <1> DEFINE Inv == BooksInv /\ LinksInv
  <1>1. Init => Inv
    BY BooksInit, LinksInit DEF Init
  <1>2. Inv /\ [Next]_vars => Inv'
    <2> SUFFICES ASSUME Inv, [Next]_vars PROVE Inv'
      OBVIOUS
    <2>1. CASE BooksStep
      BY <2>1, BooksNext, LinksNext DEF BooksStep
    <2>2. CASE ~ BooksStep
      <3>1. UNCHANGED bookVars
        BY <2>2 DEF Next, FaresStep, RosterStep, UniquesStep, ChartsStep, TrackingStep, vars
      <3> QED
        BY <3>1, BooksStays, LinksStay
    <2> QED
      BY <2>1, <2>2
  <1>3. Inv => (part = "books" => B!FiguresAgree)
    BY FiguresHold
  <1> QED
    BY <1>1, <1>2, <1>3, PTL DEF Spec

\* For any years, days to start on and hours that pass: the buckets of a chart
\* divide its window, no row is lost or counted twice, and charts and cards
\* show the same (time-bucket.util.ts:55-145, admin-finance.service.ts).
THEOREM ChartsAlwaysAgree == Spec => [](part = "charts" => C!ChartsAgree)
  <1>1. Init => ChartsInv
    BY ChartsInit DEF Init
  <1>2. ChartsInv /\ [Next]_vars => ChartsInv'
    <2> SUFFICES ASSUME ChartsInv, [Next]_vars PROVE ChartsInv'
      OBVIOUS
    <2>1. CASE ChartsStep
      BY <2>1, ChartsNext DEF ChartsStep
    <2>2. CASE ~ ChartsStep
      <3>1. UNCHANGED chartVars
        BY <2>2 DEF Next, BooksStep, FaresStep, RosterStep, UniquesStep, TrackingStep, vars, screenVars
      <3> QED
        BY <3>1, ChartsStay
    <2> QED
      BY <2>1, <2>2
  <1>3. ChartsInv => (part = "charts" => C!ChartsAgree)
    BY ChartsHold
  <1> QED
    BY <1>1, <1>2, <1>3, PTL DEF Spec

\* Every screen shows the same, of money, people, time and deliveries, when
\* administrators assign deliveries to drivers alone.
THEOREM ScreensAlwaysAgree ==
    ASSUME Assigned \subseteq {"DRIVER"}
    PROVE  Spec => []ScreensAgree
  <1>1. Spec => [](part = "roster" => R!RosterAgrees)
    BY PeopleAgree
  <1>2. /\ part = "books" => B!FiguresAgree
        /\ part = "roster" => R!RosterAgrees
        /\ part = "charts" => C!ChartsAgree
        /\ part = "tracking" => T!TimelineHolds
        => ScreensAgree
    BY DEF ScreensAgree
  <1> QED
    BY <1>1, <1>2, FiguresAlwaysAgree, ChartsAlwaysAgree, TimelinesHold, PTL
=============================================================================
