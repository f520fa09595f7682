------------------------------ MODULE Uniques -------------------------------
(***************************************************************************)
(* What there is one of: a user's HOME and WORK (saved-places.service.ts), *)
(* the default among the saved cards (wallet/payments.service.ts), a plate *)
(* (drivers/driver-profiles.service.ts), a driver's fleet partner          *)
(* (partnerships/fleet-partners.service.ts), the link of a ride            *)
(* (rides/rides.service.ts) and the execution of a request under an        *)
(* idempotency key (common/interceptors).  Places, cards and the link are  *)
(* kept by code that looks and then writes, plates and partners by a       *)
(* unique index, the last by a row that is written after the work.         *)
(*                                                                         *)
(* One user's places and cards; a statement is a step, calls overlap, and  *)
(* any statement may fail or be the last before the process stops.  Rows   *)
(* keep the order of their creation.  Addresses, names, the gateway's      *)
(* codes and the bodies of requests are left out.                          *)
(***************************************************************************)
EXTENDS Integers, FiniteSets, FiniteSetsExt

CONSTANTS
    Drivers, Plates, Partners,
    Signatures,     \* the gateway's fingerprints of cards
    Tasks,          \* slots for calls in progress
    MaxRows,        \* bound on the rows created and the requests received
    None

UniquesAssumption == MaxRows \in Nat /\ IsFiniteSet(Tasks)

VARIABLES
    places,     \* SavedPlace rows: id to label
    cards,      \* PaymentCard rows: id to signature and isDefault
    vehicle,    \* DriverVehicle rows: driver to plate
    fleets,     \* FleetPartnerDriver rows: <<driver, partner>>
    ride,       \* the ride: whether it ended, and its shareToken (0: none)
    links,      \* the tokens of the links that its rider was given
    key,        \* the IdempotencyKey row: "NONE" (or expired) or "LIVE"
    ran,        \* executions of the request since the key was last free
    made,       \* rows created and requests received, for the bound
    task        \* the calls in progress

\* What no row says and the properties need.
VARIABLES
    lapsed,     \* a slip of a card call since there last was a default
    lost        \* executions whose key was not written, since it was last free

vars == <<places, cards, vehicle, fleets, ride, links, key, ran, made, task, lapsed, lost>>
rideVars == <<ride, links>>

Idle == [pc |-> "idle"]

Init ==
    /\ places = [i \in {} |-> None] /\ cards = [i \in {} |-> None]
    /\ vehicle = [d \in Drivers |-> None] /\ fleets = {}
    /\ ride = [ended |-> FALSE, token |-> 0] /\ links = {}
    /\ key = "NONE" /\ ran = 0 /\ made = 0
    /\ task = [t \in Tasks |-> Idle]
    /\ lapsed = FALSE /\ lost = 0

Begin(t, call) ==
    /\ task[t] = Idle
    /\ task' = [task EXCEPT ![t] = call]
At(t, pc) == task[t].pc = pc
Goto(t, call) == task' = [task EXCEPT ![t] = call]
Return(t) == Goto(t, Idle)

With(rows, id, row) == [i \in DOMAIN rows \cup {id} |-> IF i = id THEN row ELSE rows[i]]
Without(rows, ids) == [i \in DOMAIN rows \ ids |-> rows[i]]
New == made + 1
Create == made < MaxRows /\ made' = New

-----------------------------------------------------------------------------
(* Saved places.                                                           *)

Singletons == {"HOME", "WORK"}
Labels == Singletons \cup {"OTHER"}
Labelled(label) == {i \in DOMAIN places : places[i] = label}
OnlyPlaces == UNCHANGED <<cards, vehicle, fleets, rideVars, key, ran, lapsed, lost>>

\* create: a second HOME or WORK replaces the first.
CreateLook(t, label) ==
    /\ \E held \in IF label \in Singletons /\ Labelled(label) # {} THEN Labelled(label) ELSE {0} :
          Begin(t, [pc |-> "place", label |-> label, row |-> held])
    /\ UNCHANGED <<places, made>> /\ OnlyPlaces

CreateWrite(t) ==
    /\ At(t, "place") /\ task[t].row = 0
    /\ Create
    /\ places' = With(places, New, task[t].label)
    /\ Return(t) /\ OnlyPlaces

\* A row that is gone fails the call.
ReplaceWrite(t) ==
    /\ At(t, "place") /\ task[t].row # 0
    /\ places' = IF task[t].row \in DOMAIN places THEN With(places, task[t].row, task[t].label)
                                                  ELSE places
    /\ Return(t) /\ UNCHANGED made /\ OnlyPlaces

\* update: whatever held the label is displaced.
Relabel(t, id, label) ==
    /\ id \in DOMAIN places
    /\ Begin(t, [pc |-> IF label # places[id] /\ label \in Singletons THEN "displace" ELSE "place",
                 label |-> label, row |-> id])
    /\ UNCHANGED <<places, made>> /\ OnlyPlaces

\* Mutant of Displaced: what another call would have to leave.
DisplacedNone(t) == {}

Displaced(t) == Labelled(task[t].label) \ {task[t].row}

Displace(t) ==
    /\ At(t, "displace")
    /\ places' = Without(places, Displaced(t))
    /\ Goto(t, [task[t] EXCEPT !.pc = "place"])
    /\ UNCHANGED made /\ OnlyPlaces

RemovePlace(id) ==
    /\ id \in DOMAIN places
    /\ places' = Without(places, {id})
    /\ UNCHANGED <<made, task>> /\ OnlyPlaces

PlaceNext ==
    \/ \E t \in Tasks :
          \/ \E label \in Labels :
                CreateLook(t, label) \/ \E id \in DOMAIN places : Relabel(t, id, label)
          \/ CreateWrite(t) \/ ReplaceWrite(t) \/ Displace(t)
    \/ \E id \in DOMAIN places : RemovePlace(id)

-----------------------------------------------------------------------------
(* Saved cards.                                                            *)

Defaults == {i \in DOMAIN cards : cards[i].isDefault}
OfSignature(s) == {i \in DOMAIN cards : cards[i].signature = s}
OnlyCards == UNCHANGED <<places, vehicle, fleets, rideVars, key, ran, lost>>

\* A call slips when it writes by what is no longer so, or stops midway.
Slips(slip) == lapsed' = (slip \/ (lapsed /\ Defaults' = {}))

\* completeTopUpRequest: the first card is the default; a card that is known
\* keeps what it is.
SaveCount(t, s) ==
    /\ Begin(t, [pc |-> "save", signature |-> s, first |-> cards = <<>>])
    /\ UNCHANGED <<cards, made, lapsed>> /\ OnlyCards

SaveUpsert(t) ==
    LET s == task[t].signature
    IN  /\ At(t, "save")
        /\ \/ OfSignature(s) # {} /\ UNCHANGED <<cards, made, lapsed>>
           \/ /\ OfSignature(s) = {} /\ Create
              /\ cards' = With(cards, New, [signature |-> s, isDefault |-> task[t].first])
              /\ Slips(~ task[t].first /\ cards = <<>>)
        /\ Return(t) /\ OnlyCards

\* setDefaultCard: the read, and two updates in one transaction.
SetRead(t, id) ==
    /\ id \in DOMAIN cards
    /\ Begin(t, [pc |-> "set", row |-> id])
    /\ UNCHANGED <<cards, made, lapsed>> /\ OnlyCards

\* Mutant of DefaultTo: the two updates in the other order.
DefaultToNone(id) == [i \in DOMAIN cards |-> [cards[i] EXCEPT !.isDefault = FALSE]]

DefaultTo(id) == [i \in DOMAIN cards |-> [cards[i] EXCEPT !.isDefault = (i = id)]]

SetWrite(t) ==
    /\ At(t, "set")
    /\ cards' = IF task[t].row \in DOMAIN cards THEN DefaultTo(task[t].row) ELSE cards
    /\ Slips(FALSE)
    /\ Return(t) /\ UNCHANGED made /\ OnlyCards

\* removeCard: the read, the deletion, and the promotion of the newest, each a
\* statement of its own.
RemoveRead(t, id) ==
    /\ id \in DOMAIN cards
    /\ Begin(t, [pc |-> "delete", row |-> id, default |-> cards[id].isDefault])
    /\ UNCHANGED <<cards, made, lapsed>> /\ OnlyCards

RemoveDelete(t) ==
    /\ At(t, "delete")
    /\ cards' = Without(cards, {task[t].row})
    /\ IF task[t].row \in DOMAIN cards /\ task[t].default
       THEN Goto(t, [pc |-> "find"]) ELSE Return(t)
    /\ Slips(task[t].row \in Defaults /\ ~ task[t].default)
    /\ UNCHANGED made /\ OnlyCards

PromoteFind(t) ==
    /\ At(t, "find")
    /\ IF cards = <<>> THEN Return(t) ELSE Goto(t, [pc |-> "promote", row |-> Max(DOMAIN cards)])
    /\ UNCHANGED <<cards, made, lapsed>> /\ OnlyCards

Promote(t) ==
    /\ At(t, "promote")
    /\ cards' = IF task[t].row \in DOMAIN cards
                THEN With(cards, task[t].row, [cards[task[t].row] EXCEPT !.isDefault = TRUE])
                ELSE cards
    /\ Slips(task[t].row \notin DOMAIN cards)
    /\ Return(t) /\ UNCHANGED made /\ OnlyCards

CardNext ==
    \E t \in Tasks :
        \/ \E s \in Signatures : SaveCount(t, s)
        \/ SaveUpsert(t) \/ SetWrite(t) \/ RemoveDelete(t) \/ PromoteFind(t) \/ Promote(t)
        \/ \E id \in DOMAIN cards : SetRead(t, id) \/ RemoveRead(t, id)

-----------------------------------------------------------------------------
(* Plates and fleet partners: a look, and the index that decides.          *)

OnlyDrivers == UNCHANGED <<places, cards, rideVars, key, ran, made, lapsed, lost>>

\* upsertVehicle.
VehicleLook(t, d, plate) ==
    /\ \A e \in Drivers : vehicle[e] = plate => e = d
    /\ Begin(t, [pc |-> "vehicle", driver |-> d, value |-> plate])
    /\ UNCHANGED <<vehicle, fleets>> /\ OnlyDrivers

VehicleUpsert(t) ==
    LET call == task[t]
    IN  /\ At(t, "vehicle")
        /\ vehicle' = IF \E e \in Drivers \ {call.driver} : vehicle[e] = call.value THEN vehicle
                      ELSE [vehicle EXCEPT ![call.driver] = call.value]
        /\ Return(t) /\ UNCHANGED fleets /\ OnlyDrivers

Attached(d) == \E row \in fleets : row[1] = d

\* attachDriver.
AttachLook(t, d, p) ==
    /\ ~ Attached(d)
    /\ Begin(t, [pc |-> "attach", driver |-> d, value |-> p])
    /\ UNCHANGED <<vehicle, fleets>> /\ OnlyDrivers

AttachCreate(t) ==
    LET call == task[t]
    IN  /\ At(t, "attach")
        /\ fleets' = IF Attached(call.driver) THEN fleets
                     ELSE fleets \cup {<<call.driver, call.value>>}
        /\ Return(t) /\ UNCHANGED vehicle /\ OnlyDrivers

DriverNext ==
    \E t \in Tasks :
        \/ VehicleUpsert(t) \/ AttachCreate(t)
        \/ \E d \in Drivers :
              \/ \E plate \in Plates : VehicleLook(t, d, plate)
              \/ \E p \in Partners : AttachLook(t, d, p)

-----------------------------------------------------------------------------
(* A ride's link.                                                          *)

OnlyRide == UNCHANGED <<places, cards, vehicle, fleets, key, ran, lapsed, lost>>

\* shareRide: a token is minted unless there is one.
ShareLook(t) ==
    /\ ~ ride.ended
    /\ Begin(t, [pc |-> "share", found |-> ride.token])
    /\ UNCHANGED <<rideVars, made>> /\ OnlyRide

ShareMint(t) ==
    /\ At(t, "share")
    /\ \/ task[t].found # 0 /\ links' = links \cup {task[t].found} /\ UNCHANGED <<ride, made>>
       \/ /\ task[t].found = 0 /\ Create
          /\ ride' = [ride EXCEPT !.token = New]
          /\ links' = links \cup {New}
    /\ Return(t) /\ OnlyRide

RideEnds ==
    /\ ~ ride.ended
    /\ ride' = [ride EXCEPT !.ended = TRUE]
    /\ UNCHANGED <<links, made, task>> /\ OnlyRide

\* getSharedRide: who opens a link finds the ride that has its token.
Opens(token) == token = ride.token

RideNext == RideEnds \/ \E t \in Tasks : ShareLook(t) \/ ShareMint(t)

-----------------------------------------------------------------------------
(* IdempotencyInterceptor: one key, sent with one body.                    *)

OnlyKey == UNCHANGED <<places, cards, vehicle, fleets, rideVars, lapsed>>

\* A stored response is replayed; else the handler runs.
Request(t) ==
    /\ key # "LIVE" /\ Create
    /\ Begin(t, [pc |-> "handle"])
    /\ UNCHANGED <<key, ran, lost>> /\ OnlyKey

Handle(t) ==
    /\ At(t, "handle")
    /\ ran' = ran + 1
    /\ Goto(t, [pc |-> "store"])
    /\ UNCHANGED <<key, made, lost>> /\ OnlyKey

\* The response has been sent by now.
Store(t) ==
    /\ At(t, "store")
    /\ key' = "LIVE"
    /\ Return(t)
    /\ UNCHANGED <<ran, made, lost>> /\ OnlyKey

KeyExpires ==
    /\ key = "LIVE"
    /\ key' = "NONE" /\ ran' = 0 /\ lost' = 0
    /\ UNCHANGED <<made, task>> /\ OnlyKey

KeyNext == KeyExpires \/ \E t \in Tasks : Request(t) \/ Handle(t) \/ Store(t)

-----------------------------------------------------------------------------

\* A statement fails, or the process stops before it: the call is over.  A
\* removal between its deletion and its promotion slips; a handler that threw
\* after its work, or a response whose row is not written, leaves no key.
Throw(t) ==
    /\ task[t] # Idle
    /\ lapsed' = (At(t, "find") \/ At(t, "promote") \/ lapsed)
    /\ lost' = IF At(t, "store") THEN lost + 1 ELSE lost
    /\ Return(t)
    /\ UNCHANGED <<places, cards, vehicle, fleets, rideVars, key, ran, made>>

Next == PlaceNext \/ CardNext \/ DriverNext \/ RideNext \/ KeyNext \/ \E t \in Tasks : Throw(t)
Spec == Init /\ [][Next]_vars

-----------------------------------------------------------------------------
(* Properties.                                                             *)

AtOnce == Cardinality(Tasks)

FewHomes == \A label \in Singletons : Cardinality(Labelled(label)) <= AtOnce
FewDefaults == Cardinality(Defaults) <= AtOnce
FewLinks == Cardinality(links) <= AtOnce /\ (links # {} => \E token \in links : Opens(token))
FewRuns == ran <= AtOnce + lost

\* Cards are without a default only while a removal promotes one or after a slip.
DefaultIsKept ==
    cards # <<>> /\ Defaults = {} => lapsed \/ \E t \in Tasks : At(t, "find") \/ At(t, "promote")

OneCardEach == \A i, j \in DOMAIN cards : cards[i].signature = cards[j].signature => i = j
OneDriverEach == \A d, e \in Drivers : d # e /\ vehicle[d] # None => vehicle[d] # vehicle[e]
OneFleetEach == \A r, s \in fleets : r[1] = s[1] => r = s

\* Calls that overlap, fail or stop at any statement leave no more HOMEs, WORKs,
\* default cards and links than there are calls at once, hence one of each when
\* calls come in turn, and the last link opens the ride; a request runs no more
\* often than that under a key, but for the runs whose key was not written; no
\* card is without a default but by a removal cut off between deletion and
\* promotion or a call that wrote by an old read; a card is saved once, a plate
\* has one driver, a driver one fleet (saved-places.service.ts:28-79,
\* payments.service.ts:191-214, 314-331, rides.service.ts:326-345,
\* driver-profiles.service.ts:38-58, fleet-partners.service.ts:30-41,
\* idempotency.interceptor.ts:29-71).
OverlapIsBounded ==
    /\ FewHomes /\ FewDefaults /\ FewLinks /\ FewRuns
    /\ DefaultIsKept
    /\ OneCardEach /\ OneDriverEach /\ OneFleetEach

Quiet == \A t \in Tasks : task[t] = Idle

\* Doc: saved-places.service.ts:12: "HOME and WORK are singletons per user".
OneHomeAlways == Quiet => \A label \in Singletons : Cardinality(Labelled(label)) <= 1

\* Doc: payments.service.ts:204: after a default card's removal "Promote the
\* most recent remaining card, if any": a failure after the deletion leaves
\* none, two overlapping calls none or two.
OneDefaultAlways == Quiet /\ cards # <<>> => Cardinality(Defaults) = 1

\* Doc: rides.service.ts:326: the link of "Share ride" is of a token that is
\* minted "once": two overlapping calls mint two, and the first link is dead.
OneLinkAlways == \A token \in links : Opens(token)

\* Doc: idempotency.interceptor.ts:15-16: "a flaky client retrying the same
\* top-up/withdraw request must produce one charge, not several".
OneRunAlways == ran <= 1
=============================================================================
