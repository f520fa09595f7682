------------------------------ MODULE Pricing ------------------------------
(***************************************************************************)
(* The tables every price is computed from and their caches: tariffs and   *)
(* commission rules (src/src/pricing/pricing.service.ts), service areas    *)
(* (src/src/service-areas) and configuration (src/src/platform-config).    *)
(* Each is read through a Redis entry that a write deletes and that lives  *)
(* a limited time.                                                         *)
(*                                                                         *)
(* A call in progress is a task, one action per statement to the database  *)
(* or to Redis.  Tariffs are the active rows of one vehicle type, counted  *)
(* by service and area; commission rules those of one key; for the others  *)
(* a write makes another value.  Abstracted: prices, polygons, the clock   *)
(* (an entry may expire at any moment).                                    *)
(***************************************************************************)
EXTENDS Naturals, FiniteSetsExt

CONSTANTS
    Areas,          \* the service areas a tariff may be for
    None,           \* a tariff for every service, or for every area
    Tasks,          \* slots for calls in progress (a bound on concurrency)
    MaxWrites       \* bound on the administrators' writes

\* What the constants are taken to be (the models that use this module assume it).
PricingAssumption ==
    /\ None \notin Areas
    /\ MaxWrites \in Nat

VARIABLES
    table,          \* what the database holds
    entry,          \* the Redis entries
    writes,         \* the number of writes so far (for the bound)
    task            \* the calls in progress

vars == <<table, entry, writes, task>>

Keys == [service : {None, "RIDE"}, area : Areas \cup {None}]
Tables == {"tariffs", "rules", "areas", "config"}
NoEntry == [present |-> FALSE]

Idle == [pc |-> "idle"]
Start(t, call) == task[t] = Idle /\ task' = [task EXCEPT ![t] = call]
At(t, pc) == task[t].pc = pc
Return(t) == task' = [task EXCEPT ![t] = Idle]

Init ==
    /\ table = [tariffs |-> [k \in Keys |-> 0], rules |-> 0, areas |-> 0, config |-> 0]
    /\ entry = [x \in Tables |-> NoEntry]
    /\ writes = 0
    /\ task = [t \in Tasks |-> Idle]

-----------------------------------------------------------------------------
(* Reading through the cache.                                              *)

Miss(t, x) ==
    /\ entry[x] = NoEntry
    /\ Start(t, [pc |-> "read", table |-> x])
    /\ UNCHANGED <<table, entry, writes>>

GetActiveTariffs(t) == Miss(t, "tariffs")
GetActiveCommissionRules(t) == Miss(t, "rules")
GetActiveAreas(t) == Miss(t, "areas")
GetConfig(t) == Miss(t, "config")

Read(t) ==
    /\ At(t, "read")
    /\ task' = [task EXCEPT ![t] = [pc |-> "fill", table |-> task[t].table,
                                    value |-> table[task[t].table]]]
    /\ UNCHANGED <<table, entry, writes>>

\* Mutant of Cached: an entry without a time to live.
CachedForGood(v) == [present |-> TRUE, value |-> v, expires |-> FALSE]

Cached(v) == [present |-> TRUE, value |-> v, expires |-> TRUE]

Fill(t) ==
    /\ At(t, "fill")
    /\ entry' = [entry EXCEPT ![task[t].table] = Cached(task[t].value)]
    /\ Return(t)
    /\ UNCHANGED <<table, writes>>

Expire(x) ==
    /\ entry[x].present /\ entry[x].expires
    /\ entry' = [entry EXCEPT ![x] = NoEntry]
    /\ UNCHANGED <<table, writes, task>>

-----------------------------------------------------------------------------
(* Writing: the row, then the entry is deleted.                            *)

Write(t, x, value) ==
    /\ writes < MaxWrites
    /\ writes' = writes + 1
    /\ table' = [table EXCEPT ![x] = value]
    /\ task' = [task EXCEPT ![t] = [pc |-> "delete", table |-> x]]
    /\ UNCHANGED entry

Delete(t) ==
    /\ At(t, "delete")
    /\ entry' = [entry EXCEPT ![task[t].table] = NoEntry]
    /\ Return(t)
    /\ UNCHANGED <<table, writes>>

\* createTariff: looks for an active one with the key, then inserts.
CreateTariff(t, k) ==
    /\ table.tariffs[k] = 0
    /\ Start(t, [pc |-> "tariff", key |-> k])
    /\ UNCHANGED <<table, entry, writes>>
InsertTariff(t) ==
    /\ At(t, "tariff")
    /\ Write(t, "tariffs", [table.tariffs EXCEPT ![task[t].key] = @ + 1])

\* updateTariff may move a tariff to another key, and does not look there.
UpdateTariff(t, k, to) ==
    /\ task[t] = Idle
    /\ table.tariffs[k] > 0 /\ k # to
    /\ Write(t, "tariffs", [table.tariffs EXCEPT ![k] = @ - 1, ![to] = @ + 1])

DeactivateTariff(t, k) ==
    /\ task[t] = Idle
    /\ table.tariffs[k] > 0
    /\ Write(t, "tariffs", [table.tariffs EXCEPT ![k] = @ - 1])

CreateCommissionRule(t) ==
    /\ table.rules = 0
    /\ Start(t, [pc |-> "rule"])
    /\ UNCHANGED <<table, entry, writes>>
InsertCommissionRule(t) == At(t, "rule") /\ Write(t, "rules", table.rules + 1)

\* updateCommissionRule may deactivate the rule, or activate it again.
UpdateCommissionRule(t, n) ==
    /\ task[t] = Idle
    /\ n \in {table.rules + 1} \cup (IF table.rules > 0 THEN {table.rules - 1} ELSE {})
    /\ Write(t, "rules", n)

\* create, update and remove of a service area; set of a configuration value.
WriteArea(t) == task[t] = Idle /\ Write(t, "areas", table.areas + 1)
SetConfig(t) == task[t] = Idle /\ Write(t, "config", table.config + 1)

\* A statement to the database or to Redis fails, or the process stops.
Throw(t) ==
    /\ task[t] # Idle
    /\ Return(t)
    /\ UNCHANGED <<table, entry, writes>>

Step(t) ==
    \/ Read(t) \/ Fill(t) \/ Delete(t) \/ InsertTariff(t) \/ InsertCommissionRule(t) \/ Throw(t)
Next ==
    \/ \E t \in Tasks :
          \/ GetActiveTariffs(t) \/ GetActiveCommissionRules(t) \/ GetActiveAreas(t)
          \/ GetConfig(t) \/ Step(t)
          \/ \E k \in Keys : CreateTariff(t, k) \/ DeactivateTariff(t, k)
                             \/ \E to \in Keys : UpdateTariff(t, k, to)
          \/ CreateCommissionRule(t) \/ \E n \in 0 .. MaxWrites : UpdateCommissionRule(t, n)
          \/ WriteArea(t) \/ SetConfig(t)
    \/ \E x \in Tables : Expire(x)

\* Redis drops an entry when its time has come.
Fairness == \A x \in Tables : WF_vars(Expire(x))
Spec == Init /\ [][Next]_vars
FairSpec == Spec /\ Fairness

-----------------------------------------------------------------------------
(* The tariff of a trip: resolveTariff over the active rows.  An argument  *)
(* the caller leaves out is None.                                          *)

Candidates(rows, area, service) ==
    {k \in Keys : /\ rows[k] > 0
                  /\ k.area \in {area, None}
                  /\ service # None => k.service \in {service, None}}

\* Mutant of Score: the area outweighs the service.
ScoreByArea(k, area, service) ==
    (IF service # None /\ k.service = service THEN 1 ELSE 0)
        + (IF area # None /\ k.area = area THEN 2 ELSE 0)

Score(k, area, service) ==
    (IF service # None /\ k.service = service THEN 2 ELSE 0)
        + (IF area # None /\ k.area = area THEN 1 ELSE 0)

\* The tariffs the sort may put first (rows of one score keep no order).
ResolveTariff(rows, area, service) ==
    LET C == Candidates(rows, area, service)
    IN  {k \in C : \A o \in C : Score(k, area, service) >= Score(o, area, service)}

-----------------------------------------------------------------------------
(* Properties.                                                             *)

\* Every table, cache entry and call in progress has its type.
PricingTypeOK ==
    /\ table.tariffs \in [Keys -> 0 .. MaxWrites]
    /\ table.rules \in 0 .. MaxWrites /\ table.areas \in 0 .. MaxWrites
    /\ table.config \in 0 .. MaxWrites
    /\ \A x \in Tables : entry[x] = NoEntry \/ entry[x] = Cached(entry[x].value)
    /\ writes \in 0 .. MaxWrites

\* A trip is priced by the tariff made for it: its service's in its area, then
\* its service's anywhere, then its area's for every service, then the general
\* one; and there is a price when any of them is active
\* (pricing.service.ts:110-127).
TariffFits ==
    \A area \in Areas \cup {None} :
        LET order == <<[service |-> "RIDE", area |-> area], [service |-> "RIDE", area |-> None],
                       [service |-> None, area |-> area], [service |-> None, area |-> None]>>
            active == {i \in 1 .. 4 : table.tariffs[order[i]] > 0}
        IN  ResolveTariff(table.tariffs, area, "RIDE")
                = IF active = {} THEN {} ELSE {order[Min(active)]}

\* However reads, writes, failures and expiries interleave, once the
\* administrators stop writing every cache comes to serve what the database
\* holds ("cache-aside with explicit invalidation on write",
\* platform-config.service.ts:9-11; pricing.service.ts:251-285).
CatchesUp ==
    \A x \in Tables :
        <>[](entry[x] # NoEntry => entry[x].value = table[x])
=============================================================================
