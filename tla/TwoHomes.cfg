SPECIFICATION Spec
CONSTANTS
    rider = rider
    driver1 = driver1
    driver2 = driver2
    company = company
    sedan = sedan
    bike = bike
    None = None
    Tasks = {"t1", "t2"}
    Riders = {rider}
    Drivers = {driver1, driver2}
    Businesses = {company}
    FareOf <- MCFareOf
    Fee <- MCFee
    Amounts = {3}
    Opening = 11
    MaxTrips = 2
    MaxOthers = 1
    MaxDay = 1
    Evening = 1
    Vehicles = {sedan, bike}
    Tariffs <- MCTariffs
    Routes <- MCRoutes
    Percents = {0, 50}
    Promos <- MCPromos
    Types = {"LICENSE"}
    Assigned = {"DRIVER"}
    MaxDocuments = 2
    Plates = {"plate", "other plate"}
    Partners = {"partner", "other partner"}
    Signatures = {"visa", "verve", "master"}
    MaxRows = 3
    BaseYear = 2022
    Years = 4
    Starts <- MCStarts
    Ticks = {7, 725}
    MaxTicks = 5
    MaxBars = 2
INVARIANTS
    OneHomeAlways
SYMMETRY Symmetry
CHECK_DEADLOCK FALSE
