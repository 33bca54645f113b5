CONSTANTS
    Vehicles = {v1, v2}
    Passengers = {p1}
    Calls = {c1, c2}
    Days = {d1}
    Capacities = {2}
    MaxTrips = 3
SPECIFICATION Spec
PROPERTIES
    NoTripInMaintenance
CHECK_DEADLOCK FALSE
