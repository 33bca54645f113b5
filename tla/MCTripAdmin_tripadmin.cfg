CONSTANTS
    Vehicles = {v1, v2}
    Passengers = {p1, p2}
    Calls = {c1, c2}
    Days = {d1}
    Capacities = {1, 2}
    MaxTrips = 3
SPECIFICATION Spec
SYMMETRY Perms
INVARIANTS
    TripInv
    CounterAddsUp
    CancelledIsTold
    ToldIsCancelled
CHECK_DEADLOCK FALSE
