SPECIFICATION Spec
CONSTANTS
    t1 = t1  t2 = t2  v1 = v1  v2 = v2  A = A  B = B
    b1 = b1  b2 = b2  b3 = b3  p1 = p1  p2 = p2
    r1 = r1  r2 = r2  r3 = r3  r4 = r4  r5 = r5
    None = None
    Trips <- OneTrip
    Vehicles = {v1}
    VehicleOf <- SoloTrip
    Labels = {A, B}
    Plan <- PlanA
    TotalSeats = 1
    Bookings = {b1, b2, b3}
    ClientTickets = {}
    Payments = {}
    Requests = {r1, r2, r3, r4, r5}
SYMMETRY RowSymmetry
INVARIANTS NoOversell
