CONSTANTS
    a1 = a1  a2 = a2  k1 = k1  k2 = k2  t1 = t1  t2 = t2  t3 = t3
    b1 = b1  b2 = b2  b3 = b3  p1 = p1  p2 = p2
    Admins = {a1, a2}
    CompanyOf <- MCCompanyOf
    Trips = {t1, t2, t3}
    RouteOf <- MCRouteOf
    OwnerOf <- MCOwnerOf
    Seats <- MCSeats
    DepartsIn <- MCDepartsIn
    Prices <- MCPrices
    Rates <- MCRates
    Bookings = {b1, b2, b3}
    Payments = {p1, p2}
    Methods = {"cash", "orange_money"}
    TopCount = 1
    Drift = 1
    Scenarios <- MCScenarios
SPECIFICATION Spec
SYMMETRY Perms
INVARIANTS
    RouteFillIsOccupancy
CHECK_DEADLOCK FALSE
