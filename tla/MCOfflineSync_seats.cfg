SPECIFICATION FairSpec
CONSTANTS
    t1 = t1  t2 = t2  A = A  B = B  C = C
    n1 = n1  n2 = n2  n3 = n3  n4 = n4  n5 = n5  n6 = n6  n7 = n7  d1 = d1  d2 = d2
    None = None
    Trips = {t1, t2}
    Labels = {A, B, C}
    Plan <- PlanAB
    VehicleOf <- TwoVehicles
    TotalSeats = 2
    Numbers = {n1, n2, n3, n4, n5, n6, n7}
    DeskNumbers = {n5}
    Devices = {d1, d2}
    Batch <- CrossedSales
    Calls = {1, 2}
CHECK_DEADLOCK FALSE
INVARIANTS SyncInv SeatsHeldOnce NothingLostSilently ReportedSeatIsStored
PROPERTIES EveryCallEnds ImplementsSeatMap
