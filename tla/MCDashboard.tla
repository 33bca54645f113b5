------------------------------ MODULE MCDashboard ------------------------------
\* Two companies; four years of dates without sales, the turn of a year with some, and
\* a day with readers.
EXTENDS Dashboard, TLC

CONSTANTS a1, a2, k1, k2, t1, t2, t3, b1, b2, b3, p1, p2

MCCompanyOf == a1 :> k1 @@ a2 :> k2
MCRouteOf   == t1 :> "North" @@ t2 :> "South" @@ t3 :> "East"
MCOwnerOf   == "North" :> k1 @@ "South" :> k1 @@ "East" :> k2
MCSeats     == t1 :> 1 @@ t2 :> 2 @@ t3 :> 2
MCDepartsIn == t1 :> 1 @@ t2 :> 2 @@ t3 :> 1
MCPrices    == t1 :> {2550, 3333} @@ t2 :> {3333} @@ t3 :> {2990}
MCRates     == k1 :> {350, 500} @@ k2 :> {350}

Day(y, m, d) == [year |-> y, month |-> m, day |-> d]

Calendar4Years == [from |-> Day(2027, 1, 1), days |-> 1500, activity |-> "none"]
NewYear        == [from |-> Day(2027, 12, 31), days |-> 1, activity |-> "sales"]
Readers        == [from |-> Day(2028, 2, 28), days |-> 2, activity |-> "pages"]

MCScenarios == {Calendar4Years, NewYear, Readers}

Perms == Permutations(Bookings) \cup Permutations(Payments)
==============================================================================
