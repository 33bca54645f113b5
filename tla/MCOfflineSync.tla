----------------------------- MODULE MCOfflineSync -----------------------------
(* Constants of the small instances of OfflineSync. *)
EXTENDS OfflineSync

CONSTANTS t1, t2, A, B, C, n1, n2, n3, n4, n5, n6, n7, d1, d2

PlanAB == <<A, B>>
TwoVehicles == [t \in Trips |-> t]

Booking(n, t, s) == [kind |-> "booking", num |-> n, trip |-> t, seat |-> s]
Parcel(n)   == [kind |-> "parcel", num |-> n, trip |-> None, seat |-> None]
Boarding(n) == [kind |-> "boarding", num |-> n, trip |-> None, seat |-> None]

\* Two agents sold the same seats of two trips, in opposite orders.  One wrote a label
\* that is not in the plan and boarded a passenger of the other, who named a trip of
\* another company and took a parcel.
CrossedSales == [d \in {d1, d2} |->
    IF d = d1 THEN <<Booking(n1, t1, A), Booking(n6, t1, None), Booking(n2, t2, C), Boarding(n3)>>
    ELSE <<Booking(n3, t2, None), Booking(n7, None, A), Booking(n4, t1, A), Parcel(n1)>>]

\* One agent sold one seat.
OneSale == [d \in {d1} |-> <<Booking(n1, t1, A)>>]

\* Two agents' devices took the same local number; both took the same parcel.
SameNumber == [d \in {d1, d2} |-> <<Booking(n1, t1, None), Parcel(n2)>>]

\* An agent boards a passenger who bought online.
BoardingOnly == [d \in {d1} |-> <<Boarding(n3)>>]

==============================================================================
