------------------------------ MODULE MCBookings ------------------------------
(* Constants of the small instances of Bookings. *)
EXTENDS Bookings, TLC

CONSTANTS t1, t2, v1, v2, A, B, b1, b2, b3, p1, p2, r1, r2, r3, r4, r5

OneTrip    == {t1}
TwoTrips   == {t1, t2}
OneVehicle == [t \in {t1, t2} |-> v1]
OwnVehicle == [t \in {t1, t2} |-> IF t = t1 THEN v1 ELSE v2]
SoloTrip   == [t \in {t1} |-> v1]

PlanAB == <<A, B>>
PlanA  == <<A>>

\* Requests and rows are interchangeable.
RowSymmetry == Permutations(Bookings) \cup Permutations(Payments) \cup Permutations(Requests)

==============================================================================
