------------------------------- MODULE Bookings -------------------------------
(***************************************************************************)
(* The reservation desk: creating and cancelling a booking, initiating and *)
(* confirming a payment, cancelling a trip.  Each HTTP request is a        *)
(* process that handles one request and stops.  A step is one database     *)
(* statement (or a group that no other request can tell apart), because    *)
(* PostgreSQL runs at READ COMMITTED: whatever a request read without a    *)
(* row lock may be stale when it writes.                                   *)
(*                                                                         *)
(* A transaction's writes become visible in the step that commits it; the  *)
(* row locks it took are held until then.  A request may die at any step,  *)
(* which rolls its open transaction back.                                  *)
(***************************************************************************)
EXTENDS Integers, Sequences, FiniteSets

CONSTANTS Trips,          \* rows of trips_trip
          Vehicles,       \* rows of vehicles_vehicle
          VehicleOf,      \* the vehicle assigned to each trip
          Labels,         \* seat labels a request may carry
          Plan,           \* the commercialisable seats, in plan order
          TotalSeats,     \* vehicle.total_seats
          Bookings,       \* primary keys of bookings_booking
          ClientTickets,  \* ticket numbers an agent may send with a booking
          Payments,       \* primary keys of payments_payment
          Requests,       \* HTTP requests
          None

ASSUME ConstantsAssumption ==
    /\ VehicleOf \in [Trips -> Vehicles]
    /\ Plan \in Seq(Labels)
    /\ TotalSeats \in Nat
    /\ IsFiniteSet(Bookings)
    /\ ClientTickets \subseteq Nat \ {0}
    /\ None \notin Trips \cup Labels \cup Bookings \cup Payments \cup Requests

VARIABLES
    tripStatus,     \* trip.status: "open" stands for scheduled, delayed, in_progress
    avail,          \* trip.available_seats
    tripLock,       \* which request holds the row lock of the trip
    vehicleLock,    \* ... and of the vehicle, which the join locks too
    bStatus,        \* booking.status, "none" while the row does not exist
    bTrip, bSeat,   \* booking.trip, booking.seat_number
    bTicket,        \* sequence part of booking.ticket_number
    pStatus,        \* payment.status, "none" while the row does not exist
    pBooking,       \* payment.booking
    payLock,        \* which request holds the row lock of the payment
    pc,             \* where each request is
    loc,            \* each request's local variables
    told,           \* bookings whose passenger got the trip-cancelled SMS
    freed           \* how many times cancel_booking freed each booking's seat

tripVars    == <<tripStatus, avail>>
bookingVars == <<bStatus, bTrip, bSeat, bTicket>>
paymentVars == <<pStatus, pBooking>>
lockVars    == <<tripLock, vehicleLock, payLock>>
history     == <<told, freed>>
vars == <<tripVars, bookingVars, paymentVars, lockVars, pc, loc, history>>

------------------------------------------------------------------------------
(* States and types *)

TripStatuses    == {"open", "completed", "cancelled"}
BookingStatuses == {"none", "pending", "paid", "cancelled"}
PaymentStatuses == {"none", "pending", "paid"}

Waiting == {"lock_create", "choose", "insert", "lock_cancel", "free",
            "record", "lock_payment", "confirm", "lock_trip", "notify", "commit_trip"}
Ended   == {"ok", "refused", "seat_taken", "failed"}

\* A request's locals: the rows it loaded, the seat and ticket it chose, the
\* counter it read under the lock, whether it comes from an agent's desk.
Locals == [trip: Trips \cup {None}, booking: Bookings \cup {None},
           payment: Payments \cup {None}, seat: Labels \cup {None},
           ticket: Nat, seen: Nat, desk: BOOLEAN]

Blank == [trip |-> None, booking |-> None, payment |-> None, seat |-> None,
          ticket |-> 0, seen |-> 0, desk |-> FALSE]

TypeOK ==
    /\ tripStatus \in [Trips -> TripStatuses]
    /\ avail \in [Trips -> Nat]
    /\ tripLock \in [Trips -> Requests \cup {None}]
    /\ vehicleLock \in [Vehicles -> Requests \cup {None}]
    /\ bStatus \in [Bookings -> BookingStatuses]
    /\ bTrip \in [Bookings -> Trips \cup {None}]
    /\ bSeat \in [Bookings -> Labels \cup {None}]
    /\ bTicket \in [Bookings -> Nat]
    /\ pStatus \in [Payments -> PaymentStatuses]
    /\ pBooking \in [Payments -> Bookings \cup {None}]
    /\ payLock \in [Payments -> Requests \cup {None}]
    /\ pc \in [Requests -> {"idle"} \cup Waiting \cup Ended]
    /\ loc \in [Requests -> Locals]
    /\ told \subseteq Bookings
    /\ freed \in [Bookings -> Nat]

Init ==
    /\ tripStatus = [t \in Trips |-> "open"]
    /\ avail = [t \in Trips |-> TotalSeats]
    /\ tripLock = [t \in Trips |-> None]
    /\ vehicleLock = [v \in Vehicles |-> None]
    /\ bStatus = [b \in Bookings |-> "none"]
    /\ bTrip = [b \in Bookings |-> None]
    /\ bSeat = [b \in Bookings |-> None]
    /\ bTicket = [b \in Bookings |-> 0]
    /\ pStatus = [p \in Payments |-> "none"]
    /\ pBooking = [p \in Payments |-> None]
    /\ payLock = [p \in Payments |-> None]
    /\ pc = [r \in Requests |-> "idle"]
    /\ loc = [r \in Requests |-> Blank]
    /\ told = {}
    /\ freed = [b \in Bookings |-> 0]

------------------------------------------------------------------------------
(* Queries *)

Closed(t) == tripStatus[t] \in {"cancelled", "completed"}

\* The rows the code selects with exclude(status="cancelled").
IsActive(b) == bStatus[b] \in {"pending", "paid"}

ActiveOn(t) == {b \in Bookings : IsActive(b) /\ bTrip[b] = t}

\* unique_active_seat_per_trip: no active booking other than b has the seat.
SeatFreeFor(t, s, b) ==
    \A other \in Bookings \ {b} : ~(IsActive(other) /\ bTrip[other] = t /\ bSeat[other] = s)

SeatFree(t, s) == SeatFreeFor(t, s, None)

\* next_available_seat: the first seat of the plan that nobody holds.
IsNextSeat(t, s) ==
    \E i \in DOMAIN Plan :
        /\ s = Plan[i]
        /\ SeatFree(t, s)
        /\ \A j \in DOMAIN Plan : j < i => ~SeatFree(t, Plan[j])

TicketsIssued == {bTicket[b] : b \in {c \in Bookings : bStatus[c] # "none"}}

\* generate_ticket_number: one more than the largest number in the table (one value).
NextTicket ==
    {last + 1 : last \in {m \in TicketsIssued \cup {0} : \A k \in TicketsIssued : k <= m}}

------------------------------------------------------------------------------
(* Bounds: the finite tables never overflow, so no request blocks on them. *)

CreatesUnderWay == {r \in Requests : pc[r] \in {"lock_create", "choose", "insert"}}
RoomForBooking  == Cardinality(CreatesUnderWay) < Cardinality({b \in Bookings : bStatus[b] = "none"})

PaysUnderWay    == {r \in Requests : pc[r] = "record"}
RoomForPayment  == Cardinality(PaysUnderWay) < Cardinality({p \in Payments : pStatus[p] = "none"})

------------------------------------------------------------------------------
(* Transactions *)

Goto(r, label) == pc' = [pc EXCEPT ![r] = label]

Without(lock, r) == [row \in DOMAIN lock |-> IF lock[row] = r THEN None ELSE lock[row]]

\* Commit or rollback: every row lock of the request is released.
EndTransaction(r) ==
    /\ tripLock' = Without(tripLock, r)
    /\ vehicleLock' = Without(vehicleLock, r)
    /\ payLock' = Without(payLock, r)

\* The request is answered.
Answer(r, result) ==
    /\ Goto(r, result)
    /\ loc' = [loc EXCEPT ![r] = Blank]

Refuse(r, result) ==
    /\ Answer(r, result)
    /\ EndTransaction(r)
    /\ UNCHANGED <<tripVars, bookingVars, paymentVars, history>>

------------------------------------------------------------------------------
(* create_booking *)

\* The serializer loads the trip without a lock and rejects a closed one.
BeginCreate(r) ==
    /\ pc[r] = "idle"
    /\ RoomForBooking
    /\ \E t \in Trips, s \in Labels \cup {None}, n \in ClientTickets \cup {0}, desk \in BOOLEAN :
        /\ n # 0 => desk
        /\ IF Closed(t)
           THEN Answer(r, "refused")
           ELSE /\ Goto(r, "lock_create")
                /\ loc' = [loc EXCEPT ![r] = [Blank EXCEPT !.trip = t, !.seat = s,
                                                           !.ticket = n, !.desk = desk]]
    /\ UNCHANGED <<tripVars, bookingVars, paymentVars, lockVars, history>>

TripRowsFree(t) == tripLock[t] = None /\ vehicleLock[VehicleOf[t]] = None

\* The request holds trip t and its vehicle, and has read the counter.
TakeTripRows(r, t) ==
    /\ tripLock' = [tripLock EXCEPT ![t] = r]
    /\ vehicleLock' = [vehicleLock EXCEPT ![VehicleOf[t]] = r]
    /\ loc' = [loc EXCEPT ![r].seen = avail[t]]
    /\ Goto(r, "choose")
    /\ UNCHANGED <<tripVars, bookingVars, paymentVars, payLock, history>>

\* Mutant: the status tested before the lock is not tested again under it.
LockForCreateStale(r) ==
    /\ pc[r] = "lock_create" /\ TripRowsFree(loc[r].trip)
    /\ IF avail[loc[r].trip] <= 0 THEN Refuse(r, "refused") ELSE TakeTripRows(r, loc[r].trip)

\* select_for_update().select_related("vehicle") locks the trip and its vehicle,
\* and reads both as they are once the locks are granted.
LockForCreate(r) ==
    LET t == loc[r].trip
    IN  /\ pc[r] = "lock_create"
        /\ TripRowsFree(t)
        /\ \/ /\ Closed(t) \/ avail[t] <= 0
              /\ Refuse(r, "refused")
           \/ /\ ~Closed(t) /\ avail[t] > 0
              /\ TakeTripRows(r, t)

\* The seat asked for, or the next one of the plan; the ticket number sent by the
\* agent, or the next one.
AssignSeat(r) ==
    \E s \in Labels, n \in IF loc[r].ticket = 0 THEN NextTicket ELSE {loc[r].ticket} :
        /\ IF loc[r].seat = None THEN IsNextSeat(loc[r].trip, s) ELSE s = loc[r].seat
        /\ loc' = [loc EXCEPT ![r].seat = s, ![r].ticket = n]
        /\ Goto(r, "insert")
        /\ UNCHANGED <<tripVars, bookingVars, paymentVars, lockVars, history>>

\* Mutant: a plan with no free seat is not answered.
ChooseSeatOrWait(r) == pc[r] = "choose" /\ AssignSeat(r)

\* A plan with no free seat is answered TripFull.
ChooseSeat(r) ==
    /\ pc[r] = "choose"
    /\ \/ AssignSeat(r)
       \/ /\ loc[r].seat = None
          /\ \A i \in DOMAIN Plan : ~SeatFree(loc[r].trip, Plan[i])
          /\ Refuse(r, "refused")

\* What the unique constraints on seat and ticket allow to insert.
Insertable(r) == SeatFree(loc[r].trip, loc[r].seat) /\ loc[r].ticket \notin TicketsIssued

\* The new row, under any key not yet used.
AddRow(r) ==
    \E b \in Bookings :
        /\ bStatus[b] = "none"
        /\ bStatus' = [bStatus EXCEPT ![b] = IF loc[r].desk THEN "paid" ELSE "pending"]
        /\ bTrip' = [bTrip EXCEPT ![b] = loc[r].trip]
        /\ bSeat' = [bSeat EXCEPT ![b] = loc[r].seat]
        /\ bTicket' = [bTicket EXCEPT ![b] = loc[r].ticket]

\* Mutant: the decrement survives a refused INSERT.
InsertBookingNoRollback(r) ==
    /\ pc[r] = "insert"
    /\ IF Insertable(r) THEN AddRow(r) ELSE UNCHANGED bookingVars
    /\ avail' = [avail EXCEPT ![loc[r].trip] = loc[r].seen - 1]
    /\ Answer(r, "ok")
    /\ EndTransaction(r)
    /\ UNCHANGED <<tripStatus, paymentVars, history>>

\* INSERT, then the decrement of the counter read under the lock, then commit.
\* A violation of either unique constraint is answered SeatTaken.
InsertBooking(r) ==
    /\ pc[r] = "insert"
    /\ \/ /\ Insertable(r)
          /\ AddRow(r)
          /\ avail' = [avail EXCEPT ![loc[r].trip] = loc[r].seen - 1]
          /\ Answer(r, "ok")
          /\ EndTransaction(r)
          /\ UNCHANGED <<tripStatus, paymentVars, history>>
       \/ ~Insertable(r) /\ Refuse(r, "seat_taken")

------------------------------------------------------------------------------
(* cancel_booking *)

\* The status is tested on the row as the view loaded it, before the lock.  The
\* two-hour rule depends only on the clock and the role: both outcomes occur.
BeginCancel(r) ==
    /\ pc[r] = "idle"
    /\ \E b \in Bookings, tooLate \in BOOLEAN :
        /\ bStatus[b] # "none"
        /\ IF bStatus[b] = "cancelled" THEN Answer(r, "ok")
           ELSE IF tooLate THEN Answer(r, "refused")
           ELSE /\ Goto(r, "lock_cancel")
                /\ loc' = [loc EXCEPT ![r] = [Blank EXCEPT !.trip = bTrip[b], !.booking = b]]
    /\ UNCHANGED <<tripVars, bookingVars, paymentVars, lockVars, history>>

\* Mutant: the counter is read without the row lock.
LockForCancelUnlocked(r) ==
    /\ pc[r] = "lock_cancel"
    /\ loc' = [loc EXCEPT ![r].seen = avail[loc[r].trip]]
    /\ Goto(r, "free")
    /\ UNCHANGED <<tripVars, bookingVars, paymentVars, lockVars, history>>

LockForCancel(r) ==
    LET t == loc[r].trip
    IN  /\ pc[r] = "lock_cancel"
        /\ tripLock[t] = None
        /\ tripLock' = [tripLock EXCEPT ![t] = r]
        /\ loc' = [loc EXCEPT ![r].seen = avail[t]]
        /\ Goto(r, "free")
        /\ UNCHANGED <<tripVars, bookingVars, paymentVars, vehicleLock, payLock, history>>

\* Mutant: the counter is not given the seat back.
FreeSeatUncounted(r) ==
    /\ pc[r] = "free"
    /\ bStatus' = [bStatus EXCEPT ![loc[r].booking] = "cancelled"]
    /\ freed' = [freed EXCEPT ![loc[r].booking] = @ + 1]
    /\ Answer(r, "ok")
    /\ EndTransaction(r)
    /\ UNCHANGED <<tripVars, bTrip, bSeat, bTicket, paymentVars, told>>

\* The status is written whatever it has become, and the seat is given back.
FreeSeat(r) ==
    LET t == loc[r].trip
        b == loc[r].booking
    IN  /\ pc[r] = "free"
        /\ bStatus' = [bStatus EXCEPT ![b] = "cancelled"]
        /\ avail' = [avail EXCEPT ![t] = loc[r].seen + 1]
        /\ freed' = [freed EXCEPT ![b] = @ + 1]
        /\ Answer(r, "ok")
        /\ EndTransaction(r)
        /\ UNCHANGED <<tripStatus, bTrip, bSeat, bTicket, paymentVars, told>>

------------------------------------------------------------------------------
(* initiate_payment, confirm_payment *)

\* The serializer loads the booking; a paid one is refused.
BeginPay(r) ==
    /\ pc[r] = "idle"
    /\ RoomForPayment
    /\ \E b \in Bookings, desk \in BOOLEAN :
        /\ bStatus[b] # "none"
        /\ IF bStatus[b] = "paid"
           THEN Answer(r, "refused")
           ELSE /\ Goto(r, "record")
                /\ loc' = [loc EXCEPT ![r] = [Blank EXCEPT !.booking = b, !.desk = desk]]
    /\ UNCHANGED <<tripVars, bookingVars, paymentVars, lockVars, history>>

\* The pending payment is inserted.  An agent's desk goes on to confirm it.
RecordPayment(r) ==
    /\ pc[r] = "record"
    /\ \E p \in Payments :
        /\ pStatus[p] = "none"
        /\ pStatus' = [pStatus EXCEPT ![p] = "pending"]
        /\ pBooking' = [pBooking EXCEPT ![p] = loc[r].booking]
        /\ IF loc[r].desk
           THEN /\ Goto(r, "lock_payment")
                /\ loc' = [loc EXCEPT ![r] = [Blank EXCEPT !.payment = p]]
           ELSE Answer(r, "ok")
    /\ UNCHANGED <<tripVars, bookingVars, lockVars, history>>

\* verify: the payment as the view loaded it; a missing reference is refused.
BeginVerify(r) ==
    /\ pc[r] = "idle"
    /\ \E p \in Payments, refMissing \in BOOLEAN :
        /\ pStatus[p] # "none"
        /\ IF pStatus[p] = "paid" \/ refMissing
           THEN Answer(r, "refused")
           ELSE /\ Goto(r, "lock_payment")
                /\ loc' = [loc EXCEPT ![r] = [Blank EXCEPT !.payment = p]]
    /\ UNCHANGED <<tripVars, bookingVars, paymentVars, lockVars, history>>

\* The payment is locked, read again and refused if it is paid by now.
LockPayment(r) ==
    LET p == loc[r].payment
    IN  /\ pc[r] = "lock_payment"
        /\ payLock[p] = None
        /\ \/ /\ pStatus[p] = "paid"
              /\ Refuse(r, "refused")
           \/ /\ pStatus[p] # "paid"
              /\ payLock' = [payLock EXCEPT ![p] = r]
              /\ Goto(r, "confirm")
              /\ UNCHANGED <<tripVars, bookingVars, paymentVars, tripLock, vehicleLock,
                             loc, history>>

\* Mutant: the booking is not written with its payment.
ConfirmPaymentAlone(r) ==
    /\ pc[r] = "confirm"
    /\ pStatus' = [pStatus EXCEPT ![loc[r].payment] = "paid"]
    /\ Answer(r, "ok")
    /\ EndTransaction(r)
    /\ UNCHANGED <<tripVars, bookingVars, pBooking, history>>

\* Mutant: no constraint protects the seat of a booking brought back.
ConfirmPaymentAnySeat(r) ==
    /\ pc[r] = "confirm"
    /\ bStatus' = [bStatus EXCEPT ![pBooking[loc[r].payment]] = "paid"]
    /\ pStatus' = [pStatus EXCEPT ![loc[r].payment] = "paid"]
    /\ Answer(r, "ok")
    /\ EndTransaction(r)
    /\ UNCHANGED <<tripVars, bTrip, bSeat, bTicket, pBooking, history>>

\* The booking is set paid whatever its status, then the payment, then commit.  A
\* cancelled booking whose seat was sold again breaks the constraint (HTTP 500).
ConfirmPayment(r) ==
    LET p == loc[r].payment
        b == pBooking[p]
    IN  /\ pc[r] = "confirm"
        /\ \/ /\ SeatFreeFor(bTrip[b], bSeat[b], b)
              /\ bStatus' = [bStatus EXCEPT ![b] = "paid"]
              /\ pStatus' = [pStatus EXCEPT ![p] = "paid"]
              /\ Answer(r, "ok")
              /\ EndTransaction(r)
              /\ UNCHANGED <<tripVars, bTrip, bSeat, bTicket, pBooking, history>>
           \/ /\ ~SeatFreeFor(bTrip[b], bSeat[b], b)
              /\ Refuse(r, "failed")

------------------------------------------------------------------------------
(* cancel_trip *)

\* The status is tested on the row as the view loaded it.
BeginCancelTrip(r) ==
    /\ pc[r] = "idle"
    /\ \E t \in Trips :
        IF Closed(t)
        THEN Answer(r, "refused")
        ELSE /\ Goto(r, "lock_trip")
             /\ loc' = [loc EXCEPT ![r] = [Blank EXCEPT !.trip = t]]
    /\ UNCHANGED <<tripVars, bookingVars, paymentVars, lockVars, history>>

\* The UPDATE waits for the row lock and keeps it until the commit.
UpdateTrip(r) ==
    LET t == loc[r].trip
    IN  /\ pc[r] = "lock_trip"
        /\ tripLock[t] = None
        /\ tripLock' = [tripLock EXCEPT ![t] = r]
        /\ Goto(r, "notify")
        /\ UNCHANGED <<tripVars, bookingVars, paymentVars, vehicleLock, payLock, loc, history>>

\* Mutant: only the passengers who paid are told.
NotifyPaidPassengers(r) ==
    /\ pc[r] = "notify"
    /\ told' = told \cup {b \in ActiveOn(loc[r].trip) : bStatus[b] = "paid"}
    /\ Goto(r, "commit_trip")
    /\ UNCHANGED <<tripVars, bookingVars, paymentVars, lockVars, loc, freed>>

\* _passenger_phones and the SMS loop, inside the transaction.
NotifyPassengers(r) ==
    /\ pc[r] = "notify"
    /\ told' = told \cup ActiveOn(loc[r].trip)
    /\ Goto(r, "commit_trip")
    /\ UNCHANGED <<tripVars, bookingVars, paymentVars, lockVars, loc, freed>>

CommitTrip(r) ==
    /\ pc[r] = "commit_trip"
    /\ tripStatus' = [tripStatus EXCEPT ![loc[r].trip] = "cancelled"]
    /\ Answer(r, "ok")
    /\ EndTransaction(r)
    /\ UNCHANGED <<avail, bookingVars, paymentVars, history>>

------------------------------------------------------------------------------

\* The worker or its connection dies: PostgreSQL rolls the transaction back.
Crash(r) ==
    /\ pc[r] \in Waiting
    /\ Refuse(r, "failed")

Begin(r) ==
    \/ BeginCreate(r) \/ BeginCancel(r) \/ BeginPay(r)
    \/ BeginVerify(r) \/ BeginCancelTrip(r)

Advance(r) ==
    \/ LockForCreate(r) \/ ChooseSeat(r) \/ InsertBooking(r)
    \/ LockForCancel(r) \/ FreeSeat(r)
    \/ RecordPayment(r) \/ LockPayment(r) \/ ConfirmPayment(r)
    \/ UpdateTrip(r) \/ NotifyPassengers(r) \/ CommitTrip(r)

\* No request is left to serve.
Quiescent ==
    /\ \A r \in Requests : pc[r] \in Ended
    /\ UNCHANGED vars

Next ==
    \/ \E r \in Requests : Begin(r) \/ Advance(r) \/ Crash(r)
    \/ Quiescent

Spec == Init /\ [][Next]_vars

\* A request that was received is executed: nothing but the row locks delays it.
FairSpec == Spec /\ \A r \in Requests : WF_vars(Advance(r))

------------------------------------------------------------------------------
(* Properties.  TypeOK is above. *)

\* No lost update: the counter a request read under the row lock is the one in the
\* table when the request writes it back (create_booking, cancel_booking).
CounterReadIsCurrent ==
    \A r \in Requests :
        pc[r] \in {"choose", "insert", "free"} => loc[r].seen = avail[loc[r].trip]

\* A seat is never lost: the counter is at least the seats nobody holds, whatever
\* requests interleave or die (the converse, no overselling, fails: see NoOversell).
NoSeatLost ==
    \A t \in Trips : avail[t] + Cardinality(ActiveOn(t)) >= TotalSeats

\* The bookings of a trip whose seat was freed exactly when it is not held: neither
\* cancelled twice nor brought back by a late payment.
FreedOnce(t) ==
    \A b \in Bookings :
        bTrip[b] = t => freed[b] = IF bStatus[b] = "cancelled" THEN 1 ELSE 0

\* The counter is exact on every trip no booking of which was cancelled twice or
\* paid after its cancellation: those two races are the only sources of drift.
CounterExact ==
    \A t \in Trips : FreedOnce(t) => avail[t] + Cardinality(ActiveOn(t)) = TotalSeats

\* unique_active_seat_per_trip, over every path that makes a booking active:
\* creation at the desk or online, and the confirmation of a late payment.  The desk's
\* runs check it as a part of ImplementsSeatMap.
OneHolderPerSeat ==
    \A b, c \in Bookings :
        /\ b # c /\ IsActive(b) /\ IsActive(c)
        /\ bTrip[b] = bTrip[c]
        => bSeat[b] # bSeat[c]

\* The SMS loop of cancel_trip misses nobody: on a cancelled trip every booking that
\* was never cancelled has been told, including those being created meanwhile.
PassengersTold ==
    \A b \in Bookings :
        /\ bStatus[b] # "none" /\ freed[b] = 0
        /\ tripStatus[bTrip[b]] = "cancelled"
        => b \in told

\* A confirmed payment and its booking are written together: a paid payment never
\* sits on a booking that still waits for payment.
PaidTogether ==
    \A p \in Payments :
        pStatus[p] = "paid" => bStatus[pBooking[p]] \in {"paid", "cancelled"}

\* Two confirmations of one payment are serialised: the one that writes holds a
\* payment that is still pending.
ConfirmsPendingOnly ==
    \A r \in Requests : pc[r] = "confirm" => pStatus[loc[r].payment] = "pending"

\* No booking appears on a trip that is cancelled or completed when it appears.
SaleOnOpenTrip ==
    \A b \in Bookings :
        bStatus[b] = "none" /\ bStatus'[b] # "none" => tripStatus[bTrip'[b]] = "open"

NoSaleOnClosedTrip == [][SaleOnOpenTrip]_vars

\* The desk implements the seat map: see module SeatMap for what that promises.
SeatHolders == [t \in Trips |-> [s \in Labels |->
                  {b \in Bookings : IsActive(b) /\ bTrip[b] = t /\ bSeat[b] = s}]]
SeatIssued  == [b \in Bookings |-> IF bStatus[b] = "none" THEN None ELSE <<bTrip[b], bSeat[b]>>]
TripOpen    == [t \in Trips |-> tripStatus[t] = "open"]

Map == INSTANCE SeatMap WITH holders <- SeatHolders, issued <- SeatIssued, open <- TripOpen

ImplementsSeatMap == Map!SeatSpec

\* Every request that was received is answered: no set of row locks blocks the desk.
EveryRequestAnswered == \A r \in Requests : pc[r] \in Waiting ~> pc[r] \in Ended

------------------------------------------------------------------------------
(* The inductive invariant behind the properties (module Bookings_proofs). *)

\* A row refers to rows that exist; a row that does not exist refers to none.
RowsOK ==
    /\ \A b \in Bookings :
          IF bStatus[b] = "none" THEN bTrip[b] = None /\ freed[b] = 0
          ELSE bTrip[b] \in Trips /\ bSeat[b] \in Labels
    /\ \A b \in Bookings : bStatus[b] = "cancelled" => freed[b] > 0
    /\ \A p \in Payments :
          pStatus[p] # "none" => pBooking[p] \in Bookings /\ bStatus[pBooking[p]] # "none"

\* A request's locals name the rows it works on; inside its transaction it holds the
\* row locks, so what it read is current and a sale in progress keeps the trip open.
RequestOK(r) ==
    /\ pc[r] \in {"lock_create", "choose", "insert", "lock_cancel", "free",
                  "lock_trip", "notify", "commit_trip"} => loc[r].trip \in Trips
    /\ pc[r] \in {"choose", "insert", "free", "notify", "commit_trip"} =>
          tripLock[loc[r].trip] = r
    /\ pc[r] \in {"choose", "insert", "free"} => loc[r].seen = avail[loc[r].trip]
    /\ pc[r] \in {"choose", "insert"} =>
          loc[r].seen > 0 /\ tripStatus[loc[r].trip] = "open"
    /\ pc[r] = "insert" => loc[r].seat \in Labels
    /\ pc[r] \in {"lock_cancel", "free", "record"} =>
          loc[r].booking \in Bookings /\ bStatus[loc[r].booking] # "none"
    /\ pc[r] \in {"lock_cancel", "free"} => bTrip[loc[r].booking] = loc[r].trip
    /\ pc[r] \in {"lock_payment", "confirm"} =>
          loc[r].payment \in Payments /\ pStatus[loc[r].payment] # "none"
    /\ pc[r] = "confirm" => payLock[loc[r].payment] = r /\ pStatus[loc[r].payment] = "pending"

\* Between the SMS loop and the commit no untold passenger joins the trip.
ToldBeforeCommit ==
    \A r \in Requests : pc[r] = "commit_trip" =>
        \A b \in Bookings :
            bTrip[b] = loc[r].trip /\ freed[b] = 0 => b \in told

DeskInv ==
    /\ TypeOK
    /\ RowsOK
    /\ \A r \in Requests : RequestOK(r)

------------------------------------------------------------------------------
(* What the documentation says and the code does not do. *)

\* docs/api/bookings.md:5-6: seats are reserved under a row lock, "pas de
\* surreservation possible": no trip has more active bookings than seats.
NoOversell == \A t \in Trips : Cardinality(ActiveOn(t)) <= TotalSeats

\* docs/api/payments.md:9-11: the seat was reserved at creation, so confirming only
\* marks the booking paid: the booking that becomes paid still holds its seat.
PaysHeldSeat ==
    \A b \in Bookings : bStatus[b] # "paid" /\ bStatus'[b] = "paid" => bStatus[b] # "cancelled"

ConfirmsReservedSeat == [][PaysHeldSeat]_vars

\* initiate_payment refuses a booking that is already paid: a booking is charged once.
ChargedOnce ==
    \A p, q \in Payments :
        p # q /\ pStatus[p] = "paid" /\ pStatus[q] = "paid" => pBooking[p] # pBooking[q]

\* create_booking raises SeatTaken "if the requested seat is already booked".
TakenMeansHeld ==
    \A r \in Requests :
        pc[r] = "insert" /\ pc'[r] = "seat_taken" => ~SeatFree(loc[r].trip, loc[r].seat)

SeatTakenIsTrue == [][TakenMeansHeld]_vars

==============================================================================
