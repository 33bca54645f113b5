---------------------------- MODULE Bookings_proofs ----------------------------
(***************************************************************************)
(* Proofs about module Bookings, for any number of trips, seats, bookings, *)
(* payments and requests: the inductive invariant of the row locks, the    *)
(* safety of seats, payments and news, and the refinement of SeatMap.      *)
(***************************************************************************)
EXTENDS Bookings, FiniteSetTheorems, TLAPS

(***************************************************************************)
(* Lemmas about the end of a transaction: every lock of the request, and   *)
(* no other lock, is released.                                             *)
(***************************************************************************)

LEMMA WithoutReleases ==
    ASSUME NEW S, NEW lock \in [S -> Requests \cup {None}], NEW r \in Requests
    PROVE  /\ Without(lock, r) \in [S -> Requests \cup {None}]
           /\ \A row \in S, q \in Requests :
                 q # r => (Without(lock, r)[row] = q <=> lock[row] = q)
  BY ConstantsAssumption DEF Without

\* What the end of request r's transaction leaves to the other requests.
LEMMA EndKeepsOthers ==
    ASSUME TypeOK, NEW r \in Requests, EndTransaction(r)
    PROVE  /\ tripLock' \in [Trips -> Requests \cup {None}]
           /\ vehicleLock' \in [Vehicles -> Requests \cup {None}]
           /\ payLock' \in [Payments -> Requests \cup {None}]
           /\ \A t \in Trips, q \in Requests : q # r => (tripLock'[t] = q <=> tripLock[t] = q)
           /\ \A p \in Payments, q \in Requests : q # r => (payLock'[p] = q <=> payLock[p] = q)
<1>1. /\ tripLock \in [Trips -> Requests \cup {None}]
      /\ vehicleLock \in [Vehicles -> Requests \cup {None}]
      /\ payLock \in [Payments -> Requests \cup {None}]
  BY DEF TypeOK
<1>2. /\ tripLock' \in [Trips -> Requests \cup {None}]
      /\ \A t \in Trips, q \in Requests : q # r => (tripLock'[t] = q <=> tripLock[t] = q)
  BY <1>1, WithoutReleases DEF EndTransaction
<1>3. vehicleLock' \in [Vehicles -> Requests \cup {None}]
  BY <1>1, WithoutReleases DEF EndTransaction
<1>4. /\ payLock' \in [Payments -> Requests \cup {None}]
      /\ \A p \in Payments, q \in Requests : q # r => (payLock'[p] = q <=> payLock[p] = q)
  BY <1>1, WithoutReleases DEF EndTransaction
<1> QED
  BY <1>2, <1>3, <1>4

\* An answered request is outside every section of the code; the others do not move.
LEMMA AnswerEnds ==
    ASSUME TypeOK, NEW r \in Requests, NEW result \in Ended, Answer(r, result)
    PROVE  /\ pc' \in [Requests -> {"idle"} \cup Waiting \cup Ended]
           /\ loc' \in [Requests -> Locals]
           /\ pc'[r] \in Ended
           /\ \A q \in Requests : q # r => pc'[q] = pc[q] /\ loc'[q] = loc[q]
  BY ConstantsAssumption DEF Answer, Goto, TypeOK, Locals, Blank

LEMMA InitDeskInv == Init => DeskInv
  BY ConstantsAssumption
     DEF Init, DeskInv, TypeOK, RowsOK, RequestOK, TripStatuses, BookingStatuses,
         PaymentStatuses, Waiting, Ended, Locals, Blank

\* A step of r leaves a request q as it was when it keeps q's locals and locks, the
\* rows it may refer to, and the trips and payments that q has locked.
LEMMA OthersOK ==
    ASSUME DeskInv, NEW r \in Requests, NEW q \in Requests, q # r,
           pc'[q] = pc[q], loc'[q] = loc[q],
           \A t \in Trips : tripLock[t] = q =>
              tripLock'[t] = q /\ avail'[t] = avail[t] /\ tripStatus'[t] = tripStatus[t],
           \A p \in Payments : payLock[p] = q => payLock'[p] = q /\ pStatus'[p] = pStatus[p],
           \A b \in Bookings : bStatus[b] # "none" => bStatus'[b] # "none" /\ bTrip'[b] = bTrip[b],
           \A p \in Payments : pStatus[p] # "none" => pStatus'[p] # "none"
    PROVE  RequestOK(q)'
<1>1. RequestOK(q)
  BY DEF DeskInv
<1> QED
  BY <1>1 DEF RequestOK

\* The tables and the history, which the steps that only move a request leave alone.
Tables == <<tripStatus, avail, bStatus, bTrip, bSeat, bTicket, pStatus, pBooking, told, freed>>

LEMMA RowsKept == ASSUME RowsOK, UNCHANGED Tables PROVE RowsOK'
  BY DEF RowsOK, Tables

LEMMA EndedOK == ASSUME NEW r, pc[r] \in Ended PROVE RequestOK(r)
  BY DEF Ended, RequestOK

LEMMA RefuseKeepsDeskInv ==
    ASSUME DeskInv, NEW r \in Requests, NEW result \in Ended, Refuse(r, result)
    PROVE  DeskInv'
<1>1. TypeOK /\ Answer(r, result) /\ EndTransaction(r)
  BY DEF DeskInv, Refuse
<1>2. UNCHANGED Tables
  BY DEF Refuse, Tables, tripVars, bookingVars, paymentVars, history
<1>3. TypeOK'
  BY <1>1, <1>2, AnswerEnds, EndKeepsOthers DEF TypeOK, Tables
<1>4. RowsOK'
  BY <1>2, RowsKept DEF DeskInv
<1>5. RequestOK(r)'
  BY <1>1, AnswerEnds DEF Ended, RequestOK
<1>6. ASSUME NEW q \in Requests, q # r PROVE RequestOK(q)'
  BY <1>1, <1>2, <1>6, AnswerEnds, EndKeepsOthers, OthersOK DEF Tables
<1> QED
  BY <1>3, <1>4, <1>5, <1>6 DEF DeskInv

\* A step that only moves r to another label, with new locals.
LEMMA MoveKeepsDeskInv ==
    ASSUME DeskInv, NEW r \in Requests,
           NEW label \in Waiting \cup Ended, NEW locals \in Locals,
           Goto(r, label), loc' = [loc EXCEPT ![r] = locals],
           UNCHANGED <<Tables, lockVars>>,
           RequestOK(r)'
    PROVE  DeskInv'
<1>1. TypeOK'
  BY DEF DeskInv, TypeOK, Goto, Tables, lockVars
<1>2. RowsOK'
  BY RowsKept DEF DeskInv
<1>3. ASSUME NEW q \in Requests, q # r PROVE RequestOK(q)'
  BY <1>3, OthersOK DEF DeskInv, TypeOK, Goto, Tables, lockVars
<1> QED
  BY <1>1, <1>2, <1>3 DEF DeskInv

(***************************************************************************)
(* One lemma per group of operations.                                      *)
(***************************************************************************)

LEMMA BlankInLocals ==
    /\ Blank \in Locals
    /\ \A t \in Trips, s \in Labels \cup {None}, n \in Nat, d \in BOOLEAN :
          [Blank EXCEPT !.trip = t, !.seat = s, !.ticket = n, !.desk = d] \in Locals
    /\ \A t \in Trips, b \in Bookings : [Blank EXCEPT !.trip = t, !.booking = b] \in Locals
    /\ \A b \in Bookings, d \in BOOLEAN : [Blank EXCEPT !.booking = b, !.desk = d] \in Locals
    /\ \A p \in Payments : [Blank EXCEPT !.payment = p] \in Locals
    /\ \A t \in Trips : [Blank EXCEPT !.trip = t] \in Locals
  BY DEF Blank, Locals

LEMMA AnswerKeepsDeskInv ==
    ASSUME DeskInv, NEW r \in Requests, NEW result \in Ended, Answer(r, result),
           UNCHANGED <<Tables, lockVars>>
    PROVE  DeskInv'
<1>1. RequestOK(r)'
  BY AnswerEnds DEF DeskInv, Ended, RequestOK
<1> QED
  BY <1>1, MoveKeepsDeskInv, BlankInLocals DEF Answer

LEMMA BeginKeepsDeskInv ==
    ASSUME DeskInv, NEW r \in Requests, Begin(r)
    PROVE  DeskInv'
<1> USE DEF tripVars, bookingVars, paymentVars, history, Tables
<1>0. pc \in [Requests -> {"idle"} \cup Waiting \cup Ended] /\ loc \in [Requests -> Locals]
  BY DEF DeskInv, TypeOK
<1>a. UNCHANGED <<Tables, lockVars>>
  BY DEF Begin, BeginCreate, BeginCancel, BeginPay, BeginVerify, BeginCancelTrip
<1>1. CASE BeginCreate(r)
  <2>1. PICK t \in Trips, s \in Labels \cup {None}, n \in ClientTickets \cup {0}, d \in BOOLEAN :
            \/ Answer(r, "refused")
            \/ /\ Goto(r, "lock_create")
               /\ loc' = [loc EXCEPT ![r] = [Blank EXCEPT !.trip = t, !.seat = s,
                                                          !.ticket = n, !.desk = d]]
    BY <1>1 DEF BeginCreate
  <2>2. CASE Answer(r, "refused")
    BY <2>2, <1>a, AnswerKeepsDeskInv DEF Ended
  <2>3. CASE ~Answer(r, "refused")
    <3>1. n \in Nat
      BY ConstantsAssumption
    <3>2. RequestOK(r)'
      BY <2>1, <2>3, <1>0, <1>a DEF Goto, Blank, RequestOK
    <3> QED
      BY <2>1, <2>3, <3>1, <3>2, <1>a, BlankInLocals, MoveKeepsDeskInv DEF Waiting
  <2> QED
    BY <2>2, <2>3
<1>2. CASE BeginCancel(r)
  <2>1. PICK b \in Bookings :
            /\ bStatus[b] # "none"
            /\ \/ Answer(r, "ok") \/ Answer(r, "refused")
               \/ /\ Goto(r, "lock_cancel")
                  /\ loc' = [loc EXCEPT ![r] = [Blank EXCEPT !.trip = bTrip[b], !.booking = b]]
    BY <1>2 DEF BeginCancel
  <2>2. CASE Answer(r, "ok") \/ Answer(r, "refused")
    BY <2>2, <1>a, AnswerKeepsDeskInv DEF Ended
  <2>3. CASE ~(Answer(r, "ok") \/ Answer(r, "refused"))
    <3>1. bTrip[b] \in Trips
      BY <2>1 DEF DeskInv, RowsOK
    <3>a. /\ pc'[r] = "lock_cancel"
          /\ loc'[r].trip = bTrip[b] /\ loc'[r].booking = b
      BY <2>1, <2>3, <1>0 DEF Goto, Blank
    <3>b. UNCHANGED <<bStatus, bTrip>>
      BY <1>a
    <3>2. RequestOK(r)'
      BY <2>1, <3>a, <3>b, <3>1 DEF RequestOK
    <3> QED
      BY <2>1, <2>3, <3>1, <3>2, <1>a, BlankInLocals, MoveKeepsDeskInv DEF Waiting
  <2> QED
    BY <2>2, <2>3
<1>3. CASE BeginPay(r)
  <2>1. PICK b \in Bookings, d \in BOOLEAN :
            /\ bStatus[b] # "none"
            /\ \/ Answer(r, "refused")
               \/ /\ Goto(r, "record")
                  /\ loc' = [loc EXCEPT ![r] = [Blank EXCEPT !.booking = b, !.desk = d]]
    BY <1>3 DEF BeginPay
  <2>2. CASE Answer(r, "refused")
    BY <2>2, <1>a, AnswerKeepsDeskInv DEF Ended
  <2>3. CASE ~Answer(r, "refused")
    <3>2. RequestOK(r)'
      BY <2>1, <2>3, <1>0, <1>a DEF Goto, Blank, RequestOK
    <3> QED
      BY <2>1, <2>3, <3>2, <1>a, BlankInLocals, MoveKeepsDeskInv DEF Waiting
  <2> QED
    BY <2>2, <2>3
<1>4. CASE BeginVerify(r)
  <2>1. PICK p \in Payments :
            /\ pStatus[p] # "none"
            /\ \/ Answer(r, "refused")
               \/ /\ Goto(r, "lock_payment")
                  /\ loc' = [loc EXCEPT ![r] = [Blank EXCEPT !.payment = p]]
    BY <1>4 DEF BeginVerify
  <2>2. CASE Answer(r, "refused")
    BY <2>2, <1>a, AnswerKeepsDeskInv DEF Ended
  <2>3. CASE ~Answer(r, "refused")
    <3>2. RequestOK(r)'
      BY <2>1, <2>3, <1>0, <1>a DEF Goto, Blank, RequestOK
    <3> QED
      BY <2>1, <2>3, <3>2, <1>a, BlankInLocals, MoveKeepsDeskInv DEF Waiting
  <2> QED
    BY <2>2, <2>3
<1>5. CASE BeginCancelTrip(r)
  <2>1. PICK t \in Trips :
            \/ Answer(r, "refused")
            \/ /\ Goto(r, "lock_trip")
               /\ loc' = [loc EXCEPT ![r] = [Blank EXCEPT !.trip = t]]
    BY <1>5 DEF BeginCancelTrip
  <2>2. CASE Answer(r, "refused")
    BY <2>2, <1>a, AnswerKeepsDeskInv DEF Ended
  <2>3. CASE ~Answer(r, "refused")
    <3>2. RequestOK(r)'
      BY <2>1, <2>3, <1>0, <1>a DEF Goto, Blank, RequestOK
    <3> QED
      BY <2>1, <2>3, <3>2, <1>a, BlankInLocals, MoveKeepsDeskInv DEF Waiting
  <2> QED
    BY <2>2, <2>3
<1> QED
  BY <1>1, <1>2, <1>3, <1>4, <1>5 DEF Begin

LEMMA SeenInLocals ==
    ASSUME loc \in [Requests -> Locals], NEW r \in Requests, NEW n \in Nat
    PROVE  [loc EXCEPT ![r].seen = n] \in [Requests -> Locals]
  BY DEF Locals

LEMMA LockForCreateKeepsDeskInv ==
    ASSUME DeskInv, NEW r \in Requests, LockForCreate(r)
    PROVE  DeskInv'
<1> DEFINE t == loc[r].trip
           v == VehicleOf[t]
<1>1. TypeOK /\ RequestOK(r)
  BY DEF DeskInv
<1>2. t \in Trips /\ v \in Vehicles /\ tripLock[t] = None /\ pc[r] = "lock_create"
  BY <1>1, ConstantsAssumption DEF RequestOK, LockForCreate, TripRowsFree
<1>3. CASE Refuse(r, "refused")
  BY <1>3, RefuseKeepsDeskInv DEF Ended
<1>4. CASE ~Refuse(r, "refused")
  <2>1. /\ ~Closed(t) /\ avail[t] > 0
        /\ tripLock' = [tripLock EXCEPT ![t] = r]
        /\ vehicleLock' = [vehicleLock EXCEPT ![v] = r]
        /\ loc' = [loc EXCEPT ![r].seen = avail[t]]
        /\ Goto(r, "choose")
        /\ UNCHANGED <<Tables, payLock>>
    BY <1>4 DEF LockForCreate, TakeTripRows, Tables, tripVars, bookingVars, paymentVars, history
  <2>b. pc' \in [Requests -> {"idle"} \cup Waiting \cup Ended]
    BY <1>1, <2>1 DEF TypeOK, Goto, Waiting
  <2>c. loc' \in [Requests -> Locals]
    BY <1>1, <1>2, <2>1, SeenInLocals DEF TypeOK
  <2>2. TypeOK'
    BY <1>1, <1>2, <2>1, <2>b, <2>c DEF TypeOK, Tables
  <2>3. RowsOK'
    BY <2>1, RowsKept DEF DeskInv
  <2>4. tripStatus[t] = "open"
    BY <1>1, <1>2, <2>1 DEF TypeOK, Closed, TripStatuses
  <2>a. /\ pc'[r] = "choose" /\ tripLock'[t] = r
        /\ loc'[r].trip = t /\ loc'[r].seen = avail[t] /\ avail[t] > 0
        /\ avail' = avail /\ tripStatus' = tripStatus
    BY <1>1, <1>2, <2>1 DEF TypeOK, Goto, Locals, Tables
  <2>5. RequestOK(r)'
    BY <1>2, <2>a, <2>4 DEF RequestOK
  <2>6. ASSUME NEW q \in Requests, q # r PROVE RequestOK(q)'
    BY <1>1, <1>2, <2>1, <2>6, OthersOK, ConstantsAssumption DEF TypeOK, Goto, Tables
  <2> QED
    BY <2>2, <2>3, <2>5, <2>6 DEF DeskInv
<1> QED
  BY <1>3, <1>4

LEMMA ChooseSeatKeepsDeskInv ==
    ASSUME DeskInv, NEW r \in Requests, ChooseSeat(r)
    PROVE  DeskInv'
<1>1. TypeOK /\ RequestOK(r)
  BY DEF DeskInv
<1>2. CASE Refuse(r, "refused")
  BY <1>2, RefuseKeepsDeskInv DEF Ended
<1>3. CASE ~Refuse(r, "refused")
  <2>1. PICK s \in Labels, n \in IF loc[r].ticket = 0 THEN NextTicket ELSE {loc[r].ticket} :
            /\ loc' = [loc EXCEPT ![r].seat = s, ![r].ticket = n]
            /\ Goto(r, "insert")
            /\ UNCHANGED <<Tables, lockVars>>
    BY <1>3 DEF ChooseSeat, AssignSeat, Tables, tripVars, bookingVars, paymentVars, history
  <2>2. pc[r] = "choose" /\ loc[r] \in Locals
    BY <1>1, <1>3 DEF ChooseSeat, TypeOK
  <2>3. n \in Nat
    <3>1. TicketsIssued \subseteq Nat
      BY <1>1 DEF TicketsIssued, TypeOK
    <3> QED
      BY <3>1, <2>2 DEF NextTicket, Locals
  <2> DEFINE locals == [loc[r] EXCEPT !.seat = s, !.ticket = n]
  <2>4. locals \in Locals /\ loc' = [loc EXCEPT ![r] = locals]
    BY <2>1, <2>2, <2>3 DEF Locals
  <2>5. /\ pc'[r] = "insert"
        /\ loc'[r].trip = loc[r].trip /\ loc'[r].seen = loc[r].seen /\ loc'[r].seat = s
    BY <1>1, <2>1, <2>2 DEF TypeOK, Goto, Locals
  <2>6. RequestOK(r)'
    BY <1>1, <2>1, <2>2, <2>5 DEF RequestOK, Tables, lockVars
  <2> HIDE DEF locals
  <2> QED
    BY <2>1, <2>4, <2>6, MoveKeepsDeskInv DEF Waiting
<1> QED
  BY <1>2, <1>3

LEMMA InsertBookingKeepsDeskInv ==
    ASSUME DeskInv, NEW r \in Requests, InsertBooking(r)
    PROVE  DeskInv'
<1> DEFINE t == loc[r].trip
           s == loc[r].seat
           n == loc[r].ticket
<1>1. TypeOK /\ RowsOK /\ RequestOK(r) /\ pc[r] = "insert"
  BY DEF DeskInv, InsertBooking
<1>2. CASE Refuse(r, "seat_taken")
  BY <1>2, RefuseKeepsDeskInv DEF Ended
<1>3. CASE ~Refuse(r, "seat_taken")
  <2>1. /\ avail' = [avail EXCEPT ![t] = loc[r].seen - 1]
        /\ Answer(r, "ok") /\ "ok" \in Ended
        /\ EndTransaction(r)
        /\ UNCHANGED <<tripStatus, pStatus, pBooking, told, freed>>
    BY <1>3 DEF InsertBooking, paymentVars, history, Ended
  <2>2. PICK b \in Bookings :
            /\ bStatus[b] = "none"
            /\ bStatus' = [bStatus EXCEPT ![b] = IF loc[r].desk THEN "paid" ELSE "pending"]
            /\ bTrip' = [bTrip EXCEPT ![b] = t]
            /\ bSeat' = [bSeat EXCEPT ![b] = s]
            /\ bTicket' = [bTicket EXCEPT ![b] = n]
    BY <1>3 DEF InsertBooking, AddRow
  <2>3. t \in Trips /\ s \in Labels /\ n \in Nat /\ loc[r].seen - 1 \in Nat /\ tripLock[t] = r
    BY <1>1 DEF TypeOK, RequestOK, Locals
  <2>4. avail' \in [Trips -> Nat] /\ \A u \in Trips : u # t => avail'[u] = avail[u]
    BY <1>1, <2>1, <2>3 DEF TypeOK
  <2>5. /\ bStatus' \in [Bookings -> BookingStatuses]
        /\ bStatus'[b] \in {"pending", "paid"}
        /\ \A c \in Bookings : c # b => bStatus'[c] = bStatus[c]
    BY <1>1, <2>2 DEF TypeOK, BookingStatuses
  <2>6. /\ bTrip' \in [Bookings -> Trips \cup {None}]
        /\ bSeat' \in [Bookings -> Labels \cup {None}]
        /\ bTrip'[b] = t /\ bSeat'[b] = s
        /\ \A c \in Bookings : c # b => bTrip'[c] = bTrip[c] /\ bSeat'[c] = bSeat[c]
    BY <1>1, <2>2, <2>3 DEF TypeOK
  <2>7. bTicket' \in [Bookings -> Nat]
    BY <1>1, <2>2, <2>3 DEF TypeOK
  <2>8. TypeOK'
    BY <1>1, <2>1, <2>4, <2>5, <2>6, <2>7, AnswerEnds, EndKeepsOthers DEF TypeOK
  <2>9. RowsOK'
    BY <1>1, <2>1, <2>2, <2>3, <2>5, <2>6 DEF RowsOK
  <2>10. RequestOK(r)'
    BY <1>1, <2>1, AnswerEnds DEF RequestOK, Ended
  <2>11. ASSUME NEW q \in Requests, q # r PROVE RequestOK(q)'
    BY <1>1, <2>1, <2>2, <2>3, <2>4, <2>5, <2>6, <2>11, AnswerEnds, EndKeepsOthers, OthersOK
  <2> QED
    BY <2>8, <2>9, <2>10, <2>11 DEF DeskInv
<1> QED
  BY <1>2, <1>3

LEMMA LockForCancelKeepsDeskInv ==
    ASSUME DeskInv, NEW r \in Requests, LockForCancel(r)
    PROVE  DeskInv'
<1> DEFINE t == loc[r].trip
<1>1. TypeOK /\ RequestOK(r) /\ pc[r] = "lock_cancel" /\ t \in Trips
  BY DEF DeskInv, LockForCancel, RequestOK
<1>2. /\ tripLock[t] = None
      /\ tripLock' = [tripLock EXCEPT ![t] = r]
      /\ loc' = [loc EXCEPT ![r].seen = avail[t]]
      /\ Goto(r, "free")
      /\ UNCHANGED <<Tables, vehicleLock, payLock>>
  BY DEF LockForCancel, Tables, tripVars, bookingVars, paymentVars, history
<1>3. pc' \in [Requests -> {"idle"} \cup Waiting \cup Ended]
  BY <1>1, <1>2 DEF TypeOK, Goto, Waiting
<1>4. loc' \in [Requests -> Locals]
  BY <1>1, <1>2, SeenInLocals DEF TypeOK
<1>5. TypeOK'
  BY <1>1, <1>2, <1>3, <1>4 DEF TypeOK, Tables
<1>6. RowsOK'
  BY <1>2, RowsKept DEF DeskInv
<1>7. /\ pc'[r] = "free" /\ tripLock'[t] = r
      /\ loc'[r].trip = t /\ loc'[r].seen = avail[t] /\ loc'[r].booking = loc[r].booking
      /\ UNCHANGED <<avail, bStatus, bTrip>>
  BY <1>1, <1>2 DEF TypeOK, Goto, Locals, Tables
<1>8. RequestOK(r)'
  BY <1>1, <1>7 DEF RequestOK
<1>9. ASSUME NEW q \in Requests, q # r PROVE RequestOK(q)'
  BY <1>1, <1>2, <1>9, OthersOK, ConstantsAssumption DEF TypeOK, Goto, Tables
<1> QED
  BY <1>5, <1>6, <1>8, <1>9 DEF DeskInv

LEMMA FreeSeatKeepsDeskInv ==
    ASSUME DeskInv, NEW r \in Requests, FreeSeat(r)
    PROVE  DeskInv'
<1> DEFINE t == loc[r].trip
           b == loc[r].booking
<1>1. /\ TypeOK /\ RowsOK /\ RequestOK(r) /\ pc[r] = "free"
      /\ t \in Trips /\ b \in Bookings /\ bStatus[b] # "none" /\ tripLock[t] = r
      /\ loc[r].seen + 1 \in Nat
  BY DEF DeskInv, FreeSeat, RequestOK, TypeOK
<1>2. /\ bStatus' = [bStatus EXCEPT ![b] = "cancelled"]
      /\ avail' = [avail EXCEPT ![t] = loc[r].seen + 1]
      /\ freed' = [freed EXCEPT ![b] = @ + 1]
      /\ Answer(r, "ok") /\ "ok" \in Ended
      /\ EndTransaction(r)
      /\ UNCHANGED <<tripStatus, bTrip, bSeat, bTicket, pStatus, pBooking, told>>
  BY DEF FreeSeat, paymentVars, Ended
<1>3. avail' \in [Trips -> Nat] /\ \A u \in Trips : u # t => avail'[u] = avail[u]
  BY <1>1, <1>2 DEF TypeOK
<1>4. /\ bStatus' \in [Bookings -> BookingStatuses]
      /\ bStatus'[b] = "cancelled"
      /\ \A c \in Bookings : c # b => bStatus'[c] = bStatus[c]
  BY <1>1, <1>2 DEF TypeOK, BookingStatuses
<1>5. /\ freed' \in [Bookings -> Nat]
      /\ freed'[b] > 0
      /\ \A c \in Bookings : c # b => freed'[c] = freed[c]
  BY <1>1, <1>2 DEF TypeOK
<1>6. TypeOK'
  BY <1>1, <1>2, <1>3, <1>4, <1>5, AnswerEnds, EndKeepsOthers DEF TypeOK
<1>7. RowsOK'
  BY <1>1, <1>2, <1>4, <1>5 DEF RowsOK
<1>8. RequestOK(r)'
  BY <1>1, <1>2, AnswerEnds DEF RequestOK, Ended
<1>9. ASSUME NEW q \in Requests, q # r PROVE RequestOK(q)'
  BY <1>1, <1>2, <1>3, <1>4, <1>9, AnswerEnds, EndKeepsOthers, OthersOK
<1> QED
  BY <1>6, <1>7, <1>8, <1>9 DEF DeskInv

LEMMA RecordPaymentKeepsDeskInv ==
    ASSUME DeskInv, NEW r \in Requests, RecordPayment(r)
    PROVE  DeskInv'
<1>1. /\ TypeOK /\ RowsOK /\ RequestOK(r) /\ pc[r] = "record"
      /\ loc[r].booking \in Bookings /\ bStatus[loc[r].booking] # "none"
  BY DEF DeskInv, RecordPayment, RequestOK
<1>2. PICK p \in Payments :
          /\ pStatus[p] = "none"
          /\ pStatus' = [pStatus EXCEPT ![p] = "pending"]
          /\ pBooking' = [pBooking EXCEPT ![p] = loc[r].booking]
          /\ \/ /\ Goto(r, "lock_payment")
                /\ loc' = [loc EXCEPT ![r] = [Blank EXCEPT !.payment = p]]
             \/ Answer(r, "ok")
  BY DEF RecordPayment
<1>3. UNCHANGED <<tripStatus, avail, bStatus, bTrip, bSeat, bTicket, lockVars, told, freed>>
  BY DEF RecordPayment, tripVars, bookingVars, history
<1>4. /\ pStatus' \in [Payments -> PaymentStatuses]
      /\ pBooking' \in [Payments -> Bookings \cup {None}]
      /\ pStatus'[p] # "none" /\ pBooking'[p] = loc[r].booking
      /\ \A o \in Payments : o # p => pStatus'[o] = pStatus[o] /\ pBooking'[o] = pBooking[o]
  BY <1>1, <1>2 DEF TypeOK, PaymentStatuses
<1>5. /\ pc' \in [Requests -> {"idle"} \cup Waiting \cup Ended]
      /\ loc' \in [Requests -> Locals]
      /\ \A q \in Requests : q # r => pc'[q] = pc[q] /\ loc'[q] = loc[q]
      /\ RequestOK(r)'
  <2>1. CASE Answer(r, "ok")
    BY <1>1, <2>1, AnswerEnds DEF Ended, RequestOK
  <2>2. CASE ~Answer(r, "ok")
    <3>1. /\ Goto(r, "lock_payment") /\ "lock_payment" \in Waiting
          /\ loc' = [loc EXCEPT ![r] = [Blank EXCEPT !.payment = p]]
          /\ [Blank EXCEPT !.payment = p] \in Locals
      BY <1>2, <2>2, BlankInLocals DEF Waiting
    <3>2. /\ pc'[r] = "lock_payment" /\ loc'[r].payment = p
          /\ pc' \in [Requests -> {"idle"} \cup Waiting \cup Ended]
          /\ loc' \in [Requests -> Locals]
          /\ \A q \in Requests : q # r => pc'[q] = pc[q] /\ loc'[q] = loc[q]
      BY <1>1, <3>1 DEF TypeOK, Goto, Blank
    <3>3. RequestOK(r)'
      BY <1>4, <3>2 DEF RequestOK
    <3> QED
      BY <3>2, <3>3
  <2> QED
    BY <2>1, <2>2
<1>6. TypeOK'
  BY <1>1, <1>3, <1>4, <1>5 DEF TypeOK, lockVars
<1>7. RowsOK'
  BY <1>1, <1>3, <1>4 DEF RowsOK
<1>8. ASSUME NEW q \in Requests, q # r PROVE RequestOK(q)'
  <2>1. \A o \in Payments : payLock[o] = q => payLock'[o] = q
    BY <1>3 DEF lockVars
  <2>2. ASSUME NEW o \in Payments, pc[q] = "confirm", o = loc[q].payment PROVE pStatus'[o] = pStatus[o]
    BY <1>2, <1>4, <2>2 DEF DeskInv, RequestOK
  <2>3. RequestOK(q)
    BY DEF DeskInv
  <2> QED
    BY <1>2, <1>3, <1>4, <1>5, <1>8, <2>1, <2>2, <2>3 DEF RequestOK, lockVars
<1> QED
  BY <1>5, <1>6, <1>7, <1>8 DEF DeskInv

LEMMA LockPaymentKeepsDeskInv ==
    ASSUME DeskInv, NEW r \in Requests, LockPayment(r)
    PROVE  DeskInv'
<1> DEFINE p == loc[r].payment
<1>1. /\ TypeOK /\ RequestOK(r) /\ pc[r] = "lock_payment" /\ payLock[p] = None
      /\ p \in Payments /\ pStatus[p] # "none"
  BY DEF DeskInv, LockPayment, RequestOK
<1>2. CASE Refuse(r, "refused")
  BY <1>2, RefuseKeepsDeskInv DEF Ended
<1>3. CASE ~Refuse(r, "refused")
  <2>1. /\ pStatus[p] = "pending"
        /\ payLock' = [payLock EXCEPT ![p] = r]
        /\ Goto(r, "confirm")
        /\ UNCHANGED <<Tables, tripLock, vehicleLock, loc>>
    BY <1>1, <1>3 DEF LockPayment, Tables, tripVars, bookingVars, paymentVars, history,
                      TypeOK, PaymentStatuses
  <2>2. pc' \in [Requests -> {"idle"} \cup Waiting \cup Ended] /\ pc'[r] = "confirm"
    BY <1>1, <2>1 DEF TypeOK, Goto, Waiting
  <2>3. TypeOK'
    BY <1>1, <2>1, <2>2 DEF TypeOK, Tables
  <2>4. RowsOK'
    BY <2>1, RowsKept DEF DeskInv
  <2>5. payLock'[p] = r
    BY <1>1, <2>1 DEF TypeOK
  <2>6. RequestOK(r)'
    BY <1>1, <2>1, <2>2, <2>5 DEF RequestOK, Tables
  <2>7. ASSUME NEW q \in Requests, q # r PROVE RequestOK(q)'
    BY <1>1, <2>1, <2>7, OthersOK, ConstantsAssumption DEF TypeOK, Goto, Tables
  <2> QED
    BY <2>3, <2>4, <2>6, <2>7 DEF DeskInv
<1> QED
  BY <1>2, <1>3

LEMMA ConfirmPaymentKeepsDeskInv ==
    ASSUME DeskInv, NEW r \in Requests, ConfirmPayment(r)
    PROVE  DeskInv'
<1> DEFINE p == loc[r].payment
           b == pBooking[p]
<1>1. /\ TypeOK /\ RowsOK /\ RequestOK(r) /\ pc[r] = "confirm"
      /\ p \in Payments /\ payLock[p] = r /\ b \in Bookings /\ bStatus[b] # "none"
  BY DEF DeskInv, ConfirmPayment, RequestOK, RowsOK
<1>2. CASE Refuse(r, "failed")
  BY <1>2, RefuseKeepsDeskInv DEF Ended
<1>3. CASE ~Refuse(r, "failed")
  <2>1. /\ bStatus' = [bStatus EXCEPT ![b] = "paid"]
        /\ pStatus' = [pStatus EXCEPT ![p] = "paid"]
        /\ Answer(r, "ok") /\ "ok" \in Ended
        /\ EndTransaction(r)
        /\ UNCHANGED <<tripStatus, avail, bTrip, bSeat, bTicket, pBooking, told, freed>>
    BY <1>3 DEF ConfirmPayment, tripVars, history, Ended
  <2>2. /\ bStatus' \in [Bookings -> BookingStatuses] /\ bStatus'[b] = "paid"
        /\ \A c \in Bookings : c # b => bStatus'[c] = bStatus[c]
    BY <1>1, <2>1 DEF TypeOK, BookingStatuses
  <2>3. /\ pStatus' \in [Payments -> PaymentStatuses] /\ pStatus'[p] = "paid"
        /\ \A o \in Payments : o # p => pStatus'[o] = pStatus[o]
    BY <1>1, <2>1 DEF TypeOK, PaymentStatuses
  <2>4. TypeOK'
    BY <1>1, <2>1, <2>2, <2>3, AnswerEnds, EndKeepsOthers DEF TypeOK
  <2>5. RowsOK'
    BY <1>1, <2>1, <2>2, <2>3 DEF RowsOK
  <2>6. RequestOK(r)'
    BY <1>1, <2>1, AnswerEnds DEF RequestOK, Ended
  <2>7. ASSUME NEW q \in Requests, q # r PROVE RequestOK(q)'
    BY <1>1, <2>1, <2>2, <2>3, <2>7, AnswerEnds, EndKeepsOthers, OthersOK
  <2> QED
    BY <2>4, <2>5, <2>6, <2>7 DEF DeskInv
<1> QED
  BY <1>2, <1>3

LEMMA UpdateTripKeepsDeskInv ==
    ASSUME DeskInv, NEW r \in Requests, UpdateTrip(r)
    PROVE  DeskInv'
<1> DEFINE t == loc[r].trip
<1>1. TypeOK /\ RequestOK(r) /\ t \in Trips /\ tripLock[t] = None
  BY DEF DeskInv, UpdateTrip, RequestOK
<1>2. /\ tripLock' = [tripLock EXCEPT ![t] = r]
      /\ Goto(r, "notify")
      /\ UNCHANGED <<Tables, vehicleLock, payLock, loc>>
  BY DEF UpdateTrip, Tables, tripVars, bookingVars, paymentVars, history
<1>3. pc' \in [Requests -> {"idle"} \cup Waiting \cup Ended] /\ pc'[r] = "notify"
  BY <1>1, <1>2 DEF TypeOK, Goto, Waiting
<1>4. tripLock' \in [Trips -> Requests \cup {None}] /\ tripLock'[t] = r
  BY <1>1, <1>2 DEF TypeOK
<1>5. TypeOK'
  BY <1>1, <1>2, <1>3, <1>4 DEF TypeOK, Tables
<1>6. RowsOK'
  BY <1>2, RowsKept DEF DeskInv
<1>7. RequestOK(r)'
  BY <1>1, <1>2, <1>3, <1>4 DEF RequestOK
<1>8. ASSUME NEW q \in Requests, q # r PROVE RequestOK(q)'
  BY <1>1, <1>2, <1>8, OthersOK, ConstantsAssumption DEF TypeOK, Goto, Tables
<1> QED
  BY <1>5, <1>6, <1>7, <1>8 DEF DeskInv

LEMMA NotifyPassengersKeepsDeskInv ==
    ASSUME DeskInv, NEW r \in Requests, NotifyPassengers(r)
    PROVE  DeskInv'
<1>1. TypeOK /\ RowsOK /\ RequestOK(r) /\ pc[r] = "notify"
  BY DEF DeskInv, NotifyPassengers
<1>2. /\ told' = told \cup ActiveOn(loc[r].trip)
      /\ Goto(r, "commit_trip")
      /\ UNCHANGED <<tripStatus, avail, bStatus, bTrip, bSeat, bTicket, pStatus, pBooking,
                     lockVars, loc, freed>>
  BY DEF NotifyPassengers, tripVars, bookingVars, paymentVars
<1>3. pc' \in [Requests -> {"idle"} \cup Waiting \cup Ended] /\ pc'[r] = "commit_trip"
  BY <1>1, <1>2 DEF TypeOK, Goto, Waiting
<1>4. TypeOK'
  BY <1>1, <1>2, <1>3 DEF TypeOK, lockVars, ActiveOn
<1>5. RowsOK'
  BY <1>1, <1>2 DEF RowsOK
<1>6. RequestOK(r)'
  BY <1>1, <1>2, <1>3 DEF RequestOK, lockVars
<1>7. ASSUME NEW q \in Requests, q # r PROVE RequestOK(q)'
  BY <1>1, <1>2, <1>7, OthersOK DEF TypeOK, Goto, lockVars
<1> QED
  BY <1>4, <1>5, <1>6, <1>7 DEF DeskInv

LEMMA CommitTripKeepsDeskInv ==
    ASSUME DeskInv, NEW r \in Requests, CommitTrip(r)
    PROVE  DeskInv'
<1> DEFINE t == loc[r].trip
<1>1. TypeOK /\ RequestOK(r) /\ t \in Trips /\ tripLock[t] = r
  BY DEF DeskInv, CommitTrip, RequestOK
<1>2. /\ tripStatus' = [tripStatus EXCEPT ![t] = "cancelled"]
      /\ Answer(r, "ok") /\ "ok" \in Ended
      /\ EndTransaction(r)
      /\ UNCHANGED <<avail, bStatus, bTrip, bSeat, bTicket, pStatus, pBooking, told, freed>>
  BY DEF CommitTrip, bookingVars, paymentVars, history, Ended
<1>3. /\ tripStatus' \in [Trips -> TripStatuses]
      /\ \A u \in Trips : u # t => tripStatus'[u] = tripStatus[u]
  BY <1>1, <1>2 DEF TypeOK, TripStatuses
<1>4. TypeOK'
  BY <1>1, <1>2, <1>3, AnswerEnds, EndKeepsOthers DEF TypeOK
<1>5. RowsOK'
  BY <1>2 DEF DeskInv, RowsOK
<1>6. RequestOK(r)'
  BY <1>1, <1>2, AnswerEnds DEF RequestOK, Ended
<1>7. ASSUME NEW q \in Requests, q # r PROVE RequestOK(q)'
  BY <1>1, <1>2, <1>3, <1>7, AnswerEnds, EndKeepsOthers, OthersOK
<1> QED
  BY <1>4, <1>5, <1>6, <1>7 DEF DeskInv

LEMMA StutterKeepsDeskInv == ASSUME DeskInv, UNCHANGED vars PROVE DeskInv'
<1>1. /\ UNCHANGED <<tripStatus, avail, tripLock, vehicleLock, bStatus, bTrip, bSeat, bTicket>>
      /\ UNCHANGED <<pStatus, pBooking, payLock, pc, loc, told, freed>>
  BY DEF vars, tripVars, bookingVars, paymentVars, lockVars, history
<1>2. TypeOK' /\ RowsOK'
  BY <1>1 DEF DeskInv, TypeOK, RowsOK
<1>3. ASSUME NEW r \in Requests PROVE RequestOK(r)'
  BY <1>1 DEF DeskInv, RequestOK
<1> QED
  BY <1>2, <1>3 DEF DeskInv

LEMMA NextKeepsDeskInv == ASSUME DeskInv, [Next]_vars PROVE DeskInv'
<1>1. CASE UNCHANGED vars
  BY <1>1, StutterKeepsDeskInv
<1>2. CASE Quiescent
  BY <1>2, StutterKeepsDeskInv DEF Quiescent
<1>3. ASSUME NEW r \in Requests, Begin(r) PROVE DeskInv'
  BY <1>3, BeginKeepsDeskInv
<1>4. ASSUME NEW r \in Requests, Advance(r) PROVE DeskInv'
  BY <1>4, LockForCreateKeepsDeskInv, ChooseSeatKeepsDeskInv, InsertBookingKeepsDeskInv,
     LockForCancelKeepsDeskInv, FreeSeatKeepsDeskInv, RecordPaymentKeepsDeskInv,
     LockPaymentKeepsDeskInv, ConfirmPaymentKeepsDeskInv, UpdateTripKeepsDeskInv,
     NotifyPassengersKeepsDeskInv, CommitTripKeepsDeskInv
     DEF Advance
<1>5. ASSUME NEW r \in Requests, Crash(r) PROVE DeskInv'
  BY <1>5, RefuseKeepsDeskInv DEF Crash, Ended
<1> QED
  BY <1>1, <1>2, <1>3, <1>4, <1>5 DEF Next

(***************************************************************************)
(* The theorems.                                                           *)
(***************************************************************************)

\* The invariant the others follow from: a request inside its transaction holds the
\* row locks of what it read, so nobody changed it.
THEOREM DeskInvariant == Spec => []DeskInv
<1>1. Init => DeskInv
  BY InitDeskInv
<1>2. DeskInv /\ [Next]_vars => DeskInv'
  BY NextKeepsDeskInv
<1> QED
  BY <1>1, <1>2, PTL DEF Spec

\* Every variable keeps its type; above all the seat counter never goes below zero.
THEOREM TypeCorrect == Spec => []TypeOK
<1>1. DeskInv => TypeOK
  BY DEF DeskInv
<1> QED
  BY <1>1, DeskInvariant, PTL

\* create_booking and cancel_booking lose no update of the seat counter.
THEOREM NoLostUpdate == Spec => []CounterReadIsCurrent
<1>1. DeskInv => CounterReadIsCurrent
  BY DEF DeskInv, RequestOK, CounterReadIsCurrent
<1> QED
  BY <1>1, DeskInvariant, PTL

\* The row lock of confirm_payment serialises two confirmations of one payment.
THEOREM ConfirmedOnce == Spec => []ConfirmsPendingOnly
<1>1. DeskInv => ConfirmsPendingOnly
  BY DEF DeskInv, RequestOK, ConfirmsPendingOnly
<1> QED
  BY <1>1, DeskInvariant, PTL


------------------------------------------------------------------------------
(***************************************************************************)
(* The safety properties of module Bookings that need more than the row    *)
(* locks: what the steps that write a table do to seats, counters,         *)
(* payments and passengers.                                                *)
(***************************************************************************)

(***************************************************************************)
(* What a step does to the tables, read off the actions and DeskInv.       *)
(***************************************************************************)

\* The step leaves the tables alone and brings no request to the end of cancel_trip.
Quiet ==
    /\ UNCHANGED Tables
    /\ \A q \in Requests :
          pc'[q] = "commit_trip" => pc[q] = "commit_trip" /\ loc'[q] = loc[q]

\* Nobody enters the end of cancel_trip.
NoneNotified ==
    \A q \in Requests :
        pc'[q] = "commit_trip" => pc[q] = "commit_trip" /\ loc'[q] = loc[q]

\* Request r sells seat s of trip t as booking b.
Sold(r, t, s, b) ==
    /\ t \in Trips /\ s \in Labels /\ b \in Bookings
    /\ pc[r] = "insert" /\ tripLock[t] = r /\ tripStatus[t] = "open"
    /\ SeatFree(t, s)
    /\ bStatus[b] = "none"
    /\ bStatus'[b] \in {"pending", "paid"} /\ bTrip'[b] = t /\ bSeat'[b] = s
    /\ \A c \in Bookings \ {b} :
          bStatus'[c] = bStatus[c] /\ bTrip'[c] = bTrip[c] /\ bSeat'[c] = bSeat[c]
    /\ avail' = [avail EXCEPT ![t] = avail[t] - 1]
    /\ UNCHANGED <<tripStatus, pStatus, pBooking, told, freed>>
    /\ NoneNotified

\* The seat of booking b, on trip t, is given back.
GivenBack(t, b) ==
    /\ t \in Trips /\ b \in Bookings
    /\ bStatus[b] # "none" /\ bTrip[b] = t
    /\ bStatus'[b] = "cancelled"
    /\ \A c \in Bookings \ {b} : bStatus'[c] = bStatus[c] /\ freed'[c] = freed[c]
    /\ avail' = [avail EXCEPT ![t] = avail[t] + 1]
    /\ freed'[b] = freed[b] + 1
    /\ UNCHANGED <<tripStatus, bTrip, bSeat, pStatus, pBooking, told>>
    /\ NoneNotified

\* Payment p of booking b is confirmed.
Confirmed(p, b) ==
    /\ p \in Payments /\ b \in Bookings
    /\ pBooking[p] = b /\ bStatus[b] # "none"
    /\ SeatFreeFor(bTrip[b], bSeat[b], b)
    /\ bStatus'[b] = "paid"
    /\ \A c \in Bookings \ {b} : bStatus'[c] = bStatus[c]
    /\ pStatus'[p] = "paid"
    /\ \A o \in Payments \ {p} : pStatus'[o] = pStatus[o]
    /\ UNCHANGED <<tripStatus, avail, bTrip, bSeat, pBooking, told, freed>>
    /\ NoneNotified

\* Payment p of an existing booking is inserted.
Recorded(p) ==
    /\ p \in Payments
    /\ pStatus'[p] = "pending"
    /\ \A o \in Payments \ {p} : pStatus'[o] = pStatus[o] /\ pBooking'[o] = pBooking[o]
    /\ UNCHANGED <<tripStatus, avail, bStatus, bTrip, bSeat, told, freed>>
    /\ NoneNotified

LEMMA RefuseIsQuiet ==
    ASSUME DeskInv, NEW r \in Requests, NEW result \in Ended, Refuse(r, result)
    PROVE  Quiet
  BY AnswerEnds DEF DeskInv, Refuse, Quiet, Tables, Ended, tripVars, bookingVars,
                    paymentVars, history

\* A step of r that leaves the tables alone and does not reach commit_trip is quiet.
LEMMA MoveIsQuiet ==
    ASSUME DeskInv, NEW r \in Requests, UNCHANGED Tables, pc'[r] # "commit_trip",
           \A q \in Requests : q # r => pc'[q] = pc[q] /\ loc'[q] = loc[q]
    PROVE  Quiet
  BY DEF Quiet

LEMMA InsertEffect ==
    ASSUME DeskInv, NEW r \in Requests, InsertBooking(r)
    PROVE  Quiet \/ \E t \in Trips, s \in Labels, b \in Bookings : Sold(r, t, s, b)
<1> DEFINE t == loc[r].trip
           s == loc[r].seat
<1>1. TypeOK /\ RequestOK(r) /\ pc[r] = "insert"
  BY DEF DeskInv, InsertBooking
<1>2. CASE Refuse(r, "seat_taken")
  BY <1>2, RefuseIsQuiet DEF Ended
<1>3. CASE ~Refuse(r, "seat_taken")
  <2>1. /\ SeatFree(t, s)
        /\ avail' = [avail EXCEPT ![t] = loc[r].seen - 1]
        /\ Answer(r, "ok") /\ "ok" \in Ended
        /\ UNCHANGED <<tripStatus, pStatus, pBooking, told, freed>>
    BY <1>3 DEF InsertBooking, Insertable, paymentVars, history, Ended
  <2>2. PICK b \in Bookings :
            /\ bStatus[b] = "none"
            /\ bStatus' = [bStatus EXCEPT ![b] = IF loc[r].desk THEN "paid" ELSE "pending"]
            /\ bTrip' = [bTrip EXCEPT ![b] = t]
            /\ bSeat' = [bSeat EXCEPT ![b] = s]
    BY <1>3 DEF InsertBooking, AddRow
  <2>3. /\ t \in Trips /\ s \in Labels /\ loc[r].seen = avail[t]
        /\ tripLock[t] = r /\ tripStatus[t] = "open"
    BY <1>1 DEF RequestOK
  <2>4. /\ bStatus'[b] \in {"pending", "paid"} /\ bTrip'[b] = t /\ bSeat'[b] = s
        /\ \A c \in Bookings \ {b} :
              bStatus'[c] = bStatus[c] /\ bTrip'[c] = bTrip[c] /\ bSeat'[c] = bSeat[c]
    BY <1>1, <2>2 DEF TypeOK
  <2>5. NoneNotified
    BY <1>1, <2>1, AnswerEnds DEF NoneNotified, Ended
  <2>6. Sold(r, t, s, b)
    BY <1>1, <2>1, <2>2, <2>3, <2>4, <2>5 DEF Sold
  <2> QED
    BY <2>3, <2>6
<1> QED
  BY <1>2, <1>3

LEMMA FreeEffect ==
    ASSUME DeskInv, NEW r \in Requests, FreeSeat(r)
    PROVE  \E t \in Trips, b \in Bookings : GivenBack(t, b)
<1> DEFINE t == loc[r].trip
           b == loc[r].booking
<1>1. /\ TypeOK /\ t \in Trips /\ b \in Bookings
      /\ bStatus[b] # "none" /\ bTrip[b] = t /\ loc[r].seen = avail[t]
  BY DEF DeskInv, FreeSeat, RequestOK
<1>2. /\ bStatus' = [bStatus EXCEPT ![b] = "cancelled"]
      /\ avail' = [avail EXCEPT ![t] = loc[r].seen + 1]
      /\ freed' = [freed EXCEPT ![b] = @ + 1]
      /\ Answer(r, "ok") /\ "ok" \in Ended
      /\ UNCHANGED <<tripStatus, bTrip, bSeat, pStatus, pBooking, told>>
  BY DEF FreeSeat, paymentVars, Ended
<1>3. /\ bStatus'[b] = "cancelled" /\ freed'[b] = freed[b] + 1
      /\ \A c \in Bookings \ {b} : bStatus'[c] = bStatus[c] /\ freed'[c] = freed[c]
  BY <1>1, <1>2 DEF TypeOK
<1>4. NoneNotified
  BY <1>1, <1>2, AnswerEnds DEF NoneNotified, Ended
<1>5. GivenBack(t, b)
  BY <1>1, <1>2, <1>3, <1>4 DEF GivenBack
<1> QED
  BY <1>1, <1>5

LEMMA ConfirmEffect ==
    ASSUME DeskInv, NEW r \in Requests, ConfirmPayment(r)
    PROVE  Quiet \/ \E p \in Payments, b \in Bookings : Confirmed(p, b)
<1> DEFINE p == loc[r].payment
           b == pBooking[p]
<1>1. TypeOK /\ p \in Payments /\ b \in Bookings /\ bStatus[b] # "none"
  BY DEF DeskInv, ConfirmPayment, RequestOK, RowsOK
<1>2. CASE Refuse(r, "failed")
  BY <1>2, RefuseIsQuiet DEF Ended
<1>3. CASE ~Refuse(r, "failed")
  <2>1. /\ SeatFreeFor(bTrip[b], bSeat[b], b)
        /\ bStatus' = [bStatus EXCEPT ![b] = "paid"]
        /\ pStatus' = [pStatus EXCEPT ![p] = "paid"]
        /\ Answer(r, "ok") /\ "ok" \in Ended
        /\ UNCHANGED <<tripStatus, avail, bTrip, bSeat, pBooking, told, freed>>
    BY <1>3 DEF ConfirmPayment, tripVars, history, Ended
  <2>2. /\ bStatus'[b] = "paid" /\ \A c \in Bookings \ {b} : bStatus'[c] = bStatus[c]
        /\ pStatus'[p] = "paid" /\ \A o \in Payments \ {p} : pStatus'[o] = pStatus[o]
    BY <1>1, <2>1 DEF TypeOK
  <2>3. NoneNotified
    BY <1>1, <2>1, AnswerEnds DEF NoneNotified, Ended
  <2>4. Confirmed(p, b)
    BY <1>1, <2>1, <2>2, <2>3 DEF Confirmed
  <2> QED
    BY <1>1, <2>4
<1> QED
  BY <1>2, <1>3

LEMMA RecordEffect ==
    ASSUME DeskInv, NEW r \in Requests, RecordPayment(r)
    PROVE  \E p \in Payments : Recorded(p)
<1>1. TypeOK /\ UNCHANGED <<tripStatus, avail, bStatus, bTrip, bSeat, told, freed>>
  BY DEF DeskInv, RecordPayment, tripVars, bookingVars, history
<1>2. PICK p \in Payments :
          /\ pStatus' = [pStatus EXCEPT ![p] = "pending"]
          /\ pBooking' = [pBooking EXCEPT ![p] = loc[r].booking]
          /\ \/ /\ Goto(r, "lock_payment")
                /\ loc' = [loc EXCEPT ![r] = [Blank EXCEPT !.payment = p]]
             \/ Answer(r, "ok")
  BY DEF RecordPayment
<1>3. /\ pStatus'[p] = "pending"
      /\ \A o \in Payments \ {p} : pStatus'[o] = pStatus[o] /\ pBooking'[o] = pBooking[o]
  BY <1>1, <1>2 DEF TypeOK
<1>4. NoneNotified
  BY <1>1, <1>2 DEF NoneNotified, TypeOK, Goto, Answer
<1> QED
  BY <1>1, <1>3, <1>4 DEF Recorded

\* The steps that write no table.
LEMMA OtherStepsAreQuiet ==
    ASSUME DeskInv, NEW r \in Requests,
           \/ Begin(r) \/ LockForCreate(r) \/ ChooseSeat(r) \/ LockForCancel(r)
           \/ LockPayment(r) \/ UpdateTrip(r) \/ Crash(r)
    PROVE  Quiet
<1> USE DEF tripVars, bookingVars, paymentVars, history, Tables
<1>1. pc \in [Requests -> {"idle"} \cup Waiting \cup Ended] /\ loc \in [Requests -> Locals]
  BY DEF DeskInv, TypeOK
<1>2. CASE Begin(r)
  <2>1. UNCHANGED Tables
    BY <1>2 DEF Begin, BeginCreate, BeginCancel, BeginPay, BeginVerify, BeginCancelTrip
  <2>2. /\ \E l \in Waiting \cup Ended : pc' = [pc EXCEPT ![r] = l] /\ l # "commit_trip"
        /\ \E x : loc' = [loc EXCEPT ![r] = x]
    BY <1>2 DEF Begin, BeginCreate, BeginCancel, BeginPay, BeginVerify, BeginCancelTrip,
                Goto, Answer, Waiting, Ended
  <2> QED
    BY <1>1, <2>1, <2>2, MoveIsQuiet
<1>3. CASE Crash(r)
  BY <1>3, RefuseIsQuiet DEF Crash, Ended
<1>4. CASE LockForCreate(r)
  BY <1>1, <1>4, RefuseIsQuiet, MoveIsQuiet DEF LockForCreate, TakeTripRows, Goto, Ended
<1>5. CASE ChooseSeat(r)
  <2>1. CASE Refuse(r, "refused")
    BY <2>1, RefuseIsQuiet DEF Ended
  <2>2. CASE ~Refuse(r, "refused")
    <3>1. UNCHANGED Tables /\ pc' = [pc EXCEPT ![r] = "insert"]
      BY <1>5, <2>2 DEF ChooseSeat, AssignSeat, Goto
    <3>2. PICK s, n : loc' = [loc EXCEPT ![r].seat = s, ![r].ticket = n]
      BY <1>5, <2>2 DEF ChooseSeat, AssignSeat
    <3> QED
      BY <1>1, <3>1, <3>2, MoveIsQuiet
  <2> QED
    BY <2>1, <2>2
<1>6. CASE LockForCancel(r)
  BY <1>1, <1>6, MoveIsQuiet DEF LockForCancel, Goto
<1>7. CASE LockPayment(r)
  BY <1>1, <1>7, RefuseIsQuiet, MoveIsQuiet DEF LockPayment, Goto, Ended
<1>8. CASE UpdateTrip(r)
  BY <1>1, <1>8, MoveIsQuiet DEF UpdateTrip, Goto
<1> QED
  BY <1>2, <1>3, <1>4, <1>5, <1>6, <1>7, <1>8

\* Every step, by what it does to the tables.
LEMMA StepEffects ==
    ASSUME DeskInv, [Next]_vars
    PROVE  \/ Quiet
           \/ \E r \in Requests, t \in Trips, s \in Labels, b \in Bookings : Sold(r, t, s, b)
           \/ \E t \in Trips, b \in Bookings : GivenBack(t, b)
           \/ \E p \in Payments, b \in Bookings : Confirmed(p, b)
           \/ \E p \in Payments : Recorded(p)
           \/ \E r \in Requests : NotifyPassengers(r)
           \/ \E r \in Requests : CommitTrip(r)
<1>1. CASE UNCHANGED vars
  BY <1>1 DEF Quiet, vars, Tables, tripVars, bookingVars, paymentVars, history
<1>2. CASE Quiescent
  BY <1>2 DEF Quiescent, Quiet, vars, Tables, tripVars, bookingVars, paymentVars, history
<1>3. ASSUME NEW r \in Requests, Begin(r) \/ Crash(r) PROVE Quiet
  BY <1>3, OtherStepsAreQuiet
<1>4. ASSUME NEW r \in Requests, Advance(r)
      PROVE  \/ Quiet
             \/ \E t \in Trips, s \in Labels, b \in Bookings : Sold(r, t, s, b)
             \/ \E t \in Trips, b \in Bookings : GivenBack(t, b)
             \/ \E p \in Payments, b \in Bookings : Confirmed(p, b)
             \/ \E p \in Payments : Recorded(p)
             \/ NotifyPassengers(r) \/ CommitTrip(r)
  BY <1>4, OtherStepsAreQuiet, InsertEffect, FreeEffect, ConfirmEffect, RecordEffect
     DEF Advance
<1> QED
  BY <1>1, <1>2, <1>3, <1>4 DEF Next

(***************************************************************************)
(* Seats.                                                                  *)
(***************************************************************************)

LEMMA HoldersKept ==
    ASSUME OneHolderPerSeat, [Next]_vars, DeskInv
    PROVE  OneHolderPerSeat'
<1>1. CASE Quiet
  BY <1>1 DEF Quiet, Tables, OneHolderPerSeat, IsActive
<1>2. ASSUME NEW r \in Requests, NEW t \in Trips, NEW s \in Labels, NEW b \in Bookings,
             Sold(r, t, s, b)
      PROVE  OneHolderPerSeat'
  <2>1. \A c \in Bookings : ~(IsActive(c) /\ bTrip[c] = t /\ bSeat[c] = s)
    BY <1>2, ConstantsAssumption DEF Sold, SeatFree, SeatFreeFor
  <2> QED
    BY <1>2, <2>1 DEF Sold, OneHolderPerSeat, IsActive
<1>3. ASSUME NEW t \in Trips, NEW b \in Bookings, GivenBack(t, b) PROVE OneHolderPerSeat'
  BY <1>3 DEF GivenBack, OneHolderPerSeat, IsActive
<1>4. ASSUME NEW p \in Payments, NEW b \in Bookings, Confirmed(p, b) PROVE OneHolderPerSeat'
  BY <1>4 DEF Confirmed, SeatFreeFor, OneHolderPerSeat, IsActive
<1>5. ASSUME NEW p \in Payments, Recorded(p) PROVE OneHolderPerSeat'
  BY <1>5 DEF Recorded, OneHolderPerSeat, IsActive
<1>6. ASSUME NEW r \in Requests, NotifyPassengers(r) \/ CommitTrip(r) PROVE OneHolderPerSeat'
  BY <1>6 DEF NotifyPassengers, CommitTrip, bookingVars, OneHolderPerSeat, IsActive
<1> QED
  BY <1>1, <1>2, <1>3, <1>4, <1>5, <1>6, StepEffects

\* Two active bookings of a trip never hold the same seat, although only creation
\* takes the trip's row lock and the confirmation of a late payment does not.
THEOREM SeatsDistinct == Spec => []OneHolderPerSeat
<1>1. Init => OneHolderPerSeat
  BY DEF Init, OneHolderPerSeat, IsActive
<1> QED
  BY <1>1, HoldersKept, DeskInvariant, PTL DEF Spec

\* No booking appears on a closed trip: the status is tested again under the lock.
THEOREM NoSaleAfterClosing == Spec => NoSaleOnClosedTrip
<1>1. DeskInv /\ [Next]_vars => [SaleOnOpenTrip]_vars
  <2> SUFFICES ASSUME DeskInv, [Next]_vars PROVE SaleOnOpenTrip
    OBVIOUS
  <2>1. ASSUME NEW r \in Requests, NEW t \in Trips, NEW s \in Labels, NEW b \in Bookings,
               Sold(r, t, s, b)
        PROVE  SaleOnOpenTrip
    BY <2>1 DEF Sold, SaleOnOpenTrip
  <2>2. CASE UNCHANGED bStatus
    BY <2>2 DEF SaleOnOpenTrip
  <2>3. ASSUME NEW t \in Trips, NEW b \in Bookings, GivenBack(t, b) PROVE SaleOnOpenTrip
    BY <2>3 DEF GivenBack, SaleOnOpenTrip
  <2>4. ASSUME NEW p \in Payments, NEW b \in Bookings, Confirmed(p, b) PROVE SaleOnOpenTrip
    BY <2>4 DEF Confirmed, SaleOnOpenTrip
  <2>5. Quiet \/ (\E p \in Payments : Recorded(p)) => UNCHANGED bStatus
    BY DEF Quiet, Tables, Recorded
  <2>6. (\E r \in Requests : NotifyPassengers(r) \/ CommitTrip(r)) => UNCHANGED bStatus
    BY DEF NotifyPassengers, CommitTrip, bookingVars
  <2> QED
    BY <2>1, <2>2, <2>3, <2>4, <2>5, <2>6, StepEffects
<1> QED
  BY <1>1, DeskInvariant, PTL DEF Spec, NoSaleOnClosedTrip

(***************************************************************************)
(* Payments.                                                               *)
(***************************************************************************)

LEMMA PaidTogetherKept ==
    ASSUME PaidTogether, [Next]_vars, DeskInv
    PROVE  PaidTogether'
<1>0. RowsOK
  BY DEF DeskInv
<1>1. CASE UNCHANGED <<bStatus, pStatus, pBooking>>
  BY <1>1 DEF PaidTogether
<1>2. ASSUME NEW r \in Requests, NEW t \in Trips, NEW s \in Labels, NEW b \in Bookings,
             Sold(r, t, s, b)
      PROVE  PaidTogether'
  BY <1>0, <1>2 DEF Sold, PaidTogether, RowsOK
<1>3. ASSUME NEW t \in Trips, NEW b \in Bookings, GivenBack(t, b) PROVE PaidTogether'
  BY <1>0, <1>3 DEF GivenBack, PaidTogether, RowsOK
<1>4. ASSUME NEW p \in Payments, NEW b \in Bookings, Confirmed(p, b) PROVE PaidTogether'
  BY <1>0, <1>4 DEF Confirmed, PaidTogether, RowsOK
<1>5. ASSUME NEW p \in Payments, Recorded(p) PROVE PaidTogether'
  BY <1>5 DEF Recorded, PaidTogether
<1>6. Quiet \/ (\E r \in Requests : NotifyPassengers(r) \/ CommitTrip(r))
      => UNCHANGED <<bStatus, pStatus, pBooking>>
  BY DEF Quiet, Tables, NotifyPassengers, CommitTrip, bookingVars, paymentVars
<1> QED
  BY <1>1, <1>2, <1>3, <1>4, <1>5, <1>6, StepEffects

\* A paid payment never sits on a booking that still waits for payment.
THEOREM PaymentAndBookingAgree == Spec => []PaidTogether
<1>1. Init => PaidTogether
  BY DEF Init, PaidTogether
<1> QED
  BY <1>1, PaidTogetherKept, DeskInvariant, PTL DEF Spec

(***************************************************************************)
(* Passengers of a cancelled trip.                                         *)
(***************************************************************************)

TellInv == PassengersTold /\ ToldBeforeCommit

LEMMA TellInvKept ==
    ASSUME TellInv, [Next]_vars, DeskInv
    PROVE  TellInv'
<1>0. TypeOK /\ RowsOK
  BY DEF DeskInv
<1>a. ASSUME NEW q \in Requests, pc[q] = "commit_trip"
      PROVE  tripLock[loc[q].trip] = q /\ loc[q].trip \in Trips
  BY <1>a DEF DeskInv, RequestOK
<1>1. CASE Quiet
  BY <1>1 DEF Quiet, Tables, TellInv, PassengersTold, ToldBeforeCommit
<1>2. ASSUME NEW r \in Requests, NEW t \in Trips, NEW s \in Labels, NEW b \in Bookings,
             Sold(r, t, s, b)
      PROVE  TellInv'
  <2>1. \A q \in Requests : pc[q] = "commit_trip" => loc[q].trip # t
    BY <1>2, <1>a DEF Sold
  <2>2. PassengersTold'
    BY <1>2 DEF Sold, TellInv, PassengersTold
  <2>3. ToldBeforeCommit'
    BY <1>2, <2>1 DEF Sold, NoneNotified, TellInv, ToldBeforeCommit
  <2> QED
    BY <2>2, <2>3 DEF TellInv
<1>3. ASSUME NEW t \in Trips, NEW b \in Bookings, GivenBack(t, b) PROVE TellInv'
  <2>1. freed'[b] > 0
    BY <1>0, <1>3 DEF GivenBack, TypeOK
  <2>2. PassengersTold'
    BY <1>3, <2>1 DEF GivenBack, TellInv, PassengersTold
  <2>3. ToldBeforeCommit'
    BY <1>3, <2>1 DEF GivenBack, NoneNotified, TellInv, ToldBeforeCommit
  <2> QED
    BY <2>2, <2>3 DEF TellInv
<1>4. ASSUME NEW p \in Payments, NEW b \in Bookings, Confirmed(p, b) PROVE TellInv'
  BY <1>4 DEF Confirmed, NoneNotified, TellInv, PassengersTold, ToldBeforeCommit
<1>5. ASSUME NEW p \in Payments, Recorded(p) PROVE TellInv'
  BY <1>5 DEF Recorded, NoneNotified, TellInv, PassengersTold, ToldBeforeCommit
<1>6. ASSUME NEW r \in Requests, NotifyPassengers(r) PROVE TellInv'
  <2>1. /\ told' = told \cup ActiveOn(loc[r].trip)
        /\ pc' = [pc EXCEPT ![r] = "commit_trip"]
        /\ UNCHANGED <<tripStatus, bStatus, bTrip, loc, freed>>
    BY <1>6 DEF NotifyPassengers, Goto, tripVars, bookingVars
  <2>2. loc[r].trip \in Trips
    BY <1>6 DEF NotifyPassengers, DeskInv, RequestOK
  <2>3. \A b \in Bookings : bTrip[b] = loc[r].trip /\ freed[b] = 0 => b \in told'
    <3>1. ASSUME NEW b \in Bookings, bTrip[b] = loc[r].trip, freed[b] = 0 PROVE IsActive(b)
      <4>1. bStatus[b] # "none"
        BY <1>0, <2>2, <3>1, ConstantsAssumption DEF RowsOK
      <4>2. bStatus[b] # "cancelled"
        BY <1>0, <3>1 DEF RowsOK
      <4> QED
        BY <1>0, <4>1, <4>2 DEF TypeOK, BookingStatuses, IsActive
    <3> QED
      BY <2>1, <3>1 DEF ActiveOn
  <2>4. \A q \in Requests : q # r => pc'[q] = pc[q]
    BY <1>0, <2>1 DEF TypeOK
  <2>5. ASSUME NEW q \in Requests, pc'[q] = "commit_trip", NEW b \in Bookings,
               bTrip'[b] = loc'[q].trip, freed'[b] = 0
        PROVE  b \in told'
    BY <2>1, <2>3, <2>4, <2>5 DEF TellInv, ToldBeforeCommit
  <2>6. ToldBeforeCommit'
    BY <2>5 DEF ToldBeforeCommit
  <2> QED
    BY <2>1, <2>6 DEF TellInv, PassengersTold
<1>7. ASSUME NEW r \in Requests, CommitTrip(r) PROVE TellInv'
  <2>1. /\ pc[r] = "commit_trip" /\ Answer(r, "ok") /\ "ok" \in Ended
        /\ tripStatus' = [tripStatus EXCEPT ![loc[r].trip] = "cancelled"]
        /\ UNCHANGED <<bStatus, bTrip, told, freed>>
    BY <1>7 DEF CommitTrip, bookingVars, history, Ended
  <2>2. PassengersTold'
    BY <1>0, <2>1 DEF TypeOK, RowsOK, TellInv, PassengersTold, ToldBeforeCommit
  <2>3. NoneNotified
    BY <1>0, <2>1, AnswerEnds DEF NoneNotified, Ended
  <2>4. ToldBeforeCommit'
    BY <2>1, <2>3 DEF NoneNotified, TellInv, ToldBeforeCommit
  <2> QED
    BY <2>2, <2>4 DEF TellInv
<1> QED
  BY <1>1, <1>2, <1>3, <1>4, <1>5, <1>6, <1>7, StepEffects

\* When a trip is cancelled, every booking never cancelled before has been told, and
\* that stays so: a sale that loses the row lock to cancel_trip is refused.
THEOREM NobodyForgotten == Spec => []PassengersTold
<1>1. Init => TellInv
  BY DEF Init, TellInv, PassengersTold, ToldBeforeCommit
<1>2. TellInv => PassengersTold
  BY DEF TellInv
<1> QED
  BY <1>1, <1>2, TellInvKept, DeskInvariant, PTL DEF Spec

(***************************************************************************)
(* The seat counter.                                                       *)
(***************************************************************************)

LEMMA ActiveFinite ==
    ASSUME NEW t
    PROVE  IsFiniteSet(ActiveOn(t)) /\ Cardinality(ActiveOn(t)) \in Nat
  BY ConstantsAssumption, FS_Subset, FS_CardinalityType DEF ActiveOn

\* The seats of trip t that the table accounts for: on sale or held.
Accounted(t) == avail[t] + Cardinality(ActiveOn(t))

LEMMA SoldAccounts ==
    ASSUME TypeOK, NEW r \in Requests, NEW t \in Trips, NEW s \in Labels, NEW b \in Bookings,
           Sold(r, t, s, b), NEW u \in Trips
    PROVE  Accounted(u)' = Accounted(u)
<1>1. avail[u] \in Nat /\ avail[t] \in Nat /\ avail'[u] = IF u = t THEN avail[t] - 1 ELSE avail[u]
  BY DEF Sold, TypeOK
<1>2. CASE u = t
  <2>1. ActiveOn(t)' = ActiveOn(t) \cup {b} /\ b \notin ActiveOn(t)
    BY DEF Sold, ActiveOn, IsActive
  <2>2. Cardinality(ActiveOn(t)') = Cardinality(ActiveOn(t)) + 1
    BY <2>1, ActiveFinite, FS_AddElement
  <2> QED
    BY <1>1, <1>2, <2>2, ActiveFinite DEF Accounted
<1>3. CASE u # t
  <2>1. ActiveOn(u)' = ActiveOn(u)
    BY <1>3 DEF Sold, ActiveOn, IsActive
  <2> QED
    BY <1>1, <1>3, <2>1 DEF Accounted
<1> QED
  BY <1>2, <1>3

\* Giving back a seat that is held moves it; giving it back again invents a seat.
LEMMA GivenBackAccounts ==
    ASSUME TypeOK, NEW t \in Trips, NEW b \in Bookings, GivenBack(t, b), NEW u \in Trips
    PROVE  Accounted(u)' = IF u = t /\ ~IsActive(b) THEN Accounted(u) + 1 ELSE Accounted(u)
<1>1. avail[u] \in Nat /\ avail'[u] = IF u = t THEN avail[u] + 1 ELSE avail[u]
  BY DEF GivenBack, TypeOK
<1>2. CASE u = t /\ IsActive(b)
  <2>1. ActiveOn(t)' = ActiveOn(t) \ {b} /\ b \in ActiveOn(t)
    BY <1>2 DEF GivenBack, ActiveOn, IsActive
  <2>2. Cardinality(ActiveOn(t)') = Cardinality(ActiveOn(t)) - 1
    BY <2>1, ActiveFinite, FS_RemoveElement
  <2> QED
    BY <1>1, <1>2, <2>2, ActiveFinite DEF Accounted
<1>3. CASE ~(u = t /\ IsActive(b))
  <2>1. ActiveOn(u)' = ActiveOn(u)
    BY <1>3 DEF GivenBack, ActiveOn, IsActive
  <2> QED
    BY <1>1, <1>3, <2>1, ActiveFinite DEF Accounted
<1> QED
  BY <1>2, <1>3

\* Confirming a cancelled booking takes a seat the counter does not give.
LEMMA ConfirmedAccounts ==
    ASSUME TypeOK, NEW p \in Payments, NEW b \in Bookings, Confirmed(p, b), NEW u \in Trips
    PROVE  Accounted(u)' = IF u = bTrip[b] /\ ~IsActive(b) THEN Accounted(u) + 1 ELSE Accounted(u)
<1>1. avail[u] \in Nat /\ avail' = avail
  BY DEF Confirmed, TypeOK
<1>2. CASE u = bTrip[b] /\ ~IsActive(b)
  <2>1. ActiveOn(u)' = ActiveOn(u) \cup {b} /\ b \notin ActiveOn(u)
    BY <1>2 DEF Confirmed, ActiveOn, IsActive
  <2>2. Cardinality(ActiveOn(u)') = Cardinality(ActiveOn(u)) + 1
    BY <2>1, ActiveFinite, FS_AddElement
  <2> QED
    BY <1>1, <1>2, <2>2, ActiveFinite DEF Accounted
<1>3. CASE ~(u = bTrip[b] /\ ~IsActive(b))
  <2>1. ActiveOn(u)' = ActiveOn(u)
    BY <1>3 DEF Confirmed, ActiveOn, IsActive
  <2> QED
    BY <1>1, <1>3, <2>1 DEF Accounted
<1> QED
  BY <1>2, <1>3

CounterInv == NoSeatLost /\ CounterExact

LEMMA CounterInvKept ==
    ASSUME CounterInv, [Next]_vars, DeskInv
    PROVE  CounterInv'
<1>0. TypeOK /\ RowsOK /\ TotalSeats \in Nat
  BY ConstantsAssumption DEF DeskInv
<1>a. \A u \in Trips : /\ Accounted(u) >= TotalSeats
                       /\ FreedOnce(u) => Accounted(u) = TotalSeats
  BY DEF CounterInv, NoSeatLost, CounterExact, Accounted
<1>c. \A u \in Trips : Accounted(u) \in Int
  BY <1>0, ActiveFinite DEF TypeOK, Accounted
<1>1. SUFFICES ASSUME NEW u \in Trips
               PROVE  /\ Accounted(u)' >= TotalSeats
                      /\ FreedOnce(u)' => Accounted(u)' = TotalSeats
  BY DEF CounterInv, NoSeatLost, CounterExact, Accounted
<1>2. ASSUME NEW r \in Requests, NEW t \in Trips, NEW s \in Labels, NEW b \in Bookings,
             Sold(r, t, s, b)
      PROVE  /\ Accounted(u)' = Accounted(u)
             /\ FreedOnce(u)' => FreedOnce(u)
  <2>1. bTrip[b] # u
    BY <1>0, <1>2, ConstantsAssumption DEF Sold, RowsOK
  <2> QED
    BY <1>0, <1>2, <2>1, SoldAccounts DEF Sold, FreedOnce
<1>3. ASSUME NEW t \in Trips, NEW b \in Bookings, GivenBack(t, b)
      PROVE  \/ Accounted(u)' = Accounted(u) /\ (FreedOnce(u)' => FreedOnce(u))
             \/ Accounted(u)' = Accounted(u) + 1 /\ ~FreedOnce(u)'
  <2>1. CASE IsActive(b) \/ u # t
    <3>1. freed[b] \in Nat /\ bTrip[b] = t /\ bStatus'[b] = "cancelled"
      BY <1>0, <1>3 DEF TypeOK, GivenBack
    <3>2. FreedOnce(u)' => FreedOnce(u)
      BY <1>3, <2>1, <3>1 DEF GivenBack, FreedOnce, IsActive
    <3> QED
      BY <1>0, <1>3, <2>1, <3>2, GivenBackAccounts
  <2>2. CASE ~IsActive(b) /\ u = t
    <3>1. bStatus[b] = "cancelled"
      BY <1>0, <1>3, <2>2 DEF TypeOK, BookingStatuses, GivenBack, IsActive
    <3>2. freed[b] \in Nat /\ freed[b] > 0 /\ freed'[b] = freed[b] + 1
      BY <1>0, <1>3, <3>1 DEF TypeOK, RowsOK, GivenBack
    <3>3. bTrip'[b] = u /\ bStatus'[b] = "cancelled" /\ freed'[b] # 1
      BY <1>3, <2>2, <3>2 DEF GivenBack
    <3>4. ~FreedOnce(u)'
      BY <3>3 DEF FreedOnce
    <3> QED
      BY <1>0, <1>3, <2>2, <3>4, GivenBackAccounts
  <2> QED
    BY <2>1, <2>2
<1>4. ASSUME NEW p \in Payments, NEW b \in Bookings, Confirmed(p, b)
      PROVE  \/ Accounted(u)' = Accounted(u) /\ (FreedOnce(u)' => FreedOnce(u))
             \/ Accounted(u)' = Accounted(u) + 1 /\ ~FreedOnce(u)'
  <2>1. CASE IsActive(b) \/ u # bTrip[b]
    <3>1. FreedOnce(u)' => FreedOnce(u)
      BY <1>4, <2>1 DEF Confirmed, FreedOnce, IsActive
    <3> QED
      BY <1>0, <1>4, <2>1, <3>1, ConfirmedAccounts
  <2>2. CASE ~IsActive(b) /\ u = bTrip[b]
    <3>1. bStatus[b] = "cancelled"
      BY <1>0, <1>4, <2>2 DEF TypeOK, BookingStatuses, Confirmed, IsActive
    <3>2. freed[b] \in Nat /\ freed[b] > 0 /\ freed'[b] = freed[b]
      BY <1>0, <1>4, <3>1 DEF TypeOK, RowsOK, Confirmed
    <3>3. bTrip'[b] = u /\ bStatus'[b] = "paid" /\ freed'[b] # 0
      BY <1>4, <2>2, <3>2 DEF Confirmed
    <3>4. ~FreedOnce(u)'
      BY <3>3 DEF FreedOnce
    <3> QED
      BY <1>0, <1>4, <2>2, <3>4, ConfirmedAccounts
  <2> QED
    BY <2>1, <2>2
<1>5. ASSUME Quiet \/ (\E p \in Payments : Recorded(p))
                   \/ (\E r \in Requests : NotifyPassengers(r) \/ CommitTrip(r))
      PROVE  Accounted(u)' = Accounted(u) /\ (FreedOnce(u)' => FreedOnce(u))
  <2>1. UNCHANGED <<avail, bStatus, bTrip, freed>>
    BY <1>5 DEF Quiet, Tables, Recorded, NotifyPassengers, CommitTrip, tripVars,
                bookingVars, history
  <2> QED
    BY <2>1 DEF Accounted, ActiveOn, IsActive, FreedOnce
<1>6. \/ Accounted(u)' = Accounted(u) /\ (FreedOnce(u)' => FreedOnce(u))
      \/ Accounted(u)' = Accounted(u) + 1 /\ ~FreedOnce(u)'
  BY <1>2, <1>3, <1>4, <1>5, StepEffects
<1>7. /\ Accounted(u) \in Int /\ Accounted(u) >= TotalSeats
      /\ FreedOnce(u) => Accounted(u) = TotalSeats
  BY <1>a, <1>c
<1>8. CASE Accounted(u)' = Accounted(u) /\ (FreedOnce(u)' => FreedOnce(u))
  BY <1>7, <1>8
<1>9. CASE Accounted(u)' = Accounted(u) + 1 /\ ~FreedOnce(u)'
  BY <1>0, <1>7, <1>9
<1> QED
  BY <1>6, <1>8, <1>9

LEMMA InitCounter == Init => CounterInv
<1> SUFFICES ASSUME Init, NEW t \in Trips
             PROVE  avail[t] + Cardinality(ActiveOn(t)) = TotalSeats
  BY ConstantsAssumption DEF CounterInv, NoSeatLost, CounterExact
<1>1. ActiveOn(t) = {} /\ avail[t] = TotalSeats
  BY DEF Init, ActiveOn, IsActive
<1> QED
  BY <1>1, FS_EmptySet, ConstantsAssumption

\* No interleaving of sales, cancellations, payments and crashes loses a seat.
THEOREM SeatsNeverLost == Spec => []NoSeatLost
<1>1. CounterInv => NoSeatLost
  BY DEF CounterInv
<1>2. Init => CounterInv
  BY InitCounter
<1> QED
  BY <1>1, <1>2, CounterInvKept, DeskInvariant, PTL DEF Spec

\* The counter drifts only on a trip one of whose bookings was cancelled twice or paid
\* after its cancellation.
THEOREM DriftHasTwoCauses == Spec => []CounterExact
<1>1. CounterInv => CounterExact
  BY DEF CounterInv
<1> QED
  BY <1>1, InitCounter, CounterInvKept, DeskInvariant, PTL DEF Spec


------------------------------------------------------------------------------
(***************************************************************************)
(* The reservation desk implements the seat map: every behaviour of        *)
(* Bookings, seen through SeatHolders, SeatIssued and TripOpen, is a       *)
(* behaviour of SeatMap.                                                   *)
(***************************************************************************)

mapped == <<SeatHolders, SeatIssued, TripOpen>>

\* A map that differs from another at one seat of one trip.
LEMMA HoldersUpdated ==
    ASSUME NEW old \in [Trips -> [Labels -> SUBSET Bookings]],
           NEW new \in [Trips -> [Labels -> SUBSET Bookings]],
           NEW t \in Trips, NEW s \in Labels, NEW X \in SUBSET Bookings,
           \A u \in Trips, x \in Labels :
               new[u][x] = IF u = t /\ x = s THEN X ELSE old[u][x]
    PROVE  new = [old EXCEPT ![t][s] = X]
<1>1. new[t] = [old[t] EXCEPT ![s] = X]
  OBVIOUS
<1>2. ASSUME NEW u \in Trips, u # t PROVE new[u] = old[u]
  BY <1>2
<1>3. new = [old EXCEPT ![t] = [old[t] EXCEPT ![s] = X]]
  BY <1>1, <1>2
<1> QED
  BY <1>3

LEMMA HoldersType ==
    /\ SeatHolders \in [Trips -> [Labels -> SUBSET Bookings]]
    /\ SeatHolders' \in [Trips -> [Labels -> SUBSET Bookings]]
  BY DEF SeatHolders

\* The tables that the seat map is a view of.
LEMMA SameRowsSameMap ==
    ASSUME UNCHANGED <<tripStatus, bStatus, bTrip, bSeat>>
    PROVE  UNCHANGED mapped
  BY DEF mapped, SeatHolders, SeatIssued, TripOpen, IsActive

LEMMA SaleIssues ==
    ASSUME DeskInv, NEW r \in Requests, NEW t \in Trips, NEW s \in Labels, NEW b \in Bookings,
           Sold(r, t, s, b)
    PROVE  Map!Issue(t, s, b)
<1>1. TypeOK
  BY DEF DeskInv
<1>2. SeatHolders[t][s] = {}
  BY ConstantsAssumption DEF Sold, SeatFree, SeatFreeFor, SeatHolders
<1>3. SeatHolders' = [SeatHolders EXCEPT ![t][s] = {b}]
  <2>1. ASSUME NEW u \in Trips, NEW x \in Labels
        PROVE  SeatHolders'[u][x] = IF u = t /\ x = s THEN {b} ELSE SeatHolders[u][x]
    <3>1. \A c \in Bookings :
              (c \in SeatHolders'[u][x]) <=>
              (IF c = b THEN u = t /\ x = s ELSE c \in SeatHolders[u][x])
      BY DEF Sold, SeatHolders, IsActive
    <3>2. b \notin SeatHolders[u][x]
      BY DEF Sold, SeatHolders, IsActive
    <3>3. SeatHolders'[u][x] \subseteq Bookings /\ SeatHolders[u][x] \subseteq Bookings
      BY DEF SeatHolders
    <3>4. CASE u = t /\ x = s
      BY <1>2, <3>1, <3>3, <3>4
    <3>5. CASE ~(u = t /\ x = s)
      BY <3>1, <3>2, <3>3, <3>5
    <3> QED
      BY <3>4, <3>5
  <2> QED
    BY <2>1, HoldersType, HoldersUpdated DEF Sold
<1>4. SeatIssued[b] = None /\ SeatIssued' = [SeatIssued EXCEPT ![b] = <<t, s>>]
  BY DEF Sold, SeatIssued
<1>5. TripOpen[t] /\ UNCHANGED TripOpen
  BY DEF Sold, TripOpen
<1> QED
  BY <1>2, <1>3, <1>4, <1>5 DEF Map!Issue

LEMMA GivingBackFrees ==
    ASSUME DeskInv, OneHolderPerSeat, NEW t \in Trips, NEW b \in Bookings, GivenBack(t, b)
    PROVE  (\E s \in Labels : Map!Free(t, s)) \/ UNCHANGED mapped
<1>1. TypeOK /\ bSeat[b] \in Labels /\ bTrip[b] = t
  BY DEF DeskInv, RowsOK, GivenBack
<1>2. UNCHANGED <<SeatIssued, TripOpen>>
  BY DEF GivenBack, SeatIssued, TripOpen
<1>3. CASE IsActive(b)
  <2> DEFINE s == bSeat[b]
  <2>1. SeatHolders[t][s] = {b}
    BY <1>1, <1>3 DEF SeatHolders, OneHolderPerSeat
  <2>2. SeatHolders' = [SeatHolders EXCEPT ![t][s] = {}]
    <3>1. ASSUME NEW u \in Trips, NEW x \in Labels
          PROVE  SeatHolders'[u][x] = IF u = t /\ x = s THEN {} ELSE SeatHolders[u][x]
      <4>1. \A c \in Bookings :
                (c \in SeatHolders'[u][x]) <=> (c # b /\ c \in SeatHolders[u][x])
        BY DEF GivenBack, SeatHolders, IsActive
      <4>2. SeatHolders'[u][x] \subseteq Bookings /\ SeatHolders[u][x] \subseteq Bookings
        BY DEF SeatHolders
      <4>3. b \in SeatHolders[u][x] => u = t /\ x = s
        BY <1>1 DEF SeatHolders
      <4>4. CASE u = t /\ x = s
        BY <2>1, <4>1, <4>2, <4>4
      <4>5. CASE ~(u = t /\ x = s)
        BY <4>1, <4>2, <4>3, <4>5
      <4> QED
        BY <4>4, <4>5
    <3> QED
      BY <1>1, <3>1, HoldersType, HoldersUpdated
  <2> QED
    BY <1>1, <1>2, <2>1, <2>2 DEF Map!Free
<1>4. CASE ~IsActive(b)
  <2>1. UNCHANGED SeatHolders
    BY <1>4 DEF GivenBack, SeatHolders, IsActive
  <2> QED
    BY <1>2, <2>1 DEF mapped
<1> QED
  BY <1>3, <1>4

LEMMA ConfirmationReinstates ==
    ASSUME DeskInv, NEW p \in Payments, NEW b \in Bookings, Confirmed(p, b)
    PROVE  \/ \E t \in Trips, s \in Labels : Map!Reinstate(t, s, b)
           \/ UNCHANGED mapped
<1>1. TypeOK /\ bSeat[b] \in Labels /\ bTrip[b] \in Trips
  BY DEF DeskInv, RowsOK, Confirmed
<1>2. UNCHANGED <<SeatIssued, TripOpen>>
  BY DEF Confirmed, SeatIssued, TripOpen
<1>3. CASE ~IsActive(b)
  <2> DEFINE t == bTrip[b]
             s == bSeat[b]
  <2>1. SeatHolders[t][s] = {}
    BY <1>1, <1>3 DEF Confirmed, SeatFreeFor, SeatHolders
  <2>2. SeatHolders' = [SeatHolders EXCEPT ![t][s] = {b}]
    <3>1. ASSUME NEW u \in Trips, NEW x \in Labels
          PROVE  SeatHolders'[u][x] = IF u = t /\ x = s THEN {b} ELSE SeatHolders[u][x]
      <4>1. \A c \in Bookings :
                (c \in SeatHolders'[u][x]) <=>
                (IF c = b THEN u = t /\ x = s ELSE c \in SeatHolders[u][x])
        BY DEF Confirmed, SeatHolders, IsActive
      <4>2. SeatHolders'[u][x] \subseteq Bookings /\ SeatHolders[u][x] \subseteq Bookings
        BY DEF SeatHolders
      <4>3. b \notin SeatHolders[u][x]
        BY <1>3 DEF SeatHolders
      <4>4. CASE u = t /\ x = s
        BY <2>1, <4>1, <4>2, <4>4
      <4>5. CASE ~(u = t /\ x = s)
        BY <4>1, <4>2, <4>3, <4>5
      <4> QED
        BY <4>4, <4>5
    <3>2. t \in Trips /\ s \in Labels /\ {b} \in SUBSET Bookings
      BY <1>1
    <3> HIDE DEF t, s
    <3> QED
      BY <3>1, <3>2, HoldersType, HoldersUpdated
  <2>3. SeatIssued[b] = <<t, s>>
    BY DEF Confirmed, SeatIssued
  <2> QED
    BY <1>1, <1>2, <2>1, <2>2, <2>3 DEF Map!Reinstate
<1>4. CASE IsActive(b)
  <2>1. UNCHANGED SeatHolders
    BY <1>4 DEF Confirmed, SeatHolders, IsActive
  <2> QED
    BY <1>2, <2>1 DEF mapped
<1> QED
  BY <1>3, <1>4

LEMMA CommitCloses ==
    ASSUME DeskInv, NEW r \in Requests, CommitTrip(r)
    PROVE  (\E t \in Trips : Map!Close(t)) \/ UNCHANGED mapped
<1> DEFINE t == loc[r].trip
<1>1. TypeOK /\ t \in Trips
  BY DEF DeskInv, CommitTrip, RequestOK
<1>2. /\ tripStatus' = [tripStatus EXCEPT ![t] = "cancelled"]
      /\ UNCHANGED <<bStatus, bTrip, bSeat>>
  BY DEF CommitTrip, bookingVars
<1>3. UNCHANGED <<SeatHolders, SeatIssued>>
  BY <1>2 DEF SeatHolders, SeatIssued, IsActive
<1>4. TripOpen' = [TripOpen EXCEPT ![t] = FALSE]
  BY <1>1, <1>2 DEF TypeOK, TripOpen
<1>5. CASE TripOpen[t]
  BY <1>1, <1>3, <1>4, <1>5 DEF Map!Close
<1>6. CASE ~TripOpen[t]
  <2>1. TripOpen' = TripOpen
    BY <1>1, <1>2, <1>6 DEF TypeOK, TripOpen
  <2> QED
    BY <1>3, <2>1 DEF mapped
<1> QED
  BY <1>5, <1>6

LEMMA InitMaps == Init => Map!SeatInit
<1> SUFFICES ASSUME Init PROVE Map!SeatInit
  OBVIOUS
<1>1. \A b \in Bookings : ~IsActive(b)
  BY DEF Init, IsActive
<1>2. SeatHolders = [t \in Trips |-> [s \in Labels |-> {}]]
  BY <1>1 DEF SeatHolders
<1>3. SeatIssued = [b \in Bookings |-> None]
  BY DEF Init, SeatIssued
<1>4. TripOpen = [t \in Trips |-> TRUE]
  BY DEF Init, TripOpen
<1> QED
  BY <1>2, <1>3, <1>4 DEF Map!SeatInit

LEMMA StepMaps ==
    ASSUME DeskInv, OneHolderPerSeat, [Next]_vars
    PROVE  [Map!SeatNext]_mapped
<1>1. ASSUME NEW r \in Requests, NEW t \in Trips, NEW s \in Labels, NEW b \in Bookings,
             Sold(r, t, s, b)
      PROVE  Map!SeatNext
  BY <1>1, SaleIssues DEF Map!SeatNext
<1>2. ASSUME NEW t \in Trips, NEW b \in Bookings, GivenBack(t, b)
      PROVE  Map!SeatNext \/ UNCHANGED mapped
  BY <1>2, GivingBackFrees DEF Map!SeatNext
<1>3. ASSUME NEW p \in Payments, NEW b \in Bookings, Confirmed(p, b)
      PROVE  Map!SeatNext \/ UNCHANGED mapped
  BY <1>3, ConfirmationReinstates DEF Map!SeatNext
<1>4. ASSUME NEW r \in Requests, CommitTrip(r) PROVE Map!SeatNext \/ UNCHANGED mapped
  BY <1>4, CommitCloses DEF Map!SeatNext
<1>5. CASE UNCHANGED <<tripStatus, bStatus, bTrip, bSeat>>
  BY <1>5, SameRowsSameMap
<1>6. Quiet \/ (\E p \in Payments : Recorded(p)) \/ (\E r \in Requests : NotifyPassengers(r))
      => UNCHANGED <<tripStatus, bStatus, bTrip, bSeat>>
  BY DEF Quiet, Tables, Recorded, NotifyPassengers, tripVars, bookingVars
<1> QED
  BY <1>1, <1>2, <1>3, <1>4, <1>5, <1>6, StepEffects

\* The desk, with its row locks, stale reads and crashes, implements the seat map: a
\* seat has one holder, changes hands only through a free seat, and is sold only on an
\* open trip.
THEOREM DeskImplementsSeatMap == Spec => ImplementsSeatMap
<1>1. [Map!SeatNext]_mapped => [Map!SeatNext]_(Map!seatVars)
  BY DEF mapped, Map!seatVars
<1> QED
  BY <1>1, InitMaps, StepMaps, SeatsDistinct, DeskInvariant, PTL
     DEF Spec, ImplementsSeatMap, Map!SeatSpec

==============================================================================
