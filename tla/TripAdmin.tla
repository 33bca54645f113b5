------------------------------- MODULE TripAdmin -------------------------------
(***************************************************************************)
(* A company's administrators on its trips and vehicles: POST, PATCH,      *)
(* DELETE and generate on trips; PATCH, maintenance, activate and          *)
(* seat-plan on vehicles.  Sales and cancellations of seats are single     *)
(* steps (module Bookings has their statements).                           *)
(*                                                                         *)
(* A view loads a row, and saves it later: a PATCH with all its columns,   *)
(* the other operations with those they name.  Only the desk and the       *)
(* UPDATE of an open cancellation lock the row of a trip.                  *)
(***************************************************************************)
EXTENDS Integers, FiniteSets, Sequences

CONSTANTS Vehicles,
          Passengers,
          Calls,      \* requests of the administrators
          Days,       \* days of a generated schedule
          Capacities, \* numbers of seats of a vehicle
          MaxTrips    \* bound on the rows of Trip

ASSUME TripAdminConstants ==
    /\ IsFiniteSet(Passengers) /\ Capacities \subseteq Nat \ {0}
    /\ MaxTrips \in Nat \ {0}

VARIABLES
    vehicle, \* rows of Vehicle
    trip,    \* rows of Trip; the id is the index
    sold,    \* sold[t]: available_seats when the trip was created
    riders,  \* riders[t]: passengers with an active booking
    told,    \* <<t, p>>: p got the SMS that trip t is cancelled
    wish,    \* the status and the plan last ordered for a vehicle
    pc,      \* where each request is
    job,     \* what it does, the row it loaded and the one it will save
    excuse   \* what happened to a trip or a vehicle: see Excuses

tables == <<vehicle, trip, sold, riders, told, wish>>
vars   == <<tables, pc, job, excuse>>

VehicleStatuses == {"active", "maintenance"}
TripStatuses    == {"scheduled", "delayed", "in_progress", "cancelled", "completed"}
Closed          == {"cancelled", "completed"}

VehicleRows == [status: VehicleStatuses, plan: {"first", "second"}, seats: Capacities]
TripRows    == [vehicle: Vehicles, status: TripStatuses, free: Nat]

\* edited:   a row was saved by PATCH although it had changed since it was loaded;
\* changed:  a PATCH gave a cancelled trip another status;
\* silent:   a trip was cancelled through its status, by PATCH;
\* rollback: a cancellation failed after its first SMS;
\* moved:    a vehicle changed status after a generation had tested it.
Excuses == {"edited", "changed", "silent", "rollback", "moved"}

Idle == [op |-> "none"]

Init ==
    /\ vehicle \in [Vehicles -> [status: VehicleStatuses, plan: {"first"}, seats: Capacities]]
    /\ \E v \in Vehicles :
        trip = <<[vehicle |-> v, status |-> "scheduled", free |-> vehicle[v].seats]>>
    /\ sold = <<trip[1].free>>
    /\ riders = <<{}>>
    /\ told = {}
    /\ wish = [v \in Vehicles |-> [status |-> vehicle[v].status, plan |-> vehicle[v].plan]]
    /\ pc = [c \in Calls |-> "idle"]
    /\ job = [c \in Calls |-> Idle]
    /\ excuse = {}

------------------------------------------------------------------------------
Excused(why, x) == <<why, x>> \in excuse

\* The excuses of a step, as a set of pairs.
Excuse(pairs) == excuse' = excuse \cup pairs

When(test, pair) == IF test THEN {pair} ELSE {}

Goto(c, stage) == pc' = [pc EXCEPT ![c] = stage]

Start(c, stage, work) == Goto(c, stage) /\ job' = [job EXCEPT ![c] = work]

End(c) == Start(c, "done", Idle)

\* The UPDATE of an open cancellation holds the row of trip t.
Locked(t) == \E c \in Calls : pc[c] \in {"tell", "commit"} /\ job[c].trip = t

\* The columns cols of row replace those of the stored row.
Saved(stored, row, cols) == [f \in DOMAIN stored |-> IF f \in cols THEN row[f] ELSE stored[f]]

\* The rows of Trip get these new ones.
Added(rows) ==
    /\ Len(trip) + Len(rows) <= MaxTrips
    /\ trip' = trip \o rows
    /\ sold' = sold \o [i \in DOMAIN rows |-> rows[i].free]
    /\ riders' = riders \o [i \in DOMAIN rows |-> {}]

\* A new trip of vehicle v, with the seats of the row that was loaded.
NewTrip(v, status, row) == [vehicle |-> v, status |-> status, free |-> row.seats]

------------------------------------------------------------------------------
(* Trips: POST and PATCH *)

\* POST: TripWriteSerializer.create.  The vehicle's status is not looked at.
BeginCreate(c, v, status) ==
    /\ pc[c] = "idle"
    /\ Start(c, "insert", [op |-> "create", new |-> <<NewTrip(v, status, vehicle[v])>>])
    /\ UNCHANGED <<tables, excuse>>

InsertTrip(c) ==
    /\ pc[c] = "insert"
    /\ Added(job[c].new)
    /\ End(c)
    /\ UNCHANGED <<vehicle, told, wish, excuse>>

\* PATCH: the view loads the trip and the serializer fills in the new values.
BeginEdit(c, t, v, status) ==
    /\ pc[c] = "idle"
    /\ Start(c, "save", [op |-> "edit", trip |-> t, copy |-> trip[t],
                         row |-> [trip[t] EXCEPT !.vehicle = v, !.status = status]])
    /\ UNCHANGED <<tables, excuse>>

\* Trip.save: every column, available_seats among them.
SaveEdit(c) ==
    LET t == job[c].trip
        row == job[c].row
    IN  /\ pc[c] = "save" /\ ~Locked(t)
        /\ trip' = [trip EXCEPT ![t] = row]
        /\ End(c)
        /\ Excuse(When(trip[t] # job[c].copy, <<"edited", t>>)
             \cup When(trip[t].status = "cancelled" /\ row.status # "cancelled", <<"changed", t>>)
             \cup When(trip[t].status # "cancelled" /\ row.status = "cancelled", <<"silent", t>>))
        /\ UNCHANGED <<vehicle, sold, riders, told, wish>>

------------------------------------------------------------------------------
(* DELETE: cancel_trip *)

\* The status is tested on the row that the view loaded.
BeginCancel(c, t) ==
    /\ pc[c] = "idle"
    /\ IF trip[t].status \in Closed
       THEN End(c)
       ELSE Start(c, "update", [op |-> "cancel", trip |-> t, tell |-> riders[t],
                                row |-> [trip[t] EXCEPT !.status = "cancelled"]])
    /\ UNCHANGED <<tables, excuse>>

\* Mutant: the phones are those of the bookings when the view loaded the trip.
PassengerPhonesEarly(c) == job[c].tell

\* _passenger_phones: read after the UPDATE, that locks the row.
PassengerPhones(c) == riders[job[c].trip]

UpdateCancelled(c) ==
    /\ pc[c] = "update" /\ ~Locked(job[c].trip)
    /\ Start(c, "tell", [job[c] EXCEPT !.tell = PassengerPhones(c)])
    /\ UNCHANGED <<tables, excuse>>

TellPassenger(c) ==
    /\ pc[c] = "tell"
    /\ IF job[c].tell = {}
       THEN Goto(c, "commit") /\ UNCHANGED <<told, job>>
       ELSE \E p \in job[c].tell :
             /\ told' = told \cup {<<job[c].trip, p>>}
             /\ job' = [job EXCEPT ![c].tell = @ \ {p}]
             /\ UNCHANGED pc
    /\ UNCHANGED <<vehicle, trip, sold, riders, wish, excuse>>

\* Mutant: the trip is saved with all its columns.
CancelColumnsAll == {"vehicle", "status", "free"}

\* Mutant: the reason is saved and the status is not.
CancelColumnsReason == {}

\* update_fields of cancel_trip
CancelColumns == {"status"}

CommitCancel(c) ==
    LET t == job[c].trip
    IN  /\ pc[c] = "commit"
        /\ trip' = [trip EXCEPT ![t] = Saved(@, job[c].row, CancelColumns)]
        /\ End(c)
        /\ UNCHANGED <<vehicle, sold, riders, told, wish, excuse>>

------------------------------------------------------------------------------
(* generate_trips, one transaction *)

BeginGenerate(c, slots) ==
    /\ pc[c] = "idle"
    /\ Start(c, "generate", [op |-> "generate", todo |-> slots, cache |-> {}, new |-> << >>])
    /\ UNCHANGED <<tables, excuse>>

Cached(c, v) == \E row \in job[c].cache : row.vehicle = v

\* ensure_vehicle_assignable, on the row loaded when the vehicle first comes up.
Assignable(c, v) == Cached(c, v) \/ vehicle[v].status = "active"

\* One slot of one day; the row is not visible before the commit.
GenerateTrip(c) ==
    /\ pc[c] = "generate" /\ job[c].todo # {}
    /\ \E slot \in job[c].todo :
        LET v == slot[2]
            cache == IF Cached(c, v) THEN job[c].cache
                     ELSE job[c].cache \cup {[vehicle |-> v, row |-> vehicle[v]]}
            loaded == (CHOOSE e \in cache : e.vehicle = v).row
        IN  IF Assignable(c, v)
            THEN Start(c, "generate",
                       [job[c] EXCEPT !.todo = @ \ {slot}, !.cache = cache,
                                      !.new = Append(@, NewTrip(v, "scheduled", loaded))])
            ELSE End(c)
    /\ UNCHANGED <<tables, excuse>>

CommitGenerated(c) ==
    /\ pc[c] = "generate" /\ job[c].todo = {}
    /\ Added(job[c].new)
    /\ End(c)
    /\ UNCHANGED <<vehicle, told, wish, excuse>>

------------------------------------------------------------------------------
(* Vehicles *)

\* PATCH: the serializer keeps status and seat_plan out of the new values.
BeginVehicleEdit(c, v, n) ==
    /\ pc[c] = "idle"
    /\ Start(c, "saveVehicle", [op |-> "edit", vehicle |-> v, copy |-> vehicle[v],
                                row |-> [vehicle[v] EXCEPT !.seats = n]])
    /\ UNCHANGED <<tables, excuse>>

\* set_maintenance and set_active
BeginSetStatus(c, v, status) ==
    /\ pc[c] = "idle"
    /\ Start(c, "saveVehicle", [op |-> "status", vehicle |-> v, copy |-> vehicle[v],
                                row |-> [vehicle[v] EXCEPT !.status = status]])
    /\ UNCHANGED <<tables, excuse>>

\* PUT seat-plan
BeginSeatPlan(c, v, plan) ==
    /\ pc[c] = "idle"
    /\ Start(c, "saveVehicle", [op |-> "plan", vehicle |-> v, copy |-> vehicle[v],
                                row |-> [vehicle[v] EXCEPT !.plan = plan]])
    /\ UNCHANGED <<tables, excuse>>

\* Mutant: the seat plan is saved with the whole row.
VehicleColumnsPlanAll(op) ==
    IF op = "status" THEN {"status"} ELSE {"status", "plan", "seats"}

\* update_fields; a PATCH has none.
VehicleColumns(op) ==
    IF op = "edit" THEN {"status", "plan", "seats"} ELSE {op}

SaveVehicle(c) ==
    LET v == job[c].vehicle
        row == job[c].row
        op == job[c].op
    IN  /\ pc[c] = "saveVehicle"
        /\ vehicle' = [vehicle EXCEPT ![v] = Saved(@, row, VehicleColumns(op))]
        /\ wish' = [wish EXCEPT ![v] = Saved(@, row, IF op = "edit" THEN {} ELSE {op})]
        /\ End(c)
        /\ Excuse(When(op = "edit" /\ vehicle[v] # job[c].copy, <<"edited", v>>)
             \cup {<<"moved", g>> : g \in {g \in Calls : pc[g] = "generate" /\ Cached(g, v)}})
        /\ UNCHANGED <<trip, sold, riders, told>>

------------------------------------------------------------------------------
(* The desk, under the row lock of the trip *)

Sell(t, p) ==
    /\ ~Locked(t) /\ p \notin riders[t]
    /\ trip[t].status \notin Closed /\ trip[t].free > 0
    /\ trip' = [trip EXCEPT ![t].free = @ - 1]
    /\ riders' = [riders EXCEPT ![t] = @ \cup {p}]
    /\ UNCHANGED <<vehicle, sold, told, wish, pc, job, excuse>>

GiveBack(t, p) ==
    /\ ~Locked(t) /\ p \in riders[t]
    /\ trip' = [trip EXCEPT ![t].free = @ + 1]
    /\ riders' = [riders EXCEPT ![t] = @ \ {p}]
    /\ UNCHANGED <<vehicle, sold, told, wish, pc, job, excuse>>

\* A process dies or the SMS service answers with an error: what is not committed is lost.
Fail(c) ==
    /\ pc[c] \notin {"idle", "done"}
    /\ End(c)
    /\ Excuse(When(pc[c] \in {"tell", "commit"}, <<"rollback", job[c].trip>>))
    /\ UNCHANGED tables

Begin(c) ==
    \/ \E v \in Vehicles :
        \/ \E s \in TripStatuses : BeginCreate(c, v, s)
        \/ \E t \in DOMAIN trip, s \in TripStatuses : BeginEdit(c, t, v, s)
        \/ \E n \in Capacities : BeginVehicleEdit(c, v, n)
        \/ \E s \in VehicleStatuses : BeginSetStatus(c, v, s)
        \/ \E p \in {"first", "second"} : BeginSeatPlan(c, v, p)
    \/ \E t \in DOMAIN trip : BeginCancel(c, t)
    \/ \E slots \in SUBSET (Days \X Vehicles) : BeginGenerate(c, slots)

Next ==
    \/ \E c \in Calls :
        \/ Begin(c)
        \/ InsertTrip(c) \/ SaveEdit(c)
        \/ UpdateCancelled(c) \/ TellPassenger(c) \/ CommitCancel(c)
        \/ GenerateTrip(c) \/ CommitGenerated(c)
        \/ SaveVehicle(c)
        \/ Fail(c)
    \/ \E t \in DOMAIN trip, p \in Passengers : Sell(t, p) \/ GiveBack(t, p)

Spec == Init /\ [][Next]_vars

------------------------------------------------------------------------------
(* Properties *)

TripTypeOK ==
    /\ vehicle \in [Vehicles -> VehicleRows]
    /\ trip \in Seq(TripRows) /\ Len(trip) <= MaxTrips
    /\ sold \in Seq(Capacities) /\ riders \in Seq(SUBSET Passengers)
    /\ Len(sold) = Len(trip) /\ Len(riders) = Len(trip)
    /\ told \subseteq (DOMAIN trip) \X Passengers
    /\ wish \in [Vehicles -> [status: VehicleStatuses, plan: {"first", "second"}]]
    /\ \A pair \in excuse : pair[1] \in Excuses

\* Through creations, generations, cancellations and sales the seats of a trip add up,
\* until a PATCH writes back a counter that has moved since it was loaded.
CounterAddsUp ==
    \A t \in DOMAIN trip :
        trip[t].free + Cardinality(riders[t]) = sold[t] \/ Excused("edited", t)

\* Everyone booked on a cancelled trip was told, unless a PATCH cancelled it.
CancelledIsTold ==
    \A t \in DOMAIN trip : \A p \in riders[t] :
        trip[t].status = "cancelled" => <<t, p>> \in told \/ Excused("silent", t)

\* A trip that passengers were told is cancelled is, or is about to be, unless its
\* cancellation was rolled back or a PATCH undid it, knowingly or with a row loaded
\* before.
ToldIsCancelled ==
    \A pair \in told :
        \/ trip[pair[1]].status = "cancelled" \/ Locked(pair[1])
        \/ \E why \in {"rollback", "changed"} : Excused(why, pair[1])

\* A vehicle has the status and the seat plan last ordered for it, unless a PATCH wrote
\* back a row loaded before.
OrderHolds ==
    \A v \in Vehicles :
        \/ vehicle[v].status = wish[v].status /\ vehicle[v].plan = wish[v].plan
        \/ Excused("edited", v)

\* Generated trips go to vehicles in service, unless one left it after it was tested.
GeneratedInService ==
    \A c \in Calls : pc[c] = "generate" =>
        \A i \in 1..Len(job[c].new) :
            vehicle[job[c].new[i].vehicle].status = "active" \/ Excused("moved", c)

\* The tables are well formed, orders hold and generated trips have a vehicle that runs.
TripInv == TripTypeOK /\ OrderHolds /\ GeneratedInService

\* docs/api/vehicles.md: "Un véhicule en maintenance ne peut plus être affecté à un
\* nouveau voyage".  No trip is created on a vehicle in maintenance.
NoTripInMaintenance ==
    [][\A t \in DOMAIN trip' \ DOMAIN trip :
        vehicle[trip'[t].vehicle].status # "maintenance"]_vars

==============================================================================
