---------------------------- MODULE TripAdmin_proofs ----------------------------
(***************************************************************************)
(* Proofs about module TripAdmin, for any number of vehicles, trips,       *)
(* passengers, requests and days.                                          *)
(***************************************************************************)
EXTENDS TripAdmin, FiniteSetTheorems, SequenceTheorems, TLAPS

Stages == {"idle", "insert", "save", "update", "tell", "commit", "generate", "saveVehicle", "done"}

\* Rows of trips before they are inserted.
NewRows == [vehicle: Vehicles, status: TripStatuses, free: Capacities]

CacheRows == [vehicle: Vehicles, row: VehicleRows]

\* What a request has in its hands at each stage, and what it relies on.
InsertOK(j)  == j.new \in Seq(NewRows)
SaveOK(j)    == /\ j.trip \in DOMAIN trip /\ j.copy \in TripRows /\ j.row \in TripRows
                /\ j.row.free = j.copy.free
CancelOK(j)  == /\ DOMAIN j = {"op", "trip", "tell", "row"}
                /\ j.trip \in DOMAIN trip /\ j.row \in TripRows /\ j.row.status = "cancelled"
TellOK(j)    == j.tell \in SUBSET Passengers
GenerateOK(j) == /\ DOMAIN j = {"op", "todo", "cache", "new"}
                 /\ j.new \in Seq(NewRows) /\ j.todo \in SUBSET (Days \X Vehicles)
                 /\ j.cache \in SUBSET CacheRows
VehicleOK(j) == /\ j.vehicle \in Vehicles /\ j.copy \in VehicleRows /\ j.row \in VehicleRows
                /\ j.op \in {"edit", "status", "plan"}
                /\ j.op = "edit" => j.row.status = j.copy.status /\ j.row.plan = j.copy.plan

JobOK(c) ==
    /\ pc[c] = "insert" => InsertOK(job[c])
    /\ pc[c] = "save" => SaveOK(job[c])
    /\ pc[c] \in {"update", "tell", "commit"} => CancelOK(job[c])
    /\ pc[c] = "tell" => TellOK(job[c])
    /\ pc[c] = "generate" => GenerateOK(job[c])
    /\ pc[c] = "saveVehicle" => VehicleOK(job[c])

Shape ==
    /\ TripTypeOK
    /\ pc \in [Calls -> Stages]
    /\ DOMAIN job = Calls
    /\ \A c \in Calls : JobOK(c)

\* While a cancellation is open, whoever is booked on its trip was told or will be.
TellingOK(c) ==
    pc[c] \in {"tell", "commit"} =>
        \A p \in riders[job[c].trip] :
            <<job[c].trip, p>> \in told \/ (pc[c] = "tell" /\ p \in job[c].tell)

\* The vehicles that a generation has tested are in service, or one moved since.
CacheOK(c) ==
    pc[c] = "generate" =>
        /\ \A v \in Vehicles :
              Cached(c, v) => vehicle[v].status = "active" \/ Excused("moved", c)
        /\ \A i \in 1..Len(job[c].new) : Cached(c, job[c].new[i].vehicle)

\* The inductive invariant.
AdminInv ==
    /\ Shape
    /\ \A c \in Calls : TellingOK(c) /\ CacheOK(c)
    /\ OrderHolds /\ CounterAddsUp /\ CancelledIsTold /\ ToldIsCancelled

------------------------------------------------------------------------------
(* What the steps change *)

\* A request that goes to a stage with some work in hand, and the others.
LEMMA StartChanges ==
    ASSUME Shape, NEW c \in Calls, NEW stage \in Stages, NEW work, Start(c, stage, work)
    PROVE  /\ pc' \in [Calls -> Stages] /\ DOMAIN job' = Calls
           /\ pc'[c] = stage /\ job'[c] = work
           /\ \A d \in Calls \ {c} : pc'[d] = pc[d] /\ job'[d] = job[d]
  BY DEF Shape, Start, Goto

\* A request that ends has nothing in hand.
LEMMA EndChanges ==
    ASSUME Shape, NEW c \in Calls, End(c)
    PROVE  /\ pc' \in [Calls -> Stages] /\ DOMAIN job' = Calls
           /\ pc'[c] = "done"
           /\ \A d \in Calls \ {c} : pc'[d] = pc[d] /\ job'[d] = job[d]
           /\ JobOK(c)'
<1>1. "done" \in Stages
  BY DEF Stages
<1>2. /\ pc' \in [Calls -> Stages] /\ DOMAIN job' = Calls
      /\ pc'[c] = "done"
      /\ \A d \in Calls \ {c} : pc'[d] = pc[d] /\ job'[d] = job[d]
  BY <1>1, StartChanges DEF End
<1> QED
  BY <1>2 DEF JobOK

\* The work of a request is sound while its trip exists.
LEMMA JobKept ==
    ASSUME NEW d \in Calls, JobOK(d), pc'[d] = pc[d], job'[d] = job[d],
           DOMAIN trip \subseteq DOMAIN trip'
    PROVE  JobOK(d)'
  BY DEF JobOK, InsertOK, SaveOK, CancelOK, TellOK, GenerateOK, VehicleOK

\* The tables are well formed, and so is the work of the request that moved.
LEMMA ShapeFrom ==
    ASSUME Shape, NEW c \in Calls,
           TripTypeOK', DOMAIN trip \subseteq DOMAIN trip',
           pc' \in [Calls -> Stages], DOMAIN job' = Calls,
           \A d \in Calls \ {c} : pc'[d] = pc[d] /\ job'[d] = job[d],
           JobOK(c)'
    PROVE  Shape'
<1>1. ASSUME NEW d \in Calls, d # c PROVE JobOK(d)'
  BY <1>1, JobKept DEF Shape
<1> QED
  BY <1>1 DEF Shape

LEMMA TablesKept ==
    ASSUME TripTypeOK, UNCHANGED tables, \A pair \in excuse' : pair[1] \in Excuses
    PROVE  TripTypeOK' /\ DOMAIN trip' = DOMAIN trip
  BY DEF TripTypeOK, tables

\* A request takes up new work and leaves the tables alone.
LEMMA Begun ==
    ASSUME Shape, NEW c \in Calls, NEW stage \in Stages, NEW work, Start(c, stage, work),
           UNCHANGED <<tables, excuse>>, JobOK(c)'
    PROVE  Shape'
<1>1. TripTypeOK' /\ DOMAIN trip' = DOMAIN trip
  BY TablesKept DEF Shape, TripTypeOK
<1> QED
  BY <1>1, StartChanges, ShapeFrom

\* The first columns of a saved row are those of the copy, the others those of the table.
LEMMA SavedTrip ==
    ASSUME NEW stored \in TripRows, NEW row \in TripRows, NEW cols
    PROVE  /\ Saved(stored, row, cols) \in TripRows
           /\ Saved(stored, row, cols).free = IF "free" \in cols THEN row.free ELSE stored.free
           /\ Saved(stored, row, cols).status =
                IF "status" \in cols THEN row.status ELSE stored.status
<1>1. DOMAIN stored = {"vehicle", "status", "free"}
  BY DEF TripRows
<1> QED
  BY <1>1 DEF TripRows, Saved

LEMMA SavedVehicle ==
    ASSUME NEW stored \in VehicleRows, NEW row \in VehicleRows, NEW cols
    PROVE  /\ Saved(stored, row, cols) \in VehicleRows
           /\ Saved(stored, row, cols).plan = IF "plan" \in cols THEN row.plan ELSE stored.plan
           /\ Saved(stored, row, cols).status =
                IF "status" \in cols THEN row.status ELSE stored.status
<1>1. DOMAIN stored = {"status", "plan", "seats"}
  BY DEF VehicleRows
<1> QED
  BY <1>1 DEF VehicleRows, Saved

Wishes == [status: VehicleStatuses, plan: {"first", "second"}]

LEMMA SavedWish ==
    ASSUME NEW stored \in Wishes, NEW row \in VehicleRows, NEW cols
    PROVE  /\ Saved(stored, row, cols) \in Wishes
           /\ Saved(stored, row, cols).plan = IF "plan" \in cols THEN row.plan ELSE stored.plan
           /\ Saved(stored, row, cols).status =
                IF "status" \in cols THEN row.status ELSE stored.status
<1>1. DOMAIN stored = {"status", "plan"}
  BY DEF Wishes
<1> QED
  BY <1>1 DEF VehicleRows, Wishes, Saved

\* What follows a sequence.
LEMMA Followed ==
    ASSUME NEW S, NEW s \in Seq(S), NEW r \in Seq(S), NEW n \in Nat, n = Len(s)
    PROVE  /\ s \o r \in Seq(S) /\ Len(s \o r) = n + Len(r)
           /\ \A i \in 1..n + Len(r) : (s \o r)[i] = IF i <= n THEN s[i] ELSE r[i - n]
  BY ConcatProperties

\* The new rows follow the old ones, with all their seats free.
LEMMA AddedRows ==
    ASSUME TripTypeOK, NEW rows \in Seq(NewRows), Added(rows)
    PROVE  /\ trip' \in Seq(TripRows) /\ Len(trip') <= MaxTrips
           /\ sold' \in Seq(Capacities) /\ riders' \in Seq(SUBSET Passengers)
           /\ Len(sold') = Len(trip') /\ Len(riders') = Len(trip')
           /\ DOMAIN trip \subseteq DOMAIN trip'
           /\ \A t \in DOMAIN trip :
                trip'[t] = trip[t] /\ sold'[t] = sold[t] /\ riders'[t] = riders[t]
           /\ \A t \in DOMAIN trip' \ DOMAIN trip :
                trip'[t] \in NewRows /\ sold'[t] = trip'[t].free /\ riders'[t] = {}
<1>a. PICK free : free = [i \in DOMAIN rows |-> rows[i].free]
  OBVIOUS
<1>b. PICK none : none = [i \in DOMAIN rows |-> {}]
  OBVIOUS
<1>1. /\ rows \in Seq(TripRows) /\ Len(rows) \in Nat /\ DOMAIN rows = 1..Len(rows)
      /\ \A i \in 1..Len(rows) : rows[i] \in NewRows
  <2>1. NewRows \subseteq TripRows
    BY TripAdminConstants DEF NewRows, TripRows
  <2> QED
    BY <2>1, SeqMonotonic
<1>2. /\ free \in Seq(Capacities) /\ Len(free) = Len(rows)
      /\ \A i \in 1..Len(rows) : free[i] = rows[i].free
  <2>1. free \in [1..Len(rows) -> Capacities]
    BY <1>1, <1>a DEF NewRows
  <2>2. free \in Seq(Capacities)
    BY <1>1, <2>1, SeqDef
  <2> QED
    BY <1>1, <1>a, <2>2
<1>3. /\ none \in Seq(SUBSET Passengers) /\ Len(none) = Len(rows)
      /\ \A i \in 1..Len(rows) : none[i] = {}
  <2>1. none \in [1..Len(rows) -> SUBSET Passengers]
    BY <1>1, <1>b
  <2>2. none \in Seq(SUBSET Passengers)
    BY <1>1, <2>1, SeqDef
  <2> QED
    BY <1>1, <1>b, <2>2
<1>4. trip' = trip \o rows /\ sold' = sold \o free /\ riders' = riders \o none
  BY <1>a, <1>b DEF Added
<1>5. /\ trip \in Seq(TripRows) /\ sold \in Seq(Capacities) /\ riders \in Seq(SUBSET Passengers)
      /\ Len(trip) \in Nat /\ Len(sold) = Len(trip) /\ Len(riders) = Len(trip)
  BY DEF TripTypeOK
<1>6. /\ trip' \in Seq(TripRows) /\ Len(trip') = Len(trip) + Len(rows)
      /\ \A i \in 1..Len(trip') : trip'[i] = IF i <= Len(trip) THEN trip[i] ELSE rows[i - Len(trip)]
  BY <1>1, <1>4, <1>5, Followed
<1>7. /\ sold' \in Seq(Capacities) /\ Len(sold') = Len(trip')
      /\ \A i \in 1..Len(trip') : sold'[i] = IF i <= Len(trip) THEN sold[i] ELSE free[i - Len(trip)]
  <2>0. /\ sold \in Seq(Capacities) /\ free \in Seq(Capacities)
        /\ Len(trip) \in Nat /\ Len(sold) = Len(trip)
    BY <1>2, <1>5
  <2>1. /\ sold \o free \in Seq(Capacities) /\ Len(sold \o free) = Len(trip) + Len(free)
        /\ \A i \in 1..Len(trip) + Len(free) :
              (sold \o free)[i] = IF i <= Len(trip) THEN sold[i] ELSE free[i - Len(trip)]
    BY <2>0
  <2> QED
    BY <1>2, <1>4, <1>6, <2>1
<1>8. /\ riders' \in Seq(SUBSET Passengers) /\ Len(riders') = Len(trip')
      /\ \A i \in 1..Len(trip') : riders'[i] = IF i <= Len(trip) THEN riders[i] ELSE none[i - Len(trip)]
  <2>0. /\ riders \in Seq(SUBSET Passengers) /\ none \in Seq(SUBSET Passengers)
        /\ Len(trip) \in Nat /\ Len(riders) = Len(trip)
    BY <1>3, <1>5
  <2>1. /\ riders \o none \in Seq(SUBSET Passengers) /\ Len(riders \o none) = Len(trip) + Len(none)
        /\ \A i \in 1..Len(trip) + Len(none) :
              (riders \o none)[i] = IF i <= Len(trip) THEN riders[i] ELSE none[i - Len(trip)]
    BY <2>0
  <2> QED
    BY <1>3, <1>4, <1>6, <2>1
<1>9. DOMAIN trip = 1..Len(trip) /\ DOMAIN trip' = 1..Len(trip') /\ Len(trip') <= MaxTrips
  BY <1>5, <1>6 DEF Added
<1>10. ASSUME NEW t \in DOMAIN trip' \ DOMAIN trip
       PROVE  trip'[t] \in NewRows /\ sold'[t] = trip'[t].free /\ riders'[t] = {}
  <2>1. t - Len(trip) \in 1..Len(rows) /\ ~(t <= Len(trip)) /\ t \in 1..Len(trip')
    BY <1>1, <1>5, <1>6, <1>9, <1>10
  <2> QED
    BY <1>1, <1>2, <1>3, <1>6, <1>7, <1>8, <2>1
<1>11. ASSUME NEW t \in DOMAIN trip
       PROVE  trip'[t] = trip[t] /\ sold'[t] = sold[t] /\ riders'[t] = riders[t]
  BY <1>1, <1>5, <1>6, <1>7, <1>8, <1>9
<1> QED
  BY <1>1, <1>5, <1>6, <1>7, <1>8, <1>9, <1>10, <1>11

\* One row of Trip changes.
LEMMA TripUpdated ==
    ASSUME TripTypeOK, NEW t \in DOMAIN trip, NEW row \in TripRows,
           trip' = [trip EXCEPT ![t] = row]
    PROVE  /\ trip' \in Seq(TripRows) /\ Len(trip') = Len(trip) /\ DOMAIN trip' = DOMAIN trip
           /\ trip'[t] = row /\ \A u \in DOMAIN trip : u # t => trip'[u] = trip[u]
<1>1. trip \in Seq(TripRows) /\ DOMAIN trip = 1..Len(trip)
  BY DEF TripTypeOK
<1> QED
  BY <1>1, ExceptSeq

LEMMA RidersUpdated ==
    ASSUME TripTypeOK, NEW t \in DOMAIN trip, NEW S \in SUBSET Passengers,
           riders' = [riders EXCEPT ![t] = S]
    PROVE  /\ riders' \in Seq(SUBSET Passengers) /\ Len(riders') = Len(riders)
           /\ riders'[t] = S /\ \A u \in DOMAIN trip : u # t => riders'[u] = riders[u]
<1>1. riders \in Seq(SUBSET Passengers) /\ DOMAIN trip = 1..Len(riders)
  BY DEF TripTypeOK
<1> QED
  BY <1>1, ExceptSeq

LEMMA Rows ==
    ASSUME TripTypeOK
    PROVE  /\ \A t \in DOMAIN trip :
                trip[t] \in TripRows /\ sold[t] \in Capacities /\ riders[t] \in SUBSET Passengers
           /\ \A v \in Vehicles : vehicle[v] \in VehicleRows /\ wish[v] \in Wishes
<1>1. /\ DOMAIN trip = 1..Len(trip) /\ DOMAIN trip = 1..Len(sold) /\ DOMAIN trip = 1..Len(riders)
      /\ trip \in Seq(TripRows) /\ sold \in Seq(Capacities) /\ riders \in Seq(SUBSET Passengers)
  BY DEF TripTypeOK
<1> QED
  BY <1>1, ElementOfSeq DEF TripTypeOK, Wishes

------------------------------------------------------------------------------
(* Steps that leave the tables alone *)

\* A request that holds no lock moves: the locks stay.
LEMMA LocksKept ==
    ASSUME NEW c \in Calls, NEW t,
           \A d \in Calls \ {c} : pc'[d] = pc[d] /\ job'[d] = job[d],
           pc[c] \notin {"tell", "commit"},
           Locked(t)
    PROVE  Locked(t)'
  BY DEF Locked

\* What the other requests rely on stands while the tables do.
LEMMA OthersKept ==
    ASSUME NEW d \in Calls, TellingOK(d), CacheOK(d), pc'[d] = pc[d], job'[d] = job[d],
           UNCHANGED <<tables, excuse>>
    PROVE  TellingOK(d)' /\ CacheOK(d)'
  BY DEF TellingOK, CacheOK, Cached, Excused, tables

\* Such a step keeps the invariant when the request that moved has what it relies on.
LEMMA Quiet ==
    ASSUME AdminInv, NEW c \in Calls, UNCHANGED <<tables, excuse>>,
           \A d \in Calls \ {c} : pc'[d] = pc[d] /\ job'[d] = job[d],
           pc[c] \notin {"tell", "commit"},
           Shape', TellingOK(c)', CacheOK(c)'
    PROVE  AdminInv'
<1>1. \A d \in Calls : TellingOK(d)' /\ CacheOK(d)'
  <2>1. ASSUME NEW d \in Calls, d # c PROVE TellingOK(d)' /\ CacheOK(d)'
    BY <2>1, OthersKept DEF AdminInv
  <2> QED
    BY <2>1
<1>2. OrderHolds' /\ CounterAddsUp' /\ CancelledIsTold'
  BY DEF AdminInv, OrderHolds, CounterAddsUp, CancelledIsTold, Excused, tables
<1>3. ToldIsCancelled'
  <2>1. ASSUME NEW pair \in told
        PROVE  \/ trip'[pair[1]].status = "cancelled" \/ Locked(pair[1])'
               \/ \E why \in {"rollback", "changed"} : Excused(why, pair[1])'
    <3>1. trip' = trip /\ excuse' = excuse
      BY DEF tables
    <3> QED
      BY <3>1, LocksKept DEF AdminInv, ToldIsCancelled, Excused
  <2> QED
    BY <2>1 DEF ToldIsCancelled, tables
<1> QED
  BY <1>1, <1>2, <1>3 DEF AdminInv

\* A request that goes to a stage where nothing is locked or generated.
LEMMA BegunQuietly ==
    ASSUME AdminInv, NEW c \in Calls, NEW stage \in {"insert", "save", "update", "saveVehicle", "done"},
           NEW work, Start(c, stage, work), pc[c] \notin {"tell", "commit"},
           UNCHANGED <<tables, excuse>>, JobOK(c)'
    PROVE  AdminInv'
<1>1. stage \in Stages /\ Shape
  BY DEF Stages, AdminInv
<1>2. /\ pc'[c] = stage
      /\ \A d \in Calls \ {c} : pc'[d] = pc[d] /\ job'[d] = job[d]
  BY <1>1, StartChanges
<1>3. Shape'
  BY <1>1, Begun
<1>4. TellingOK(c)' /\ CacheOK(c)'
  BY <1>2 DEF TellingOK, CacheOK
<1> QED
  BY <1>2, <1>3, <1>4, Quiet

LEMMA BeginCreateStep ==
    ASSUME AdminInv, NEW c \in Calls, NEW v \in Vehicles, NEW s \in TripStatuses, BeginCreate(c, v, s)
    PROVE  AdminInv'
<1> DEFINE work == [op |-> "create", new |-> <<NewTrip(v, s, vehicle[v])>>]
<1>1. Start(c, "insert", work) /\ UNCHANGED <<tables, excuse>> /\ pc[c] = "idle"
  BY DEF BeginCreate
<1>2. Shape /\ TripTypeOK
  BY DEF AdminInv, Shape
<1>3. pc'[c] = "insert" /\ job'[c] = work
  BY <1>1, <1>2, StartChanges DEF Stages
<1>4. NewTrip(v, s, vehicle[v]) \in NewRows
  BY <1>2, Rows DEF NewTrip, NewRows, VehicleRows
<1>5. JobOK(c)'
  BY <1>3, <1>4 DEF JobOK, InsertOK
<1> QED
  BY <1>1, <1>5, BegunQuietly

LEMMA BeginEditStep ==
    ASSUME AdminInv, NEW c \in Calls, NEW t \in DOMAIN trip, NEW v \in Vehicles,
           NEW s \in TripStatuses, BeginEdit(c, t, v, s)
    PROVE  AdminInv'
<1> DEFINE row == [trip[t] EXCEPT !.vehicle = v, !.status = s]
           work == [op |-> "edit", trip |-> t, copy |-> trip[t], row |-> row]
<1>1. Start(c, "save", work) /\ UNCHANGED <<tables, excuse>> /\ pc[c] = "idle"
  BY DEF BeginEdit
<1>2. Shape /\ TripTypeOK /\ trip' = trip
  BY <1>1 DEF AdminInv, Shape, tables
<1>3. pc'[c] = "save" /\ job'[c] = work
  BY <1>1, <1>2, StartChanges DEF Stages
<1>4. trip[t] \in TripRows /\ row \in TripRows /\ row.free = trip[t].free
  BY <1>2, Rows DEF TripRows
<1> HIDE DEF row
<1>5. JobOK(c)'
  BY <1>2, <1>3, <1>4 DEF JobOK, SaveOK
<1> QED
  BY <1>1, <1>5, BegunQuietly

LEMMA BeginCancelStep ==
    ASSUME AdminInv, NEW c \in Calls, NEW t \in DOMAIN trip, BeginCancel(c, t)
    PROVE  AdminInv'
<1> DEFINE row == [trip[t] EXCEPT !.status = "cancelled"]
           work == [op |-> "cancel", trip |-> t, tell |-> riders[t], row |-> row]
<1>1. UNCHANGED <<tables, excuse>> /\ pc[c] = "idle"
  BY DEF BeginCancel
<1>2. Shape /\ TripTypeOK /\ trip' = trip
  BY <1>1 DEF AdminInv, Shape, tables
<1>3. CASE trip[t].status \in Closed
  <2>1. Start(c, "done", Idle) /\ JobOK(c)'
    BY <1>2, <1>3, EndChanges DEF BeginCancel, End
  <2> QED
    BY <1>1, <2>1, BegunQuietly
<1>4. CASE trip[t].status \notin Closed
  <2>1. Start(c, "update", work)
    BY <1>4 DEF BeginCancel
  <2>2. pc'[c] = "update" /\ job'[c] = work
    BY <1>2, <2>1, StartChanges DEF Stages
  <2>3. row \in TripRows /\ row.status = "cancelled"
    BY <1>2, Rows DEF TripRows, TripStatuses
  <2> HIDE DEF row
  <2>4. JobOK(c)'
    BY <1>2, <2>2, <2>3 DEF JobOK, CancelOK
  <2> QED
    BY <1>1, <2>1, <2>4, BegunQuietly
<1> QED
  BY <1>3, <1>4

\* The three operations that save a vehicle.
LEMMA BeginVehicleStep ==
    ASSUME AdminInv, NEW c \in Calls, NEW v \in Vehicles, pc[c] = "idle",
           NEW op \in {"edit", "status", "plan"}, NEW row \in VehicleRows,
           op = "edit" => row.status = vehicle[v].status /\ row.plan = vehicle[v].plan,
           Start(c, "saveVehicle", [op |-> op, vehicle |-> v, copy |-> vehicle[v], row |-> row]),
           UNCHANGED <<tables, excuse>>
    PROVE  AdminInv'
<1> DEFINE work == [op |-> op, vehicle |-> v, copy |-> vehicle[v], row |-> row]
<1>1. Shape /\ TripTypeOK
  BY DEF AdminInv, Shape
<1>2. pc'[c] = "saveVehicle" /\ job'[c] = work
  BY <1>1, StartChanges DEF Stages
<1>3. JobOK(c)'
  BY <1>1, <1>2, Rows DEF JobOK, VehicleOK
<1> QED
  BY <1>3, BegunQuietly

LEMMA BeginSaveVehicleStep ==
    ASSUME AdminInv, NEW c \in Calls, NEW v \in Vehicles,
           \/ \E n \in Capacities : BeginVehicleEdit(c, v, n)
           \/ \E s \in VehicleStatuses : BeginSetStatus(c, v, s)
           \/ \E p \in {"first", "second"} : BeginSeatPlan(c, v, p)
    PROVE  AdminInv'
<1>1. vehicle[v] \in VehicleRows
  BY Rows DEF AdminInv, Shape
<1>2. ASSUME NEW n \in Capacities, BeginVehicleEdit(c, v, n) PROVE AdminInv'
  <2>1. /\ [vehicle[v] EXCEPT !.seats = n] \in VehicleRows
        /\ [vehicle[v] EXCEPT !.seats = n].status = vehicle[v].status
        /\ [vehicle[v] EXCEPT !.seats = n].plan = vehicle[v].plan
    BY <1>1 DEF VehicleRows
  <2> QED
    BY <1>2, <2>1, BeginVehicleStep DEF BeginVehicleEdit
<1>3. ASSUME NEW s \in VehicleStatuses, BeginSetStatus(c, v, s) PROVE AdminInv'
  <2>1. [vehicle[v] EXCEPT !.status = s] \in VehicleRows
    BY <1>1 DEF VehicleRows
  <2> QED
    BY <1>3, <2>1, BeginVehicleStep DEF BeginSetStatus
<1>4. ASSUME NEW p \in {"first", "second"}, BeginSeatPlan(c, v, p) PROVE AdminInv'
  <2>1. [vehicle[v] EXCEPT !.plan = p] \in VehicleRows
    BY <1>1 DEF VehicleRows
  <2> QED
    BY <1>4, <2>1, BeginVehicleStep DEF BeginSeatPlan
<1> QED
  BY <1>2, <1>3, <1>4

\* The phones are read under the lock: whoever is booked then will be told.
LEMMA UpdateCancelledStep ==
    ASSUME AdminInv, NEW c \in Calls, UpdateCancelled(c)
    PROVE  AdminInv'
<1> DEFINE work == [job[c] EXCEPT !.tell = riders[job[c].trip]]
<1>1. /\ Start(c, "tell", work) /\ UNCHANGED <<tables, excuse>> /\ pc[c] = "update"
  BY DEF UpdateCancelled, PassengerPhones
<1>2. Shape /\ TripTypeOK /\ trip' = trip /\ riders' = riders
  BY <1>1 DEF AdminInv, Shape, tables
<1>3. /\ pc'[c] = "tell" /\ job'[c] = work
      /\ \A d \in Calls \ {c} : pc'[d] = pc[d] /\ job'[d] = job[d]
  BY <1>1, <1>2, StartChanges DEF Stages
<1>4. CancelOK(job[c])
  BY <1>1, <1>2 DEF Shape, JobOK
<1>5. riders[job[c].trip] \in SUBSET Passengers
  BY <1>2, <1>4, Rows DEF CancelOK
<1>6. JobOK(c)'
  BY <1>2, <1>3, <1>4, <1>5 DEF JobOK, CancelOK, TellOK
<1>7. Shape'
  BY <1>1, <1>2, <1>6, Begun DEF Stages
<1>8. TellingOK(c)' /\ CacheOK(c)'
  BY <1>2, <1>3 DEF TellingOK, CacheOK
<1> QED
  BY <1>1, <1>3, <1>7, <1>8, Quiet

------------------------------------------------------------------------------
(* generate_trips *)

LEMMA BeginGenerateStep ==
    ASSUME AdminInv, NEW c \in Calls, NEW slots \in SUBSET (Days \X Vehicles), BeginGenerate(c, slots)
    PROVE  AdminInv'
<1> DEFINE work == [op |-> "generate", todo |-> slots, cache |-> {}, new |-> << >>]
<1>1. Start(c, "generate", work) /\ UNCHANGED <<tables, excuse>> /\ pc[c] = "idle"
  BY DEF BeginGenerate
<1>2. Shape
  BY DEF AdminInv
<1>3. /\ pc'[c] = "generate" /\ job'[c] = work
      /\ \A d \in Calls \ {c} : pc'[d] = pc[d] /\ job'[d] = job[d]
  BY <1>1, <1>2, StartChanges DEF Stages
<1>4. JobOK(c)'
  BY <1>3 DEF JobOK, GenerateOK
<1>5. Shape'
  BY <1>1, <1>2, <1>4, Begun DEF Stages
<1>6. TellingOK(c)' /\ CacheOK(c)'
  BY <1>3 DEF TellingOK, CacheOK, Cached
<1> QED
  BY <1>1, <1>3, <1>5, <1>6, Quiet

\* A slot gets its trip, of a vehicle that is in the cache from then on.
LEMMA SlotGenerated ==
    ASSUME AdminInv, NEW c \in Calls, pc[c] = "generate", UNCHANGED <<tables, excuse>>,
           NEW v \in Vehicles, NEW todo \in SUBSET (Days \X Vehicles),
           NEW cache \in SUBSET CacheRows, NEW new \in NewRows, new.vehicle = v,
           job[c].cache \subseteq cache,
           \A e \in cache \ job[c].cache : e.vehicle = v,
           \E e \in cache : e.vehicle = v,
           Assignable(c, v),
           Start(c, "generate", [job[c] EXCEPT !.todo = todo, !.cache = cache,
                                               !.new = Append(job[c].new, new)])
    PROVE  AdminInv'
<1>0. PICK work : work = [job[c] EXCEPT !.todo = todo, !.cache = cache,
                                        !.new = Append(job[c].new, new)]
  OBVIOUS
<1>1. Shape /\ GenerateOK(job[c]) /\ CacheOK(c) /\ vehicle' = vehicle /\ excuse' = excuse
  BY DEF AdminInv, Shape, JobOK, tables
<1>2. /\ pc'[c] = "generate" /\ job'[c] = work
      /\ \A d \in Calls \ {c} : pc'[d] = pc[d] /\ job'[d] = job[d]
  BY <1>0, <1>1, StartChanges DEF Stages
<1>3. /\ DOMAIN work = {"op", "todo", "cache", "new"}
      /\ work.todo = todo /\ work.cache = cache /\ work.new = Append(job[c].new, new)
  BY <1>0, <1>1 DEF GenerateOK
<1>4. /\ work.new \in Seq(NewRows) /\ Len(work.new) = Len(job[c].new) + 1
      /\ \A i \in 1..Len(work.new) :
            work.new[i] = new \/ (i \in 1..Len(job[c].new) /\ work.new[i] = job[c].new[i])
  BY <1>1, <1>3, AppendProperties DEF GenerateOK
<1>5. JobOK(c)'
  BY <1>2, <1>3, <1>4 DEF JobOK, GenerateOK
<1>6. Shape'
  BY <1>1, <1>5, Begun DEF Stages
<1>7. TellingOK(c)'
  BY <1>2 DEF TellingOK
<1>8. CacheOK(c)'
  <2>1. ASSUME NEW u \in Vehicles, Cached(c, u)' PROVE Cached(c, u) \/ u = v
    BY <1>2, <1>3, <2>1 DEF Cached
  <2>2. ASSUME NEW u \in Vehicles, Cached(c, u)'
        PROVE  (vehicle[u].status = "active" \/ Excused("moved", c))'
    BY <1>1, <2>1, <2>2 DEF CacheOK, Assignable, Excused
  <2>3. \A i \in 1..Len(job[c].new) : \E e \in job[c].cache : e.vehicle = job[c].new[i].vehicle
    BY <1>1 DEF CacheOK, Cached
  <2>4. \A i \in 1..Len(work.new) : \E e \in cache : e.vehicle = work.new[i].vehicle
    BY <1>4, <2>3
  <2>5. \A i \in 1..Len(job'[c].new) : Cached(c, job[c].new[i].vehicle)'
    BY <1>2, <1>3, <2>4 DEF Cached
  <2> QED
    BY <1>2, <2>2, <2>5 DEF CacheOK
<1> QED
  BY <1>2, <1>6, <1>7, <1>8, Quiet

LEMMA GenerateTripStep ==
    ASSUME AdminInv, NEW c \in Calls, GenerateTrip(c)
    PROVE  AdminInv'
<1>1. /\ Shape /\ TripTypeOK /\ GenerateOK(job[c]) /\ pc[c] = "generate"
      /\ UNCHANGED <<tables, excuse>>
  BY DEF GenerateTrip, AdminInv, Shape, JobOK
<1>2. PICK slot \in job[c].todo :
        LET v == slot[2]
            cache == IF Cached(c, v) THEN job[c].cache
                     ELSE job[c].cache \cup {[vehicle |-> v, row |-> vehicle[v]]}
            loaded == (CHOOSE e \in cache : e.vehicle = v).row
        IN  IF Assignable(c, v)
            THEN Start(c, "generate",
                       [job[c] EXCEPT !.todo = @ \ {slot}, !.cache = cache,
                                      !.new = Append(@, NewTrip(v, "scheduled", loaded))])
            ELSE End(c)
  BY DEF GenerateTrip
<1> DEFINE v == slot[2]
           fresh == [vehicle |-> v, row |-> vehicle[v]]
           cache == IF Cached(c, v) THEN job[c].cache ELSE job[c].cache \cup {fresh}
           entry == CHOOSE e \in cache : e.vehicle = v
           new == NewTrip(v, "scheduled", entry.row)
           todo == job[c].todo \ {slot}
<1>3. v \in Vehicles /\ todo \in SUBSET (Days \X Vehicles)
  BY <1>1 DEF GenerateOK
<1>4. fresh \in CacheRows /\ fresh.vehicle = v
  BY <1>1, <1>3, Rows DEF CacheRows
<1>5. /\ cache \in SUBSET CacheRows /\ job[c].cache \subseteq cache
      /\ \A e \in cache \ job[c].cache : e.vehicle = v
      /\ \E e \in cache : e.vehicle = v
  BY <1>1, <1>4 DEF GenerateOK, Cached
<1>6. entry \in cache /\ entry.vehicle = v
  BY <1>5
<1>7. new \in NewRows /\ new.vehicle = v
  BY <1>3, <1>5, <1>6 DEF NewTrip, NewRows, CacheRows, VehicleRows, TripStatuses
<1>8. CASE Assignable(c, v)
  <2>1. Start(c, "generate", [job[c] EXCEPT !.todo = todo, !.cache = cache,
                                            !.new = Append(job[c].new, new)])
    BY <1>2, <1>8
  <2> HIDE DEF v, cache, new, todo
  <2> QED
    BY <1>1, <1>3, <1>5, <1>7, <1>8, <2>1, SlotGenerated
<1>9. CASE ~Assignable(c, v)
  <2>1. End(c)
    BY <1>2, <1>9
  <2>2. Start(c, "done", Idle) /\ JobOK(c)'
    BY <1>1, <2>1, EndChanges DEF End
  <2> QED
    BY <1>1, <2>2, BegunQuietly
<1> QED
  BY <1>8, <1>9

------------------------------------------------------------------------------
(* Steps that add rows to Trip *)

\* Lists of new trips are inserted with all their seats free and nobody on board.
LEMMA AddStep ==
    ASSUME AdminInv, NEW c \in Calls, pc[c] \notin {"tell", "commit"},
           NEW rows \in Seq(NewRows), Added(rows), End(c),
           UNCHANGED <<vehicle, told, wish, excuse>>
    PROVE  AdminInv'
<1>1. Shape /\ TripTypeOK
  BY DEF AdminInv, Shape
<1>2. /\ trip' \in Seq(TripRows) /\ Len(trip') <= MaxTrips
      /\ sold' \in Seq(Capacities) /\ riders' \in Seq(SUBSET Passengers)
      /\ Len(sold') = Len(trip') /\ Len(riders') = Len(trip')
      /\ DOMAIN trip \subseteq DOMAIN trip'
      /\ \A t \in DOMAIN trip :
            trip'[t] = trip[t] /\ sold'[t] = sold[t] /\ riders'[t] = riders[t]
      /\ \A t \in DOMAIN trip' \ DOMAIN trip :
            trip'[t] \in NewRows /\ sold'[t] = trip'[t].free /\ riders'[t] = {}
  BY <1>1, AddedRows
<1>3. /\ pc' \in [Calls -> Stages] /\ DOMAIN job' = Calls
      /\ pc'[c] = "done" /\ JobOK(c)'
      /\ \A d \in Calls \ {c} : pc'[d] = pc[d] /\ job'[d] = job[d]
  BY <1>1, EndChanges
<1>4. TripTypeOK'
  BY <1>1, <1>2 DEF TripTypeOK
<1>5. Shape'
  BY <1>1, <1>2, <1>3, <1>4, ShapeFrom
<1>6. ASSUME NEW d \in Calls PROVE TellingOK(d)' /\ CacheOK(d)'
  <2>1. CASE d = c
    BY <1>3, <2>1 DEF TellingOK, CacheOK
  <2>2. CASE d # c
    <3>1. TellingOK(d) /\ CacheOK(d) /\ JobOK(d) /\ pc'[d] = pc[d] /\ job'[d] = job[d]
      BY <1>1, <1>3, <2>2 DEF AdminInv, Shape
    <3>2. TellingOK(d)'
      BY <1>2, <3>1 DEF TellingOK, JobOK, CancelOK
    <3>3. CacheOK(d)'
      BY <3>1 DEF CacheOK, Cached, Excused
    <3> QED
      BY <3>2, <3>3
  <2> QED
    BY <2>1, <2>2
<1>7. OrderHolds'
  BY DEF AdminInv, OrderHolds, Excused
<1>8. CounterAddsUp'
  <2>1. ASSUME NEW t \in DOMAIN trip' \ DOMAIN trip
        PROVE  trip'[t].free + Cardinality(riders'[t]) = sold'[t]
    <3>1. Cardinality(riders'[t]) = 0
      BY <1>2, FS_EmptySet
    <3>2. trip'[t].free \in Nat
      BY <1>2, TripAdminConstants DEF NewRows
    <3> QED
      BY <1>2, <3>1, <3>2
  <2> QED
    BY <1>2, <2>1 DEF AdminInv, CounterAddsUp, Excused
<1>9. CancelledIsTold'
  BY <1>2 DEF AdminInv, CancelledIsTold, Excused
<1>10. ToldIsCancelled'
  <2>1. ASSUME NEW pair \in told
        PROVE  \/ trip'[pair[1]].status = "cancelled" \/ Locked(pair[1])'
               \/ \E why \in {"rollback", "changed"} : Excused(why, pair[1])'
    <3>1. pair[1] \in DOMAIN trip
      BY <1>1 DEF TripTypeOK
    <3> QED
      BY <1>2, <1>3, <3>1, LocksKept DEF AdminInv, ToldIsCancelled, Excused
  <2> QED
    BY <2>1 DEF ToldIsCancelled
<1> QED
  BY <1>5, <1>6, <1>7, <1>8, <1>9, <1>10 DEF AdminInv

LEMMA InsertTripStep ==
    ASSUME AdminInv, NEW c \in Calls, InsertTrip(c)
    PROVE  AdminInv'
<1>1. job[c].new \in Seq(NewRows)
  BY DEF AdminInv, Shape, JobOK, InsertOK, InsertTrip
<1> QED
  BY <1>1, AddStep DEF InsertTrip

LEMMA CommitGeneratedStep ==
    ASSUME AdminInv, NEW c \in Calls, CommitGenerated(c)
    PROVE  AdminInv'
<1>1. job[c].new \in Seq(NewRows)
  BY DEF AdminInv, Shape, JobOK, GenerateOK, CommitGenerated
<1> QED
  BY <1>1, AddStep DEF CommitGenerated

------------------------------------------------------------------------------
(* A PATCH of a trip *)

LEMMA SaveEditStep ==
    ASSUME AdminInv, NEW c \in Calls, SaveEdit(c)
    PROVE  AdminInv'
<1>1. PICK t, row, copy : t = job[c].trip /\ row = job[c].row /\ copy = job[c].copy
  OBVIOUS
<1>2. /\ Shape /\ TripTypeOK /\ t \in DOMAIN trip /\ copy \in TripRows /\ row \in TripRows
      /\ row.free = copy.free
  BY <1>1 DEF SaveEdit, AdminInv, Shape, JobOK, SaveOK
<1>3. /\ pc[c] = "save" /\ ~Locked(t) /\ End(c) /\ trip' = [trip EXCEPT ![t] = row]
      /\ UNCHANGED <<vehicle, sold, riders, told, wish>>
  BY <1>1 DEF SaveEdit
<1>4. /\ trip[t] # copy => Excused("edited", t)'
      /\ trip[t].status = "cancelled" /\ row.status # "cancelled" => Excused("changed", t)'
      /\ trip[t].status # "cancelled" /\ row.status = "cancelled" => Excused("silent", t)'
      /\ \A why, x : Excused(why, x) => Excused(why, x)'
      /\ \A pair \in excuse' : pair[1] \in Excuses
  <2>1. excuse' = excuse \cup (When(trip[t] # copy, <<"edited", t>>)
             \cup When(trip[t].status = "cancelled" /\ row.status # "cancelled", <<"changed", t>>)
             \cup When(trip[t].status # "cancelled" /\ row.status = "cancelled", <<"silent", t>>))
    BY <1>1 DEF SaveEdit, Excuse
  <2> QED
    BY <1>2, <2>1 DEF When, Excused, Excuses, TripTypeOK
<1>5. /\ trip' \in Seq(TripRows) /\ Len(trip') = Len(trip) /\ DOMAIN trip' = DOMAIN trip
      /\ trip'[t] = row /\ \A u \in DOMAIN trip : u # t => trip'[u] = trip[u]
  BY <1>2, <1>3, TripUpdated
<1>6. /\ pc' \in [Calls -> Stages] /\ DOMAIN job' = Calls
      /\ pc'[c] = "done" /\ JobOK(c)'
      /\ \A d \in Calls \ {c} : pc'[d] = pc[d] /\ job'[d] = job[d]
  BY <1>2, <1>3, EndChanges
<1>7. TripTypeOK'
  BY <1>2, <1>3, <1>4, <1>5 DEF TripTypeOK
<1>8. Shape'
  BY <1>2, <1>5, <1>6, <1>7, ShapeFrom
<1>9. ASSUME NEW d \in Calls PROVE TellingOK(d)' /\ CacheOK(d)'
  <2>1. CASE d = c
    BY <1>6, <2>1 DEF TellingOK, CacheOK
  <2>2. CASE d # c
    <3>1. TellingOK(d) /\ CacheOK(d) /\ pc'[d] = pc[d] /\ job'[d] = job[d]
      BY <1>6, <2>2 DEF AdminInv
    <3>2. TellingOK(d)'
      BY <1>3, <3>1 DEF TellingOK
    <3>3. CacheOK(d)'
      BY <1>3, <1>4, <3>1 DEF CacheOK, Cached
    <3> QED
      BY <3>2, <3>3
  <2> QED
    BY <2>1, <2>2
<1>10. OrderHolds'
  BY <1>3, <1>4 DEF AdminInv, OrderHolds
<1>11. CounterAddsUp'
  <2>1. trip'[t].free = trip[t].free \/ Excused("edited", t)'
    BY <1>2, <1>4, <1>5
  <2> QED
    BY <1>3, <1>4, <1>5, <2>1 DEF AdminInv, CounterAddsUp
<1>12. CancelledIsTold'
  BY <1>3, <1>4, <1>5 DEF AdminInv, CancelledIsTold
<1>13. ToldIsCancelled'
  <2>1. ASSUME NEW pair \in told
        PROVE  \/ trip'[pair[1]].status = "cancelled" \/ Locked(pair[1])'
               \/ \E why \in {"rollback", "changed"} : Excused(why, pair[1])'
    <3>1. pair[1] \in DOMAIN trip
      BY <1>2 DEF TripTypeOK
    <3>2. Locked(pair[1]) => Locked(pair[1])'
      BY <1>3, <1>6, LocksKept
    <3> QED
      BY <1>3, <1>4, <1>5, <3>1, <3>2 DEF AdminInv, ToldIsCancelled
  <2> QED
    BY <1>3, <2>1 DEF ToldIsCancelled
<1> QED
  BY <1>8, <1>9, <1>10, <1>11, <1>12, <1>13 DEF AdminInv

------------------------------------------------------------------------------
(* An open cancellation *)

LEMMA TellPassengerStep ==
    ASSUME AdminInv, NEW c \in Calls, TellPassenger(c)
    PROVE  AdminInv'
<1>1. PICK t, tell : t = job[c].trip /\ tell = job[c].tell
  OBVIOUS
<1>2. /\ Shape /\ TripTypeOK /\ CancelOK(job[c]) /\ t \in DOMAIN trip
      /\ tell \in SUBSET Passengers /\ TellingOK(c) /\ Locked(t)
  BY <1>1 DEF TellPassenger, AdminInv, Shape, JobOK, CancelOK, TellOK, Locked
<1>3. pc[c] = "tell" /\ UNCHANGED <<vehicle, trip, sold, riders, wish, excuse>>
  BY DEF TellPassenger
<1>4. /\ pc' \in [Calls -> Stages] /\ DOMAIN job' = Calls
      /\ \A d \in Calls \ {c} : pc'[d] = pc[d] /\ job'[d] = job[d]
      /\ pc'[c] \in {"tell", "commit"} /\ job'[c].trip = t
      /\ TripTypeOK' /\ told \subseteq told'
      /\ \A pair \in told' \ told : pair[1] = t
      /\ JobOK(c)' /\ TellingOK(c)'
  <2>1. CASE tell = {}
    <3>1. pc' = [pc EXCEPT ![c] = "commit"] /\ UNCHANGED <<told, job>>
      BY <1>1, <2>1 DEF TellPassenger, Goto
    <3>2. /\ pc' \in [Calls -> Stages] /\ pc'[c] = "commit"
          /\ \A d \in Calls \ {c} : pc'[d] = pc[d]
      BY <1>2, <3>1 DEF Shape, Stages
    <3>3. DOMAIN job' = Calls /\ JobOK(c)' /\ job'[c].trip = t
      BY <1>1, <1>2, <1>3, <3>1, <3>2 DEF Shape, JobOK, CancelOK
    <3>4. TellingOK(c)'
      BY <1>1, <1>2, <1>3, <2>1, <3>1 DEF TellingOK
    <3>5. TripTypeOK'
      BY <1>2, <1>3, <3>1 DEF TripTypeOK
    <3> QED
      BY <3>1, <3>2, <3>3, <3>4, <3>5
  <2>2. CASE tell # {}
    <3>1. PICK p \in tell : /\ told' = told \cup {<<t, p>>} /\ UNCHANGED pc
                            /\ job' = [job EXCEPT ![c].tell = @ \ {p}]
      BY <1>1, <2>2 DEF TellPassenger
    <3>2. /\ job'[c].trip = t /\ job'[c].row = job[c].row /\ job'[c].tell = tell \ {p}
          /\ DOMAIN job'[c] = DOMAIN job[c] /\ DOMAIN job' = Calls
          /\ \A d \in Calls \ {c} : job'[d] = job[d]
      BY <1>1, <1>2, <3>1 DEF Shape, CancelOK
    <3>3. JobOK(c)'
      BY <1>1, <1>2, <1>3, <3>1, <3>2 DEF JobOK, CancelOK, TellOK
    <3>4. TellingOK(c)'
      BY <1>1, <1>2, <1>3, <3>1, <3>2 DEF TellingOK
    <3>5. TripTypeOK'
      BY <1>2, <1>3, <3>1 DEF TripTypeOK
    <3> QED
      BY <1>2, <1>3, <3>1, <3>2, <3>3, <3>4, <3>5 DEF Shape
  <2> QED
    BY <2>1, <2>2
<1>5. Shape'
  BY <1>2, <1>3, <1>4, ShapeFrom
<1>6. ASSUME NEW d \in Calls PROVE TellingOK(d)' /\ CacheOK(d)'
  <2>1. CASE d = c
    BY <1>4, <2>1 DEF CacheOK
  <2>2. CASE d # c
    BY <1>3, <1>4, <2>2 DEF AdminInv, TellingOK, CacheOK, Cached, Excused
  <2> QED
    BY <2>1, <2>2
<1>7. OrderHolds' /\ CounterAddsUp' /\ CancelledIsTold'
  BY <1>3, <1>4 DEF AdminInv, OrderHolds, CounterAddsUp, CancelledIsTold, Excused
<1>8. ToldIsCancelled'
  <2>1. ASSUME NEW u, Locked(u) PROVE Locked(u)'
    BY <1>1, <1>3, <1>4, <2>1 DEF Locked
  <2>2. Locked(t)'
    BY <1>2, <2>1
  <2> QED
    BY <1>3, <1>4, <2>1, <2>2 DEF AdminInv, ToldIsCancelled, Excused
<1> QED
  BY <1>5, <1>6, <1>7, <1>8 DEF AdminInv

LEMMA CommitCancelStep ==
    ASSUME AdminInv, NEW c \in Calls, CommitCancel(c)
    PROVE  AdminInv'
<1>1. PICK t, row, cancelled : /\ t = job[c].trip /\ row = job[c].row
                               /\ cancelled = Saved(trip[t], row, CancelColumns)
  OBVIOUS
<1>2. /\ Shape /\ TripTypeOK /\ t \in DOMAIN trip /\ row \in TripRows
      /\ row.status = "cancelled" /\ TellingOK(c)
  BY <1>1 DEF CommitCancel, AdminInv, Shape, JobOK, CancelOK
<1>3. /\ pc[c] = "commit" /\ End(c) /\ trip' = [trip EXCEPT ![t] = cancelled]
      /\ UNCHANGED <<vehicle, sold, riders, told, wish, excuse>>
  BY <1>1 DEF CommitCancel
<1>4. /\ cancelled \in TripRows /\ cancelled.status = "cancelled"
      /\ cancelled.free = trip[t].free
  BY <1>1, <1>2, Rows, SavedTrip DEF CancelColumns
<1>5. /\ trip' \in Seq(TripRows) /\ Len(trip') = Len(trip) /\ DOMAIN trip' = DOMAIN trip
      /\ trip'[t] = cancelled /\ \A u \in DOMAIN trip : u # t => trip'[u] = trip[u]
  BY <1>2, <1>3, <1>4, TripUpdated
<1>6. /\ pc' \in [Calls -> Stages] /\ DOMAIN job' = Calls
      /\ pc'[c] = "done" /\ JobOK(c)'
      /\ \A d \in Calls \ {c} : pc'[d] = pc[d] /\ job'[d] = job[d]
  BY <1>2, <1>3, EndChanges
<1>7. TripTypeOK'
  BY <1>2, <1>3, <1>5 DEF TripTypeOK
<1>8. Shape'
  BY <1>2, <1>5, <1>6, <1>7, ShapeFrom
<1>9. ASSUME NEW d \in Calls PROVE TellingOK(d)' /\ CacheOK(d)'
  <2>1. CASE d = c
    BY <1>6, <2>1 DEF TellingOK, CacheOK
  <2>2. CASE d # c
    BY <1>3, <1>6, <2>2 DEF AdminInv, TellingOK, CacheOK, Cached, Excused
  <2> QED
    BY <2>1, <2>2
<1>10. OrderHolds'
  BY <1>3 DEF AdminInv, OrderHolds, Excused
<1>11. CounterAddsUp'
  BY <1>3, <1>4, <1>5 DEF AdminInv, CounterAddsUp, Excused
<1>12. CancelledIsTold'
  <2>1. \A p \in riders[t] : <<t, p>> \in told
    BY <1>1, <1>2, <1>3 DEF TellingOK
  <2> QED
    BY <1>3, <1>5, <2>1 DEF AdminInv, CancelledIsTold, Excused
<1>13. ToldIsCancelled'
  <2>1. ASSUME NEW u, u # t, Locked(u) PROVE Locked(u)'
    BY <1>1, <1>6, <2>1 DEF Locked
  <2>2. ASSUME NEW pair \in told
        PROVE  \/ trip'[pair[1]].status = "cancelled" \/ Locked(pair[1])'
               \/ \E why \in {"rollback", "changed"} : Excused(why, pair[1])'
    <3>1. pair[1] \in DOMAIN trip
      BY <1>2 DEF TripTypeOK
    <3> QED
      BY <1>3, <1>4, <1>5, <2>1, <3>1 DEF AdminInv, ToldIsCancelled, Excused
  <2> QED
    BY <1>3, <2>2 DEF ToldIsCancelled
<1> QED
  BY <1>8, <1>9, <1>10, <1>11, <1>12, <1>13 DEF AdminInv

------------------------------------------------------------------------------
(* A vehicle is saved *)

\* Whoever has the vehicle in its cache is excused from then on.
LEMMA SaveVehicleStep ==
    ASSUME AdminInv, NEW c \in Calls, SaveVehicle(c)
    PROVE  AdminInv'
<1>1. PICK v, row, copy, op :
        v = job[c].vehicle /\ row = job[c].row /\ copy = job[c].copy /\ op = job[c].op
  OBVIOUS
<1>2. PICK saved, asked :
        /\ saved = Saved(vehicle[v], row, VehicleColumns(op))
        /\ asked = Saved(wish[v], row, IF op = "edit" THEN {} ELSE {op})
  OBVIOUS
<1>3. /\ Shape /\ TripTypeOK /\ v \in Vehicles /\ copy \in VehicleRows /\ row \in VehicleRows
      /\ op \in {"edit", "status", "plan"}
      /\ op = "edit" => row.status = copy.status /\ row.plan = copy.plan
  BY <1>1 DEF SaveVehicle, AdminInv, Shape, JobOK, VehicleOK
<1>4. /\ pc[c] = "saveVehicle" /\ End(c)
      /\ vehicle' = [vehicle EXCEPT ![v] = saved] /\ wish' = [wish EXCEPT ![v] = asked]
      /\ UNCHANGED <<trip, sold, riders, told>>
  BY <1>1, <1>2 DEF SaveVehicle
<1>5. /\ op = "edit" /\ vehicle[v] # copy => Excused("edited", v)'
      /\ \A d \in Calls : pc[d] = "generate" /\ Cached(d, v) => Excused("moved", d)'
      /\ \A why, x : Excused(why, x) => Excused(why, x)'
      /\ \A pair \in excuse' : pair[1] \in Excuses
  <2>1. excuse' = excuse \cup (When(op = "edit" /\ vehicle[v] # copy, <<"edited", v>>)
             \cup {<<"moved", g>> : g \in {g \in Calls : pc[g] = "generate" /\ Cached(g, v)}})
    BY <1>1 DEF SaveVehicle, Excuse
  <2> QED
    BY <1>3, <2>1 DEF When, Excused, Excuses, TripTypeOK
<1>6. /\ saved \in VehicleRows
      /\ saved.plan = IF op = "status" THEN vehicle[v].plan ELSE row.plan
      /\ saved.status = IF op = "plan" THEN vehicle[v].status ELSE row.status
  <2>1. vehicle[v] \in VehicleRows
    BY <1>3, Rows
  <2>2. /\ "plan" \in VehicleColumns(op) <=> op # "status"
        /\ "status" \in VehicleColumns(op) <=> op # "plan"
    BY <1>3 DEF VehicleColumns
  <2> QED
    BY <1>2, <1>3, <2>1, <2>2, SavedVehicle
<1>7. /\ asked \in Wishes
      /\ asked.plan = IF op = "plan" THEN row.plan ELSE wish[v].plan
      /\ asked.status = IF op = "status" THEN row.status ELSE wish[v].status
  <2>1. wish[v] \in Wishes
    BY <1>3, Rows
  <2> QED
    BY <1>2, <1>3, <2>1, SavedWish
<1>8. /\ pc' \in [Calls -> Stages] /\ DOMAIN job' = Calls
      /\ pc'[c] = "done" /\ JobOK(c)'
      /\ \A d \in Calls \ {c} : pc'[d] = pc[d] /\ job'[d] = job[d]
  BY <1>3, <1>4, EndChanges
<1>9. TripTypeOK'
  BY <1>3, <1>4, <1>5, <1>6, <1>7 DEF TripTypeOK, Wishes
<1>10. Shape'
  BY <1>3, <1>4, <1>8, <1>9, ShapeFrom
<1>11. ASSUME NEW d \in Calls PROVE TellingOK(d)' /\ CacheOK(d)'
  <2>1. CASE d = c
    BY <1>8, <2>1 DEF TellingOK, CacheOK
  <2>2. CASE d # c
    <3>1. TellingOK(d) /\ CacheOK(d) /\ pc'[d] = pc[d] /\ job'[d] = job[d]
      BY <1>8, <2>2 DEF AdminInv
    <3>2. TellingOK(d)'
      BY <1>4, <3>1 DEF TellingOK
    <3>3. ASSUME NEW u \in Vehicles, pc[d] = "generate", Cached(d, u)
          PROVE  vehicle'[u].status = "active" \/ Excused("moved", d)'
      <4>1. u # v => vehicle'[u] = vehicle[u]
        BY <1>3, <1>4 DEF TripTypeOK
      <4> QED
        BY <1>5, <3>1, <3>3, <4>1 DEF CacheOK
    <3>4. CacheOK(d)'
      BY <3>1, <3>3 DEF CacheOK, Cached
    <3> QED
      BY <3>2, <3>4
  <2> QED
    BY <2>1, <2>2
<1>12. OrderHolds'
  <2>1. ASSUME NEW u \in Vehicles, u # v
        PROVE  \/ vehicle'[u].status = wish'[u].status /\ vehicle'[u].plan = wish'[u].plan
               \/ Excused("edited", u)'
    BY <1>3, <1>4, <1>5, <2>1 DEF AdminInv, OrderHolds, TripTypeOK
  <2>2. vehicle'[v] = saved /\ wish'[v] = asked
    BY <1>3, <1>4 DEF TripTypeOK
  <2>3. \/ saved.status = asked.status /\ saved.plan = asked.plan
        \/ Excused("edited", v)'
    <3>1. \/ vehicle[v].status = wish[v].status /\ vehicle[v].plan = wish[v].plan
          \/ Excused("edited", v)'
      BY <1>3, <1>5 DEF AdminInv, OrderHolds
    <3> QED
      BY <1>3, <1>5, <1>6, <1>7, <3>1
  <2> QED
    BY <2>1, <2>2, <2>3 DEF OrderHolds
<1>13. CounterAddsUp' /\ CancelledIsTold'
  BY <1>4, <1>5 DEF AdminInv, CounterAddsUp, CancelledIsTold
<1>14. ToldIsCancelled'
  BY <1>4, <1>5, <1>8, LocksKept DEF AdminInv, ToldIsCancelled
<1> QED
  BY <1>10, <1>11, <1>12, <1>13, <1>14 DEF AdminInv

------------------------------------------------------------------------------
(* Failures *)

LEMMA FailStep ==
    ASSUME AdminInv, NEW c \in Calls, Fail(c)
    PROVE  AdminInv'
<1>0. PICK lost : lost = job[c].trip
  OBVIOUS
<1>1. Shape /\ TripTypeOK /\ End(c) /\ UNCHANGED tables
  BY DEF AdminInv, Shape, Fail
<1>2. /\ pc[c] \in {"tell", "commit"} => Excused("rollback", lost)'
      /\ \A why, x : Excused(why, x) => Excused(why, x)'
      /\ \A pair \in excuse' : pair[1] \in Excuses
  <2>1. excuse' = excuse \cup When(pc[c] \in {"tell", "commit"}, <<"rollback", lost>>)
    BY <1>0 DEF Fail, Excuse
  <2> QED
    BY <1>1, <2>1 DEF When, Excused, Excuses, TripTypeOK
<1>3. /\ pc' \in [Calls -> Stages] /\ DOMAIN job' = Calls
      /\ pc'[c] = "done" /\ JobOK(c)'
      /\ \A d \in Calls \ {c} : pc'[d] = pc[d] /\ job'[d] = job[d]
  BY <1>1, EndChanges
<1>4. Shape'
  BY <1>1, <1>2, <1>3, TablesKept, ShapeFrom
<1>5. ASSUME NEW d \in Calls PROVE TellingOK(d)' /\ CacheOK(d)'
  <2>1. CASE d = c
    BY <1>3, <2>1 DEF TellingOK, CacheOK
  <2>2. CASE d # c
    <3>1. TellingOK(d) /\ CacheOK(d) /\ pc'[d] = pc[d] /\ job'[d] = job[d]
      BY <1>3, <2>2 DEF AdminInv
    <3>2. TellingOK(d)'
      BY <1>1, <3>1 DEF TellingOK, tables
    <3>3. CacheOK(d)'
      BY <1>1, <1>2, <3>1 DEF CacheOK, Cached, tables
    <3> QED
      BY <3>2, <3>3
  <2> QED
    BY <2>1, <2>2
<1>6. OrderHolds' /\ CounterAddsUp' /\ CancelledIsTold'
  BY <1>1, <1>2 DEF AdminInv, OrderHolds, CounterAddsUp, CancelledIsTold, tables
<1>7. ToldIsCancelled'
  <2>1. ASSUME NEW t, Locked(t) PROVE Locked(t)' \/ Excused("rollback", t)'
    BY <1>0, <1>2, <1>3, <2>1 DEF Locked
  <2> QED
    BY <1>1, <1>2, <2>1 DEF AdminInv, ToldIsCancelled, tables
<1> QED
  BY <1>4, <1>5, <1>6, <1>7 DEF AdminInv

------------------------------------------------------------------------------
(* The desk *)

\* A sale or a cancellation on a trip that no open cancellation locks.
LEMMA DeskStep ==
    ASSUME AdminInv, NEW t \in DOMAIN trip, NEW n \in Nat, NEW S \in SUBSET Passengers,
           ~Locked(t), trip' = [trip EXCEPT ![t].free = n], riders' = [riders EXCEPT ![t] = S],
           UNCHANGED <<vehicle, sold, told, wish, pc, job, excuse>>,
           n + Cardinality(S) = trip[t].free + Cardinality(riders[t]),
           trip[t].status = "cancelled" => S \subseteq riders[t]
    PROVE  AdminInv'
<1>1. PICK row : row = [trip[t] EXCEPT !.free = n]
  OBVIOUS
<1>2. /\ Shape /\ TripTypeOK /\ row \in TripRows /\ row.free = n /\ row.status = trip[t].status
  BY <1>1, Rows DEF AdminInv, Shape, TripRows
<1>3. /\ trip' \in Seq(TripRows) /\ Len(trip') = Len(trip) /\ DOMAIN trip' = DOMAIN trip
      /\ trip'[t] = row /\ \A u \in DOMAIN trip : u # t => trip'[u] = trip[u]
  BY <1>1, <1>2, TripUpdated
<1>4. /\ riders' \in Seq(SUBSET Passengers) /\ Len(riders') = Len(riders)
      /\ riders'[t] = S /\ \A u \in DOMAIN trip : u # t => riders'[u] = riders[u]
  BY <1>2, RidersUpdated
<1>5. TripTypeOK'
  BY <1>2, <1>3, <1>4 DEF TripTypeOK
<1>6. Shape'
  BY <1>2, <1>3, <1>5, JobKept DEF Shape
<1>7. ASSUME NEW d \in Calls PROVE TellingOK(d)' /\ CacheOK(d)'
  <2>1. TellingOK(d) /\ CacheOK(d) /\ JobOK(d)
    BY <1>2 DEF AdminInv, Shape
  <2>2. pc[d] \in {"tell", "commit"} => job[d].trip \in DOMAIN trip /\ job[d].trip # t
    BY <2>1 DEF JobOK, CancelOK, Locked
  <2>3. TellingOK(d)'
    BY <1>4, <2>1, <2>2 DEF TellingOK
  <2>4. CacheOK(d)'
    BY <2>1 DEF CacheOK, Cached, Excused
  <2> QED
    BY <2>3, <2>4
<1>8. OrderHolds'
  BY DEF AdminInv, OrderHolds, Excused
<1>9. CounterAddsUp'
  BY <1>2, <1>3, <1>4 DEF AdminInv, CounterAddsUp, Excused
<1>10. CancelledIsTold'
  BY <1>2, <1>3, <1>4 DEF AdminInv, CancelledIsTold, Excused
<1>11. ToldIsCancelled'
  <2>1. \A pair \in told : trip'[pair[1]].status = trip[pair[1]].status
    BY <1>2, <1>3 DEF TripTypeOK
  <2> QED
    BY <2>1 DEF AdminInv, ToldIsCancelled, Excused, Locked
<1> QED
  BY <1>6, <1>7, <1>8, <1>9, <1>10, <1>11 DEF AdminInv

LEMMA SellStep ==
    ASSUME AdminInv, NEW t \in DOMAIN trip, NEW p \in Passengers, Sell(t, p)
    PROVE  AdminInv'
<1>1. /\ trip[t] \in TripRows /\ riders[t] \in SUBSET Passengers /\ trip[t].free > 0
  BY Rows DEF AdminInv, Shape, Sell
<1>2. PICK n, S : n = trip[t].free - 1 /\ S = riders[t] \cup {p}
  OBVIOUS
<1>3. n \in Nat /\ n = trip[t].free - 1 /\ trip[t].free \in Nat
  BY <1>1, <1>2 DEF TripRows
<1>4. IsFiniteSet(riders[t])
  BY <1>1, FS_Subset, TripAdminConstants
<1>5. Cardinality(S) = Cardinality(riders[t]) + 1 /\ Cardinality(riders[t]) \in Nat
  BY <1>2, <1>4, FS_AddElement, FS_CardinalityType DEF Sell
<1>6. S \in SUBSET Passengers /\ n + Cardinality(S) = trip[t].free + Cardinality(riders[t])
  BY <1>1, <1>2, <1>3, <1>5
<1>7. /\ ~Locked(t) /\ trip' = [trip EXCEPT ![t].free = n] /\ riders' = [riders EXCEPT ![t] = S]
      /\ UNCHANGED <<vehicle, sold, told, wish, pc, job, excuse>> /\ trip[t].status # "cancelled"
  BY <1>2 DEF Sell, Closed
<1> QED
  BY <1>3, <1>6, <1>7, DeskStep

LEMMA GiveBackStep ==
    ASSUME AdminInv, NEW t \in DOMAIN trip, NEW p \in Passengers, GiveBack(t, p)
    PROVE  AdminInv'
<1>1. trip[t] \in TripRows /\ riders[t] \in SUBSET Passengers
  BY Rows DEF AdminInv, Shape
<1>2. PICK n, S : n = trip[t].free + 1 /\ S = riders[t] \ {p}
  OBVIOUS
<1>3. n \in Nat /\ n = trip[t].free + 1 /\ trip[t].free \in Nat
  BY <1>1, <1>2 DEF TripRows
<1>4. IsFiniteSet(riders[t])
  BY <1>1, FS_Subset, TripAdminConstants
<1>5. Cardinality(S) = Cardinality(riders[t]) - 1 /\ Cardinality(riders[t]) \in Nat
  BY <1>2, <1>4, FS_RemoveElement, FS_CardinalityType DEF GiveBack
<1>6. S \in SUBSET Passengers /\ n + Cardinality(S) = trip[t].free + Cardinality(riders[t])
  BY <1>1, <1>2, <1>3, <1>5
<1>7. /\ ~Locked(t) /\ trip' = [trip EXCEPT ![t].free = n] /\ riders' = [riders EXCEPT ![t] = S]
      /\ UNCHANGED <<vehicle, sold, told, wish, pc, job, excuse>> /\ S \subseteq riders[t]
  BY <1>2 DEF GiveBack
<1> QED
  BY <1>3, <1>6, <1>7, DeskStep

------------------------------------------------------------------------------
(* The invariant *)

LEMMA AdminInit == Init => AdminInv
<1> SUFFICES ASSUME Init PROVE AdminInv
  OBVIOUS
<1>1. PICK v \in Vehicles : trip = <<[vehicle |-> v, status |-> "scheduled", free |-> vehicle[v].seats]>>
  BY DEF Init
<1>2. /\ vehicle \in [Vehicles -> VehicleRows] /\ vehicle[v].seats \in Capacities
      /\ wish \in [Vehicles -> [status: VehicleStatuses, plan: {"first", "second"}]]
  BY DEF Init, VehicleRows
<1>3. /\ trip \in Seq(TripRows) /\ Len(trip) = 1 /\ DOMAIN trip = {1}
      /\ trip[1].status = "scheduled" /\ trip[1].free = vehicle[v].seats
  <2>1. PICK row : row = [vehicle |-> v, status |-> "scheduled", free |-> vehicle[v].seats]
    OBVIOUS
  <2>2. row \in TripRows
    BY <1>2, <2>1, TripAdminConstants DEF TripRows, TripStatuses
  <2>3. trip = <<row>>
    BY <1>1, <2>1
  <2>4. trip \in Seq(TripRows) /\ Len(trip) = 1 /\ trip[1] = row
    BY <2>2, <2>3
  <2>5. DOMAIN trip = {1}
    BY <2>4
  <2> QED
    BY <2>1, <2>4, <2>5
<1>4. /\ sold = <<vehicle[v].seats>> /\ riders = <<{}>> /\ told = {} /\ excuse = {}
      /\ pc = [c \in Calls |-> "idle"] /\ job = [c \in Calls |-> Idle]
  BY <1>3 DEF Init
<1>5. TripTypeOK
  BY <1>2, <1>3, <1>4, TripAdminConstants DEF TripTypeOK
<1>6. Shape
  BY <1>4, <1>5 DEF Shape, Stages, JobOK
<1>7. \A c \in Calls : TellingOK(c) /\ CacheOK(c)
  BY <1>4 DEF TellingOK, CacheOK
<1>8. OrderHolds
  BY DEF Init, OrderHolds
<1>9. CounterAddsUp
  <2>1. Cardinality(riders[1]) = 0
    BY <1>4, FS_EmptySet
  <2>2. vehicle[v].seats \in Nat
    BY <1>2, TripAdminConstants
  <2>3. sold[1] = vehicle[v].seats
    BY <1>4
  <2> QED
    BY <1>3, <2>1, <2>2, <2>3 DEF CounterAddsUp
<1>10. CancelledIsTold /\ ToldIsCancelled
  BY <1>3, <1>4 DEF CancelledIsTold, ToldIsCancelled
<1> QED
  BY <1>6, <1>7, <1>8, <1>9, <1>10 DEF AdminInv

LEMMA AdminStep == AdminInv /\ [Next]_vars => AdminInv'
<1> SUFFICES ASSUME AdminInv, [Next]_vars PROVE AdminInv'
  OBVIOUS
<1>1. ASSUME NEW c \in Calls, Begin(c) PROVE AdminInv'
  BY <1>1, BeginCreateStep, BeginEditStep, BeginCancelStep, BeginSaveVehicleStep,
     BeginGenerateStep DEF Begin
<1>2. ASSUME NEW c \in Calls, InsertTrip(c) PROVE AdminInv'
  BY <1>2, InsertTripStep
<1>3. ASSUME NEW c \in Calls, SaveEdit(c) PROVE AdminInv'
  BY <1>3, SaveEditStep
<1>4. ASSUME NEW c \in Calls, UpdateCancelled(c) PROVE AdminInv'
  BY <1>4, UpdateCancelledStep
<1>5. ASSUME NEW c \in Calls, TellPassenger(c) PROVE AdminInv'
  BY <1>5, TellPassengerStep
<1>6. ASSUME NEW c \in Calls, CommitCancel(c) PROVE AdminInv'
  BY <1>6, CommitCancelStep
<1>7. ASSUME NEW c \in Calls, GenerateTrip(c) PROVE AdminInv'
  BY <1>7, GenerateTripStep
<1>8. ASSUME NEW c \in Calls, CommitGenerated(c) PROVE AdminInv'
  BY <1>8, CommitGeneratedStep
<1>9. ASSUME NEW c \in Calls, SaveVehicle(c) PROVE AdminInv'
  BY <1>9, SaveVehicleStep
<1>10. ASSUME NEW c \in Calls, Fail(c) PROVE AdminInv'
  BY <1>10, FailStep
<1>11. ASSUME NEW t \in DOMAIN trip, NEW p \in Passengers, Sell(t, p) \/ GiveBack(t, p)
       PROVE  AdminInv'
  BY <1>11, SellStep, GiveBackStep
<1>12. CASE UNCHANGED vars
  BY <1>12 DEF AdminInv, Shape, TripTypeOK, JobOK, InsertOK, SaveOK, CancelOK, TellOK, GenerateOK,
     VehicleOK, TellingOK, CacheOK, Cached, OrderHolds, CounterAddsUp, CancelledIsTold,
     ToldIsCancelled, Excused, Locked, vars, tables
<1> QED
  BY <1>1, <1>2, <1>3, <1>4, <1>5, <1>6, <1>7, <1>8, <1>9, <1>10, <1>11, <1>12 DEF Next

\* The inductive invariant: the tables, what every request of services.py and views.py has
\* in its hands between its reads and its saves, and the SMS it still has to send.
THEOREM AdminInvariant == Spec => []AdminInv
  BY AdminInit, AdminStep, PTL DEF Spec

------------------------------------------------------------------------------
(* Theorems *)

\* The tables are well formed; a vehicle has the status and the plan last ordered for it
\* unless a PATCH of VehicleViewSet wrote back a stale row; a generation (generate_trips)
\* holds trips of vehicles in service only, unless one left after it was tested.
THEOREM TripsAreSound == Spec => []TripInv
<1>1. AdminInv => GeneratedInService
  <2>1. ASSUME AdminInv, NEW c \in Calls, pc[c] = "generate", NEW i \in 1..Len(job[c].new)
        PROVE  vehicle[job[c].new[i].vehicle].status = "active" \/ Excused("moved", c)
    <3>1. job[c].new \in Seq(NewRows) /\ CacheOK(c)
      BY <2>1 DEF AdminInv, Shape, JobOK, GenerateOK
    <3>2. job[c].new[i] \in NewRows
      BY <2>1, <3>1, ElementOfSeq
    <3>3. job[c].new[i].vehicle \in Vehicles
      BY <3>2 DEF NewRows
    <3> QED
      BY <2>1, <3>1, <3>3 DEF CacheOK
  <2> QED
    BY <2>1 DEF GeneratedInService
<1>2. AdminInv => TripInv
  BY <1>1 DEF AdminInv, Shape, TripInv
<1> QED
  BY <1>2, AdminInvariant, PTL

\* available_seats and the active bookings add up to the seats a trip was created with,
\* until TripViewSet.partial_update writes back a counter that moved since it was loaded.
THEOREM SeatsAddUp == Spec => []CounterAddsUp
<1>1. AdminInv => CounterAddsUp
  BY DEF AdminInv
<1> QED
  BY <1>1, AdminInvariant, PTL

\* cancel_trip leaves nobody booked on a cancelled trip without the SMS.
THEOREM EveryPassengerIsTold == Spec => []CancelledIsTold
<1>1. AdminInv => CancelledIsTold
  BY DEF AdminInv
<1> QED
  BY <1>1, AdminInvariant, PTL

\* The SMS of cancel_trip is true: the trip is cancelled, or its row is locked until it is,
\* or the transaction was rolled back, or a PATCH gave the trip another status.
THEOREM TheSmsIsTrue == Spec => []ToldIsCancelled
<1>1. AdminInv => ToldIsCancelled
  BY DEF AdminInv
<1> QED
  BY <1>1, AdminInvariant, PTL

==============================================================================
