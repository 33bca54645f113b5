------------------------------ MODULE OfflineSync ------------------------------
(***************************************************************************)
(* The synchronisation of what agents recorded offline.                    *)
(*                                                                         *)
(* A device holds a batch of bookings, parcels and boardings and posts it  *)
(* until it gets an answer: the answer may be lost, and a device that      *)
(* timed out posts again while its first call still runs.  A call is one   *)
(* database transaction over the whole batch.  It locks each trip when it  *)
(* first meets it and keeps the lock, so two calls may wait on each other  *)
(* until PostgreSQL aborts one.  Meanwhile the reservation desk sells,     *)
(* cancels and closes trips; each of these is one atomic step here, since  *)
(* it holds at most one trip (module Bookings has its steps).              *)
(***************************************************************************)
EXTENDS Integers, Sequences, FiniteSets

CONSTANTS Trips,       \* rows of trips_trip of the agents' company
          Labels,      \* seat labels
          Plan,        \* the commercialisable seats, in plan order
          VehicleOf,   \* VehicleOf[t]: trip.vehicle
          TotalSeats,  \* vehicle.total_seats
          Numbers,     \* ticket and tracking numbers
          DeskNumbers, \* ticket numbers the desk issues
          Devices,     \* agents' devices
          Batch,       \* what each device recorded offline
          Calls,       \* POSTs of a batch, numbered as they arrive
          None

Item == [kind: {"booking", "parcel", "boarding"}, num: Numbers,
         trip: Trips \cup {None},    \* None: unknown, or of another company
         seat: Labels \cup {None}]

Rows == [trip: Trips, seat: Labels, status: {"active", "cancelled"},  \* active: pending or paid
         by: Devices \cup {None}]    \* the device that synchronised it, if one did

ASSUME SyncConstants ==
    /\ Plan \in Seq(Labels)
    /\ TotalSeats \in Nat
    /\ Calls \subseteq Nat
    /\ IsFiniteSet(Numbers)
    /\ DOMAIN VehicleOf = Trips
    /\ DeskNumbers \subseteq Numbers
    /\ Batch \in [Devices -> Seq(Item)]
    /\ None \notin Trips \cup Labels \cup Numbers \cup Devices \cup Calls
    /\ None \notin Rows \cup (Trips \X Labels)

VARIABLES
    open,      \* open[t]: the trip is neither cancelled nor completed
    avail,     \* trip.available_seats
    tripLock,  \* which call holds the row lock of the trip
    booked,    \* booked[n]: the committed booking with ticket number n, or None
    parcels,   \* tracking numbers of the committed parcels
    boarded,   \* tickets with a committed BoardingValidation
    pc,        \* where each call is
    owner,     \* the device that posted the call
    at,        \* index of the item of the batch the call works on
    want,      \* the seat chosen for that item
    draft,     \* what the call's open transaction has inserted
    report,    \* the errors and conflicts the call has collected
    answer     \* the report each device received, or None

dbVars   == <<open, avail, booked, parcels, boarded>>
callVars == <<pc, owner, at, want, draft, report>>
vars == <<dbVars, tripLock, callVars, answer>>

Reasons == {"invalid", "trip_unavailable", "trip_full", "seat_conflict"}
Reports == [errors: SUBSET (Numbers \X Reasons), conflicts: SUBSET (Numbers \X Labels)]
Drafts  == [booked: [Numbers -> Rows \cup {None}], parcels: SUBSET Numbers,
            boarded: SUBSET Numbers]

NoDraft  == [booked |-> [n \in Numbers |-> None], parcels |-> {}, boarded |-> {}]
NoReport == [errors |-> {}, conflicts |-> {}]

AtWork  == {"item", "lock", "insert", "parcel"}
Stages  == {"idle", "done", "ended"} \cup AtWork

SyncTypeOK ==
    /\ open \in [Trips -> BOOLEAN]
    /\ avail \in [Trips -> Nat]
    /\ tripLock \in [Trips -> Calls \cup {None}]
    /\ booked \in [Numbers -> Rows \cup {None}]
    /\ parcels \subseteq Numbers /\ boarded \subseteq Numbers
    /\ pc \in [Calls -> Stages]
    /\ owner \in [Calls -> Devices \cup {None}]
    /\ at \in [Calls -> Nat \ {0}]
    /\ want \in [Calls -> Labels \cup {None}]
    /\ draft \in [Calls -> Drafts]
    /\ report \in [Calls -> Reports]
    /\ answer \in [Devices -> Reports \cup {None}]

Init ==
    /\ open = [t \in Trips |-> TRUE]
    /\ avail = [t \in Trips |-> TotalSeats]
    /\ tripLock = [t \in Trips |-> None]
    /\ booked = [n \in Numbers |-> None]
    /\ parcels = {} /\ boarded = {}
    /\ pc = [q \in Calls |-> "idle"]
    /\ owner = [q \in Calls |-> None]
    /\ at = [q \in Calls |-> 1]
    /\ want = [q \in Calls |-> None]
    /\ draft = [q \in Calls |-> NoDraft]
    /\ report = [q \in Calls |-> NoReport]
    /\ answer = [d \in Devices |-> None]

------------------------------------------------------------------------------
(* What a call sees: the committed rows and its own. *)

ThisItem(q) == Batch[owner[q]][at[q]]

HasItem(q, kind) == at[q] <= Len(Batch[owner[q]]) /\ ThisItem(q).kind = kind

Drafted(q, n) == draft[q].booked[n] # None

Seen(q, n) == IF Drafted(q, n) THEN draft[q].booked[n] ELSE booked[n]

Holds(row, t, s) == row # None /\ row.trip = t /\ row.seat = s /\ row.status # "cancelled"

\* _active_seats, _booked_seat_numbers
SeatTaken(q, t, s) == \E n \in Numbers : Holds(Seen(q, n), t, s)

FirstFree(q, t) ==
    {s \in Labels : \E i \in DOMAIN Plan :
        /\ s = Plan[i] /\ ~SeatTaken(q, t, s)
        /\ \A j \in DOMAIN Plan : j < i => SeatTaken(q, t, Plan[j])}

\* Mutant: the counter is that of the cached trip, read before the batch.
SeatsLeftCached(q, t) ==
    avail[t] - (IF \E n \in Numbers : Drafted(q, n) /\ draft[q].booked[n].trip = t THEN 1 ELSE 0)

\* trip.available_seats, as the transaction that decremented it reads it.
SeatsLeft(q, t) ==
    avail[t] - Cardinality({n \in Numbers : Drafted(q, n) /\ draft[q].booked[n].trip = t})

\* select_for_update().select_related("vehicle") locks the trip and its vehicle.
RowsHeldBy(t, holders) ==
    \A u \in Trips : VehicleOf[u] = VehicleOf[t] => tripLock[u] \in holders

\* A unique index makes an INSERT wait for another transaction that has the number.
NumberPending(o, kind, n) ==
    CASE kind = "booking"  -> Drafted(o, n)
      [] kind = "parcel"   -> n \in draft[o].parcels
      [] kind = "boarding" -> n \in draft[o].boarded

MayInsert(q) ==
    ~\E o \in Calls \ {q} : NumberPending(o, ThisItem(q).kind, ThisItem(q).num)

------------------------------------------------------------------------------
(* The device *)

\* POST, first or again: a device that waits for an answer may not know one is coming.
Post(q) ==
    /\ pc[q] = "idle" /\ \A o \in Calls : o < q => pc[o] # "idle"
    /\ \E d \in Devices :
        /\ answer[d] = None
        /\ owner' = [owner EXCEPT ![q] = d]
    /\ pc' = [pc EXCEPT ![q] = "item"]
    /\ UNCHANGED <<dbVars, tripLock, at, want, draft, report, answer>>

\* What a call that is over held in memory.
Forget(q) ==
    /\ owner' = [owner EXCEPT ![q] = None]
    /\ at' = [at EXCEPT ![q] = 1]
    /\ want' = [want EXCEPT ![q] = None]
    /\ draft' = [draft EXCEPT ![q] = NoDraft]
    /\ report' = [report EXCEPT ![q] = NoReport]

\* The answer arrives, or is lost.
Hear(q) ==
    /\ pc[q] = "done"
    /\ pc' = [pc EXCEPT ![q] = "ended"]
    /\ \/ answer[owner[q]] = None /\ answer' = [answer EXCEPT ![owner[q]] = report[q]]
       \/ UNCHANGED answer
    /\ Forget(q)
    /\ UNCHANGED <<dbVars, tripLock>>

------------------------------------------------------------------------------
(* sync_agent_data: one step per statement that another call can tell apart *)

Goto(q, stage) == pc' = [pc EXCEPT ![q] = stage]

NextItem(q) ==
    /\ Goto(q, "item")
    /\ at' = [at EXCEPT ![q] = @ + 1]
    /\ want' = [want EXCEPT ![q] = None]

\* Mutant: the error is logged and not returned to the agent.
RejectUnreported(q, reason) ==
    /\ NextItem(q)
    /\ UNCHANGED <<dbVars, owner, draft, report, answer>>

\* _log_error, and on to the next item.
Reject(q, reason) ==
    /\ report' = [report EXCEPT ![q].errors = @ \cup {<<ThisItem(q).num, reason>>}]
    /\ NextItem(q)
    /\ UNCHANGED <<dbVars, owner, draft, answer>>

\* Idempotence: a ticket number found in the table is skipped.  No lock is held yet.
CheckTicket(q) ==
    /\ pc[q] = "item" /\ HasItem(q, "booking")
    /\ IF Seen(q, ThisItem(q).num) # None
       THEN NextItem(q)
       ELSE Goto(q, "lock") /\ UNCHANGED <<at, want>>
    /\ UNCHANGED <<dbVars, tripLock, owner, draft, report, answer>>

\* The seat asked for if it is free, or the first free one.
Resolved(q) ==
    LET it == ThisItem(q)
    IN  IF it.seat # None /\ ~SeatTaken(q, it.trip, it.seat)
        THEN {it.seat}
        ELSE FirstFree(q, it.trip)

\* Mutant: the trip is read without select_for_update.
AcquireTripUnlocked(q, t) == UNCHANGED tripLock

\* _get_scoped_trip: the trip is locked if it is not in the cache yet.
AcquireTrip(q, t) ==
    /\ RowsHeldBy(t, {None, q})
    /\ tripLock' = [tripLock EXCEPT ![t] = q]

\* What neither resolve_seat_conflict nor create_booking answers TripFull to.
SeatLeft(q, t) == SeatsLeft(q, t) > 0 /\ Resolved(q) # {}

\* Mutant: what was sold offline is honoured whatever became of the trip.
TripAvailableAlways(t) == TRUE

\* Neither cancelled nor completed.
TripAvailable(t) == open[t]

\* The trip's status and seats are read under its lock.
TakeTrip(q) ==
    LET t == ThisItem(q).trip
    IN  /\ pc[q] = "lock"
        /\ \/ t = None /\ UNCHANGED tripLock /\ Reject(q, "invalid")
           \/ /\ t # None
              /\ AcquireTrip(q, t)
              /\ \/ ~TripAvailable(t) /\ Reject(q, "trip_unavailable")
                 \/ TripAvailable(t) /\ ~SeatLeft(q, t) /\ Reject(q, "trip_full")
                 \/ /\ TripAvailable(t) /\ SeatLeft(q, t)
                    /\ \E s \in Resolved(q) : want' = [want EXCEPT ![q] = s]
                    /\ Goto(q, "insert")
                    /\ UNCHANGED <<dbVars, owner, at, draft, report, answer>>

\* Mutant: the two seats of a conflict are swapped in the report.
AddBookingSwapped(q) ==
    LET it == ThisItem(q)
    IN  /\ draft' = [draft EXCEPT ![q].booked[it.num] =
                        [trip |-> it.trip, seat |-> want[q], status |-> "active", by |-> owner[q]]]
        /\ report' = [report EXCEPT ![q].conflicts =
                        IF it.seat \in {None, want[q]} THEN @ ELSE @ \cup {<<it.num, it.seat>>}]
        /\ NextItem(q)
        /\ UNCHANGED <<dbVars, owner, answer>>

\* The row, and the conflict if the seat is not the one the agent wrote on the ticket.
AddBooking(q) ==
    LET it == ThisItem(q)
    IN  /\ draft' = [draft EXCEPT ![q].booked[it.num] =
                        [trip |-> it.trip, seat |-> want[q], status |-> "active", by |-> owner[q]]]
        /\ report' = [report EXCEPT ![q].conflicts =
                        IF it.seat \in {None, want[q]} THEN @ ELSE @ \cup {<<it.num, want[q]>>}]
        /\ NextItem(q)
        /\ UNCHANGED <<dbVars, owner, answer>>

\* Mutant: SeatTaken is retried until the seat and the number are free.
SyncBookingRetried(q) ==
    /\ pc[q] = "insert"
    /\ MayInsert(q)
    /\ booked[ThisItem(q).num] = None /\ ~SeatTaken(q, ThisItem(q).trip, want[q])
    /\ AddBooking(q)
    /\ UNCHANGED tripLock

\* create_booking's INSERT: the number may have been committed since CheckTicket.
SyncBooking(q) ==
    LET it == ThisItem(q)
        insertable == booked[it.num] = None /\ ~SeatTaken(q, it.trip, want[q])
    IN  /\ pc[q] = "insert"
        /\ MayInsert(q)
        /\ \/ insertable /\ AddBooking(q)
           \/ ~insertable /\ Reject(q, "seat_conflict")
        /\ UNCHANGED tripLock

\* A tracking number found in the table is skipped; unknown cities or a route with no
\* tariff reject the parcel.
CheckParcel(q) ==
    /\ pc[q] = "item" /\ HasItem(q, "parcel")
    /\ \/ /\ ThisItem(q).num \in parcels \cup draft[q].parcels
          /\ NextItem(q)
          /\ UNCHANGED <<dbVars, owner, draft, report, answer>>
       \/ /\ ThisItem(q).num \notin parcels \cup draft[q].parcels
          /\ Goto(q, "parcel")
          /\ UNCHANGED <<dbVars, owner, at, want, draft, report, answer>>
       \/ /\ ThisItem(q).num \notin parcels \cup draft[q].parcels
          /\ Reject(q, "invalid")
    /\ UNCHANGED tripLock

\* Commit or rollback: the locks are released.
Release(q) == tripLock' = [t \in Trips |-> IF tripLock[t] = q THEN None ELSE tripLock[t]]

\* The transaction is rolled back as a whole and the device gets no report.
Abort(q) ==
    /\ Goto(q, "ended")
    /\ Forget(q)
    /\ Release(q)
    /\ UNCHANGED <<dbVars, answer>>

\* register_parcel's INSERT.  Nothing catches a duplicate tracking number.
SyncParcel(q) ==
    LET n == ThisItem(q).num
    IN  /\ pc[q] = "parcel"
        /\ MayInsert(q)
        /\ \/ /\ n \notin parcels
              /\ draft' = [draft EXCEPT ![q].parcels = @ \cup {n}]
              /\ NextItem(q)
              /\ UNCHANGED <<dbVars, tripLock, owner, report, answer>>
           \/ n \in parcels /\ Abort(q)

\* check_in, whatever the status of the booking; a boarding already there is kept.
SyncBoarding(q) ==
    LET n == ThisItem(q).num
    IN  /\ pc[q] = "item" /\ HasItem(q, "boarding")
        /\ \/ Seen(q, n) = None /\ Reject(q, "invalid")
           \/ /\ Seen(q, n) # None /\ (n \in boarded \/ MayInsert(q))
              /\ draft' = [draft EXCEPT ![q].boarded = @ \cup {n}]
              /\ NextItem(q)
              /\ UNCHANGED <<dbVars, owner, report, answer>>
        /\ UNCHANGED tripLock

Commit(q) ==
    /\ pc[q] = "item" /\ at[q] > Len(Batch[owner[q]])
    /\ booked' = [n \in Numbers |-> Seen(q, n)]
    /\ avail' = [t \in Trips |-> SeatsLeft(q, t)]
    /\ parcels' = parcels \cup draft[q].parcels
    /\ boarded' = boarded \cup draft[q].boarded
    /\ draft' = [draft EXCEPT ![q] = NoDraft]
    /\ Goto(q, "done")
    /\ Release(q)
    /\ UNCHANGED <<open, owner, at, want, report, answer>>

\* The worker or its connection dies.
Crash(q) == pc[q] \in AtWork /\ Abort(q)

------------------------------------------------------------------------------
(* PostgreSQL aborts a transaction that finds itself in a cycle of waits. *)

WaitsOn(q, o) ==
    /\ q # o
    /\ \/ /\ pc[q] = "lock" /\ ThisItem(q).trip # None
          /\ ~RowsHeldBy(ThisItem(q).trip, (Calls \cup {None}) \ {o})
       \/ /\ \/ pc[q] \in {"insert", "parcel"}
             \/ pc[q] = "item" /\ HasItem(q, "boarding")
          /\ NumberPending(o, ThisItem(q).kind, ThisItem(q).num)

Deadlocked(q) ==
    \E S \in SUBSET Calls :
        /\ q \in S
        /\ \A x \in S : (\E y \in S : WaitsOn(x, y)) /\ (\E y \in S : WaitsOn(y, x))

DeadlockAbort(q) == Deadlocked(q) /\ Abort(q)

------------------------------------------------------------------------------
(* The reservation desk, one transaction per step *)

SellOnline(n, t, s) ==
    /\ RowsHeldBy(t, {None}) /\ open[t] /\ avail[t] > 0
    /\ booked[n] = None /\ ~\E q \in Calls : Drafted(q, n)
    /\ \A m \in Numbers : ~Holds(booked[m], t, s)
    /\ booked' = [booked EXCEPT ![n] = [trip |-> t, seat |-> s, status |-> "active", by |-> None]]
    /\ avail' = [avail EXCEPT ![t] = @ - 1]
    /\ UNCHANGED <<open, parcels, boarded, tripLock, callVars, answer>>

CancelOnline(n) ==
    /\ booked[n] # None /\ booked[n].status # "cancelled"
    /\ tripLock[booked[n].trip] = None
    /\ booked' = [booked EXCEPT ![n].status = "cancelled"]
    /\ avail' = [avail EXCEPT ![booked[n].trip] = @ + 1]
    /\ UNCHANGED <<open, parcels, boarded, tripLock, callVars, answer>>

CloseTrip(t) ==
    /\ tripLock[t] = None /\ open[t]
    /\ open' = [open EXCEPT ![t] = FALSE]
    /\ UNCHANGED <<avail, booked, parcels, boarded, tripLock, callVars, answer>>

Step(q) ==
    \/ CheckTicket(q) \/ TakeTrip(q) \/ SyncBooking(q)
    \/ CheckParcel(q) \/ SyncParcel(q) \/ SyncBoarding(q) \/ Commit(q)

Desk ==
    \/ \E n \in DeskNumbers, t \in Trips, s \in Labels : SellOnline(n, t, s)
    \/ \E n \in Numbers : CancelOnline(n)
    \/ \E t \in Trips : CloseTrip(t)

Next ==
    \/ \E q \in Calls : Post(q) \/ Step(q) \/ Hear(q) \/ Crash(q) \/ DeadlockAbort(q)
    \/ Desk

Spec == Init /\ [][Next]_vars

\* A call that was posted is executed, and a deadlock is detected.
FairSpec == Spec /\ \A q \in Calls : WF_vars(Step(q)) /\ WF_vars(DeadlockAbort(q))

------------------------------------------------------------------------------
(* Properties.  SyncTypeOK is above. *)

ActiveSeats(t) == {n \in Numbers : booked[n] # None /\ booked[n].trip = t
                                    /\ booked[n].status # "cancelled"}

\* The counter stays exact when a whole batch commits at once: what a call sold under
\* its locks, and nothing of a call that failed, is taken off the seats on sale.
SeatsExact == \A t \in Trips : avail[t] + Cardinality(ActiveSeats(t)) = TotalSeats

\* No seat is sold twice, be it by two devices, by the desk meanwhile, or by one batch.
SeatsHeldOnce ==
    \A m, n \in Numbers :
        m # n /\ booked[m] # None /\ m \in ActiveSeats(booked[m].trip)
        => ~Holds(booked[n], booked[m].trip, booked[m].seat)

\* The tables and the calls are well formed, and the counter is exact.
SyncInv == SyncTypeOK /\ SeatsExact

RejectedNumbers(r) == {e[1] : e \in r.errors}

SyncedFrom(d, n) == booked[n] # None /\ booked[n].by = d

\* Nothing is lost silently: once a device has its answer, every booking and parcel of
\* its batch is stored or was reported as an error, whatever was retried or aborted.
NothingLostSilently ==
    \A d \in Devices : answer[d] # None =>
        \A i \in DOMAIN Batch[d] :
            LET it == Batch[d][i]
            IN  \/ it.num \in RejectedNumbers(answer[d])
                \/ it.kind = "booking" /\ SyncedFrom(d, it.num)
                \/ it.kind = "parcel" /\ it.num \in parcels
                \/ it.kind = "boarding" /\ it.num \in boarded

\* The seat an agent is told to hand out instead is the one stored for the ticket.
ReportedSeatIsStored ==
    \A d \in Devices : answer[d] # None =>
        \A c \in answer[d].conflicts : booked[c[1]] # None /\ booked[c[1]].seat = c[2]

\* What the synchronisation and the desk do to seats, whole batches at a time, is what
\* SeatMap promises: no ticket is issued for a trip that is closed or a seat that is held
\* when its batch commits, though the seats were chosen long before.
SeatHolders ==
    LET active == {n \in Numbers : booked[n] # None /\ booked[n].status # "cancelled"}
    IN  [t \in Trips |-> [s \in Labels |-> {n \in active : Holds(booked[n], t, s)}]]
SeatIssued  == [n \in Numbers |->
                  IF booked[n] = None THEN None ELSE <<booked[n].trip, booked[n].seat>>]

Map == INSTANCE SeatMap WITH Bookings <- Numbers, holders <- SeatHolders, issued <- SeatIssued

ImplementsSeatMap == Map!BatchSpec

\* No set of row locks blocks a synchronisation for ever.
EveryCallEnds == \A q \in Calls : pc[q] \in AtWork ~> pc[q] \in {"done", "ended"}

------------------------------------------------------------------------------
(* What the documentation says and the code does not do. *)

\* docs/api/sync.md:11-12: a number that is already synchronised is skipped silently.
\* So a booking the device is told was rejected is not one of its stored bookings.
RejectedIsAbsent ==
    \A d \in Devices : answer[d] # None =>
        \A i \in DOMAIN Batch[d] :
            LET it == Batch[d][i]
            IN  it.kind = "booking" /\ it.num \in RejectedNumbers(answer[d])
                => ~SyncedFrom(d, it.num)

\* docs/specs/business_rules.md:223: a booking cancelled while the agent was offline is
\* reported to him.  So no call boards a cancelled ticket without reporting it.
CancelledIsReported ==
    [][\A q \in Calls : \A n \in draft'[q].boarded \ draft[q].boarded :
          Seen(q, n).status = "cancelled" => n \in RejectedNumbers(report'[q])]_vars

==============================================================================
