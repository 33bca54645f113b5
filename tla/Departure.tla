------------------------------- MODULE Departure -------------------------------
(***************************************************************************)
(* What happens to the passengers of one trip between the sale and the     *)
(* departure: the SMS that confirm, remind and call off, and the boarding. *)
(*                                                                         *)
(* Payments and cancellations of bookings are single steps here (module    *)
(* Bookings has their statements).  The SMS follow the commit of a payment *)
(* one by one, two of them through Celery; those of a cancelled trip leave *)
(* before its commit.  A PATCH of the trip, which may reopen it, is left   *)
(* to module TripAdmin.  Controllers lock nothing: each reads the paid     *)
(* bookings and inserts boardings later.                                   *)
(***************************************************************************)
EXTENDS Integers, FiniteSets

CONSTANTS Passengers,  \* bookings of the trip, named by their ticket
          Counter,     \* those an agent sold, paid from the start
          Calls,       \* requests
          Workers      \* Celery worker processes

Jobs == Calls \cup Workers

ASSUME DepartureConstants ==
    /\ IsFiniteSet(Passengers) /\ Counter \subseteq Passengers /\ Calls \cap Workers = {}

VARIABLES
    clock,    \* the hours that count: see Hours
    open,     \* the trip is neither cancelled nor completed
    booking,  \* booking[b]: its status
    boarded,  \* bookings with a BoardingValidation
    remindOn, \* CompanyNotificationSettings.sms_departure_reminder
    queue,    \* tasks that wait for a worker or for their ETA
    sms,      \* SMS that left
    pc,       \* where each request or worker is
    job,      \* what it does, to whom, and what it read
    excuse    \* what happened to a passenger: see Excuses

rows == <<clock, open, booking, boarded, remindOn>>
vars == <<rows, queue, sms, pc, job, excuse>>

\* More than three hours before departure; less than three; less than two.
Hours == {"early", "reminding", "leaving"}

Statuses == {"pending", "paid", "cancelled"}
Kinds    == {"confirmation", "reminder"}
Sms      == {"payment", "cancelled"} \cup Kinds
Ops      == {"pay", "checkin", "all", "validate", "cancelTrip", "none"} \cup Kinds
Stages   == {"idle", "thank", "confirm", "remind", "insert", "count", "answered",
             "tell", "commit", "send", "done"}
Work     == [op: Ops, todo: SUBSET Passengers, paid: 0..Cardinality(Passengers),
             left: 0..Cardinality(Passengers)]

\* late:     the booking was cancelled after a controller read that it was paid;
\* lost:     a request or a worker died, or the broker was down, before its SMS;
\* rollback: a cancellation of the trip failed after its SMS had left;
\* crossed:  the reminder's worker read the trip before its cancellation was committed.
Excuses == {"late", "lost", "rollback", "crossed"}

Idle == [op |-> "none", todo |-> {}, paid |-> 0, left |-> 0]

DepartureTypeOK ==
    /\ clock \in Hours /\ open \in BOOLEAN /\ remindOn \in BOOLEAN
    /\ booking \in [Passengers -> Statuses]
    /\ boarded \subseteq Passengers
    /\ queue \subseteq Kinds \X Passengers
    /\ sms \subseteq Sms \X Passengers
    /\ pc \in [Jobs -> Stages]
    /\ job \in [Jobs -> Work]
    /\ excuse \subseteq Excuses \X Passengers

\* An online booking waits for its payment.
Init ==
    /\ clock \in {"early", "reminding"} /\ open = TRUE /\ remindOn \in BOOLEAN
    /\ booking = [b \in Passengers |-> IF b \in Counter THEN "paid" ELSE "pending"]
    /\ boarded = {} /\ queue = {} /\ sms = {}
    /\ pc = [j \in Jobs |-> "idle"]
    /\ job = [j \in Jobs |-> Idle]
    /\ excuse = {}

------------------------------------------------------------------------------
Excused(why, b) == <<why, b>> \in excuse

Excuse(why, S) == excuse' = excuse \cup ({why} \X S)

Got(what, b) == <<what, b>> \in sms

Goto(j, stage) == pc' = [pc EXCEPT ![j] = stage]

Start(j, stage, work) == Goto(j, stage) /\ job' = [job EXCEPT ![j] = work]

\* A request ends; a worker is free again.
End(j) == Start(j, IF j \in Workers THEN "idle" ELSE "done", Idle)

\* The booking a request or task is about.
About(j) == CHOOSE b \in job[j].todo : TRUE

\* BoardingBaseView.paid_bookings
Paid == {b \in Passengers : booking[b] = "paid"}

Tick ==
    /\ \/ clock = "early" /\ clock' = "reminding"
       \/ clock = "reminding" /\ clock' = "leaving"
    /\ UNCHANGED <<open, booking, boarded, remindOn, queue, sms, pc, job, excuse>>

------------------------------------------------------------------------------
(* confirm_payment and the SMS that follow its commit *)

\* The booking's status is not read: a cancelled booking comes back.
Pay(c, b) ==
    /\ pc[c] = "idle"
    /\ booking' = [booking EXCEPT ![b] = "paid"]
    /\ Start(c, "thank", [Idle EXCEPT !.op = "pay", !.todo = {b}])
    /\ UNCHANGED <<clock, open, boarded, remindOn, queue, sms, excuse>>

\* _send_payment_sms
Thank(c) ==
    /\ pc[c] = "thank"
    /\ sms' = sms \cup {<<"payment", About(c)>>}
    /\ Goto(c, "confirm")
    /\ UNCHANGED <<rows, queue, job, excuse>>

\* reminder_eta > timezone.now()
ReminderIsDue == clock = "early"

\* Mutant: a departure so close that it gets no reminder gets no confirmation either.
ConfirmedFarAhead == IF ReminderIsDue THEN {"confirmation"} ELSE {}

\* _schedule_booking_notifications: the confirmation comes before the test of the ETA.
Confirmed == {"confirmation"}

\* send_booking_confirmation_sms.delay
QueueConfirmation(c) ==
    /\ pc[c] = "confirm"
    /\ queue' = queue \cup (Confirmed \X job[c].todo)
    /\ Goto(c, "remind")
    /\ UNCHANGED <<rows, sms, job, excuse>>

\* send_departure_reminder_sms.apply_async(eta=departure - 3h)
ScheduleReminder(c) ==
    /\ pc[c] = "remind"
    /\ queue' = IF ReminderIsDue THEN queue \cup {<<"reminder", About(c)>>} ELSE queue
    /\ End(c)
    /\ UNCHANGED <<rows, sms, excuse>>

------------------------------------------------------------------------------
(* The two tasks *)

TakeTask(w, kind, b) ==
    /\ pc[w] = "idle" /\ <<kind, b>> \in queue
    /\ queue' = queue \ {<<kind, b>>}

CallingOff == \E c \in Calls : pc[c] \in {"tell", "commit"}

\* send_booking_confirmation_sms looks at nothing but the row's existence.
TakeConfirmation(w, b) ==
    /\ TakeTask(w, "confirmation", b)
    /\ Start(w, "send", [Idle EXCEPT !.op = "confirmation", !.todo = {b}])
    /\ UNCHANGED <<rows, sms, excuse>>

\* Mutant: the trip's status is not looked at.
WorthRemindingPaid(b) == booking[b] = "paid" /\ remindOn

WorthReminding(b) == booking[b] = "paid" /\ remindOn /\ open

\* Mutant: a worker that is late by an hour drops the task.
EtaReachedOnTheDot == clock = "reminding"

\* Celery gives a task to a worker at any time from its ETA on.
EtaReached == clock # "early"

\* send_departure_reminder_sms
TakeReminder(w, b) ==
    /\ EtaReached
    /\ TakeTask(w, "reminder", b)
    /\ IF WorthReminding(b)
       THEN Start(w, "send", [Idle EXCEPT !.op = "reminder", !.todo = {b}])
       ELSE End(w)
    /\ IF CallingOff THEN Excuse("crossed", {b}) ELSE UNCHANGED excuse
    /\ UNCHANGED <<rows, sms>>

SendTaskSms(w) ==
    /\ pc[w] = "send"
    /\ sms' = sms \cup {<<job[w].op, About(w)>>}
    /\ End(w)
    /\ UNCHANGED <<rows, queue, excuse>>

------------------------------------------------------------------------------
(* Cancellations *)

\* cancel_booking by its traveller, until two hours before departure, or by an
\* administrator at any time.  A boarded passenger is no obstacle.
CancelBooking(b) ==
    /\ booking[b] # "cancelled"
    /\ booking' = [booking EXCEPT ![b] = "cancelled"]
    /\ IF b \in boarded \/ \E c \in Calls : pc[c] = "insert" /\ b \in job[c].todo
       THEN Excuse("late", {b}) ELSE UNCHANGED excuse
    /\ UNCHANGED <<clock, open, boarded, remindOn, queue, sms, pc, job>>

\* cancel_trip: the UPDATE, uncommitted, and the active bookings' phones.
BeginCancelTrip(c) ==
    /\ pc[c] = "idle" /\ open /\ ~CallingOff
    /\ Start(c, "tell", [Idle EXCEPT !.op = "cancelTrip",
                                     !.todo = {b \in Passengers : booking[b] # "cancelled"}])
    /\ Excuse("crossed", {About(w) : w \in {w \in Workers : job[w].op = "reminder"}})
    /\ UNCHANGED <<rows, queue, sms>>

TellCancelled(c) ==
    /\ pc[c] = "tell"
    /\ IF job[c].todo = {}
       THEN Goto(c, "commit") /\ UNCHANGED <<sms, job>>
       ELSE \E b \in job[c].todo :
             /\ sms' = sms \cup {<<"cancelled", b>>}
             /\ job' = [job EXCEPT ![c].todo = @ \ {b}]
             /\ UNCHANGED pc
    /\ UNCHANGED <<rows, queue, excuse>>

CommitCancelTrip(c) ==
    /\ pc[c] = "commit"
    /\ open' = FALSE
    /\ End(c)
    /\ UNCHANGED <<clock, booking, boarded, remindOn, queue, sms, excuse>>

------------------------------------------------------------------------------
(* Controllers *)

\* Mutant: any booking of the trip may be ticked.
ToBoardAnyone == Passengers

ToBoard == Paid

\* BoardingCheckInView: paid_bookings(trip).get(pk)
BeginCheckIn(c, b) ==
    /\ pc[c] = "idle"
    /\ IF b \in ToBoard
       THEN Start(c, "insert", [Idle EXCEPT !.op = "checkin", !.todo = {b}])
       ELSE End(c)
    /\ UNCHANGED <<rows, queue, sms, excuse>>

\* BoardingAllView: the list of the paid bookings.
BeginBoardAll(c) ==
    /\ pc[c] = "idle"
    /\ Start(c, "insert", [Idle EXCEPT !.op = "all", !.todo = ToBoard])
    /\ UNCHANGED <<rows, queue, sms, excuse>>

\* check_in: get_or_create, one committed row after the other.
CheckIn(c) ==
    /\ pc[c] = "insert"
    /\ IF job[c].todo = {}
       THEN End(c) /\ UNCHANGED boarded
       ELSE \E b \in job[c].todo :
             /\ boarded' = boarded \cup {b}
             /\ job' = [job EXCEPT ![c].todo = @ \ {b}]
             /\ UNCHANGED pc
    /\ UNCHANGED <<clock, open, booking, remindOn, queue, sms, excuse>>

\* BoardingValidateView: two queries; nothing is stored, though the answer says "locked".
BeginValidate(c) ==
    /\ pc[c] = "idle"
    /\ Start(c, "count", [Idle EXCEPT !.op = "validate", !.paid = Cardinality(Paid)])
    /\ UNCHANGED <<rows, queue, sms, excuse>>

\* max(total_paid - boarded, 0)
LeftOnPlatform(c) ==
    IF job[c].paid > Cardinality(boarded) THEN job[c].paid - Cardinality(boarded) ELSE 0

CountBoarded(c) ==
    /\ pc[c] = "count"
    /\ Start(c, "answered", [job[c] EXCEPT !.left = LeftOnPlatform(c)])
    /\ UNCHANGED <<rows, queue, sms, excuse>>

\* ScanView: colour and message for the controller; nothing is written.
ScanResult(b) ==
    IF booking[b] = "paid" /\ b \in boarded THEN "already_boarded"
    ELSE CASE booking[b] = "paid"      -> "valid"
           [] booking[b] = "pending"   -> "unpaid"
           [] booking[b] = "cancelled" -> "cancelled"

------------------------------------------------------------------------------
\* A process dies or the broker is down.  Committed rows and sent SMS stay; an open
\* cancellation is rolled back.
Fail(j) ==
    /\ pc[j] \notin {"idle", "done", "answered"}
    /\ End(j)
    /\ CASE pc[j] \in {"thank", "confirm", "remind", "send"} -> Excuse("lost", job[j].todo)
         [] pc[j] \in {"tell", "commit"} ->
               Excuse("rollback", {b \in Passengers : Got("cancelled", b)})
         [] OTHER -> UNCHANGED excuse
    /\ UNCHANGED <<rows, queue, sms>>

RequestStep(c) ==
    \/ \E b \in Passengers : Pay(c, b) \/ BeginCheckIn(c, b)
    \/ Thank(c) \/ QueueConfirmation(c) \/ ScheduleReminder(c)
    \/ BeginCancelTrip(c) \/ TellCancelled(c) \/ CommitCancelTrip(c)
    \/ BeginBoardAll(c) \/ CheckIn(c) \/ BeginValidate(c) \/ CountBoarded(c)

WorkerStep(w) ==
    \/ \E b \in Passengers : TakeConfirmation(w, b) \/ TakeReminder(w, b)
    \/ SendTaskSms(w)

Next ==
    \/ Tick
    \/ \E c \in Calls : RequestStep(c)
    \/ \E w \in Workers : WorkerStep(w)
    \/ \E b \in Passengers : CancelBooking(b)
    \/ \E j \in Jobs : Fail(j)

Spec == Init /\ [][Next]_vars

\* Time passes and workers run.
FairSpec == Spec /\ WF_vars(Tick) /\ \A w \in Workers : WF_vars(WorkerStep(w))

------------------------------------------------------------------------------
(* Properties *)

\* Whoever is on board has paid, unless the booking was cancelled after he boarded or
\* between the controller's query and the insertion.
OnBoardHavePaid == \A b \in boarded : ScanResult(b) = "already_boarded" \/ Excused("late", b)

\* Nobody is reminded of a departure after being told that it is off, unless the
\* worker read the trip before that cancellation committed, or it never did.
NoReminderAfterCancel ==
    [][\A b \in Passengers :
        ~Got("reminder", b) /\ Got("reminder", b)' /\ Got("cancelled", b)
            => Excused("crossed", b) \/ Excused("rollback", b)]_vars

\* Whoever paid online gets the confirmation: the request is about to queue it, it is
\* queued, being sent or sent, unless a process died.
PaidIsConfirmed ==
    \A b \in Paid \ Counter :
        \/ \E c \in Calls : pc[c] \in {"thank", "confirm"} /\ b \in job[c].todo
        \/ \E w \in Workers : job[w].op = "confirmation" /\ b \in job[w].todo
        \/ <<"confirmation", b>> \in queue \/ Got("confirmation", b) \/ Excused("lost", b)

\* The rows and the processes are well formed, and no confirmation is forgotten.
DepartureInv == DepartureTypeOK /\ PaidIsConfirmed

\* A scheduled reminder is sent, unless by then the booking is not paid, the trip is
\* off, the company switched reminders off, or the task is lost.
ReminderArrives ==
    \A b \in Passengers :
        <<"reminder", b>> \in queue
            ~> Got("reminder", b) \/ ~WorthReminding(b) \/ Excused("lost", b)

\* docs/api/bookings.md: "Verrouille l'embarquement".  Once the boarding is
\* validated no request goes on boarding passengers.
ValidatedIsLocked ==
    [][(\E c \in Calls : pc[c] = "answered")
        => \A c \in Calls : pc[c] = "idle" => pc'[c] # "insert"]_vars

==============================================================================
