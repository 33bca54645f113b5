# A formal model of TransBooking

TransBooking is a Django application for bus companies of Burkina Faso: travellers and
counter agents book seats, agents record payments and boardings, some of them offline,
companies manage trips, vehicles and parcels, and pay a subscription to be listed. This
directory holds a TLA+ model of the parts of it where concurrency, failures or arithmetic
decide what is correct, the TLC configurations that check it on small instances, and proofs
checked by TLAPS.

All the state of the application is in PostgreSQL rows. A request is a Django view: it
loads rows, may open a transaction, may lock rows with `select_for_update()`, writes them
back. Gunicorn and Celery workers run many requests at once, at READ COMMITTED, and may
die at any point. What is hard is therefore nearly always the same: which rows a request read
before it held a lock, and what it wrote from them. Celery adds tasks that are lost with the
broker, are delivered late, work on stale copies and have their errors swallowed
(`log_task_errors`).

## 1. Inventory

| part | state it keeps | operations | what is hard |
|---|---|---|---|
| reservation desk (`bookings`) | `Booking` rows: trip, seat, status, ticket number | `create_booking`, `cancel_booking` | seat choice and counter under the trip's row lock; the cancellation tests a row it has not locked; ticket numbers are global, locks are per trip |
| payments | `Payment` rows | `initiate_payment`, `confirm_payment` | confirmation writes two rows; it races cancellation and other payments |
| trips | `Trip` rows: status, `available_seats` | create, edit, `generate_trips`, `cancel_trip` | full-row saves of stale copies against sales; SMS inside the transaction |
| vehicles | `Vehicle` rows: seat plan, status | edit, status, seat plan | full-row saves; maintenance against assignment |
| offline synchronisation (`sync`) | `SyncLog`, `SyncConflict` | `sync_agent_data` | one transaction over a batch, locks in batch order, lost answers, repeated posts |
| parcels | `Parcel`, `ParcelNotification` | register, change status, notify, two Celery tasks | at most one arrival SMS; saves of stale copies; tasks lost or late |
| subscriptions | `Subscription` | daily task: remind, renew, expire and suspend | a crash between two statements; a run that is late or meets another run |
| companies | `Company.status`, settings | approve, reject, activate, suspend, edit | a decision tests a row another decision is changing; forms save whole rows; the public list is cached for an hour |
| boarding | `BoardingValidation` | scan, check in, board all, validate | check-in against cancellation and payment |
| SMS tasks | the broker's queue | confirmation, reminder with an ETA | a reminder that fires hours later, on a trip cancelled meanwhile |
| reviews, claims, speed reports | a row each | create, answer, escalate, close, flag | uniqueness test apart from the INSERT; saves of stale rows |
| notifications, messaging | a row each | notify, list, read, read all, open | "read all" marks what arrived after the list was shown |
| dashboard | cached pages only | periods, revenue, fill rates, commissions | windows at the ends of months and years; sums over joins; a table cut after sorting; commissions frozen while rates change; pages cached per user |
| users, routes, geography, platform | rows of their own | create, edit, delete | nothing shared between requests beyond a single row |

How they interact. A payment changes a booking; a booking changes its trip's seat counter; a
trip cancellation reads bookings and sends SMS; a synchronisation calls the desk's
`create_booking`, the parcels' `register_parcel` and the boarding's `check_in` inside its own
transaction; payments and parcels queue Celery tasks; the daily task suspends companies, which
hides them from travellers, from the cached public list an hour later; the dashboard reads all of it.

What makes each part correct.

* Desk, payments, trips: no two active bookings of a trip on one seat; a counter that is the
  capacity less the active bookings; no sale on a closed trip; every passenger of a cancelled
  trip told, and nobody told of a cancellation that is not; payment and booking in agreement.
* Synchronisation: nothing an agent recorded offline is lost without a report, no seat sold
  twice by two devices, what is reported is what is stored.
* Parcels: one arrival SMS; what the tracking page shows has happened; what is queued is told.
* Subscriptions, companies: an expired subscription hides its company, after a reminder; one
  decision per application.
* Boarding and SMS: whoever is on board has paid; whoever paid is confirmed and reminded.
* Feedback: reviewers have travelled, flagged reviews hidden, answers keep their time, nothing is
  marked read that was not shown.
* Dashboard: the windows tile the calendar, figures that two queries compute agree, whatever the
  rows went through; a page is served to its own company only.

## 2. Modules

| module | models | extends or uses |
|---|---|---|
| `SeatMap` | what a reservation promises, abstractly | |
| `Bookings` | desk, payments, cancellation of a trip | implements `SeatMap` |
| `OfflineSync` | `POST /agent/sync/` next to the desk | implements `SeatMap`, a batch at a time |
| `Parcels` | parcels and their two tasks | |
| `Companies` | decisions and forms on a company | |
| `Subscriptions` | the daily task | EXTENDS `Companies`, whose steps are among its own |
| `Departure` | from the payment to the departure: SMS, reminder, boarding | |
| `TripAdmin` | create, edit, generate, cancel trips; vehicles | |
| `Feedback` | claims, speed reports, reviews, notifications, messages | |
| `Calendar`, `Dashboard` | the periods; figures, commissions, cached pages | `Dashboard` EXTENDS `Calendar` |
| `MC*` | values of the constants for TLC | EXTENDS its module |
| `*_proofs` | theorems about each of the eight systems above | EXTENDS its module |

In all of them an action is one step of a request that another request can tell apart: from a
statement that reads or writes shared rows to the next. `pc` says where a request is and `job`
(`loc`, `task`, `run`, `draft`) what it holds in Python variables, above all the copy of a row
that it loaded earlier. A request runs once; `Fail`, `Crash`, `AdminFails` and `RunFails` are the
death of its worker, which rolls back an open transaction and nothing else.

**Causes.** Some properties hold but for a named cause. The variables `told`, `freed`, `excuse`,
`cause`, `spoilt`, `wish`, `sold` and the like are history: no action's guard reads them. An
excuse is recorded by the action that creates the situation, and the property says that nothing
but these situations breaks the rule. Such a property is the specification of a defect as much as of
a promise: `CounterExact` says that the seat counter drifts in exactly two ways.

### SeatMap

For each trip the set of seats held, for each booking the seat it holds, and actions that take, give
back and regain a seat. No locks, requests or counters. `SeatSpec` issues tickets one by one, as the desk
does; `BatchSpec` also issues several at once, as the commit of a synchronisation does, each for a seat
that is free and a trip that is open at that moment.

### Bookings

| variables | code |
|---|---|
| `tripStatus`, `avail` | `Trip.status`, `Trip.available_seats` |
| `bTrip`, `bSeat`, `bStatus`, `bTicket` | the `Booking` row |
| `pBooking`, `pStatus` | the `Payment` row |
| `tripLock`, `vehicleLock`, `payLock` | PostgreSQL row locks |
| `told`, `freed` | history: passengers told of a cancellation, seats given back |

| actions | code |
|---|---|
| `BeginCreate`, `LockForCreate`, `ChooseSeat`, `InsertBooking` | `create_booking`: validated payload; lock of trip and vehicle and the tests under it; seat and ticket number; INSERT in a savepoint, counter, commit |
| `BeginCancel`, `LockForCancel`, `FreeSeat` | `cancel_booking`: tests on the row of the view; lock of the trip; booking and counter saved |
| `BeginPay`, `RecordPayment` | `initiate_payment` |
| `BeginVerify`, `LockPayment`, `ConfirmPayment` | `confirm_payment`: test on the row of the view; lock of the payment and second test; booking and payment saved |
| `BeginCancelTrip`, `UpdateTrip`, `NotifyPassengers`, `CommitTrip` | `cancel_trip`: test on the row of the view; UPDATE, which takes the row lock; SMS; commit |
| `Crash` | a worker dies: its transaction is rolled back, its locks released |

`select_for_update().select_related("vehicle")` locks the trip row and then the vehicle row; the
model takes both in one step, which is exact for deadlocks since every request that takes a
vehicle lock takes its trip's first and waits for nothing else afterwards. Seats and ticket
numbers are members of small sets. The departure time appears only as the two-hour rule,
which `BeginCancel` may or may not pass.

### OfflineSync

A device posts its batch until it has an answer; a call is one transaction. `draft` is what that
transaction inserted and only it sees, `report` the errors and conflicts it collected, `answer`
what reached the device, `booked[n].by` the device a stored booking came from.

| actions | code |
|---|---|
| `Post`, `Hear` | the device posts, again if it has no answer; the answer arrives or is lost |
| `CheckTicket`, `TakeTrip`, `SyncBooking` | `_sync_bookings`: idempotence test; trip locked, status, counter and seat read under the lock; INSERT |
| `CheckParcel`, `SyncParcel` | `_sync_parcels`, `register_parcel` |
| `SyncBoarding` | `_sync_validations`, `check_in` |
| `Commit`, `Crash`, `DeadlockAbort` | the end: commit; lost connection; PostgreSQL's deadlock detector |
| `SellOnline`, `CancelOnline`, `CloseTrip` | the desk meanwhile, each transaction as one step (`Bookings` has their steps) |

An INSERT waits for another open transaction that inserted the same unique key; that wait, and
the waits for row locks, make the graph in which `DeadlockAbort` looks for cycles. Whether a parcel's
cities are known and its route priced is a nondeterministic choice. The desk's double
cancellation and late payment are left to `Bookings`: here a cancellation is exact, so that what
the synchronisation does to the counter is seen alone.

### Parcels

| actions | code |
|---|---|
| `BeginRegister`, `InsertParcel`, `Enqueue` | `register_parcel`: maximum of the tracking numbers, INSERT (which fails on a number taken meanwhile), task queued after it |
| `Notify`, `NotifyAgain` | `notify_recipient`, by SMS or call: the test for an earlier SMS, and the parcel as the view loaded it; notify-again skips the test |
| `TakeDispatch`, `TakeArrival` | a worker takes a task and loads the parcel |
| `SendSms`, `RecordNote`, `MarkNotified` | SMS, `ParcelNotification` row, the parcel's save; by agent and by task |
| `ChangeStatus`, `SaveStatus` | `update_status`: any status from any other, `collected_at` when the copy has none; on arrival, the task |
| `Patch`, `SavePatch` | the generic PATCH, which saves all columns |
| `SwitchArrivalSms`, `Fail` | the company's setting; the death of a request or worker |

### Companies and Subscriptions

| actions | code |
|---|---|
| `BeginDecision`, `SaveDecision`, `TellDecision` | approve, reject, activate, suspend: test on the loaded row, save of the status, SMS |
| `BeginEdit`, `BeginSettings`, `SaveForm` | PATCH by the platform's and by the company's administrator, whole row |
| `NextDay`, `StartRun` | the calendar; beat queues a run each day, a worker starts it, maybe late |
| `Remind`, `SaveFlag` | expiry reminder, then `warning_sent` |
| `SelectExpired`, `Renew`, `AnnounceRenewal`, `Expire`, `SuspendCompany`, `EndRun` | the second half of the task, on copies selected at once |
| `RunFails` | an error or the task's time limit ends the run where it is |
| `ListCompanies`, `ListExpires` | `PublicCompanyViewSet.list` without an answer in its cache; the end of the hour |

What travellers see of a company (`Visible`) is its own page, read from the rows, and the public
list, which `cache_page` answers as it was up to an hour ago. `listed[k]` says whether the cached
answer shows `k`, and whether the daily task has suspended `k` since that answer was read. One URL is
followed; a second page of the list is the same with other companies. The hour is not measured: an
answer may expire at any moment or never, so that what holds, holds of a cache that lasts longer too.

### Departure

One trip; `clock` is `early`, then `reminding` (within three hours), then `leaving`.

| actions | code |
|---|---|
| `Pay`, `Thank`, `QueueConfirmation`, `ScheduleReminder` | what follows the commit of `confirm_payment`: payment SMS, confirmation task, reminder with ETA |
| `TakeConfirmation`, `TakeReminder`, `SendTaskSms` | the tasks: rows and settings read, SMS |
| `CancelBooking`, `BeginCancelTrip`, `TellCancelled`, `CommitCancelTrip` | cancellations; the SMS leave before the commit |
| `BeginCheckIn`, `BeginBoardAll`, `CheckIn` | the controller's query, then an insertion per passenger |
| `BeginValidate`, `CountBoarded` | `BoardingValidateView`, whose two counts are two queries |
| `Fail`, `Tick` | a process dies; time passes |

The trip has one way to change here, its cancellation. A PATCH of the trip is left out: from a stale row
it reopens a cancelled trip, and that, with what its passengers were told, is in `TripAdmin`
(`ToldIsCancelled`), where the other hazards of that save are. A task that reads a trip so
reopened would send its reminder; `NoReminderAfterCancel` does not speak of that.

### TripAdmin

| actions | code |
|---|---|
| `BeginCreate`, `InsertTrip`, `BeginEdit`, `SaveEdit` | POST and PATCH of a trip, serializer and save |
| `BeginCancel`, `UpdateCancelled`, `TellPassenger`, `CommitCancel` | `cancel_trip`, one SMS at a time |
| `BeginGenerate`, `GenerateTrip`, `CommitGenerated` | `generate_trips`: vehicles tested slot by slot, one transaction |
| `BeginVehicleEdit`, `BeginSetStatus`, `BeginSeatPlan`, `SaveVehicle` | the three ways to save a vehicle |
| `Sell`, `GiveBack` | the desk, exact, as one step each |
| `Fail` | a request dies |

### Feedback

These parts share no row, so that a behaviour follows one of them (`matter`), chosen in `Init`.

| actions | code |
|---|---|
| `SubmitClaim`, `BeginClaim`, `Respond`, `Escalate`, `Close` | claims: the status is tested on the loaded row |
| `FileReport`, `SetReportStatus` | speed reports |
| `BeginReview`, `TestEligible`, `TestUnique`, `InsertReview` | a review: three queries, then the INSERT under the unique constraint, which alone makes it the only one |
| `BeginModerate`, `RespondToReview`, `FlagReview` | response and flag, saves of the loaded row |
| `Arrive`, `ListNotices`, `ReadNotice`, `ReadAll`, `OpenMessage` | notifications and messages |

### Calendar and Dashboard

`Calendar` is date arithmetic and `resolve_period`: the window of `today`, `week`, `month`, `year`
and the one before it. `Dashboard` states the code's queries as operators over the rows: revenue,
chart by day or week, breakdown by method, best routes, fill rates, commissions (rounded as `Decimal`
does), and has the per-user cache of pages. The rows go through what the desk really does to them:

| actions | code |
|---|---|
| `Book` | `create_booking`, guarded by the counter `free` and by nothing else, so that a trip whose counter drifted is oversold |
| `Cancel` | `cancel_booking`, also on a stale copy of a cancelled booking: the seat is given back again, at most `Drift` times too many |
| `Initiate`, `Confirm` | `initiate_payment`, several per booking; `confirm_payment`, whatever the status of the booking: a cancelled one is revived, its seat perhaps sold again, one paid before is charged again |
| `SetRate` | the super administrator edits `commission_rate`; commissions of before stay |
| `Get`, `Expire`, `NextDay` | a page computed or served from the cache; five minutes; midnight |

A behaviour is one of three (`activity`): a long stretch of days, a short one with sales, or a
short one with readers. A page records whose figures it holds and not the figures, so that readers
need no sales. Seats have no labels here: the index refuses a second holder of one, and a step of the
model that the index would refuse is one more behaviour, for which the figures agree too. The vehicle and route of a
trip are fixed; a PATCH that changes them is in `TripAdmin`. The rate in force at a confirmation is kept in the row for the
properties (`Owed`); no figure reads it. A company without a rate has the platform's, one
of the values in `Rates`.

## 3. What TLC checks

| run | instance | properties, and what they show |
|---|---|---|
| `desk` | one trip of two seats, five requests of any kind, three bookings, two payments | `DeskInv`: types, and what a request read under its locks is current. `NoSeatLost`, `CounterExact`: no interleaving loses a seat, and the counter is exact but for two causes. `PassengersTold`, `NoSaleOnClosedTrip`: cancellation against sales. `PaidTogether`: payments and bookings agree. `ImplementsSeatMap`: the refinement, and with it that no seat has two holders |
| `answer` | two trips of one vehicle, three requests, fairness | `EveryRequestAnswered`: no set of row locks blocks the desk |
| `oversell` | a plan of one seat, three bookings, no payment | violated: `NoOversell`, finding 1 |
| `seats` | two devices that sold the same seats of two trips in opposite orders, with a label outside the plan, a trip of another company, a parcel and a boarding; two calls and the desk; fairness | `SyncInv`: types and an exact counter. `SeatsHeldOnce`, `NothingLostSilently`, `ReportedSeatIsStored`. `ImplementsSeatMap`: the refinement, where a commit issues its whole batch. `EveryCallEnds`: batches deadlock, PostgreSQL's abort frees them |
| `parcels` | two tracking numbers, three requests, two workers, fairness | `ParcelInv`, `OneArrivalSms`, `CollectedIsDated`, `NotifiedIsRecorded`; `QueuedIsTold`: a queued SMS is sent unless its task is lost |
| `subscriptions` | a company, its subscription, two administrators, two runs, three days, plans of two days, a cached list, fairness | `SubInv`: a renewed subscription ends at most one plan from today, whatever runs overlap. `LapsedIsHidden`: a lapsed company is seen neither on its page nor in the list, but for a run at work or dead, an activation, or an answer cached before the suspension. `DecidedOnce`, `RemindedOnce`, `WarnedBeforeExpiry`; `LapsedIsTreated`: what expired while a run was queued is treated unless a run fails |
| `departure` | an online and a counter passenger, two requests, a worker, fairness | `DepartureInv`: no confirmation forgotten. `OnBoardHavePaid`, `NoReminderAfterCancel`; `ReminderArrives` |
| `tripadmin` | two vehicles, two passengers, two requests, one day to generate, one or two seats | `TripInv`: orders to a vehicle hold, generated trips have one in service. `CounterAddsUp`, `CancelledIsTold`, `ToldIsCancelled`: all but for a PATCH of a stale row or a rolled back cancellation |
| `maintenance` | as above, one passenger | violated: `NoTripInMaintenance`, finding 2 |
| `feedback` | two travellers, two notices, three requests, four days | `FeedbackInv`: answers keep their time, overdue means unanswered, reviewers travelled, what is read was shown. `FlaggedIsHidden` |
| `dashboard` | 1500 days from 1 January 2027; the turn of 2027 with three trips of two companies, one of a single seat, two bookings, two payments, two methods, two prices, two rates, a table of one route; two readers over three days | `WindowsTile`: no day between two reports or in both. `FiguresAgree`: chart and breakdown sum to the overview, the shares to a hundred percent within the rounding; the best routes bring at least their part of the revenue, and all of it when none is cut; no payment is in two compared periods; commissions are those of the rates at the confirmations, within half a centime each. `ServedIsOwn`: no page of another company |
| `fillrate` | as above, three bookings | violated: `RouteFillIsOccupancy`, finding 3 |

**Why the bounds are enough.**

* `desk`: a sale, a cancellation, a payment and its confirmation are four requests; a fifth lets any
  of them be repeated or overtaken: a double cancellation is three requests, a revived
  booking four, a resold seat that is then revived five. Two seats make a full trip
  reachable. Two trips meet only in the lock of a shared vehicle, which is what `answer` has.
* `seats`: two calls are either a post and its repetition while it runs, or the posts of two devices.
  Two trips are what a cycle of locks needs, a third label is one outside the plan.
* `parcels`: three requests are two senders and an administrator with a stale copy; the second number
  is for the collision of two registrations.
* `subscriptions`: two days reach the expiry, the third the day after; two runs are a late one and
  the next. `WarningDays` 1 and `Duration` 2 make the last day of the warning differ from the expiry.
* `departure`: the counter passenger is already paid, the other goes through payment; two requests
  cross on the same booking, and the task is a third process.
* `tripadmin`: two requests cross; a second vehicle gives a PATCH something to change and
  `generate_trips` a second slot; `MaxTrips` leaves room for a generated pair.
* `feedback`: three requests are two writers and a reader; four days reach the delay after which a
  claim is overdue.
* `dashboard`: the days contain every weekday at a month's end, the leap February of 2028 and four
  ends of year. The figures need two companies, two routes of one of them, payments of two amounts and two
  rates, and a day on each side of a year's end. Two bookings and two payments are a double
  cancellation and an oversold trip, a booking charged twice, one revived after its seat was
  resold, and two routes of which the table shows one (`TopCount` is 1 here and 5 in the code), with equal
  revenues or not.

The bounds are constants: `Requests`, `Calls`, `Admins`, `Runs`, `Bookings`, `Payments`, `Numbers`,
`MaxNumber`, `MaxTrips`, `MaxNow`, `LastDay`, `Scenarios`, `Drift`.

**Symmetry and deadlock.** `desk`, `oversell`, `tripadmin`, `feedback` and the two runs on the
dashboard use the symmetry of rows and requests; no run with a liveness property does. The runs on `Bookings`
check for deadlock: `Quiescent` lets the desk rest only when every request is answered. The other systems
really stop when their requests are spent, hence `CHECK_DEADLOCK FALSE`; that row locks do not
block the synchronisation is what `EveryCallEnds` checks.

**Fairness.** What is being executed goes on; nothing is assumed of users, administrators,
answers on the network or failures.

| specification | weakly fair | because |
|---|---|---|
| `Bookings!FairSpec` | the steps of each request once it has begun | Gunicorn and PostgreSQL run every connection |
| `OfflineSync!FairSpec` | the steps of each call; `DeadlockAbort` | the same; `deadlock_timeout` |
| `Parcels!FairSpec` | each worker: taking a task and carrying it out | the broker keeps its tasks, the workers are supervised |
| `Subscriptions!FairSpec` | the steps of each run, not the calendar | the same |
| `Departure!FairSpec` | time, and the steps of each worker | time passes; a reminder's ETA is reached |

Weak fairness is enough because each request is finite and a waiting lock stays free once
all the others are done. Failures stay possible under it: the liveness properties name what a failure costs.

## 4. Where the code and its documentation disagree

Three disagreements are runs of their own.

1. **oversell** — `docs/api/bookings.md:5-6` promises no overbooking. Two cancellations of one
   booking, both past the test of `bookings/services.py:157`, give two seats back; a payment confirmed after the
   cancellation takes none. With a label outside the plan a seat that does not exist is then sold.
2. **maintenance** — `docs/api/vehicles.md:48-49` and `docs/specs/mcd.md:180` say that a vehicle
   in maintenance gets no new trip. Only `generate_trips` looks; POST and PATCH of a trip
   (`trips/serializers.py:40`) do not.
3. **fillrate** — `dashboard/services.py:328` and `docs/api/dashboard.md:122` define the fill rate
   as bookings over seats. `company_fill_rate_by_route` (line 441) sums the seats in a query that joins the
   bookings: with two bookings on four seats the route shows 25 %, the overview 50 %. The property asks of the two
   pages the same rate where they speak of the same single trip.

Other observations. Their formulas stay in the modules, in no run; a
`.cfg` that names one finds the behaviour in seconds.

* `ConfirmsReservedSeat` (Bookings): `confirm_payment` says that the seat is already reserved; it
  revives a cancelled booking whose seat was given back.
* `ChargedOnce` (Bookings): a booking with two payments initiated is paid twice, although a paid
  booking is documented as a 409.
* `SeatTakenIsTrue` (Bookings, two trips): two sales on different trips draw the same ticket
  number, and one is answered SeatTaken with its seat free.
* `RejectedIsAbsent` (OfflineSync, batch `OneSale`): a repeated POST is documented as
  silent; overtaken by the first call it reports stored bookings as errors.
* `NothingLostSilently` (OfflineSync, batch `SameNumber`): a ticket number that two devices drew is
  taken for a repetition, and the second sale is lost without an error. With distinct numbers
  nothing is lost, which is proved.
* `CancelledIsReported` (OfflineSync, batch `BoardingOnly`): a booking cancelled during the
  disconnection is to be reported to the agent; the synchronisation boards it.
* A company suspended by the daily task stays in the public list up to an hour (`companies/views.py:132`);
  no document says how soon it is to disappear, so that this is the excuse `CachedBefore` of
  `LapsedIsHidden` and not a finding.
* `ValidatedIsLocked` (Departure): validating a boarding answers "locked" and stores nothing, so
  that boarding goes on.
* Read while modelling, not modelled: `CompanyDetailSerializer.get_subscription_status` reads
  `company.subscription`, but the related name is `subscriptions`; a custom period whose end
  precedes its start gives a window of negative length; the greatest ticket number is taken on strings, and goes wrong
  after 999999 in a year. Counter sales are paid without a Payment row: they count in
  the fill rates and not in the revenue.

## 5. What is proved

Every safety invariant and action property that a passing run checks is also a theorem, for all
values of the constants, under the `ASSUME` of each module: a vehicle per trip, a plan that is a
sequence of labels, finite sets of rows, requests that are not workers, `None` none of the
identifiers, rows or seats. Of prices and commission rates only that they are integers is assumed, since
the code validates neither; of dates, that they are dates.

| module | theorems |
|---|---|
| `Bookings_proofs` | `DeskInvariant`, `TypeCorrect`, `NoLostUpdate`, `ConfirmedOnce`; `SeatsDistinct`, `NoSaleAfterClosing`, `PaymentAndBookingAgree`, `NobodyForgotten`, `SeatsNeverLost`, `DriftHasTwoCauses`; the refinement `DeskImplementsSeatMap` |
| `OfflineSync_proofs` | `SyncSeatsSoldOnce`, `SyncCounterExact`, `SyncReportsAreTrue`; `SyncLosesNothing`, which assumes `NumbersAreOwn`; the refinement `SyncImplementsSeatMap` |
| `Parcels_proofs` | `RowsAndCopies`, `ParcelInvariant`, `CollectionIsDated`, `NotificationIsRecorded`, `OneSms` |
| `Subscriptions_proofs` | `RenewalsAreExact`, `VerdictsStand`, `LapsedCompaniesHide`, `RemindersAreSingle`, `ExpiriesAreWarned` |
| `Departure_proofs` | `SmsInvariant`, `ConfirmationOnItsWay`, `BoardedHavePaid`, `RemindersAreTrue` |
| `TripAdmin_proofs` | `AdminInvariant`, `TripsAreSound`, `SeatsAddUp`, `EveryPassengerIsTold`, `TheSmsIsTrue` |
| `Feedback_proofs` | `Saved`, `FeedbackInvariant`, `FlaggedStaysHidden` |
| `Dashboard_proofs` | `RowsInvariant`, `ReportsTile`, `PagesAgree`, `PagesAreOwn` |

Hardly any of the properties is inductive. What each argument adds:

* **Bookings.** `DeskInv`: the owner of a trip's lock is at a step that holds it and no other
  request is; what it read of the counter and the status under the lock is still what the table
  holds; a payment under confirmation is pending and locked. Each action preserves each conjunct
  because it either holds the lock, so that no other request has read the same row, or does
  not touch what the conjunct reads. The safety theorems then follow by one step per action; the counting
  lemmas rest on FiniteSetTheorems. The refinement maps the abstract seats to the active bookings.
* **OfflineSync.** `CallInv`: the drafts of a call are new, no other call has them, and they are on trips that the
  call has locked. On it stand `SeatsInv` (no two bookings clash, neither in the tables nor in what a call
  sees of them with its drafts), `CountInv` (the counter is exact in both views, and positive
  before an INSERT) and `ReportInv` (what a call has reported, and what a device has heard, is true
  and stays so; every item before `at` is drafted, stored or reported). A lost answer is no special
  case: an answer is a report that was committed. The refinement needs besides `OpenInv`: the trips of a
  call's drafts are still open, since closing one takes the lock the call holds; with `SeatsInv`, a commit
  then issues its drafts together, and every other step is one of the seat map or leaves it alone.
* **Parcels.** `RowInv`: whatever a copy says of a parcel still holds of the row, or one of the
  named excuses applies. `SmsInv`: without an overlap at most one sender is between its test and its
  row, and an SMS sent with no row has its sender there.
* **Subscriptions.** `SubscriptionInv` is `TypeInv`, `VerdictInv`, `LapsedIsHidden`, `NoPeriodForFree`
  (a renewed subscription ends at most one plan from today), `ReminderInv` (without
  overlap one run is concerned with a reminder) and `WarnInv` (while no day was missed, each day's
  run handles what will expire before the next can expire it).
* **Departure.** `SmsInv` joins the stages of requests, `PaidIsConfirmed`, the boardings, `AlarmInv`
  (who was told that the trip is off) and `CrossInv` (who holds a reminder while it is being called off).
* **Feedback.** `SavedInv`: for claims, reviews and the inbox, what a request read before its save
  still holds or is excused; and a response saves its own columns only, so that a flag stays.

* **TripAdmin.** `TripsAreSound` is the types of the rows, the orders to vehicles (unless a stale PATCH wrote
  one back) and the vehicles of generated trips. `AdminInv` adds to the four properties what each request has in its hands:
  a PATCH will save the seat counter as it loaded it; a cancellation that holds the trip's row knows every passenger it still has
  to tell (`TellingOK`: the lock keeps the desk from selling meanwhile); a generation has tested each
  vehicle it will use, and the vehicle is in service unless it moved since (`CacheOK`). The trips are a
  growing sequence, so that what a request says of a trip stays meaningful while others insert.
* **Dashboard.** The facts that hold of the rows are few (`RowsInv`: a payment has the amount
  of its booking, a confirmed one the commission of the rate it was confirmed at, a cached page is of the company in
  its key); nothing is assumed or shown of the seats of a trip, which the desk can oversell. The work is in the arithmetic. Sums are the library's folds over finite sets, whose value
  must be shown not to depend on the order in which the elements are taken (`SumsUnique`): the facts about
  them go by `SubsetInduction`, an induction over the subsets of a finite set stated of a set and not of
  a predicate, which the provers can instantiate. From the unfolding of a sum follow that the sum over a
  union is the sum of sums (`SumUnion`), that a table by key sums to the total of its rows (`TableAddsUp`),
  and that errors of rounding add up to at most their number of halves (`SumsClose`), and that of a finite set the greatest values
  outweigh any average (`SumOfGreatest`, for the cut table, whatever its length). The calendar is
  proved on ordinals: `Ordinal` of tomorrow is one more, months and years begin where the previous ones
  end (`TomorrowIs`, `MondayIs`, `NoDayBetween`), for every date.

Only model-checked: liveness (`EveryRequestAnswered`, `EveryCallEnds`, `QueuedIsTold`,
`LapsedIsTreated`, `ReminderArrives`), which rests on fairness and ENABLED, out of the prover's reach;
and that the disagreements of section 4 really occur, which is a matter of one behaviour.

## 6. What is not modelled

* Users: accounts and roles, rows of one user each; tokens are the library's.
* Routes and geography: reference data, created and edited one row at a time.
* Platform: settings and QR codes. The beat schedule and the time limit of tasks are in `Subscriptions`.
* Companies: payment methods, which only a page reads. Vehicles: creation and deletion.
* Synchronisation: the purge of old logs and the read-only downloads.
* Dashboard: home pages, alerts, agents' activity and exports, lists without arithmetic; the word cloud.
* Everywhere: text, PDF, pagination, amounts of tariffs, authentication, permissions and the scoping by company,
  which are filters on queries.

PostgreSQL is taken at its word: row locks, unique indexes, savepoints, deadlock detection, READ
COMMITTED. So are Celery's broker (a task is kept until a worker takes it) and Django's cache.

What could come next: `Bookings` and `TripAdmin` in one module, so that a PATCH meets the desk's own
steps and not its summary; the ticket and tracking number generators on bounded strings.
