--------------------------- MODULE Departure_proofs ---------------------------
(***************************************************************************)
(* Proofs about module Departure, for any number of passengers, requests   *)
(* and workers.                                                            *)
(***************************************************************************)
EXTENDS Departure, FiniteSetTheorems, TLAPS

\* What a process does fits the stage it is in.
Shape(j) ==
    /\ pc[j] \in {"thank", "confirm", "remind"} =>
        job[j].op = "pay" /\ \E b \in Passengers : job[j].todo = {b}
    /\ pc[j] = "insert" => j \in Calls
    /\ pc[j] = "send" <=> job[j].op \in Kinds
    /\ job[j].op \in Kinds => \E b \in Passengers : job[j].todo = {b}

ShapeInv == DepartureTypeOK /\ \A j \in Jobs : Shape(j)

\* The passengers on board and those a controller is about to tick have paid, or
\* their booking was cancelled meanwhile.
Travels(b) == booking[b] = "paid" \/ Excused("late", b)

BoardInv ==
    /\ \A b \in boarded : Travels(b)
    /\ \A j \in Jobs : pc[j] = "insert" => \A b \in job[j].todo : Travels(b)

\* While the trip is open its cancellation was told by a request that is still at it, or
\* was rolled back.
AlarmInv ==
    \A b \in Passengers : Got("cancelled", b) /\ open => CallingOff \/ Excused("rollback", b)

\* A worker that holds a reminder while the trip is called off, or after its
\* passenger was told, started before that was committed.
CrossInv ==
    \A w \in Workers : \A b \in job[w].todo :
        job[w].op = "reminder" /\ (CallingOff \/ Got("cancelled", b))
            => Excused("crossed", b) \/ Excused("rollback", b)

\* Inductive: the alarm and the reminders need each other's part.
SmsInv == ShapeInv /\ PaidIsConfirmed /\ BoardInv /\ AlarmInv /\ CrossInv

------------------------------------------------------------------------------
LEMMA CountsTyped ==
    /\ Cardinality(Passengers) \in Nat
    /\ \A S \in SUBSET Passengers : Cardinality(S) \in 0..Cardinality(Passengers)
    /\ Idle \in Work
<1>1. Cardinality(Passengers) \in Nat
  BY DepartureConstants, FS_CardinalityType
<1>2. ASSUME NEW S \in SUBSET Passengers PROVE Cardinality(S) \in 0..Cardinality(Passengers)
  <2>1. IsFiniteSet(S) /\ Cardinality(S) <= Cardinality(Passengers)
    BY DepartureConstants, FS_Subset
  <2>2. Cardinality(S) \in Nat
    BY <2>1, FS_CardinalityType
  <2> QED
    BY <1>1, <2>1, <2>2
<1>3. Idle \in Work
  BY <1>1 DEF Idle, Work, Ops
<1> QED
  BY <1>1, <1>2, <1>3

LEMMA AboutOne == ASSUME NEW j, NEW b, job[j].todo = {b} PROVE About(j) = b
  BY DEF About

OnlyMoves(j) == \A q \in Jobs \ {j} : pc'[q] = pc[q] /\ job'[q] = job[q]

ProcsTyped == pc \in [Jobs -> Stages] /\ job \in [Jobs -> Work]

\* Where a step of j leaves the processes.
LEMMA StartMoves ==
    ASSUME DepartureTypeOK, NEW j \in Jobs, NEW stage \in Stages, NEW work \in Work,
           Start(j, stage, work)
    PROVE  OnlyMoves(j) /\ pc'[j] = stage /\ job'[j] = work /\ ProcsTyped'
  BY DEF DepartureTypeOK, Start, Goto, OnlyMoves, ProcsTyped

LEMMA GotoMoves ==
    ASSUME DepartureTypeOK, NEW j \in Jobs, NEW stage \in Stages, Goto(j, stage), UNCHANGED job
    PROVE  OnlyMoves(j) /\ pc'[j] = stage /\ job'[j] = job[j] /\ ProcsTyped'
  BY DEF DepartureTypeOK, Goto, OnlyMoves, ProcsTyped

LEMMA TicksOff ==
    ASSUME DepartureTypeOK, NEW j \in Jobs, NEW b,
           job' = [job EXCEPT ![j].todo = @ \ {b}], UNCHANGED pc
    PROVE  /\ OnlyMoves(j) /\ pc'[j] = pc[j] /\ ProcsTyped'
           /\ job'[j] = [job[j] EXCEPT !.todo = @ \ {b}]
           /\ job'[j].op = job[j].op /\ job'[j].todo = job[j].todo \ {b}
<1>1. job[j] \in Work
  BY DEF DepartureTypeOK
<1>2. [job[j] EXCEPT !.todo = @ \ {b}] \in Work
  BY <1>1 DEF Work
<1>3. job' = [job EXCEPT ![j] = [job[j] EXCEPT !.todo = @ \ {b}]]
  OBVIOUS
<1> QED
  BY <1>1, <1>2, <1>3 DEF DepartureTypeOK, OnlyMoves, ProcsTyped, Work

LEMMA EndMoves ==
    ASSUME DepartureTypeOK, NEW j \in Jobs, End(j)
    PROVE  /\ OnlyMoves(j) /\ pc'[j] \in {"idle", "done"} /\ job'[j] = Idle /\ ProcsTyped'
           /\ Shape(j)'
<1>1. PICK stage \in {"idle", "done"} : Start(j, stage, Idle)
  BY DEF End
<1>2. OnlyMoves(j) /\ pc'[j] = stage /\ job'[j] = Idle /\ ProcsTyped'
  BY <1>1, StartMoves, CountsTyped DEF Stages
<1> QED
  BY <1>2 DEF Shape, Idle, Kinds

RowsTyped ==
    /\ clock \in Hours /\ open \in BOOLEAN /\ remindOn \in BOOLEAN
    /\ booking \in [Passengers -> Statuses]
    /\ boarded \subseteq Passengers

LogsTyped ==
    /\ queue \subseteq Kinds \X Passengers
    /\ sms \subseteq Sms \X Passengers
    /\ excuse \subseteq Excuses \X Passengers

LEMMA ShapeKept ==
    ASSUME ShapeInv, NEW j \in Jobs, OnlyMoves(j), ProcsTyped', RowsTyped', LogsTyped', Shape(j)'
    PROVE  ShapeInv'
<1>1. \A q \in Jobs \ {j} : Shape(q)'
  BY DEF ShapeInv, OnlyMoves, Shape
<1> QED
  BY <1>1 DEF ShapeInv, DepartureTypeOK, ProcsTyped, RowsTyped, LogsTyped

------------------------------------------------------------------------------
(* A step of j keeps what is promised of the others. *)

\* The confirmation of b is on its way.
Awaited(b) ==
    \/ \E c \in Calls : pc[c] \in {"thank", "confirm"} /\ b \in job[c].todo
    \/ \E w \in Workers : job[w].op = "confirmation" /\ b \in job[w].todo
    \/ <<"confirmation", b>> \in queue \/ Got("confirmation", b) \/ Excused("lost", b)

LEMMA PaidKept ==
    ASSUME PaidIsConfirmed, NEW j, OnlyMoves(j),
           \A b \in Passengers : booking'[b] = "paid" => booking[b] = "paid" \/ Awaited(b)',
           \A b \in Passengers : <<"confirmation", b>> \in queue
                => <<"confirmation", b>> \in queue' \/ Awaited(b)',
           \A b \in job[j].todo :
                pc[j] \in {"thank", "confirm"} \/ job[j].op = "confirmation" => Awaited(b)',
           sms \subseteq sms', excuse \subseteq excuse'
    PROVE  PaidIsConfirmed'
<1> SUFFICES ASSUME NEW b \in Passengers \ Counter, booking'[b] = "paid" PROVE Awaited(b)'
  BY DEF PaidIsConfirmed, Paid, Awaited
<1>1. booking[b] = "paid" => Awaited(b)
  BY DEF PaidIsConfirmed, Paid, Awaited
<1> SUFFICES ASSUME Awaited(b) PROVE Awaited(b)'
  BY <1>1
<1>2. CASE \E c \in Calls : pc[c] \in {"thank", "confirm"} /\ b \in job[c].todo
  <2>1. PICK c \in Calls : pc[c] \in {"thank", "confirm"} /\ b \in job[c].todo
    BY <1>2
  <2>2. CASE c = j
    BY <2>1, <2>2
  <2>3. CASE c # j
    BY <2>1, <2>3 DEF OnlyMoves, Jobs, Awaited
  <2> QED
    BY <2>2, <2>3
<1>3. CASE \E w \in Workers : job[w].op = "confirmation" /\ b \in job[w].todo
  <2>1. PICK w \in Workers : job[w].op = "confirmation" /\ b \in job[w].todo
    BY <1>3
  <2>2. CASE w = j
    BY <2>1, <2>2
  <2>3. CASE w # j
    BY <2>1, <2>3 DEF OnlyMoves, Jobs, Awaited
  <2> QED
    BY <2>2, <2>3
<1>4. CASE <<"confirmation", b>> \in queue
  BY <1>4 DEF Awaited
<1>5. CASE Got("confirmation", b) \/ Excused("lost", b)
  BY <1>5 DEF Awaited, Got, Excused
<1> QED
  BY <1>2, <1>3, <1>4, <1>5 DEF Awaited

LEMMA BoardKept ==
    ASSUME BoardInv, NEW j, OnlyMoves(j), boarded' = boarded, excuse \subseteq excuse',
           \A b : booking[b] = "paid" => booking'[b] = "paid",
           pc'[j] = "insert" => \A b \in job'[j].todo : Travels(b)
    PROVE  BoardInv'
<1>1. \A b : Travels(b) => Travels(b)'
  BY DEF Travels, Excused
<1>2. ASSUME NEW q \in Jobs, pc'[q] = "insert", NEW b \in job'[q].todo PROVE Travels(b)'
  <2>1. CASE q = j
    BY <1>1, <1>2, <2>1
  <2>2. CASE q # j
    BY <1>1, <1>2, <2>2 DEF BoardInv, OnlyMoves
  <2> QED
    BY <2>1, <2>2
<1> QED
  BY <1>1, <1>2 DEF BoardInv

\* Nobody is told of a cancellation, and none ends.
LEMMA AlarmKept ==
    ASSUME AlarmInv, NEW j, OnlyMoves(j), UNCHANGED open, excuse \subseteq excuse',
           pc[j] \notin {"tell", "commit"},
           \A b : Got("cancelled", b)' => Got("cancelled", b)
    PROVE  AlarmInv'
<1>1. CallingOff => CallingOff'
  BY DEF CallingOff, OnlyMoves, Jobs
<1> QED
  BY <1>1 DEF AlarmInv, Excused

LEMMA CrossKept ==
    ASSUME CrossInv, NEW j, OnlyMoves(j), excuse \subseteq excuse',
           CallingOff' => CallingOff,
           \A b : Got("cancelled", b)' => Got("cancelled", b) \/ CallingOff,
           \A b \in job'[j].todo :
               job'[j].op = "reminder" /\ (CallingOff \/ Got("cancelled", b))
                   => (Excused("crossed", b) \/ Excused("rollback", b))'
    PROVE  CrossInv'
<1> SUFFICES ASSUME NEW w \in Workers, NEW b \in job'[w].todo,
                    job'[w].op = "reminder", CallingOff \/ Got("cancelled", b)
             PROVE  (Excused("crossed", b) \/ Excused("rollback", b))'
  BY DEF CrossInv
<1>1. CASE w = j
  BY <1>1
<1>2. CASE w # j
  BY <1>2 DEF CrossInv, OnlyMoves, Jobs, Excused
<1> QED
  BY <1>1, <1>2

LEMMA CallingOffKept ==
    ASSUME NEW j, OnlyMoves(j), pc'[j] \notin {"tell", "commit"} PROVE CallingOff' => CallingOff
  BY DEF CallingOff, OnlyMoves, Jobs

------------------------------------------------------------------------------
(* One lemma per operation. *)

LEMMA TypedNow ==
    ASSUME SmsInv
    PROVE  /\ DepartureTypeOK /\ RowsTyped /\ LogsTyped
           /\ \A j \in Jobs : Shape(j) /\ job[j] \in Work /\ job[j].todo \subseteq Passengers
           /\ UNCHANGED rows => RowsTyped'
  BY DEF SmsInv, ShapeInv, DepartureTypeOK, RowsTyped, LogsTyped, rows, Work

\* A step that says nothing of a cancellation and leaves the bookings alone.
LEMMA CalmKeeps ==
    ASSUME SmsInv, NEW j \in Jobs, OnlyMoves(j), ProcsTyped', LogsTyped', Shape(j)',
           UNCHANGED rows, excuse \subseteq excuse', sms \subseteq sms',
           \A b : Got("cancelled", b)' => Got("cancelled", b),
           pc[j] \notin {"tell", "commit"}, pc'[j] \notin {"tell", "commit"},
           pc'[j] = "insert" => \A b \in job'[j].todo : Travels(b),
           \A b \in job'[j].todo :
               job'[j].op = "reminder" /\ (CallingOff \/ Got("cancelled", b))
                   => (Excused("crossed", b) \/ Excused("rollback", b))',
           \A b \in Passengers : <<"confirmation", b>> \in queue
                => <<"confirmation", b>> \in queue' \/ Awaited(b)',
           \A b \in job[j].todo :
                pc[j] \in {"thank", "confirm"} \/ job[j].op = "confirmation" => Awaited(b)'
    PROVE  SmsInv'
<1>1. ShapeInv'
  BY TypedNow, ShapeKept DEF SmsInv
<1>2. UNCHANGED <<open, booking, boarded>>
  BY DEF rows
<1>3. PaidIsConfirmed'
  BY <1>2, PaidKept DEF SmsInv
<1>4. BoardInv'
  BY <1>2, BoardKept DEF SmsInv
<1>5. AlarmInv'
  BY <1>2, AlarmKept DEF SmsInv
<1>6. CrossInv'
  BY CallingOffKept, CrossKept DEF SmsInv
<1> QED
  BY <1>1, <1>3, <1>4, <1>5, <1>6 DEF SmsInv

LEMMA ThankKeeps == ASSUME SmsInv, NEW c \in Calls, Thank(c) PROVE SmsInv'
<1>1. c \in Jobs /\ pc[c] = "thank" /\ UNCHANGED <<rows, queue, job, excuse>> /\ Goto(c, "confirm")
  BY DEF Thank, Jobs
<1>2. PICK b \in Passengers : job[c].todo = {b} /\ job[c].op = "pay" /\ About(c) = b
  BY <1>1, TypedNow, AboutOne DEF Shape
<1>3. sms' = sms \cup {<<"payment", b>>}
  BY <1>2 DEF Thank
<1>4. OnlyMoves(c) /\ pc'[c] = "confirm" /\ job'[c] = job[c] /\ ProcsTyped'
  BY <1>1, TypedNow, GotoMoves DEF Stages
<1>5. LogsTyped'
  BY <1>1, <1>3, TypedNow DEF LogsTyped, Sms
<1>6. Shape(c)'
  BY <1>2, <1>4 DEF Shape, Kinds
<1>7. \A k \in job[c].todo : Awaited(k)'
  BY <1>4 DEF Awaited
<1>8. \A k : Got("cancelled", k)' => Got("cancelled", k)
  BY <1>3 DEF Got
<1> QED
  BY <1>1, <1>2, <1>3, <1>4, <1>5, <1>6, <1>7, <1>8, CalmKeeps

LEMMA QueueConfirmationKeeps == ASSUME SmsInv, NEW c \in Calls, QueueConfirmation(c) PROVE SmsInv'
<1>1. /\ c \in Jobs /\ pc[c] = "confirm" /\ UNCHANGED <<rows, sms, job, excuse>>
      /\ Goto(c, "remind") /\ queue' = queue \cup ({"confirmation"} \X job[c].todo)
  BY DEF QueueConfirmation, Confirmed, Jobs
<1>2. PICK b \in Passengers : job[c].todo = {b} /\ job[c].op = "pay"
  BY <1>1, TypedNow DEF Shape
<1>3. OnlyMoves(c) /\ pc'[c] = "remind" /\ job'[c] = job[c] /\ ProcsTyped'
  BY <1>1, TypedNow, GotoMoves DEF Stages
<1>4. LogsTyped'
  BY <1>1, <1>2, TypedNow DEF LogsTyped, Kinds
<1>5. Shape(c)'
  BY <1>2, <1>3 DEF Shape, Kinds
<1>6. \A k \in job[c].todo : Awaited(k)'
  BY <1>1 DEF Awaited
<1>7. \A k : Got("cancelled", k)' => Got("cancelled", k)
  BY <1>1 DEF Got
<1> QED
  BY <1>1, <1>2, <1>3, <1>4, <1>5, <1>6, <1>7, CalmKeeps

LEMMA ScheduleReminderKeeps == ASSUME SmsInv, NEW c \in Calls, ScheduleReminder(c) PROVE SmsInv'
<1>1. c \in Jobs /\ pc[c] = "remind" /\ UNCHANGED <<rows, sms, excuse>> /\ End(c)
  BY DEF ScheduleReminder, Jobs
<1>2. PICK b \in Passengers : job[c].todo = {b} /\ job[c].op = "pay" /\ About(c) = b
  BY <1>1, TypedNow, AboutOne DEF Shape
<1>3. queue' \in {queue, queue \cup {<<"reminder", b>>}}
  BY <1>2 DEF ScheduleReminder
<1>4. /\ OnlyMoves(c) /\ pc'[c] \in {"idle", "done"} /\ job'[c] = Idle /\ ProcsTyped'
      /\ Shape(c)'
  BY <1>1, TypedNow, EndMoves
<1>5. LogsTyped'
  BY <1>1, <1>3, TypedNow DEF LogsTyped, Kinds
<1>6. \A k : Got("cancelled", k)' => Got("cancelled", k)
  BY <1>1 DEF Got
<1> QED
  BY <1>1, <1>2, <1>3, <1>4, <1>5, <1>6, CalmKeeps DEF Idle

\* A request that stops, or begins to count or to board.
LEMMA PlatformKeeps ==
    ASSUME SmsInv, NEW c \in Calls, NEW stage \in {"insert", "count", "answered"},
           NEW work \in Work, pc[c] \in {"idle", "count"}, UNCHANGED <<rows, queue, sms, excuse>>,
           End(c) \/ (Start(c, stage, work) /\ work.op \in {"checkin", "all", "validate"}
                        /\ work.todo \subseteq Paid)
    PROVE  SmsInv'
<1>1. c \in Jobs
  BY DEF Jobs
<1>2. LogsTyped' /\ \A k : Got("cancelled", k)' => Got("cancelled", k)
  BY TypedNow DEF LogsTyped, Got
<1>3. job[c].op \notin Kinds
  BY <1>1, TypedNow DEF Shape
<1>4. CASE End(c)
  <2>1. /\ OnlyMoves(c) /\ pc'[c] \in {"idle", "done"} /\ job'[c] = Idle /\ ProcsTyped'
        /\ Shape(c)'
    BY <1>1, <1>4, TypedNow, EndMoves
  <2> QED
    BY <1>1, <1>2, <1>3, <2>1, CalmKeeps DEF Idle, Kinds
<1>5. CASE Start(c, stage, work) /\ work.op \in {"checkin", "all", "validate"}
             /\ work.todo \subseteq Paid
  <2>1. OnlyMoves(c) /\ pc'[c] = stage /\ job'[c] = work /\ ProcsTyped'
    BY <1>1, <1>5, TypedNow, StartMoves DEF Stages
  <2>2. Shape(c)'
    BY <1>5, <2>1 DEF Shape, Kinds
  <2>3. \A b \in job'[c].todo : Travels(b)
    BY <1>5, <2>1 DEF Paid, Travels
  <2>4. job'[c].op # "reminder" /\ job[c].op # "confirmation"
    BY <1>3, <1>5, <2>1 DEF Kinds
  <2> QED
    BY <1>1, <1>2, <2>1, <2>2, <2>3, <2>4, CalmKeeps
<1> QED
  BY <1>4, <1>5

LEMMA BoardingKeeps ==
    ASSUME SmsInv, NEW c \in Calls,
           \/ \E b \in Passengers : BeginCheckIn(c, b)
           \/ BeginBoardAll(c) \/ BeginValidate(c)
    PROVE  SmsInv'
<1>1. pc[c] = "idle" /\ UNCHANGED <<rows, queue, sms, excuse>>
  BY DEF BeginCheckIn, BeginBoardAll, BeginValidate
<1>2. Paid \subseteq Passengers /\ Cardinality(Paid) \in 0..Cardinality(Passengers)
  BY CountsTyped DEF Paid
<1>3. CASE End(c)
  BY <1>1, <1>3, CountsTyped, PlatformKeeps
<1>4. ASSUME NEW b \in Paid, Start(c, "insert", [Idle EXCEPT !.op = "checkin", !.todo = {b}])
      PROVE  SmsInv'
  <2>1. [Idle EXCEPT !.op = "checkin", !.todo = {b}] \in Work
    BY <1>2, CountsTyped DEF Idle, Work, Ops
  <2> QED
    BY <1>1, <1>4, <2>1, PlatformKeeps DEF Idle
<1>5. CASE BeginBoardAll(c)
  <2>1. [Idle EXCEPT !.op = "all", !.todo = Paid] \in Work
    BY <1>2, CountsTyped DEF Idle, Work, Ops
  <2> QED
    BY <1>1, <1>5, <2>1, PlatformKeeps DEF Idle, BeginBoardAll, ToBoard
<1>6. CASE BeginValidate(c)
  <2>1. [Idle EXCEPT !.op = "validate", !.paid = Cardinality(Paid)] \in Work
    BY <1>2, CountsTyped DEF Idle, Work, Ops
  <2> QED
    BY <1>1, <1>6, <2>1, PlatformKeeps DEF Idle, BeginValidate
<1>7. ASSUME NEW b \in Passengers, BeginCheckIn(c, b) PROVE SmsInv'
  BY <1>3, <1>4, <1>7 DEF BeginCheckIn, ToBoard
<1> QED
  BY <1>5, <1>6, <1>7

LEMMA CountBoardedKeeps == ASSUME SmsInv, NEW c \in Calls, CountBoarded(c) PROVE SmsInv'
<1>1. /\ c \in Jobs /\ pc[c] = "count" /\ UNCHANGED <<rows, queue, sms, excuse>>
      /\ Start(c, "answered", [job[c] EXCEPT !.left = LeftOnPlatform(c)])
  BY DEF CountBoarded, Jobs
<1>2. job[c] \in Work /\ boarded \subseteq Passengers
  BY <1>1, TypedNow DEF RowsTyped
<1>3. LeftOnPlatform(c) \in 0..Cardinality(Passengers)
  <2>1. job[c].paid \in 0..Cardinality(Passengers)
    BY <1>2 DEF Work
  <2>2. Cardinality(boarded) \in 0..Cardinality(Passengers) /\ Cardinality(Passengers) \in Nat
    BY <1>2, CountsTyped
  <2> QED
    BY <2>1, <2>2 DEF LeftOnPlatform
<1> DEFINE work == [job[c] EXCEPT !.left = LeftOnPlatform(c)]
<1>4. work \in Work /\ work.op = job[c].op /\ work.todo = job[c].todo
  BY <1>2, <1>3 DEF Work
<1> HIDE DEF work
<1>5. OnlyMoves(c) /\ pc'[c] = "answered" /\ job'[c] = work /\ ProcsTyped'
  BY <1>1, <1>4, TypedNow, StartMoves DEF Stages, work
<1>6. work.op \notin Kinds
  BY <1>1, <1>4, TypedNow DEF Shape
<1>7. Shape(c)'
  BY <1>5, <1>6 DEF Shape
<1>8. LogsTyped' /\ \A k : Got("cancelled", k)' => Got("cancelled", k)
  BY <1>1, TypedNow DEF LogsTyped, Got
<1> QED
  BY <1>1, <1>4, <1>5, <1>6, <1>7, <1>8, CalmKeeps DEF Kinds

LEMMA CheckInKeeps == ASSUME SmsInv, NEW c \in Calls, CheckIn(c) PROVE SmsInv'
<1>1. /\ c \in Jobs /\ pc[c] = "insert"
      /\ UNCHANGED <<clock, open, booking, remindOn, queue, sms, excuse>>
  BY DEF CheckIn, Jobs
<1>2. job[c].op \notin Kinds /\ job[c].todo \subseteq Passengers
  BY <1>1, TypedNow DEF Shape
<1>3. LogsTyped' /\ (\A k : Got("cancelled", k)' => Got("cancelled", k)) /\ (\A k : Travels(k)' <=> Travels(k))
  BY <1>1, TypedNow DEF LogsTyped, Got, Travels, Excused
<1>4. CASE End(c) /\ UNCHANGED boarded
  <2>1. /\ OnlyMoves(c) /\ pc'[c] \in {"idle", "done"} /\ job'[c] = Idle /\ ProcsTyped'
        /\ Shape(c)'
    BY <1>1, <1>4, TypedNow, EndMoves
  <2>2. UNCHANGED rows
    BY <1>1, <1>4 DEF rows
  <2> QED
    BY <1>1, <1>2, <1>3, <2>1, <2>2, CalmKeeps DEF Idle, Kinds
<1>5. ASSUME NEW b \in job[c].todo, boarded' = boarded \cup {b},
             job' = [job EXCEPT ![c].todo = @ \ {b}], UNCHANGED pc
      PROVE  SmsInv'
  <2>1. /\ OnlyMoves(c) /\ pc'[c] = "insert" /\ ProcsTyped'
        /\ job'[c].op = job[c].op /\ job'[c].todo = job[c].todo \ {b}
    BY <1>1, <1>5, TypedNow, TicksOff
  <2>2. RowsTyped'
    BY <1>1, <1>2, <1>5, TypedNow DEF RowsTyped
  <2>3. Shape(c)'
    BY <1>2, <2>1 DEF Shape
  <2>4. ShapeInv'
    BY <1>1, <1>3, <2>1, <2>2, <2>3, ShapeKept DEF SmsInv
  <2>5. PaidIsConfirmed'
    BY <1>1, <1>2, <2>1, PaidKept DEF SmsInv, Kinds
  <2>6. BoardInv'
    <3>1. \A k \in job[c].todo : Travels(k)
      BY <1>1 DEF SmsInv, BoardInv
    <3>2. \A k \in boarded' : Travels(k)'
      BY <1>3, <1>5, <3>1 DEF SmsInv, BoardInv
    <3>3. ASSUME NEW q \in Jobs, pc'[q] = "insert", NEW k \in job'[q].todo PROVE Travels(k)'
      <4>1. CASE q = c
        BY <1>3, <2>1, <3>1, <3>3, <4>1
      <4>2. CASE q # c
        BY <1>3, <2>1, <3>3, <4>2 DEF SmsInv, BoardInv, OnlyMoves
      <4> QED
        BY <4>1, <4>2
    <3> QED
      BY <3>2, <3>3 DEF BoardInv
  <2>7. AlarmInv'
    BY <1>1, <1>3, <2>1, AlarmKept DEF SmsInv
  <2>8. CrossInv'
    BY <1>1, <1>2, <1>3, <2>1, CallingOffKept, CrossKept DEF SmsInv, Kinds
  <2> QED
    BY <2>4, <2>5, <2>6, <2>7, <2>8 DEF SmsInv
<1> QED
  BY <1>4, <1>5 DEF CheckIn

LEMMA PayKeeps == ASSUME SmsInv, NEW c \in Calls, NEW b \in Passengers, Pay(c, b) PROVE SmsInv'
<1> DEFINE work == [Idle EXCEPT !.op = "pay", !.todo = {b}]
<1>1. /\ c \in Jobs /\ pc[c] = "idle" /\ UNCHANGED <<clock, open, boarded, remindOn, queue, sms, excuse>>
      /\ booking' = [booking EXCEPT ![b] = "paid"] /\ Start(c, "thank", work)
  BY DEF Pay, Jobs
<1>2. work \in Work /\ work.op = "pay" /\ work.todo = {b}
  BY CountsTyped DEF Idle, Work, Ops
<1> HIDE DEF work
<1>3. OnlyMoves(c) /\ pc'[c] = "thank" /\ job'[c] = work /\ ProcsTyped'
  BY <1>1, <1>2, TypedNow, StartMoves DEF Stages
<1>4. RowsTyped' /\ LogsTyped' /\ booking \in [Passengers -> Statuses]
  BY <1>1, TypedNow DEF RowsTyped, LogsTyped, Statuses
<1>5. Shape(c)'
  BY <1>2, <1>3 DEF Shape, Kinds
<1>6. ShapeInv'
  BY <1>1, <1>3, <1>4, <1>5, ShapeKept DEF SmsInv
<1>7. job[c].op \notin Kinds
  BY <1>1, TypedNow DEF Shape
<1>8. Awaited(b)'
  BY <1>2, <1>3 DEF Awaited
<1>9. \A k \in Passengers : booking'[k] = IF k = b THEN "paid" ELSE booking[k]
  BY <1>1, <1>4
<1>10. PaidIsConfirmed'
  BY <1>1, <1>3, <1>7, <1>8, <1>9, PaidKept DEF SmsInv, Kinds
<1>11. BoardInv'
  <2>1. \A k \in Passengers : Travels(k) => Travels(k)'
    BY <1>1, <1>9 DEF Travels, Excused
  <2>2. \A k \in boarded' : Travels(k)'
    BY <1>1, <2>1, TypedNow DEF SmsInv, BoardInv, RowsTyped
  <2>3. ASSUME NEW q \in Jobs, pc'[q] = "insert", NEW k \in job'[q].todo PROVE Travels(k)'
    <3>1. q # c
      BY <1>3, <2>3
    <3> QED
      BY <1>3, <2>1, <2>3, <3>1, TypedNow DEF SmsInv, BoardInv, OnlyMoves
  <2> QED
    BY <2>2, <2>3 DEF BoardInv
<1>12. \A k : Got("cancelled", k)' => Got("cancelled", k)
  BY <1>1 DEF Got
<1>13. AlarmInv'
  BY <1>1, <1>3, <1>12, AlarmKept DEF SmsInv
<1>14. CrossInv'
  BY <1>1, <1>2, <1>3, <1>12, CallingOffKept, CrossKept DEF SmsInv
<1> QED
  BY <1>6, <1>10, <1>11, <1>13, <1>14 DEF SmsInv

LEMMA TakeConfirmationKeeps ==
    ASSUME SmsInv, NEW w \in Workers, NEW b \in Passengers, TakeConfirmation(w, b) PROVE SmsInv'
<1> DEFINE work == [Idle EXCEPT !.op = "confirmation", !.todo = {b}]
<1>1. /\ w \in Jobs /\ pc[w] = "idle" /\ UNCHANGED <<rows, sms, excuse>>
      /\ queue' = queue \ {<<"confirmation", b>>} /\ Start(w, "send", work)
  BY DEF TakeConfirmation, TakeTask, Jobs
<1>2. work \in Work /\ work.op = "confirmation" /\ work.todo = {b}
  BY CountsTyped DEF Idle, Work, Ops, Kinds
<1> HIDE DEF work
<1>3. OnlyMoves(w) /\ pc'[w] = "send" /\ job'[w] = work /\ ProcsTyped'
  BY <1>1, <1>2, TypedNow, StartMoves DEF Stages
<1>4. LogsTyped'
  BY <1>1, TypedNow DEF LogsTyped
<1>5. Shape(w)'
  BY <1>2, <1>3 DEF Shape, Kinds
<1>6. job[w].op \notin Kinds
  BY <1>1, TypedNow DEF Shape
<1>7. \A k \in Passengers : <<"confirmation", k>> \in queue
          => <<"confirmation", k>> \in queue' \/ Awaited(k)'
  BY <1>1, <1>2, <1>3 DEF Awaited
<1>8. \A k : Got("cancelled", k)' => Got("cancelled", k)
  BY <1>1 DEF Got
<1> QED
  BY <1>1, <1>2, <1>3, <1>4, <1>5, <1>6, <1>7, <1>8, CalmKeeps DEF Kinds

LEMMA TakeReminderKeeps ==
    ASSUME SmsInv, NEW w \in Workers, NEW b \in Passengers, TakeReminder(w, b) PROVE SmsInv'
<1> DEFINE work == [Idle EXCEPT !.op = "reminder", !.todo = {b}]
<1>1. /\ w \in Jobs /\ pc[w] = "idle" /\ UNCHANGED <<rows, sms>>
      /\ queue' = queue \ {<<"reminder", b>>}
  BY DEF TakeReminder, TakeTask, Jobs
<1>2. /\ excuse \subseteq excuse' /\ excuse' \subseteq Excuses \X Passengers
      /\ CallingOff => <<"crossed", b>> \in excuse'
  <2>1. {"crossed"} \X {b} \subseteq Excuses \X Passengers
    BY DEF Excuses
  <2> QED
    BY <2>1, TypedNow DEF TakeReminder, Excuse, LogsTyped
<1>3. LogsTyped'
  BY <1>1, <1>2, TypedNow DEF LogsTyped
<1>4. \A k : Got("cancelled", k)' => Got("cancelled", k)
  BY <1>1 DEF Got
<1>5. job[w].op \notin Kinds
  BY <1>1, TypedNow DEF Shape
<1>6. \A k : <<"confirmation", k>> \in queue => <<"confirmation", k>> \in queue'
  BY <1>1
<1>7. CASE End(w)
  <2>1. /\ OnlyMoves(w) /\ pc'[w] \in {"idle", "done"} /\ job'[w] = Idle /\ ProcsTyped'
        /\ Shape(w)'
    BY <1>1, <1>7, TypedNow, EndMoves
  <2> QED
    BY <1>1, <1>2, <1>3, <1>4, <1>5, <1>6, <2>1, CalmKeeps DEF Idle, Kinds
<1>8. CASE WorthReminding(b) /\ Start(w, "send", work)
  <2>1. work \in Work /\ work.op = "reminder" /\ work.todo = {b}
    BY CountsTyped DEF Idle, Work, Ops, Kinds
  <2> HIDE DEF work
  <2>2. OnlyMoves(w) /\ pc'[w] = "send" /\ job'[w] = work /\ ProcsTyped'
    BY <1>1, <1>8, <2>1, TypedNow, StartMoves DEF Stages
  <2>3. Shape(w)'
    BY <2>1, <2>2 DEF Shape, Kinds
  <2>4. CallingOff \/ Got("cancelled", b) => (Excused("crossed", b) \/ Excused("rollback", b))'
    BY <1>2, <1>8 DEF SmsInv, AlarmInv, WorthReminding, Excused
  <2> QED
    BY <1>1, <1>2, <1>3, <1>4, <1>5, <1>6, <2>1, <2>2, <2>3, <2>4, CalmKeeps DEF Kinds
<1> QED
  BY <1>7, <1>8 DEF TakeReminder

LEMMA SendTaskSmsKeeps == ASSUME SmsInv, NEW w \in Workers, SendTaskSms(w) PROVE SmsInv'
<1>1. w \in Jobs /\ pc[w] = "send" /\ UNCHANGED <<rows, queue, excuse>> /\ End(w)
  BY DEF SendTaskSms, Jobs
<1>2. PICK b \in Passengers : job[w].todo = {b} /\ job[w].op \in Kinds /\ About(w) = b
  BY <1>1, TypedNow, AboutOne DEF Shape
<1>3. sms' = sms \cup {<<job[w].op, b>>}
  BY <1>2 DEF SendTaskSms
<1>4. /\ OnlyMoves(w) /\ pc'[w] \in {"idle", "done"} /\ job'[w] = Idle /\ ProcsTyped'
      /\ Shape(w)'
  BY <1>1, TypedNow, EndMoves
<1>5. LogsTyped'
  BY <1>1, <1>2, <1>3, TypedNow DEF LogsTyped, Sms
<1>6. \A k : Got("cancelled", k)' => Got("cancelled", k)
  BY <1>2, <1>3 DEF Got, Kinds
<1>7. \A k \in job[w].todo : job[w].op = "confirmation" => Awaited(k)'
  BY <1>2, <1>3 DEF Awaited, Got
<1> QED
  BY <1>1, <1>3, <1>4, <1>5, <1>6, <1>7, CalmKeeps DEF Idle

\* No process moves.
LEMMA StillKeeps ==
    ASSUME SmsInv, UNCHANGED <<queue, sms, pc, job, open, boarded>>, RowsTyped', LogsTyped',
           excuse \subseteq excuse',
           \A b \in Passengers : booking'[b] = "paid" => booking[b] = "paid",
           \A b \in Passengers : Travels(b) =>
               \/ Travels(b)'
               \/ b \notin boarded /\ \A j \in Jobs : pc[j] = "insert" => b \notin job[j].todo
    PROVE  SmsInv'
<1>1. ShapeInv'
  BY TypedNow DEF SmsInv, ShapeInv, DepartureTypeOK, RowsTyped, LogsTyped, Shape
<1>2. \A j : OnlyMoves(j)
  BY DEF OnlyMoves
<1>3. PaidIsConfirmed'
  <2> SUFFICES ASSUME NEW b \in Passengers \ Counter, booking[b] = "paid" PROVE Awaited(b)'
    BY DEF PaidIsConfirmed, Paid, Awaited
  <2>1. Awaited(b)
    BY DEF SmsInv, PaidIsConfirmed, Paid, Awaited
  <2> QED
    BY <2>1 DEF Awaited, Got, Excused
<1>4. BoardInv'
  BY TypedNow DEF SmsInv, BoardInv, RowsTyped
<1>5. (CallingOff' <=> CallingOff) /\ \A what, b : Got(what, b)' <=> Got(what, b)
  BY DEF CallingOff, Got
<1>6. AlarmInv' /\ CrossInv'
  BY <1>5 DEF SmsInv, AlarmInv, CrossInv, Excused
<1> QED
  BY <1>1, <1>3, <1>4, <1>6 DEF SmsInv

LEMMA TickKeeps == ASSUME SmsInv, Tick PROVE SmsInv'
<1>1. UNCHANGED <<open, booking, boarded, remindOn, queue, sms, pc, job, excuse>> /\ clock' \in Hours
  BY DEF Tick, Hours
<1>2. RowsTyped' /\ LogsTyped'
  BY <1>1, TypedNow DEF RowsTyped, LogsTyped
<1> QED
  BY <1>1, <1>2, StillKeeps DEF Travels, Excused

LEMMA CancelBookingKeeps ==
    ASSUME SmsInv, NEW b \in Passengers, CancelBooking(b) PROVE SmsInv'
<1>1. /\ UNCHANGED <<clock, open, boarded, remindOn, queue, sms, pc, job>>
      /\ booking' = [booking EXCEPT ![b] = "cancelled"]
  BY DEF CancelBooking
<1> DEFINE onBoard == b \in boarded \/ \E c \in Calls : pc[c] = "insert" /\ b \in job[c].todo
<1>2. excuse' = excuse \cup (IF onBoard THEN {<<"late", b>>} ELSE {})
  BY DEF CancelBooking, Excuse
<1>3. RowsTyped' /\ LogsTyped'
  <2>1. <<"late", b>> \in Excuses \X Passengers
    BY DEF Excuses
  <2> QED
    BY <1>1, <1>2, <2>1, TypedNow DEF RowsTyped, LogsTyped, Statuses
<1>4. \A k \in Passengers : booking'[k] = IF k = b THEN "cancelled" ELSE booking[k]
  BY <1>1, TypedNow DEF RowsTyped
<1>5. ASSUME NEW j \in Jobs, pc[j] = "insert", b \in job[j].todo PROVE <<"late", b>> \in excuse'
  <2>1. j \in Calls
    BY <1>5, TypedNow DEF Shape
  <2> QED
    BY <1>2, <1>5, <2>1
<1>6. b \in boarded => <<"late", b>> \in excuse'
  BY <1>2
<1>7. ASSUME NEW k \in Passengers, Travels(k)
      PROVE  \/ Travels(k)'
             \/ k \notin boarded /\ \A j \in Jobs : pc[j] = "insert" => k \notin job[j].todo
  <2>1. CASE k = b
    BY <1>5, <1>6, <2>1 DEF Travels, Excused
  <2>2. CASE k # b
    BY <1>2, <1>4, <1>7, <2>2 DEF Travels, Excused
  <2> QED
    BY <2>1, <2>2
<1> QED
  BY <1>1, <1>2, <1>3, <1>4, <1>7, StillKeeps

\* Calling off, one SMS after the other, and the commit.
LEMMA BeginCancelTripKeeps == ASSUME SmsInv, NEW c \in Calls, BeginCancelTrip(c) PROVE SmsInv'
<1> DEFINE work == [Idle EXCEPT !.op = "cancelTrip", !.todo = {b \in Passengers : booking[b] # "cancelled"}]
           late == {About(w) : w \in {w \in Workers : job[w].op = "reminder"}}
<1>1. /\ c \in Jobs /\ pc[c] = "idle" /\ UNCHANGED <<rows, queue, sms>> /\ Start(c, "tell", work)
      /\ excuse' = excuse \cup ({"crossed"} \X late)
  BY DEF BeginCancelTrip, Excuse, Jobs
<1>2. work \in Work /\ work.op = "cancelTrip"
  BY CountsTyped DEF Idle, Work, Ops
<1>3. ASSUME NEW w \in Workers, job[w].op = "reminder"
      PROVE  About(w) \in Passengers /\ job[w].todo = {About(w)}
  BY <1>3, TypedNow, AboutOne DEF Shape, Kinds, Jobs
<1>4. late \subseteq Passengers
  BY <1>3
<1> HIDE DEF work
<1>5. OnlyMoves(c) /\ pc'[c] = "tell" /\ job'[c] = work /\ ProcsTyped'
  BY <1>1, <1>2, TypedNow, StartMoves DEF Stages
<1>6. RowsTyped' /\ LogsTyped' /\ excuse \subseteq excuse'
  BY <1>1, <1>4, TypedNow DEF LogsTyped, Excuses
<1>7. Shape(c)' /\ job[c].op \notin Kinds
  BY <1>1, <1>2, <1>5, TypedNow DEF Shape, Kinds
<1>8. ShapeInv'
  BY <1>1, <1>5, <1>6, <1>7, ShapeKept DEF SmsInv
<1>9. UNCHANGED <<open, booking, boarded>> /\ \A k : Got("cancelled", k)' => Got("cancelled", k)
  BY <1>1 DEF rows, Got
<1>10. PaidIsConfirmed'
  BY <1>1, <1>5, <1>6, <1>7, <1>9, PaidKept DEF SmsInv, Kinds
<1>11. BoardInv'
  BY <1>5, <1>6, <1>9, BoardKept DEF SmsInv
<1>12. AlarmInv'
  BY <1>1, <1>5, <1>6, <1>9, AlarmKept DEF SmsInv
<1>13. CrossInv'
  <2> SUFFICES ASSUME NEW w \in Workers, NEW b \in job'[w].todo, job'[w].op = "reminder"
               PROVE  <<"crossed", b>> \in excuse'
    BY DEF CrossInv, Excused
  <2>1. w # c
    BY <1>2, <1>5
  <2>2. job'[w] = job[w]
    BY <1>5, <2>1 DEF OnlyMoves, Jobs
  <2>3. b = About(w) /\ About(w) \in late
    BY <1>3, <2>2
  <2> QED
    BY <1>1, <2>3
<1> QED
  BY <1>8, <1>10, <1>11, <1>12, <1>13 DEF SmsInv

LEMMA TellCancelledKeeps == ASSUME SmsInv, NEW c \in Calls, TellCancelled(c) PROVE SmsInv'
<1>1. c \in Jobs /\ pc[c] = "tell" /\ UNCHANGED <<rows, queue, excuse>>
  BY DEF TellCancelled, Jobs
<1>2. job[c].op \notin Kinds /\ job[c].todo \subseteq Passengers /\ CallingOff
  BY <1>1, TypedNow DEF Shape, CallingOff
<1>3. PICK stage \in {"tell", "commit"} : pc'[c] = stage /\ OnlyMoves(c) /\ ProcsTyped'
                                          /\ job'[c].op = job[c].op
  <2>1. CASE Goto(c, "commit") /\ UNCHANGED job
    BY <1>1, <2>1, TypedNow, GotoMoves DEF Stages
  <2>2. CASE \E b \in job[c].todo : job' = [job EXCEPT ![c].todo = @ \ {b}] /\ UNCHANGED pc
    BY <1>1, <2>2, TypedNow, TicksOff
  <2> QED
    BY <2>1, <2>2 DEF TellCancelled
<1>4. sms \subseteq sms' /\ sms' \subseteq Sms \X Passengers
  BY <1>2, TypedNow DEF TellCancelled, LogsTyped, Sms
<1>5. RowsTyped' /\ LogsTyped'
  BY <1>1, <1>4, TypedNow DEF LogsTyped
<1>6. Shape(c)'
  BY <1>2, <1>3 DEF Shape
<1>7. ShapeInv'
  BY <1>1, <1>3, <1>5, <1>6, ShapeKept DEF SmsInv
<1>8. UNCHANGED <<open, booking, boarded>>
  BY <1>1 DEF rows
<1>9. PaidIsConfirmed'
  BY <1>1, <1>2, <1>3, <1>4, <1>8, PaidKept DEF SmsInv, Kinds
<1>10. BoardInv'
  BY <1>1, <1>3, <1>8, BoardKept DEF SmsInv
<1>11. AlarmInv'
  BY <1>3 DEF AlarmInv, CallingOff
<1>12. CrossInv'
  BY <1>1, <1>2, <1>3, CrossKept DEF SmsInv, Kinds
<1> QED
  BY <1>7, <1>9, <1>10, <1>11, <1>12 DEF SmsInv

LEMMA CommitCancelTripKeeps == ASSUME SmsInv, NEW c \in Calls, CommitCancelTrip(c) PROVE SmsInv'
<1>1. /\ c \in Jobs /\ pc[c] = "commit" /\ End(c) /\ open' = FALSE
      /\ UNCHANGED <<clock, booking, boarded, remindOn, queue, sms, excuse>>
  BY DEF CommitCancelTrip, Jobs
<1>2. /\ OnlyMoves(c) /\ pc'[c] \in {"idle", "done"} /\ job'[c] = Idle /\ ProcsTyped'
      /\ Shape(c)'
  BY <1>1, TypedNow, EndMoves
<1>3. RowsTyped' /\ LogsTyped'
  BY <1>1, TypedNow DEF RowsTyped, LogsTyped
<1>4. ShapeInv'
  BY <1>1, <1>2, <1>3, ShapeKept DEF SmsInv
<1>5. job[c].op \notin Kinds
  BY <1>1, TypedNow DEF Shape
<1>6. PaidIsConfirmed'
  BY <1>1, <1>2, <1>5, PaidKept DEF SmsInv, Kinds
<1>7. BoardInv'
  BY <1>1, <1>2, BoardKept DEF SmsInv
<1>8. AlarmInv'
  BY <1>1 DEF AlarmInv
<1>9. CrossInv'
  BY <1>1, <1>2, CallingOffKept, CrossKept DEF SmsInv, Got, Idle
<1> QED
  BY <1>4, <1>6, <1>7, <1>8, <1>9 DEF SmsInv

LEMMA FailKeeps == ASSUME SmsInv, NEW j \in Jobs, Fail(j) PROVE SmsInv'
<1>1. UNCHANGED <<rows, queue, sms>> /\ End(j)
  BY DEF Fail
<1>2. /\ OnlyMoves(j) /\ pc'[j] \in {"idle", "done"} /\ job'[j] = Idle /\ ProcsTyped'
      /\ Shape(j)'
  BY <1>1, TypedNow, EndMoves
<1>3. PICK why \in Excuses, S \in SUBSET Passengers : excuse' = excuse \cup ({why} \X S)
  <2>1. CASE pc[j] \in {"thank", "confirm", "remind", "send"}
    BY <2>1, TypedNow DEF Fail, Excuse, Excuses
  <2>2. CASE pc[j] \in {"tell", "commit"}
    <3>1. excuse' = excuse \cup ({"rollback"} \X {b \in Passengers : Got("cancelled", b)})
      BY <2>2 DEF Fail, Excuse
    <3> QED
      BY <3>1 DEF Excuses
  <2>3. CASE pc[j] \notin {"thank", "confirm", "remind", "send", "tell", "commit"}
    <3>1. excuse' = excuse \cup ({"lost"} \X {})
      BY <2>3 DEF Fail
    <3> QED
      BY <3>1 DEF Excuses
  <2> QED
    BY <2>1, <2>2, <2>3
<1>4. RowsTyped' /\ LogsTyped' /\ excuse \subseteq excuse'
  BY <1>1, <1>3, TypedNow DEF LogsTyped
<1>5. ShapeInv'
  BY <1>1, <1>2, <1>4, ShapeKept DEF SmsInv
<1>6. UNCHANGED <<open, booking, boarded>> /\ \A k : Got("cancelled", k)' <=> Got("cancelled", k)
  BY <1>1 DEF rows, Got
<1>7. PaidIsConfirmed'
  <2>1. ASSUME NEW b \in job[j].todo, pc[j] \in {"thank", "confirm"} \/ job[j].op = "confirmation"
        PROVE  Awaited(b)'
    <3>1. pc[j] \in {"thank", "confirm", "remind", "send"}
      BY <2>1, TypedNow DEF Shape, Kinds
    <3>2. <<"lost", b>> \in excuse'
      BY <3>1 DEF Fail, Excuse
    <3> QED
      BY <3>2 DEF Awaited, Excused
  <2> QED
    BY <1>1, <1>2, <1>4, <1>6, <2>1, PaidKept DEF SmsInv
<1>8. BoardInv'
  BY <1>2, <1>4, <1>6, BoardKept DEF SmsInv
<1>9. AlarmInv'
  <2>1. CASE pc[j] \in {"tell", "commit"}
    <3>1. excuse' = excuse \cup ({"rollback"} \X {b \in Passengers : Got("cancelled", b)})
      BY <2>1 DEF Fail, Excuse
    <3> QED
      BY <1>6, <3>1 DEF AlarmInv, Excused
  <2>2. CASE pc[j] \notin {"tell", "commit"}
    BY <1>2, <1>4, <1>6, <2>2, AlarmKept DEF SmsInv
  <2> QED
    BY <2>1, <2>2
<1>10. CrossInv'
  BY <1>2, <1>4, <1>6, CallingOffKept, CrossKept DEF SmsInv, Idle
<1> QED
  BY <1>5, <1>7, <1>8, <1>9, <1>10 DEF SmsInv

------------------------------------------------------------------------------
LEMMA InitSmsInv == Init => SmsInv
<1> SUFFICES ASSUME Init PROVE SmsInv
  OBVIOUS
<1>1. DepartureTypeOK
  BY CountsTyped DEF Init, DepartureTypeOK, Hours, Statuses, Stages
<1>2. \A j \in Jobs : pc[j] = "idle" /\ job[j] = Idle
  BY DEF Init
<1>3. ShapeInv
  BY <1>1, <1>2 DEF ShapeInv, Shape, Idle, Kinds
<1>4. PaidIsConfirmed
  BY DEF Init, PaidIsConfirmed, Paid
<1>5. BoardInv
  BY <1>2 DEF Init, BoardInv
<1>6. AlarmInv
  BY DEF Init, AlarmInv, Got
<1>7. CrossInv
  BY <1>2 DEF CrossInv, Idle, Jobs
<1> QED
  BY <1>3, <1>4, <1>5, <1>6, <1>7 DEF SmsInv

LEMMA NextKeepsSmsInv == SmsInv /\ [Next]_vars => SmsInv'
<1> SUFFICES ASSUME SmsInv, [Next]_vars PROVE SmsInv'
  OBVIOUS
<1>1. CASE UNCHANGED vars
  <2>1. UNCHANGED <<clock, open, booking, boarded, remindOn, queue, sms, pc, job, excuse>>
    BY <1>1 DEF vars, rows
  <2>2. RowsTyped' /\ LogsTyped'
    BY <2>1, TypedNow DEF RowsTyped, LogsTyped
  <2> QED
    BY <2>1, <2>2, StillKeeps DEF Travels, Excused
<1>2. ASSUME NEW c \in Calls, RequestStep(c) PROVE SmsInv'
  BY <1>2, PayKeeps, BoardingKeeps, ThankKeeps, QueueConfirmationKeeps, ScheduleReminderKeeps,
     BeginCancelTripKeeps, TellCancelledKeeps, CommitCancelTripKeeps, CheckInKeeps, CountBoardedKeeps
     DEF RequestStep
<1>3. ASSUME NEW w \in Workers, WorkerStep(w) PROVE SmsInv'
  BY <1>3, TakeConfirmationKeeps, TakeReminderKeeps, SendTaskSmsKeeps DEF WorkerStep
<1> QED
  BY <1>1, <1>2, <1>3, TickKeeps, CancelBookingKeeps, FailKeeps DEF Next

\* What processes promise each other holds whatever their number.
THEOREM SmsInvariant == Spec => []SmsInv
  BY InitSmsInv, NextKeepsSmsInv, PTL DEF Spec

\* No paid online booking is left without its confirmation SMS on its way.
THEOREM ConfirmationOnItsWay == Spec => []DepartureInv
<1>1. SmsInv => DepartureInv
  BY DEF SmsInv, ShapeInv, DepartureInv
<1> QED
  BY <1>1, SmsInvariant, PTL

\* Whoever is on board has paid, unless the cancellation of his booking came too late.
THEOREM BoardedHavePaid == Spec => []OnBoardHavePaid
<1>1. SmsInv => OnBoardHavePaid
  BY DEF SmsInv, BoardInv, OnBoardHavePaid, Travels, ScanResult
<1> QED
  BY <1>1, SmsInvariant, PTL

\* The reminder never follows the news of a cancellation, unless its worker had read
\* the trip before.
LEMMA RemindersStop ==
    SmsInv /\ [Next]_vars =>
        [\A b \in Passengers :
            ~Got("reminder", b) /\ Got("reminder", b)' /\ Got("cancelled", b)
                => Excused("crossed", b) \/ Excused("rollback", b)]_vars
<1> SUFFICES ASSUME SmsInv, Next, NEW b \in Passengers,
                    <<"reminder", b>> \notin sms, <<"reminder", b>> \in sms', Got("cancelled", b)
             PROVE  Excused("crossed", b) \/ Excused("rollback", b)
  BY DEF Got
<1>1. ASSUME NEW w \in Workers, SendTaskSms(w)
      PROVE  Excused("crossed", b) \/ Excused("rollback", b)
  <2>1. w \in Jobs /\ pc[w] = "send"
    BY <1>1 DEF SendTaskSms, Jobs
  <2>2. PICK k \in Passengers : job[w].todo = {k} /\ About(w) = k
    BY <2>1, TypedNow, AboutOne DEF Shape
  <2>3. k = b /\ job[w].op = "reminder"
    BY <1>1, <2>2 DEF SendTaskSms
  <2> QED
    BY <2>2, <2>3 DEF SmsInv, CrossInv
<1>2. ASSUME NEW c \in Calls, Thank(c) \/ TellCancelled(c) PROVE FALSE
  BY <1>2 DEF Thank, TellCancelled
<1>3. \/ \E w \in Workers : SendTaskSms(w)
      \/ \E c \in Calls : Thank(c) \/ TellCancelled(c)
  BY DEF Next, RequestStep, WorkerStep, Tick, Pay, BeginCheckIn, QueueConfirmation,
         ScheduleReminder, BeginCancelTrip, CommitCancelTrip, BeginBoardAll, CheckIn, BeginValidate,
         CountBoarded, TakeConfirmation, TakeReminder, CancelBooking, Fail
<1> QED
  BY <1>1, <1>2, <1>3

\* Nobody is reminded of a departure after being told that it is off.
THEOREM RemindersAreTrue == Spec => NoReminderAfterCancel
  BY SmsInvariant, RemindersStop, PTL DEF Spec, NoReminderAfterCancel

===============================================================================
