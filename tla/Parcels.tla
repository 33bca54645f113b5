-------------------------------- MODULE Parcels --------------------------------
(***************************************************************************)
(* Parcels and the SMS that tell their recipient.                          *)
(*                                                                         *)
(* Requests of agents and of the company's administrator, and the tasks of *)
(* the Celery workers, work on the same rows without any lock: each loads  *)
(* a copy of a parcel, and every statement it makes later commits by       *)
(* itself.  A task is acknowledged when a worker takes it, and what it     *)
(* raises is logged and swallowed, so a task that dies is lost.            *)
(*                                                                         *)
(* A parcel is named by its tracking number.                               *)
(***************************************************************************)
EXTENDS Integers, FiniteSets

CONSTANTS MaxNumber, \* bound on the sequence of tracking numbers
          Calls,     \* requests
          Workers,   \* Celery worker processes
          None

Numbers == 1..MaxNumber
Jobs    == Calls \cup Workers

ASSUME ParcelConstants ==
    /\ MaxNumber \in Nat \ {0}
    /\ Calls \cap Workers = {}
    /\ IsFiniteSet(Calls)

VARIABLES
    parcel,  \* parcel[n]: the row with tracking number n, or None
    notes,   \* methods of the ParcelNotification rows of the parcel
    smsOn,   \* CompanyNotificationSettings.sms_parcel_arrival
    queue,   \* queue[k][n]: tasks of kind k that wait for a worker
    pc,      \* where each request or worker is
    job,     \* what it does, and the copy of the parcel it loaded
    texted,  \* arrival SMS sent by those who must not send a second one
    told,    \* parcels whose recipient got the registration SMS
    excuse   \* what happened to a parcel: see Excuses

rows == <<parcel, notes, smsOn>>
seen == <<texted, told>>
vars == <<rows, queue, pc, job, seen, excuse>>

Statuses == {"registered", "in_transit", "arrived", "notified", "collected"}
Methods  == {"sms", "call"}
Rows     == [status: Statuses, stamped: BOOLEAN, offline: BOOLEAN]
Kinds    == {"dispatch", "arrival"}

ASSUME NoneIsNoRow == None \notin Rows

Ops      == {"register", "notify", "call", "renotify", "status", "patch"} \cup Kinds
Work     == [op: Ops, of: Numbers, copy: Rows, target: Statuses]
Stages   == {"idle", "insert", "enqueue", "send", "record", "mark", "save", "done"}

\* overlap: a sender passed the anti-duplicate test while another was between
\*          its own test and its row, or died there after the SMS had left;
\* lost, unannounced: the arrival or the registration task was not queued, or failed;
\* byhand:  the administrator set the parcel to notified;
\* erased:  a stale copy of the whole row erased collected_at.
Excuses == {"overlap", "lost", "unannounced", "byhand", "erased"}

Registered == [status |-> "registered", stamped |-> FALSE, offline |-> FALSE]
NoWork     == [op |-> "register", of |-> 1, copy |-> Registered, target |-> "registered"]

ParcelTypeOK ==
    /\ parcel \in [Numbers -> Rows \cup {None}]
    /\ notes \in [Numbers -> SUBSET Methods]
    /\ smsOn \in BOOLEAN
    /\ queue \in [Kinds -> [Numbers -> Nat]]
    /\ pc \in [Jobs -> Stages]
    /\ job \in [Jobs -> Work]
    /\ texted \in [Numbers -> Nat]
    /\ told \subseteq Numbers
    /\ excuse \subseteq Excuses \X Numbers

\* One parcel is registered, its recipient was told.
Init ==
    /\ parcel = [n \in Numbers |-> IF n = 1 THEN Registered ELSE None]
    /\ notes = [n \in Numbers |-> {}]
    /\ smsOn \in BOOLEAN
    /\ queue = [k \in Kinds |-> [n \in Numbers |-> 0]]
    /\ pc = [j \in Jobs |-> "idle"]
    /\ job = [j \in Jobs |-> NoWork]
    /\ texted = [n \in Numbers |-> 0]
    /\ told = {1}
    /\ excuse = {}

------------------------------------------------------------------------------
Exists(n) == parcel[n] # None

Excused(reason, n) == <<reason, n>> \in excuse

Excuse(reason, n) == excuse' = excuse \cup {<<reason, n>>}

Goto(j, stage) == pc' = [pc EXCEPT ![j] = stage]

\* A request ends; a worker is free for the next task.
Resting(j) == IF j \in Workers THEN "idle" ELSE "done"

End(j) == Goto(j, Resting(j)) /\ job' = [job EXCEPT ![j] = NoWork]

Start(j, stage, work) == Goto(j, stage) /\ job' = [job EXCEPT ![j] = work]

Does(op, n, target) == [op |-> op, of |-> n, copy |-> parcel[n], target |-> target]

\* queryset.get(): the row as it is now, which the request keeps.
Loads(c, stage, op, n, target) ==
    /\ pc[c] = "idle" /\ Exists(n)
    /\ Start(c, stage, Does(op, n, target))

------------------------------------------------------------------------------
(* Registering: AgentParcelViewSet.create, register_parcel *)

\* The greatest sequence in the table, plus one; no lock is held.
NextNumber == 1 + Cardinality({n \in Numbers : \E k \in Numbers : k >= n /\ Exists(k)})

\* calculate_tariff: no route of the company links the cities, or no price is set.
NoTariff(c) == End(c)

\* The parcel to insert; an entry made offline queues no SMS.
Entered(n, offline) == [NoWork EXCEPT !.of = n, !.copy = [Registered EXCEPT !.offline = offline]]

\* The number is drawn, or the client brings the one its device drew.
BeginRegister(c) ==
    /\ pc[c] = "idle"
    /\ \/ NoTariff(c)
       \/ \E n \in Numbers, offline \in BOOLEAN : Start(c, "insert", Entered(n, offline))
       \/ \E offline \in BOOLEAN :
             NextNumber \in Numbers /\ Start(c, "insert", Entered(NextNumber, offline))
    /\ UNCHANGED <<rows, queue, seen, excuse>>

\* The unique index refuses a number that another parcel took meanwhile.
InsertParcel(c) ==
    LET n == job[c].of
    IN  /\ pc[c] = "insert"
        /\ IF Exists(n)
           THEN End(c) /\ UNCHANGED parcel
           ELSE /\ parcel' = [parcel EXCEPT ![n] = job[c].copy]
                /\ IF job[c].copy.offline
                   THEN End(c)
                   ELSE Start(c, "enqueue", [job[c] EXCEPT !.op = "dispatch"])
        /\ UNCHANGED <<notes, smsOn, queue, seen, excuse>>

\* task.delay(pk), after the commit.
Enqueue(c) ==
    /\ pc[c] = "enqueue"
    /\ queue' = [queue EXCEPT ![job[c].op][job[c].of] = @ + 1]
    /\ End(c)
    /\ UNCHANGED <<rows, seen, excuse>>

------------------------------------------------------------------------------
(* Telling the recipient: notify_recipient, and the two tasks *)

\* ParcelNotification.objects.filter(parcel=parcel, method=SMS).exists()
AlreadySent(n) == "sms" \in notes[n]

\* Those who send only if no SMS was sent.
Guarded(op) == op \in {"notify", "arrival"}

BetweenTestAndRow(n) ==
    \E j \in Jobs : /\ pc[j] \in {"send", "record"}
                    /\ job[j].of = n /\ Guarded(job[j].op)

\* The test is made and passed; remember whether another sender is past it too.
PassTest(n) ==
    IF BetweenTestAndRow(n) THEN Excuse("overlap", n) ELSE UNCHANGED excuse

\* POST /agent/parcels/{id}/notify/, method sms or call.  The row is loaded just
\* before the test, and notification rows are never deleted: one step.
Notify(c, n) ==
    /\ pc[c] = "idle" /\ Exists(n)
    /\ \/ AlreadySent(n) /\ End(c) /\ UNCHANGED excuse
       \/ ~AlreadySent(n) /\ Loads(c, "send", "notify", n, "notified") /\ PassTest(n)
       \/ Loads(c, "record", "call", n, "notified") /\ UNCHANGED excuse
    /\ UNCHANGED <<rows, queue, seen>>

\* POST /company/parcels/{id}/notify-again/, which forces the SMS.
NotifyAgain(c, n) ==
    /\ Loads(c, "send", "renotify", n, "notified")
    /\ UNCHANGED <<rows, queue, seen, excuse>>

TakeFrom(kind, n) ==
    /\ queue[kind][n] > 0
    /\ queue' = [queue EXCEPT ![kind][n] = @ - 1]

\* send_parcel_dispatch_sms
TakeDispatch(w, n) ==
    /\ TakeFrom("dispatch", n)
    /\ Loads(w, "send", "dispatch", n, "registered")
    /\ UNCHANGED <<rows, seen, excuse>>

\* Mutant: the test counts any notification, calls included.
TaskMaySendOnlyFirst(n) == smsOn /\ notes[n] = {}

\* Mutant: the test is left to the view.
TaskMaySendAgain(n) == smsOn

TaskMaySend(n) == smsOn /\ ~AlreadySent(n)

\* send_parcel_arrival_sms
TakeArrival(w, n) ==
    /\ pc[w] = "idle" /\ TakeFrom("arrival", n)
    /\ \/ TaskMaySend(n) /\ Loads(w, "send", "arrival", n, "notified") /\ PassTest(n)
       \/ ~TaskMaySend(n) /\ End(w) /\ UNCHANGED excuse
    /\ UNCHANGED <<rows, seen>>

SendSms(j) ==
    LET n == job[j].of
    IN  /\ pc[j] = "send"
        /\ \/ /\ job[j].op = "dispatch"
              /\ told' = told \cup {n} /\ End(j) /\ UNCHANGED texted
           \/ /\ job[j].op # "dispatch"
              /\ texted' = [texted EXCEPT ![n] = IF Guarded(job[j].op) THEN @ + 1 ELSE @]
              /\ Goto(j, "record") /\ UNCHANGED <<told, job>>
        /\ UNCHANGED <<rows, queue, excuse>>

\* Mutant: only the calls are recorded.
NotedCalls(j) == IF job[j].op = "call" THEN {"call"} ELSE {}

Noted(j) == IF job[j].op = "call" THEN {"call"} ELSE {"sms"}

\* ParcelNotification.objects.create
RecordNote(j) ==
    /\ pc[j] = "record"
    /\ notes' = [notes EXCEPT ![job[j].of] = @ \cup Noted(j)]
    /\ Goto(j, "mark")
    /\ UNCHANGED <<parcel, smsOn, queue, job, seen, excuse>>

\* Only the status column is saved, and not over a parcel the copy says collected.
Marked(j) ==
    IF job[j].copy.status = "collected" THEN parcel[job[j].of].status ELSE "notified"

MarkNotified(j) ==
    /\ pc[j] = "mark"
    /\ parcel' = [parcel EXCEPT ![job[j].of].status = Marked(j)]
    /\ End(j)
    /\ UNCHANGED <<notes, smsOn, queue, seen, excuse>>

------------------------------------------------------------------------------
(* The administrator: CompanyParcelViewSet *)

\* POST /company/parcels/{id}/status/
ChangeStatus(c, n, target) ==
    /\ Loads(c, "save", "status", n, target)
    /\ UNCHANGED <<rows, queue, seen, excuse>>

\* PATCH /company/parcels/{id}/
Patch(c, n) ==
    /\ Loads(c, "save", "patch", n, "registered")
    /\ UNCHANGED <<rows, queue, seen, excuse>>

\* Mutant: collected_at is stamped only on a parcel that was announced.
StampedAnnounced(c) ==
    \/ parcel[job[c].of].stamped
    \/ job[c].target = "collected" /\ job[c].copy.status = "notified"

\* Mutant: the save of another status clears the date.
StampedCollected(c) == job[c].target = "collected"

Stamped(c) ==
    \/ parcel[job[c].of].stamped
    \/ job[c].target = "collected" /\ ~job[c].copy.stamped

\* update_status: status, and collected_at when the copy has none.
SaveStatus(c) ==
    LET n == job[c].of
    IN  /\ pc[c] = "save" /\ job[c].op = "status"
        /\ parcel' = [parcel EXCEPT ![n].status = job[c].target,
                                    ![n].stamped = Stamped(c)]
        /\ IF job[c].target = "arrived"
           THEN Start(c, "enqueue", [job[c] EXCEPT !.op = "arrival"])
           ELSE End(c)
        /\ IF job[c].target = "notified" THEN Excuse("byhand", n) ELSE UNCHANGED excuse
        /\ UNCHANGED <<notes, smsOn, queue, seen>>

\* serializer.save(): every column of the copy, status and collected_at included.
SavePatch(c) ==
    LET n == job[c].of
    IN  /\ pc[c] = "save" /\ job[c].op = "patch"
        /\ parcel' = [parcel EXCEPT ![n] = job[c].copy]
        /\ IF parcel[n].stamped /\ ~job[c].copy.stamped
           THEN Excuse("erased", n) ELSE UNCHANGED excuse
        /\ End(c)
        /\ UNCHANGED <<notes, smsOn, queue, seen>>

\* PATCH of the company's notification settings.
SwitchArrivalSms ==
    /\ smsOn' = ~smsOn
    /\ UNCHANGED <<parcel, notes, queue, pc, job, seen, excuse>>

\* The process dies, the SMS provider or the broker fails: what was committed stays.
\* log_task_errors swallows the failure of a task.
Fail(j) ==
    LET n == job[j].of
    IN  /\ pc[j] \notin {"idle", "done"}
        /\ End(j)
        /\ CASE job[j].op = "arrival" /\ pc[j] # "mark" ->
                    excuse' = excuse \cup {<<"lost", n>>} \cup
                        (IF pc[j] = "record" THEN {<<"overlap", n>>} ELSE {})
             [] job[j].op = "notify" /\ pc[j] = "record" -> Excuse("overlap", n)
             [] job[j].op = "dispatch" -> Excuse("unannounced", n)
             [] OTHER -> UNCHANGED excuse
        /\ UNCHANGED <<rows, queue, seen>>

------------------------------------------------------------------------------
Request(c) ==
    \/ BeginRegister(c) \/ InsertParcel(c) \/ Enqueue(c)
    \/ SaveStatus(c) \/ SavePatch(c)
    \/ \E n \in Numbers :
        \/ Notify(c, n) \/ NotifyAgain(c, n) \/ Patch(c, n)
        \/ \E target \in Statuses : ChangeStatus(c, n, target)

TakeTask(w) == \E n \in Numbers : TakeDispatch(w, n) \/ TakeArrival(w, n)

Tell(j) == SendSms(j) \/ RecordNote(j) \/ MarkNotified(j)

Next ==
    \/ \E c \in Calls : Request(c)
    \/ \E w \in Workers : TakeTask(w)
    \/ \E j \in Jobs : Tell(j) \/ Fail(j)
    \/ SwitchArrivalSms

Spec == Init /\ [][Next]_vars

\* The broker keeps its tasks and the workers run; nothing is assumed of requests.
FairSpec == Spec /\ \A w \in Workers : WF_vars(TakeTask(w) \/ Tell(w))

------------------------------------------------------------------------------
(* Properties *)

\* A request or a worker past its load works on a parcel that exists, with a copy
\* the row has overtaken only in known ways: what the copy says of the delivery
\* date and of the notification still holds, or something excuses it.
CopyIsExplained(j) ==
    LET n == job[j].of
        c == job[j].copy
    IN  /\ Exists(n)
        /\ c.stamped => parcel[n].stamped \/ Excused("erased", n)
        /\ c.status = "collected" => c.stamped \/ Excused("erased", n)
        /\ c.status = "notified" => notes[n] # {} \/ Excused("byhand", n)

Needs(j) ==
    /\ pc[j] = "insert" => job[j].copy.status = "registered" /\ ~job[j].copy.stamped
    /\ pc[j] \in {"send", "record", "mark", "save"} => CopyIsExplained(j)
    /\ pc[j] = "mark" => notes[job[j].of] # {}

\* The type invariant, and what each request and worker relies on.
ParcelInv == ParcelTypeOK /\ \A j \in Jobs : Needs(j)

\* The agents and the arrival task together send one arrival SMS per parcel, unless
\* two of them overlapped or one died between its SMS and its row.  (An
\* administrator's "notify again" is free to repeat it.)
OneArrivalSms == \A n \in Numbers : texted[n] > 1 => Excused("overlap", n)

\* ParcelHistoryMixin.get_history: the events the public tracking shows.
History(n) ==
    {"registered"} \cup notes[n] \cup (IF parcel[n].stamped THEN {"collected"} ELSE {})

\* ParcelTrackView: what a visitor sees of a parcel.
Track(n) == [status |-> parcel[n].status, history |-> History(n)]

\* The tracking page that says "collected" shows when, unless a PATCH of a stale
\* copy erased the date.
CollectedIsDated ==
    \A n \in Numbers :
        Exists(n) /\ Track(n).status = "collected"
            => "collected" \in Track(n).history \/ Excused("erased", n)

\* A parcel shown as "recipient told" has a notification that says how, unless the
\* administrator chose that status: the row is written before the status.
NotifiedIsRecorded ==
    \A n \in Numbers :
        Exists(n) /\ parcel[n].status = "notified"
            => notes[n] # {} \/ Excused("byhand", n)

\* AgentParcelViewSet.arrivals: the parcels whose recipient waits for word.
Arrivals == {n \in Numbers : Exists(n) /\ parcel[n].status = "arrived"}

\* Once a task is queued its SMS gets sent, unless the task is lost.  For an arrival
\* the SMS gets recorded, unless the company switched these SMS off: a manual call
\* does not stand for it.
QueuedIsTold ==
    \A n \in Numbers :
        /\ queue["arrival"][n] > 0 ~> AlreadySent(n) \/ Excused("lost", n) \/ ~smsOn
        /\ queue["dispatch"][n] > 0 ~> n \in told \/ Excused("unannounced", n)

==============================================================================
