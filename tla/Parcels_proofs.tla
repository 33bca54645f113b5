---------------------------- MODULE Parcels_proofs ----------------------------
(***************************************************************************)
(* Proofs about module Parcels, for any number of parcels, requests and    *)
(* workers.                                                                *)
(***************************************************************************)
EXTENDS Parcels, TLAPS

\* A parcel that is shown as collected has the date, or the date was erased.
Dated ==
    \A n \in Numbers :
        Exists(n) /\ parcel[n].status = "collected" => parcel[n].stamped \/ Excused("erased", n)

\* What the rows and the copies promise together: inductive.
RowInv == ParcelInv /\ Dated /\ NotifiedIsRecorded

LEMMA DatedSuffices == ASSUME Dated PROVE CollectedIsDated
  BY DEF Dated, CollectedIsDated, Track, History

(***************************************************************************)
(* Every step moves at most one request or worker, and what was ever       *)
(* written into the tables is kept or excused.                             *)
(***************************************************************************)

Grows ==
    /\ \A n \in Numbers :
        /\ Exists(n) => Exists(n)'
        /\ Exists(n) /\ parcel[n].stamped => parcel'[n].stamped \/ Excused("erased", n)'
        /\ notes[n] \subseteq notes'[n]
    /\ excuse \subseteq excuse'

Tables == <<parcel, notes>>

TablesTyped ==
    /\ parcel \in [Numbers -> Rows \cup {None}]
    /\ notes \in [Numbers -> SUBSET Methods]
    /\ smsOn \in BOOLEAN
    /\ queue \in [Kinds -> [Numbers -> Nat]]
    /\ texted \in [Numbers -> Nat]
    /\ told \subseteq Numbers
    /\ excuse \subseteq Excuses \X Numbers

LEMMA NoWorkTyped == NoWork \in Work /\ Registered \in Rows
  BY ParcelConstants DEF NoWork, Registered, Work, Rows, Numbers, Ops, Kinds, Statuses

LEMMA NeedsKept ==
    ASSUME ParcelTypeOK, Grows, NEW q \in Jobs, Needs(q), pc'[q] = pc[q], job'[q] = job[q]
    PROVE  Needs(q)'
<1>1. job[q].of \in Numbers /\ job[q].copy \in Rows
  BY DEF ParcelTypeOK, Work
<1>2. ASSUME CopyIsExplained(q) PROVE CopyIsExplained(q)'
  BY <1>1, <1>2 DEF CopyIsExplained, Grows, Excused
<1> QED
  BY <1>1, <1>2 DEF Needs, Grows

\* The shape of a step of j.
LEMMA MoveKeeps ==
    ASSUME ParcelInv, NEW j \in Jobs, NEW stage \in Stages, NEW work \in Work,
           pc' = [pc EXCEPT ![j] = stage], job' = [job EXCEPT ![j] = work],
           TablesTyped', Grows, Needs(j)'
    PROVE  ParcelInv'
<1>1. ParcelTypeOK /\ ParcelTypeOK'
  BY DEF ParcelInv, ParcelTypeOK, TablesTyped
<1>2. ASSUME NEW q \in Jobs, q # j PROVE Needs(q)'
  <2>1. pc'[q] = pc[q] /\ job'[q] = job[q]
    BY <1>1, <1>2 DEF ParcelTypeOK
  <2> QED
    BY <1>1, <2>1, NeedsKept DEF ParcelInv
<1> QED
  BY <1>1, <1>2 DEF ParcelInv

LEMMA SameRows ==
    ASSUME RowInv, UNCHANGED Tables, excuse \subseteq excuse'
    PROVE  Grows /\ Dated' /\ NotifiedIsRecorded'
<1>1. Grows
  BY DEF Grows, Tables, Exists
<1> QED
  BY <1>1 DEF RowInv, Dated, NotifiedIsRecorded, Tables, Exists, Excused

LEMMA EndKeeps ==
    ASSUME RowInv, NEW j \in Jobs, End(j), TablesTyped', Grows
    PROVE  ParcelInv'
<1>1. ParcelTypeOK
  BY DEF RowInv, ParcelInv
<1>2. Resting(j) \in {"idle", "done"} /\ Resting(j) \in Stages
  BY DEF Resting, Stages
<1>3. pc'[j] = Resting(j)
  BY <1>1 DEF End, Goto, ParcelTypeOK
<1>4. Needs(j)'
  BY <1>2, <1>3 DEF Needs
<1> QED
  BY <1>2, <1>4, MoveKeeps, NoWorkTyped DEF End, Goto, RowInv

\* A request or task ends and no row changed.
LEMMA EndQuietly ==
    ASSUME RowInv, NEW j \in Jobs, End(j), UNCHANGED Tables, excuse \subseteq excuse',
           TablesTyped'
    PROVE  RowInv'
  BY EndKeeps, SameRows DEF RowInv

LEMMA LoadKeeps ==
    ASSUME RowInv, NEW j \in Jobs, NEW n \in Numbers, NEW op \in Ops, NEW target \in Statuses,
           NEW stage \in {"send", "record", "save"}, Loads(j, stage, op, n, target),
           UNCHANGED Tables, excuse \subseteq excuse', TablesTyped'
    PROVE  RowInv'
<1>1. ParcelTypeOK
  BY DEF RowInv, ParcelInv
<1>2. parcel[n] \in Rows
  BY <1>1 DEF Loads, Exists, ParcelTypeOK
<1>3. Does(op, n, target) \in Work
  BY <1>2 DEF Does, Work
<1>4. /\ pc' = [pc EXCEPT ![j] = stage]
      /\ job' = [job EXCEPT ![j] = Does(op, n, target)]
      /\ Exists(n)
  BY DEF Loads, Start, Goto
<1>5. pc'[j] = stage /\ job'[j] = Does(op, n, target)
  BY <1>1, <1>4 DEF ParcelTypeOK
<1>6. Grows /\ Dated' /\ NotifiedIsRecorded'
  BY SameRows
<1>7. CopyIsExplained(j)'
  <2>1. job'[j].of = n /\ job'[j].copy = parcel'[n] /\ Exists(n)'
    BY <1>4, <1>5 DEF Does, Tables, Exists
  <2> QED
    BY <2>1, <1>2, <1>6 DEF CopyIsExplained, Dated, NotifiedIsRecorded, Rows
<1>8. Needs(j)'
  BY <1>5, <1>7 DEF Needs
<1>9. stage \in Stages
  BY DEF Stages
<1> QED
  BY <1>3, <1>4, <1>6, <1>8, <1>9, MoveKeeps DEF RowInv

(***************************************************************************)
(* One lemma per group of operations.                                      *)
(***************************************************************************)

\* The variables that most steps leave alone.
LEMMA Typed ==
    ASSUME ParcelTypeOK
    PROVE  /\ TablesTyped
           /\ UNCHANGED <<rows, queue, seen, excuse>> => TablesTyped'
           /\ UNCHANGED <<rows, seen, excuse>>
                /\ queue' \in [Kinds -> [Numbers -> Nat]] => TablesTyped'
  BY DEF ParcelTypeOK, TablesTyped, rows, seen

LEMMA RegisterKeeps ==
    ASSUME RowInv, NEW c \in Calls, BeginRegister(c) PROVE RowInv'
<1>1. c \in Jobs /\ ParcelTypeOK
  BY DEF Jobs, RowInv, ParcelInv
<1>2. UNCHANGED Tables /\ excuse \subseteq excuse' /\ TablesTyped'
  BY <1>1, Typed DEF BeginRegister, rows, Tables
<1>3. CASE NoTariff(c)
  BY <1>1, <1>2, <1>3, EndQuietly DEF NoTariff
<1>4. ASSUME NEW n \in Numbers, NEW offline \in BOOLEAN, Start(c, "insert", Entered(n, offline))
      PROVE  RowInv'
  <2>1. /\ Entered(n, offline) \in Work
        /\ Entered(n, offline).copy.status = "registered" /\ ~Entered(n, offline).copy.stamped
    BY NoWorkTyped DEF Entered, NoWork, Registered, Work, Rows, Statuses
  <2>2. pc'[c] = "insert" /\ job'[c] = Entered(n, offline)
    BY <1>1, <1>4 DEF Start, Goto, ParcelTypeOK
  <2>3. Needs(c)'
    BY <2>1, <2>2 DEF Needs
  <2>4. Grows /\ Dated' /\ NotifiedIsRecorded'
    BY <1>2, SameRows
  <2> QED
    BY <1>1, <1>2, <1>4, <2>1, <2>3, <2>4, MoveKeeps DEF Start, Goto, RowInv, Stages
<1> QED
  BY <1>3, <1>4 DEF BeginRegister

LEMMA InsertKeeps ==
    ASSUME RowInv, NEW c \in Calls, InsertParcel(c) PROVE RowInv'
<1> DEFINE n == job[c].of
<1>1. c \in Jobs /\ ParcelTypeOK /\ pc[c] = "insert"
  BY DEF Jobs, RowInv, ParcelInv, InsertParcel
<1>2. n \in Numbers /\ job[c] \in Work /\ job[c].copy \in Rows
  BY <1>1 DEF ParcelTypeOK, Work
<1>3. CASE Exists(n)
  <2>1. End(c) /\ UNCHANGED Tables /\ UNCHANGED excuse /\ TablesTyped'
    BY <1>1, <1>3, Typed DEF InsertParcel, Tables, rows
  <2> QED
    BY <1>1, <2>1, EndQuietly
<1>4. CASE ~Exists(n)
  <2>1. /\ parcel' = [parcel EXCEPT ![n] = job[c].copy]
        /\ UNCHANGED <<notes, smsOn, queue, seen, excuse>>
    BY <1>4 DEF InsertParcel
  <2>2. job[c].copy.status = "registered" /\ ~job[c].copy.stamped
    BY <1>1 DEF RowInv, ParcelInv, Needs
  <2>3. TablesTyped'
    BY <1>1, <1>2, <2>1 DEF ParcelTypeOK, TablesTyped, seen
  <2>4. Grows /\ Dated' /\ NotifiedIsRecorded'
    <3>1. \A k \in Numbers : parcel'[k] = IF k = n THEN job[c].copy ELSE parcel[k]
      BY <1>1, <2>1 DEF ParcelTypeOK
    <3>2. Grows
      BY <3>1, <1>2, <1>4, <2>1, NoneIsNoRow DEF Grows, Exists
    <3> QED
      BY <3>1, <3>2, <2>1, <2>2 DEF RowInv, Dated, NotifiedIsRecorded, Exists, Excused
  <2>5. CASE End(c)
    BY <1>1, <2>3, <2>4, <2>5, EndKeeps DEF RowInv
  <2>6. CASE Start(c, "enqueue", [job[c] EXCEPT !.op = "dispatch"])
    <3>1. [job[c] EXCEPT !.op = "dispatch"] \in Work
      BY <1>2 DEF Work, Ops, Kinds
    <3>2. pc'[c] = "enqueue"
      BY <1>1, <2>6 DEF Start, Goto, ParcelTypeOK
    <3>3. Needs(c)'
      BY <3>2 DEF Needs
    <3> QED
      BY <1>1, <2>3, <2>4, <2>6, <3>1, <3>3, MoveKeeps DEF Start, Goto, RowInv, Stages
  <2> QED
    BY <1>4, <2>5, <2>6 DEF InsertParcel
<1> QED
  BY <1>3, <1>4

LEMMA EnqueueKeeps ==
    ASSUME RowInv, NEW c \in Calls, Enqueue(c) PROVE RowInv'
<1>1. c \in Jobs /\ ParcelTypeOK /\ job[c] \in Work
  BY DEF Jobs, RowInv, ParcelInv, ParcelTypeOK
<1>2. queue' \in [Kinds -> [Numbers -> Nat]]
  <2> DEFINE op == job[c].op
             n == job[c].of
  <2>1. queue \in [Kinds -> [Numbers -> Nat]] /\ n \in Numbers
    BY <1>1 DEF ParcelTypeOK, Work
  <2>2. queue' = [queue EXCEPT ![op] = [queue[op] EXCEPT ![n] = queue[op][n] + 1]]
    BY DEF Enqueue
  <2>3. op \in Kinds => [queue[op] EXCEPT ![n] = queue[op][n] + 1] \in [Numbers -> Nat]
    BY <2>1
  <2> HIDE DEF op, n
  <2> QED
    BY <2>1, <2>2, <2>3
<1>3. End(c) /\ UNCHANGED Tables /\ UNCHANGED excuse /\ TablesTyped'
  BY <1>1, <1>2, Typed DEF Enqueue, Tables, rows
<1> QED
  BY <1>1, <1>3, EndQuietly

\* Beginning to tell a recipient, or to save.
LEMMA LoadingKeeps ==
    ASSUME RowInv, NEW c \in Calls, NEW n \in Numbers,
           \/ NotifyAgain(c, n) \/ Patch(c, n)
           \/ \E target \in Statuses : ChangeStatus(c, n, target)
    PROVE  RowInv'
<1>1. c \in Jobs /\ ParcelTypeOK
  BY DEF Jobs, RowInv, ParcelInv
<1>2. UNCHANGED <<rows, queue, seen, excuse>>
  BY DEF NotifyAgain, Patch, ChangeStatus
<1>3. UNCHANGED Tables /\ TablesTyped'
  BY <1>1, <1>2, Typed DEF Tables, rows
<1>4. PICK stage \in {"send", "save"}, op \in Ops, target \in Statuses : Loads(c, stage, op, n, target)
  BY DEF NotifyAgain, Patch, ChangeStatus, Ops, Kinds, Statuses
<1> QED
  BY <1>1, <1>2, <1>3, <1>4, LoadKeeps

LEMMA PassTestTyped ==
    ASSUME ParcelTypeOK, NEW n \in Numbers, PassTest(n) \/ UNCHANGED excuse
    PROVE  excuse \subseteq excuse' /\ excuse' \subseteq Excuses \X Numbers
  BY DEF PassTest, Excuse, Excuses, ParcelTypeOK

LEMMA NotifyKeeps ==
    ASSUME RowInv, NEW c \in Calls, NEW n \in Numbers, Notify(c, n) PROVE RowInv'
<1>1. c \in Jobs /\ ParcelTypeOK
  BY DEF Jobs, RowInv, ParcelInv
<1>2. excuse \subseteq excuse' /\ excuse' \subseteq Excuses \X Numbers
  BY <1>1, PassTestTyped DEF Notify
<1>3. UNCHANGED Tables /\ TablesTyped'
  BY <1>1, <1>2 DEF Notify, ParcelTypeOK, TablesTyped, Tables, rows, seen
<1>4. CASE End(c)
  BY <1>1, <1>2, <1>3, <1>4, EndQuietly
<1>5. CASE \E stage \in {"send", "record"}, op \in {"notify", "call"} : Loads(c, stage, op, n, "notified")
  BY <1>1, <1>2, <1>3, <1>5, LoadKeeps DEF Ops, Statuses
<1> QED
  BY <1>4, <1>5 DEF Notify

LEMMA TakeTaskKeeps ==
    ASSUME RowInv, NEW w \in Workers, NEW n \in Numbers, TakeDispatch(w, n) \/ TakeArrival(w, n)
    PROVE  RowInv'
<1>1. w \in Jobs /\ ParcelTypeOK
  BY DEF Jobs, RowInv, ParcelInv
<1>2. excuse \subseteq excuse' /\ excuse' \subseteq Excuses \X Numbers
  BY <1>1, PassTestTyped DEF TakeDispatch, TakeArrival
<1>3. queue' \in [Kinds -> [Numbers -> Nat]]
  <2>1. PICK kind \in Kinds : TakeFrom(kind, n)
    BY DEF TakeDispatch, TakeArrival, Kinds
  <2> QED
    BY <1>1, <2>1 DEF TakeFrom, ParcelTypeOK
<1>4. UNCHANGED Tables /\ TablesTyped'
  BY <1>1, <1>2, <1>3 DEF TakeDispatch, TakeArrival, ParcelTypeOK, TablesTyped, Tables, rows, seen
<1>5. CASE End(w)
  BY <1>1, <1>2, <1>4, <1>5, EndQuietly
<1>6. CASE Loads(w, "send", "dispatch", n, "registered") \/ Loads(w, "send", "arrival", n, "notified")
  BY <1>1, <1>2, <1>4, <1>6, LoadKeeps DEF Ops, Kinds, Statuses
<1> QED
  BY <1>5, <1>6 DEF TakeDispatch, TakeArrival

LEMMA TellKeeps ==
    ASSUME RowInv, NEW j \in Jobs, Tell(j) PROVE RowInv'
<1> DEFINE n == job[j].of
<1>1. ParcelTypeOK /\ job[j] \in Work /\ n \in Numbers /\ Needs(j)
  BY DEF RowInv, ParcelInv, ParcelTypeOK, Work
<1>2. CASE SendSms(j)
  <2>1. UNCHANGED Tables /\ excuse \subseteq excuse' /\ TablesTyped'
    BY <1>1, <1>2 DEF SendSms, ParcelTypeOK, TablesTyped, Tables, rows
  <2>2. CASE End(j)
    BY <2>1, <2>2, EndQuietly
  <2>3. CASE Goto(j, "record") /\ UNCHANGED job
    <3>1. job' = [job EXCEPT ![j] = job[j]] /\ pc'[j] = "record" /\ pc[j] = "send"
      BY <1>1, <1>2, <2>3 DEF Goto, SendSms, ParcelTypeOK
    <3>2. Grows /\ Dated' /\ NotifiedIsRecorded'
      BY <2>1, SameRows
    <3>3. CopyIsExplained(j)'
      BY <1>1, <2>1, <2>3, <3>1 DEF Needs, CopyIsExplained, Tables, Exists, Excused
    <3>4. Needs(j)'
      BY <3>1, <3>3 DEF Needs
    <3> QED
      BY <1>1, <2>1, <2>3, <3>1, <3>2, <3>4, MoveKeeps DEF Goto, RowInv, Stages
  <2> QED
    BY <1>2, <2>2, <2>3 DEF SendSms
<1>3. CASE RecordNote(j)
  <2>1. /\ notes' = [notes EXCEPT ![n] = @ \cup Noted(j)] /\ pc[j] = "record"
        /\ pc' = [pc EXCEPT ![j] = "mark"]
        /\ UNCHANGED <<parcel, smsOn, queue, job, seen, excuse>>
    BY <1>3 DEF RecordNote, Goto
  <2>2. Noted(j) \subseteq Methods /\ Noted(j) # {}
    BY DEF Noted, Methods
  <2>3. TablesTyped'
    BY <1>1, <2>1, <2>2 DEF ParcelTypeOK, TablesTyped, seen
  <2>4. \A k \in Numbers : notes'[k] = IF k = n THEN notes[k] \cup Noted(j) ELSE notes[k]
    BY <1>1, <2>1 DEF ParcelTypeOK
  <2>5. Grows
    BY <2>1, <2>4 DEF Grows, Exists
  <2>6. Dated' /\ NotifiedIsRecorded'
    BY <2>1, <2>4 DEF RowInv, Dated, NotifiedIsRecorded, Exists, Excused
  <2>7. job' = [job EXCEPT ![j] = job[j]] /\ pc'[j] = "mark" /\ job'[j] = job[j]
    BY <1>1, <2>1 DEF ParcelTypeOK
  <2>8. CopyIsExplained(j)'
    BY <1>1, <2>1, <2>4, <2>7 DEF Needs, CopyIsExplained, Exists, Excused
  <2>9. Needs(j)'
    BY <1>1, <2>2, <2>4, <2>7, <2>8 DEF Needs
  <2> QED
    BY <1>1, <2>1, <2>3, <2>5, <2>6, <2>7, <2>9, MoveKeeps DEF RowInv, Stages
<1>4. CASE MarkNotified(j)
  <2>1. /\ parcel' = [parcel EXCEPT ![n].status = Marked(j)] /\ pc[j] = "mark" /\ End(j)
        /\ UNCHANGED <<notes, smsOn, queue, seen, excuse>>
    BY <1>4 DEF MarkNotified
  <2>2. Exists(n) /\ notes[n] # {} /\ parcel[n] \in Rows
    BY <1>1, <2>1 DEF Needs, CopyIsExplained, ParcelTypeOK, Exists
  <2>3. Marked(j) \in {parcel[n].status, "notified"} /\ Marked(j) \in Statuses
    BY <2>2 DEF Marked, Rows, Statuses
  <2>4. [parcel[n] EXCEPT !.status = Marked(j)] \in Rows
    BY <2>2, <2>3 DEF Rows
  <2>5. \A k \in Numbers :
          parcel'[k] = IF k = n THEN [parcel[n] EXCEPT !.status = Marked(j)] ELSE parcel[k]
    BY <1>1, <2>1 DEF ParcelTypeOK
  <2>6. TablesTyped'
    BY <1>1, <2>1, <2>4 DEF ParcelTypeOK, TablesTyped, seen
  <2>7. Grows
    BY <2>1, <2>2, <2>4, <2>5, NoneIsNoRow DEF Grows, Exists, Rows
  <2>8. Dated'
    BY <2>1, <2>2, <2>3, <2>5 DEF RowInv, Dated, Exists, Excused, Rows
  <2>9. NotifiedIsRecorded'
    BY <2>1, <2>2, <2>5 DEF RowInv, NotifiedIsRecorded, Exists, Excused
  <2> QED
    BY <2>1, <2>6, <2>7, <2>8, <2>9, EndKeeps DEF RowInv
<1> QED
  BY <1>2, <1>3, <1>4 DEF Tell

LEMMA ExcuseGrows ==
    ASSUME ParcelTypeOK, NEW reason \in Excuses, NEW n \in Numbers, Excuse(reason, n)
    PROVE  excuse \subseteq excuse' /\ excuse' \subseteq Excuses \X Numbers
           /\ <<reason, n>> \in excuse'
<1>1. <<reason, n>> \in Excuses \X Numbers
  OBVIOUS
<1> QED
  BY <1>1 DEF Excuse, ParcelTypeOK

LEMMA SaveStatusKeeps ==
    ASSUME RowInv, NEW c \in Calls, SaveStatus(c) PROVE RowInv'
<1> DEFINE n == job[c].of
           new == [parcel[n] EXCEPT !.status = job[c].target, !.stamped = Stamped(c)]
<1>1. /\ c \in Jobs /\ ParcelTypeOK /\ job[c] \in Work /\ n \in Numbers
      /\ job[c].target \in Statuses /\ Needs(c) /\ pc[c] = "save"
  BY DEF RowInv, ParcelInv, ParcelTypeOK, Work, Jobs, SaveStatus
<1>2. Exists(n) /\ CopyIsExplained(c) /\ parcel[n] \in Rows /\ job[c].copy \in Rows
  BY <1>1 DEF Needs, CopyIsExplained, ParcelTypeOK, Exists, Work
<1>3. Stamped(c) \in BOOLEAN
  BY <1>1, <1>2 DEF Stamped, Rows
<1>4. new \in Rows /\ new.status = job[c].target /\ new.stamped = Stamped(c)
  BY <1>1, <1>2, <1>3 DEF Rows
<1>5. parcel' = [parcel EXCEPT ![n] = new] /\ UNCHANGED <<notes, smsOn, queue, seen>>
  BY DEF SaveStatus
<1>6. \A k \in Numbers : parcel'[k] = IF k = n THEN new ELSE parcel[k]
  BY <1>1, <1>5 DEF ParcelTypeOK
<1>7. excuse \subseteq excuse' /\ excuse' \subseteq Excuses \X Numbers
      /\ (job[c].target = "notified" => <<"byhand", n>> \in excuse')
  <2>1. CASE job[c].target = "notified"
    <3>1. Excuse("byhand", n) /\ "byhand" \in Excuses
      BY <2>1 DEF SaveStatus, Excuses
    <3> QED
      BY <1>1, <3>1, ExcuseGrows
  <2>2. CASE job[c].target # "notified"
    BY <1>1, <2>2 DEF SaveStatus, ParcelTypeOK
  <2> QED
    BY <2>1, <2>2
<1> HIDE DEF new
<1>8. TablesTyped'
  BY <1>1, <1>4, <1>5, <1>7 DEF ParcelTypeOK, TablesTyped, seen
<1>9. Grows
  BY <1>2, <1>4, <1>5, <1>6, <1>7, NoneIsNoRow DEF Grows, Exists, Stamped
<1>10. Dated'
  <2>1. job[c].target = "collected" => new.stamped \/ Excused("erased", n)
    BY <1>2, <1>4 DEF Stamped, CopyIsExplained
  <2> QED
    BY <1>4, <1>6, <1>7, <2>1 DEF RowInv, Dated, Exists, Excused
<1>11. NotifiedIsRecorded'
  <2>1. notes' = notes
    BY <1>5
  <2>2. ASSUME NEW k \in Numbers, Exists(k)', parcel'[k].status = "notified"
        PROVE  notes'[k] # {} \/ Excused("byhand", k)'
    <3>1. CASE k = n
      BY <1>4, <1>6, <1>7, <2>2, <3>1 DEF Excused
    <3>2. CASE k # n
      BY <1>6, <1>7, <2>1, <2>2, <3>2 DEF RowInv, NotifiedIsRecorded, Exists, Excused
    <3> QED
      BY <3>1, <3>2
  <2> QED
    BY <2>2 DEF NotifiedIsRecorded
<1>12. CASE End(c)
  BY <1>1, <1>8, <1>9, <1>10, <1>11, <1>12, EndKeeps DEF RowInv
<1>13. CASE Start(c, "enqueue", [job[c] EXCEPT !.op = "arrival"])
  <2>1. [job[c] EXCEPT !.op = "arrival"] \in Work
    BY <1>1 DEF Work, Ops, Kinds
  <2>2. pc'[c] = "enqueue"
    BY <1>1, <1>13 DEF Start, Goto, ParcelTypeOK
  <2>3. Needs(c)'
    BY <2>2 DEF Needs
  <2> QED
    BY <1>1, <1>8, <1>9, <1>10, <1>11, <1>13, <2>1, <2>3, MoveKeeps DEF Start, Goto, RowInv, Stages
<1> QED
  BY <1>12, <1>13 DEF SaveStatus

LEMMA SavePatchKeeps ==
    ASSUME RowInv, NEW c \in Calls, SavePatch(c) PROVE RowInv'
<1> DEFINE n == job[c].of
           copy == job[c].copy
<1>1. /\ c \in Jobs /\ ParcelTypeOK /\ job[c] \in Work /\ n \in Numbers
      /\ Needs(c) /\ pc[c] = "save" /\ End(c)
  BY DEF RowInv, ParcelInv, ParcelTypeOK, Work, Jobs, SavePatch
<1>2. Exists(n) /\ CopyIsExplained(c) /\ parcel[n] \in Rows /\ copy \in Rows
  BY <1>1 DEF Needs, CopyIsExplained, ParcelTypeOK, Exists, Work
<1>3. parcel' = [parcel EXCEPT ![n] = copy] /\ UNCHANGED <<notes, smsOn, queue, seen>>
  BY DEF SavePatch
<1>4. \A k \in Numbers : parcel'[k] = IF k = n THEN copy ELSE parcel[k]
  BY <1>1, <1>3 DEF ParcelTypeOK
<1>5. excuse \subseteq excuse' /\ excuse' \subseteq Excuses \X Numbers
      /\ (parcel[n].stamped /\ ~copy.stamped => <<"erased", n>> \in excuse')
  <2>1. CASE parcel[n].stamped /\ ~copy.stamped
    <3>1. Excuse("erased", n) /\ "erased" \in Excuses
      BY <2>1 DEF SavePatch, Excuses
    <3> QED
      BY <1>1, <3>1, ExcuseGrows
  <2>2. CASE ~(parcel[n].stamped /\ ~copy.stamped)
    <3>1. excuse' = excuse
      BY <2>2 DEF SavePatch
    <3> QED
      BY <1>1, <2>2, <3>1 DEF ParcelTypeOK
  <2> QED
    BY <2>1, <2>2
<1>6. /\ copy.status = "collected" => copy.stamped \/ Excused("erased", n)
      /\ copy.status = "notified" => notes[n] # {} \/ Excused("byhand", n)
  BY <1>2 DEF CopyIsExplained
<1> HIDE DEF copy
<1>7. TablesTyped'
  BY <1>1, <1>2, <1>3, <1>5 DEF ParcelTypeOK, TablesTyped, seen
<1>8. Grows
  <2>1. excuse \subseteq excuse' /\ notes' = notes
    BY <1>3, <1>5
  <2>2. ASSUME NEW k \in Numbers, Exists(k)
        PROVE  Exists(k)' /\ (parcel[k].stamped => parcel'[k].stamped \/ Excused("erased", k)')
    <3>1. CASE k = n
      BY <1>2, <1>4, <1>5, <2>2, <3>1, NoneIsNoRow DEF Exists, Excused
    <3>2. CASE k # n
      BY <1>4, <2>2, <3>2 DEF Exists
    <3> QED
      BY <3>1, <3>2
  <2> QED
    BY <2>1, <2>2 DEF Grows
<1>9. Dated' /\ NotifiedIsRecorded'
  BY <1>3, <1>4, <1>5, <1>6 DEF RowInv, Dated, NotifiedIsRecorded, Exists, Excused
<1> QED
  BY <1>1, <1>7, <1>8, <1>9, EndKeeps DEF RowInv

LEMMA FailKeeps ==
    ASSUME RowInv, NEW j \in Jobs, Fail(j) PROVE RowInv'
<1>1. ParcelTypeOK /\ End(j) /\ UNCHANGED <<rows, queue, seen>> /\ job[j].of \in Numbers
  BY DEF RowInv, ParcelInv, ParcelTypeOK, Work, Fail
<1>2. excuse \subseteq excuse' /\ excuse' \subseteq Excuses \X Numbers
  BY <1>1 DEF Fail, Excuse, Excuses, ParcelTypeOK
<1>3. UNCHANGED Tables /\ TablesTyped'
  BY <1>1, <1>2 DEF ParcelTypeOK, TablesTyped, Tables, rows, seen
<1> QED
  BY <1>1, <1>2, <1>3, EndQuietly

LEMMA SwitchKeeps == ASSUME RowInv, SwitchArrivalSms PROVE RowInv'
<1>1. UNCHANGED <<parcel, notes, queue, pc, job, seen, excuse>> /\ ParcelTypeOK'
  BY DEF SwitchArrivalSms, RowInv, ParcelInv, ParcelTypeOK, seen
<1> QED
  BY <1>1 DEF RowInv, ParcelInv, Needs, CopyIsExplained, Dated, NotifiedIsRecorded, Exists, Excused

LEMMA InitRowInv == Init => RowInv
<1> SUFFICES ASSUME Init PROVE RowInv
  OBVIOUS
<1>1. ParcelTypeOK
  <2>1. parcel \in [Numbers -> Rows \cup {None}] /\ job \in [Jobs -> Work]
    BY NoWorkTyped DEF Init
  <2>2. queue \in [Kinds -> [Numbers -> Nat]] /\ texted \in [Numbers -> Nat]
    BY DEF Init
  <2>3. notes \in [Numbers -> SUBSET Methods] /\ pc \in [Jobs -> Stages]
    BY DEF Init, Stages
  <2>4. told \subseteq Numbers
    BY ParcelConstants DEF Init, Numbers
  <2> QED
    BY <2>1, <2>2, <2>3, <2>4 DEF Init, ParcelTypeOK
<1>2. \A j \in Jobs : pc[j] = "idle"
  BY DEF Init
<1> QED
  BY <1>1, <1>2, NoneIsNoRow, NoWorkTyped
     DEF Init, RowInv, ParcelInv, Needs, Dated, NotifiedIsRecorded, Exists, Registered

LEMMA NextKeepsRowInv == RowInv /\ [Next]_vars => RowInv'
<1> SUFFICES ASSUME RowInv, [Next]_vars PROVE RowInv'
  OBVIOUS
<1>1. CASE UNCHANGED vars
  <2>1. UNCHANGED <<parcel, notes, smsOn, queue, pc, job, texted, told, excuse>>
    BY <1>1 DEF vars, rows, seen
  <2> QED
    BY <2>1 DEF RowInv, ParcelInv, ParcelTypeOK, Needs, CopyIsExplained, Dated,
                NotifiedIsRecorded, Exists, Excused
<1>2. ASSUME NEW c \in Calls, Request(c) PROVE RowInv'
  BY <1>2, RegisterKeeps, InsertKeeps, EnqueueKeeps, SaveStatusKeeps, SavePatchKeeps,
     NotifyKeeps, LoadingKeeps DEF Request
<1>3. ASSUME NEW w \in Workers, TakeTask(w) PROVE RowInv'
  BY <1>3, TakeTaskKeeps DEF TakeTask
<1>4. ASSUME NEW j \in Jobs, Tell(j) \/ Fail(j) PROVE RowInv'
  BY <1>4, TellKeeps, FailKeeps
<1> QED
  BY <1>1, <1>2, <1>3, <1>4, SwitchKeeps DEF Next

\* Every step keeps what the rows and the copies promise together.
THEOREM RowsAndCopies == Spec => []RowInv
  BY InitRowInv, NextKeepsRowInv, PTL DEF Spec

\* The type invariant, and what each request and worker relies on, hold whatever the
\* number of parcels, requests and workers.
THEOREM ParcelInvariant == Spec => []ParcelInv
  BY RowsAndCopies, PTL DEF RowInv

\* A tracking page that says "collected" shows when, unless a stale copy erased the date.
THEOREM CollectionIsDated == Spec => []CollectedIsDated
<1>1. RowInv => CollectedIsDated
  BY DatedSuffices DEF RowInv
<1> QED
  BY <1>1, RowsAndCopies, PTL

\* A parcel shown as "recipient told" has a notification, unless it was set by hand.
THEOREM NotificationIsRecorded == Spec => []NotifiedIsRecorded
  BY RowsAndCopies, PTL DEF RowInv

(***************************************************************************)
(* One arrival SMS.  Between its test and its row a sender is alone on its *)
(* parcel, unless two overlapped; so the second to test finds the row.     *)
(***************************************************************************)

\* j is between its test and its row.
At(j, n) == pc[j] \in {"send", "record"} /\ job[j].of = n /\ Guarded(job[j].op)

SmsOK(n) ==
    /\ \A i, j \in Jobs : At(i, n) /\ At(j, n) => i = j
    /\ texted[n] \in {0, 1}
    /\ texted[n] = 1 => AlreadySent(n) \/ \E j \in Jobs : At(j, n) /\ pc[j] = "record"
    /\ \A j \in Jobs : At(j, n) /\ pc[j] = "send" => texted[n] = 0

SmsInv == \A n \in Numbers : Excused("overlap", n) \/ SmsOK(n)

OnlyMoves(j) == \A q \in Jobs \ {j} : pc'[q] = pc[q] /\ job'[q] = job[q]

\* A step of j that sends nothing, and after which j is not between test and row.
Quiet(j) ==
    /\ OnlyMoves(j)
    /\ texted' = texted /\ excuse \subseteq excuse'
    /\ \A n \in Numbers :
        /\ ~At(j, n)'
        /\ At(j, n) => pc[j] = "send" \/ <<"overlap", n>> \in excuse'
        /\ notes[n] \subseteq notes'[n]

LEMMA QuietKeeps == ASSUME SmsInv, NEW j \in Jobs, Quiet(j) PROVE SmsInv'
<1> SUFFICES ASSUME NEW n \in Numbers, <<"overlap", n>> \notin excuse' PROVE SmsOK(n)'
  BY DEF SmsInv, Excused
<1>1. SmsOK(n) /\ (At(j, n) => pc[j] = "send") /\ ~At(j, n)' /\ texted' = texted
  BY DEF SmsInv, Excused, Quiet
<1>2. \A q \in Jobs \ {j} : (At(q, n)' <=> At(q, n)) /\ pc'[q] = pc[q]
  BY DEF Quiet, OnlyMoves, At
<1>3. AlreadySent(n) => AlreadySent(n)'
  BY DEF Quiet, AlreadySent
<1>4. \A p, q \in Jobs : At(p, n)' /\ At(q, n)' => p = q
  BY <1>1, <1>2 DEF SmsOK
<1>5. texted'[n] = 1 => AlreadySent(n)' \/ \E q \in Jobs : At(q, n)' /\ pc'[q] = "record"
  <2>1. SUFFICES ASSUME texted[n] = 1, ~AlreadySent(n)
                 PROVE  \E q \in Jobs : At(q, n)' /\ pc'[q] = "record"
    BY <1>1, <1>3
  <2>2. PICK q \in Jobs : At(q, n) /\ pc[q] = "record"
    BY <1>1, <2>1 DEF SmsOK
  <2>3. q # j
    BY <1>1, <2>2
  <2> QED
    BY <1>2, <2>2, <2>3
<1>6. \A q \in Jobs : At(q, n)' /\ pc'[q] = "send" => texted'[n] = 0
  BY <1>1, <1>2 DEF SmsOK
<1> QED
  BY <1>1, <1>4, <1>5, <1>6 DEF SmsOK

LEMMA MovesAlone ==
    ASSUME ParcelTypeOK, NEW j \in Jobs
    PROVE  /\ \A stage : Goto(j, stage) => pc'[j] = stage
           /\ End(j) => OnlyMoves(j) /\ pc'[j] \in {"idle", "done"}
           /\ \A stage, work : Start(j, stage, work) =>
                OnlyMoves(j) /\ pc'[j] = stage /\ job'[j] = work
  BY DEF ParcelTypeOK, End, Start, Goto, Resting, OnlyMoves

\* A step that ends the work of one who had not yet sent, or should not have tested.
LEMMA EndIsQuiet ==
    ASSUME ParcelTypeOK, NEW j \in Jobs, End(j), UNCHANGED <<notes, texted>>, excuse \subseteq excuse',
           \A n \in Numbers : At(j, n) => pc[j] = "send" \/ <<"overlap", n>> \in excuse'
    PROVE  Quiet(j)
  BY MovesAlone DEF Quiet, At

\* A step that starts something else than a guarded SMS.
LEMMA StartIsQuiet ==
    ASSUME ParcelTypeOK, NEW j \in Jobs, NEW stage, NEW work, Start(j, stage, work),
           UNCHANGED <<notes, texted>>, excuse \subseteq excuse', pc[j] \notin {"send", "record"},
           stage \in {"send", "record"} => ~Guarded(work.op)
    PROVE  Quiet(j)
  BY MovesAlone DEF Quiet, At

LEMMA RequestIsQuiet ==
    ASSUME ParcelTypeOK, NEW c \in Calls, Request(c), \A n \in Numbers : ~Notify(c, n)
    PROVE  Quiet(c)
<1>1. c \in Jobs
  BY DEF Jobs
<1>2. CASE BeginRegister(c)
  <2>1. pc[c] = "idle" /\ UNCHANGED <<notes, texted, excuse>>
    BY <1>2 DEF BeginRegister, rows, seen
  <2>2. CASE NoTariff(c)
    BY <1>1, <2>1, <2>2, EndIsQuiet DEF NoTariff, At
  <2>3. CASE \E work \in {Entered(n, offline) : n \in Numbers, offline \in BOOLEAN} :
                 Start(c, "insert", work)
    BY <1>1, <2>1, <2>3, StartIsQuiet
  <2> QED
    BY <1>2, <2>2, <2>3 DEF BeginRegister
<1>3. CASE InsertParcel(c)
  <2>1. pc[c] = "insert" /\ UNCHANGED <<notes, texted, excuse>>
    BY <1>3 DEF InsertParcel, seen
  <2>2. CASE End(c)
    BY <1>1, <2>1, <2>2, EndIsQuiet DEF At
  <2>3. CASE Start(c, "enqueue", [job[c] EXCEPT !.op = "dispatch"])
    BY <1>1, <2>1, <2>3, StartIsQuiet
  <2> QED
    BY <1>3, <2>2, <2>3 DEF InsertParcel
<1>4. CASE Enqueue(c)
  <2>1. pc[c] = "enqueue" /\ UNCHANGED <<notes, texted, excuse>> /\ End(c)
    BY <1>4 DEF Enqueue, rows, seen
  <2> QED
    BY <1>1, <2>1, EndIsQuiet DEF At
<1>5. CASE SaveStatus(c)
  <2>1. pc[c] = "save" /\ UNCHANGED <<notes, texted>> /\ excuse \subseteq excuse'
    BY <1>5 DEF SaveStatus, seen, Excuse
  <2>2. CASE End(c)
    BY <1>1, <2>1, <2>2, EndIsQuiet DEF At
  <2>3. CASE Start(c, "enqueue", [job[c] EXCEPT !.op = "arrival"])
    BY <1>1, <2>1, <2>3, StartIsQuiet
  <2> QED
    BY <1>5, <2>2, <2>3 DEF SaveStatus
<1>6. CASE SavePatch(c)
  <2>1. pc[c] = "save" /\ UNCHANGED <<notes, texted>> /\ excuse \subseteq excuse' /\ End(c)
    BY <1>6 DEF SavePatch, seen, Excuse
  <2> QED
    BY <1>1, <2>1, EndIsQuiet DEF At
<1>7. ASSUME NEW n \in Numbers,
             \/ NotifyAgain(c, n) \/ Patch(c, n)
             \/ \E target \in Statuses : ChangeStatus(c, n, target)
      PROVE  Quiet(c)
  <2>1. PICK stage \in {"send", "save"}, op \in {"renotify", "status", "patch"},
             target \in Statuses : Loads(c, stage, op, n, target)
    BY <1>7 DEF NotifyAgain, Patch, ChangeStatus, Statuses
  <2>2. UNCHANGED <<notes, texted, excuse>> /\ pc[c] = "idle"
    BY <1>7 DEF NotifyAgain, Patch, ChangeStatus, Loads, rows, seen
  <2>3. ~Guarded(Does(op, n, target).op)
    BY <2>1 DEF Guarded, Does
  <2>4. Start(c, stage, Does(op, n, target))
    BY <2>1 DEF Loads
  <2> QED
    BY <1>1, <2>2, <2>3, <2>4, StartIsQuiet
<1> QED
  BY <1>2, <1>3, <1>4, <1>5, <1>6, <1>7 DEF Request

\* One who passed the test: nobody else is past it, or that is remembered.
LEMMA PassTestKeeps ==
    ASSUME ParcelTypeOK, SmsInv, NEW j \in Jobs, NEW n \in Numbers, NEW op \in {"notify", "arrival"},
           Loads(j, "send", op, n, "notified"), ~AlreadySent(n), PassTest(n),
           UNCHANGED <<notes, texted>>
    PROVE  SmsInv'
<1>1. excuse \subseteq excuse' /\ (<<"overlap", n>> \in excuse' \/ \A q \in Jobs : ~At(q, n))
  BY DEF PassTest, Excuse, BetweenTestAndRow, At
<1>2. OnlyMoves(j) /\ pc'[j] = "send" /\ job'[j] = Does(op, n, "notified") /\ pc[j] = "idle"
  BY MovesAlone DEF Loads
<1> SUFFICES ASSUME NEW k \in Numbers, <<"overlap", k>> \notin excuse' PROVE SmsOK(k)'
  BY DEF SmsInv, Excused
<1>3. SmsOK(k)
  BY <1>1 DEF SmsInv, Excused
<1>4. \A q \in Jobs \ {j} : (At(q, k)' <=> At(q, k)) /\ pc'[q] = pc[q]
  BY <1>2 DEF OnlyMoves, At
<1>5. ~At(j, k) /\ (At(j, k)' => k = n)
  BY <1>2 DEF At, Does
<1>6. (AlreadySent(k)' <=> AlreadySent(k)) /\ texted' = texted
  BY DEF AlreadySent
<1>7. CASE k = n
  <2>1. \A q \in Jobs : ~At(q, n)
    BY <1>1, <1>7
  <2>2. texted[n] = 0
    BY <1>3, <1>7, <2>1 DEF SmsOK
  <2> QED
    BY <1>4, <1>6, <1>7, <2>1, <2>2 DEF SmsOK
<1>8. CASE k # n
  <2>1. \A q \in Jobs : At(q, k)' <=> At(q, k)
    BY <1>4, <1>5, <1>8
  <2>2. \A q \in Jobs : At(q, k) => pc'[q] = pc[q]
    BY <1>4, <1>5
  <2> QED
    BY <1>3, <1>6, <2>1, <2>2 DEF SmsOK
<1> QED
  BY <1>7, <1>8

LEMMA NotifyKeepsSms ==
    ASSUME ParcelTypeOK, SmsInv, NEW c \in Calls, NEW n \in Numbers, Notify(c, n) PROVE SmsInv'
<1>1. c \in Jobs /\ pc[c] = "idle" /\ UNCHANGED <<notes, texted>>
  BY DEF Jobs, Notify, rows, seen
<1>2. CASE End(c) /\ UNCHANGED excuse
  BY <1>1, <1>2, EndIsQuiet, QuietKeeps DEF At
<1>3. CASE ~AlreadySent(n) /\ Loads(c, "send", "notify", n, "notified") /\ PassTest(n)
  BY <1>1, <1>3, PassTestKeeps
<1>4. CASE Loads(c, "record", "call", n, "notified") /\ UNCHANGED excuse
  <2>1. ~Guarded(Does("call", n, "notified").op)
    BY DEF Guarded, Does
  <2>2. Start(c, "record", Does("call", n, "notified"))
    BY <1>4 DEF Loads
  <2> QED
    BY <1>1, <1>4, <2>1, <2>2, StartIsQuiet, QuietKeeps
<1> QED
  BY <1>2, <1>3, <1>4 DEF Notify

LEMMA TakeKeepsSms ==
    ASSUME ParcelTypeOK, SmsInv, NEW w \in Workers, NEW n \in Numbers,
           TakeDispatch(w, n) \/ TakeArrival(w, n)
    PROVE  SmsInv'
<1>1. w \in Jobs /\ pc[w] = "idle" /\ UNCHANGED <<notes, texted>>
  BY DEF Jobs, TakeDispatch, TakeArrival, Loads, rows, seen
<1>2. CASE End(w) /\ UNCHANGED excuse
  BY <1>1, <1>2, EndIsQuiet, QuietKeeps DEF At
<1>3. CASE TaskMaySend(n) /\ Loads(w, "send", "arrival", n, "notified") /\ PassTest(n)
  BY <1>1, <1>3, PassTestKeeps DEF TaskMaySend
<1>4. CASE Loads(w, "send", "dispatch", n, "registered") /\ UNCHANGED excuse
  <2>1. ~Guarded(Does("dispatch", n, "registered").op)
    BY DEF Guarded, Does
  <2>2. Start(w, "send", Does("dispatch", n, "registered"))
    BY <1>4 DEF Loads
  <2> QED
    BY <1>1, <1>4, <2>1, <2>2, StartIsQuiet, QuietKeeps
<1> QED
  BY <1>2, <1>3, <1>4 DEF TakeDispatch, TakeArrival

LEMMA SendKeepsSms ==
    ASSUME ParcelTypeOK, SmsInv, NEW j \in Jobs, SendSms(j) PROVE SmsInv'
<1>1. pc[j] = "send" /\ UNCHANGED <<notes, excuse>> /\ job[j].of \in Numbers
  BY DEF SendSms, rows, ParcelTypeOK, Work
<1>2. CASE job[j].op = "dispatch"
  <2>1. End(j) /\ UNCHANGED texted
    BY <1>2 DEF SendSms
  <2> QED
    BY <1>1, <2>1, EndIsQuiet, QuietKeeps
<1>3. CASE job[j].op # "dispatch"
  <2>1. /\ texted' = [texted EXCEPT ![job[j].of] = IF Guarded(job[j].op) THEN @ + 1 ELSE @]
        /\ Goto(j, "record") /\ UNCHANGED job
    BY <1>3 DEF SendSms
  <2>2. pc'[j] = "record" /\ \A q \in Jobs \ {j} : pc'[q] = pc[q]
    BY <2>1 DEF Goto, ParcelTypeOK
  <2> SUFFICES ASSUME NEW k \in Numbers, <<"overlap", k>> \notin excuse PROVE SmsOK(k)'
    BY <1>1 DEF SmsInv, Excused
  <2>3. SmsOK(k) /\ (AlreadySent(k)' <=> AlreadySent(k))
    BY <1>1 DEF SmsInv, Excused, AlreadySent
  <2>4. \A q \in Jobs : At(q, k)' <=> At(q, k)
    BY <1>1, <2>1, <2>2 DEF At
  <2>5. CASE At(j, k)
    <3>1. texted[k] = 0 /\ \A q \in Jobs : At(q, k) => q = j
      BY <1>1, <2>3, <2>5 DEF SmsOK
    <3>2. texted'[k] = 1
      BY <1>1, <2>1, <2>5, <3>1 DEF At, ParcelTypeOK
    <3> QED
      BY <2>2, <2>4, <2>5, <3>1, <3>2 DEF SmsOK
  <2>6. CASE ~At(j, k)
    <3>1. texted'[k] = texted[k]
      BY <1>1, <2>1, <2>6 DEF At, ParcelTypeOK
    <3>2. \A q \in Jobs : At(q, k) => pc'[q] = pc[q]
      BY <2>2, <2>6
    <3> QED
      BY <2>3, <2>4, <3>1, <3>2 DEF SmsOK
  <2> QED
    BY <2>5, <2>6
<1> QED
  BY <1>2, <1>3

LEMMA RecordKeepsSms ==
    ASSUME ParcelTypeOK, SmsInv, NEW j \in Jobs, RecordNote(j) PROVE SmsInv'
<1>1. /\ pc[j] = "record" /\ UNCHANGED <<job, texted, excuse>> /\ job[j].of \in Numbers
      /\ notes' = [notes EXCEPT ![job[j].of] = @ \cup Noted(j)]
  BY DEF RecordNote, seen, ParcelTypeOK, Work
<1>2. pc'[j] = "mark" /\ \A q \in Jobs \ {j} : pc'[q] = pc[q]
  BY DEF RecordNote, Goto, ParcelTypeOK
<1> SUFFICES ASSUME NEW k \in Numbers, <<"overlap", k>> \notin excuse PROVE SmsOK(k)'
  BY <1>1 DEF SmsInv, Excused
<1>3. SmsOK(k) /\ (AlreadySent(k) => AlreadySent(k)')
  BY <1>1 DEF SmsInv, Excused, AlreadySent, ParcelTypeOK
<1>4. ~At(j, k)' /\ \A q \in Jobs \ {j} : At(q, k)' <=> At(q, k)
  BY <1>1, <1>2 DEF At
<1>5. At(j, k) => AlreadySent(k)'
  BY <1>1 DEF At, Guarded, Noted, AlreadySent, ParcelTypeOK
<1>6. texted'[k] = 1 => AlreadySent(k)' \/ \E q \in Jobs : At(q, k)' /\ pc'[q] = "record"
  <2>1. SUFFICES ASSUME texted[k] = 1, ~AlreadySent(k)'
                 PROVE  \E q \in Jobs : At(q, k)' /\ pc'[q] = "record"
    BY <1>1
  <2>2. PICK q \in Jobs : At(q, k) /\ pc[q] = "record"
    BY <1>3, <2>1 DEF SmsOK
  <2>3. q # j
    BY <1>5, <2>1, <2>2
  <2> QED
    BY <1>2, <1>4, <2>2, <2>3
<1> QED
  BY <1>1, <1>2, <1>3, <1>4, <1>6 DEF SmsOK

LEMMA MarkKeepsSms ==
    ASSUME ParcelTypeOK, SmsInv, NEW j \in Jobs, MarkNotified(j) PROVE SmsInv'
<1>1. End(j) /\ UNCHANGED <<notes, texted, excuse>> /\ pc[j] = "mark"
  BY DEF MarkNotified, seen
<1> QED
  BY <1>1, EndIsQuiet, QuietKeeps DEF At

LEMMA FailKeepsSms ==
    ASSUME ParcelTypeOK, SmsInv, NEW j \in Jobs, Fail(j) PROVE SmsInv'
<1>1. End(j) /\ UNCHANGED <<notes, texted>> /\ excuse \subseteq excuse'
  BY DEF Fail, Excuse, rows, seen
<1>2. ASSUME NEW n \in Numbers, At(j, n), pc[j] # "send" PROVE <<"overlap", n>> \in excuse'
  <2>1. pc[j] = "record" /\ job[j].of = n /\ job[j].op \in {"notify", "arrival"}
    BY <1>2 DEF At, Guarded
  <2>2. CASE job[j].op = "notify"
    BY <2>1, <2>2 DEF Fail, Excuse
  <2>3. CASE job[j].op = "arrival"
    BY <2>1, <2>3 DEF Fail
  <2> QED
    BY <2>1, <2>2, <2>3
<1> QED
  BY <1>1, <1>2, EndIsQuiet, QuietKeeps

LEMMA NextKeepsSms == ParcelTypeOK /\ SmsInv /\ [Next]_vars => SmsInv'
<1> SUFFICES ASSUME ParcelTypeOK, SmsInv, [Next]_vars PROVE SmsInv'
  OBVIOUS
<1>1. CASE UNCHANGED <<notes, pc, job, texted, excuse>>
  BY <1>1 DEF SmsInv, SmsOK, At, AlreadySent, Excused
<1>2. ASSUME NEW c \in Calls, Request(c) PROVE SmsInv'
  <2>1. c \in Jobs
    BY DEF Jobs
  <2> QED
    BY <1>2, <2>1, NotifyKeepsSms, RequestIsQuiet, QuietKeeps
<1>3. ASSUME NEW w \in Workers, TakeTask(w) PROVE SmsInv'
  BY <1>3, TakeKeepsSms DEF TakeTask
<1>4. ASSUME NEW j \in Jobs, Tell(j) \/ Fail(j) PROVE SmsInv'
  BY <1>4, SendKeepsSms, RecordKeepsSms, MarkKeepsSms, FailKeepsSms DEF Tell
<1>5. UNCHANGED vars \/ SwitchArrivalSms => UNCHANGED <<notes, pc, job, texted, excuse>>
  BY DEF vars, rows, seen, SwitchArrivalSms
<1> QED
  BY <1>1, <1>2, <1>3, <1>4, <1>5 DEF Next

\* The agents and the arrival task together send one arrival SMS per parcel, unless two
\* of them overlapped between test and row, or one died there.
THEOREM OneSms == Spec => []OneArrivalSms
<1>1. Init => SmsInv
  <2> SUFFICES ASSUME Init, NEW n \in Numbers PROVE SmsOK(n)
    BY DEF SmsInv
  <2>1. texted[n] = 0 /\ \A j \in Jobs : pc[j] = "idle"
    BY DEF Init
  <2> QED
    BY <2>1 DEF SmsOK, At
<1>2. RowInv => ParcelTypeOK
  BY DEF RowInv, ParcelInv
<1>3. SmsInv => OneArrivalSms
  <2> SUFFICES ASSUME SmsInv, NEW n \in Numbers, texted[n] > 1 PROVE Excused("overlap", n)
    BY DEF OneArrivalSms
  <2> QED
    BY DEF SmsInv, SmsOK
<1> QED
  BY <1>1, <1>2, <1>3, RowsAndCopies, NextKeepsSms, PTL DEF Spec

===============================================================================
