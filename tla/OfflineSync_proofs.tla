-------------------------- MODULE OfflineSync_proofs --------------------------
(***************************************************************************)
(* Proofs about module OfflineSync, for any set of trips, seat plan, set   *)
(* of devices, batches and number of calls.                                *)
(***************************************************************************)
EXTENDS OfflineSync, FiniteSetTheorems, TLAPS

\* Well-formed tables and calls; that the counter is not negative comes later.
Typed ==
    /\ open \in [Trips -> BOOLEAN]
    /\ avail \in [Trips -> Int]
    /\ tripLock \in [Trips -> Calls \cup {None}]
    /\ booked \in [Numbers -> Rows \cup {None}]
    /\ parcels \subseteq Numbers /\ boarded \subseteq Numbers
    /\ pc \in [Calls -> Stages]
    /\ owner \in [Calls -> Devices \cup {None}]
    /\ at \in [Calls -> Nat \ {0}]
    /\ want \in [Calls -> Labels \cup {None}]
    /\ draft \in [Calls -> Drafts]
    /\ report \in [Calls -> Reports]
    /\ answer \in [Devices -> Reports \cup {None}]

\* What a call knows of itself at each stage.
CallOK(q) ==
    /\ pc[q] \in AtWork \cup {"done"} => owner[q] \in Devices
    /\ pc[q] = "idle" => at[q] = 1 /\ report[q] = NoReport
    /\ pc[q] \notin AtWork => draft[q] = NoDraft
    /\ pc[q] \in {"lock", "insert"} => HasItem(q, "booking") /\ ~Drafted(q, ThisItem(q).num)
    /\ pc[q] = "parcel" => HasItem(q, "parcel")
    /\ pc[q] = "insert" => /\ ThisItem(q).trip \in Trips /\ tripLock[ThisItem(q).trip] = q
                           /\ want[q] \in Labels

InBatch(d, n) == \E i \in DOMAIN Batch[d] : Batch[d][i].kind = "booking" /\ Batch[d][i].num = n

\* A drafted booking is new, of the call's batch, on a trip that the call has locked.
DraftedWell(q, n) ==
    LET row == draft[q].booked[n]
    IN  /\ row \in Rows /\ row.status = "active" /\ row.by = owner[q]
        /\ tripLock[row.trip] = q
        /\ booked[n] = None
        /\ InBatch(owner[q], n)
        /\ \A p \in Calls : Drafted(p, n) => p = q

DraftOK(q) == \A n \in Numbers : Drafted(q, n) => DraftedWell(q, n)

SyncedWell(n) ==
    booked[n] # None => IF booked[n].by = None THEN n \in DeskNumbers ELSE InBatch(booked[n].by, n)

CallInv ==
    /\ Typed
    /\ \A q \in Calls : CallOK(q) /\ DraftOK(q)
    /\ \A n \in Numbers : SyncedWell(n)

------------------------------------------------------------------------------
(* What the steps change *)

\* The state of the other calls.
OthersSame(q) ==
    \A p \in Calls \ {q} :
        /\ pc'[p] = pc[p] /\ owner'[p] = owner[p] /\ at'[p] = at[p] /\ want'[p] = want[p]
        /\ draft'[p] = draft[p] /\ report'[p] = report[p]

\* A call takes locks that nobody else has, and keeps its own.
LocksKept(q) ==
    \A t \in Trips : tripLock'[t] = tripLock[t] \/ (tripLock[t] = None /\ tripLock'[t] = q)

LEMMA ItemTyped ==
    ASSUME CallInv, NEW q \in Calls, NEW kind, owner[q] \in Devices, HasItem(q, kind)
    PROVE  /\ ThisItem(q) \in Item /\ ThisItem(q).kind = kind
           /\ ThisItem(q).num \in Numbers /\ ThisItem(q).trip \in Trips \cup {None}
           /\ ThisItem(q).seat \in Labels \cup {None}
           /\ at[q] \in DOMAIN Batch[owner[q]]
<1>1. Batch[owner[q]] \in Seq(Item)
  BY SyncConstants
<1>2. at[q] \in 1..Len(Batch[owner[q]])
  BY DEF HasItem, CallInv, Typed
<1>3. ThisItem(q) \in Item
  BY <1>1, <1>2 DEF ThisItem
<1> QED
  BY <1>1, <1>2, <1>3 DEF Item, HasItem

LEMMA AtWorkOwner == ASSUME CallInv, NEW q \in Calls, pc[q] \in AtWork PROVE owner[q] \in Devices
  BY DEF CallInv, CallOK

LEMMA NextItemMoves ==
    ASSUME CallInv, NEW q \in Calls, NextItem(q)
    PROVE  /\ pc' = [pc EXCEPT ![q] = "item"] /\ at' = [at EXCEPT ![q] = at[q] + 1]
           /\ pc'[q] = "item" /\ at'[q] = at[q] + 1 /\ want'[q] = None
           /\ pc' \in [Calls -> Stages] /\ at' \in [Calls -> Nat \ {0}]
           /\ want' \in [Calls -> Labels \cup {None}]
           /\ \A p \in Calls \ {q} : pc'[p] = pc[p] /\ at'[p] = at[p] /\ want'[p] = want[p]
<1>1. /\ pc \in [Calls -> Stages] /\ at \in [Calls -> Nat \ {0}]
      /\ want \in [Calls -> Labels \cup {None}]
  BY DEF CallInv, Typed
<1>2. "item" \in Stages
  BY DEF Stages, AtWork
<1>3. at[q] + 1 \in Nat \ {0}
  BY <1>1
<1> QED
  BY <1>1, <1>2, <1>3 DEF NextItem, Goto

LEMMA RejectMoves ==
    ASSUME CallInv, NEW q \in Calls, NEW reason \in Reasons, ThisItem(q).num \in Numbers,
           Reject(q, reason)
    PROVE  /\ NextItem(q) /\ UNCHANGED <<dbVars, owner, draft, answer>>
           /\ report' \in [Calls -> Reports]
           /\ report'[q] = [errors |-> report[q].errors \cup {<<ThisItem(q).num, reason>>},
                            conflicts |-> report[q].conflicts]
           /\ \A p \in Calls \ {q} : report'[p] = report[p]
<1>1. report \in [Calls -> Reports]
  BY DEF CallInv, Typed
<1> DEFINE new == [errors |-> report[q].errors \cup {<<ThisItem(q).num, reason>>},
                   conflicts |-> report[q].conflicts]
<1>2. report[q] = [errors |-> report[q].errors, conflicts |-> report[q].conflicts]
      /\ report[q].errors \in SUBSET (Numbers \X Reasons)
      /\ report[q].conflicts \in SUBSET (Numbers \X Labels)
  BY <1>1 DEF Reports
<1>3. new \in Reports
  BY <1>2 DEF Reports
<1>4. report' = [report EXCEPT ![q] = new]
  <2>1. report' = [report EXCEPT ![q] =
                     [report[q] EXCEPT !.errors = report[q].errors \cup {<<ThisItem(q).num, reason>>}]]
    BY DEF Reject
  <2>2. [report[q] EXCEPT !.errors = report[q].errors \cup {<<ThisItem(q).num, reason>>}] = new
    <3>1. \A e, c, x : [[errors |-> e, conflicts |-> c] EXCEPT !.errors = x]
                          = [errors |-> x, conflicts |-> c]
      OBVIOUS
    <3>2. report[q] = [errors |-> report[q].errors, conflicts |-> report[q].conflicts]
      BY <1>2
    <3> HIDE DEF new
    <3> QED
      BY <3>1, <3>2 DEF new
  <2> QED
    BY <2>1, <2>2
<1> QED
  BY <1>1, <1>3, <1>4 DEF Reject

LEMMA AddBookingMoves ==
    ASSUME CallInv, NEW q \in Calls, owner[q] \in Devices, ThisItem(q).num \in Numbers,
           ThisItem(q).trip \in Trips, want[q] \in Labels, AddBooking(q)
    PROVE  LET it  == ThisItem(q)
               row == [trip |-> it.trip, seat |-> want[q], status |-> "active", by |-> owner[q]]
           IN  /\ NextItem(q) /\ UNCHANGED <<dbVars, owner, answer>>
               /\ row \in Rows
               /\ draft' \in [Calls -> Drafts] /\ report' \in [Calls -> Reports]
               /\ draft'[q].booked[it.num] = row
               /\ \A n \in Numbers \ {it.num} : draft'[q].booked[n] = draft[q].booked[n]
               /\ draft'[q].parcels = draft[q].parcels /\ draft'[q].boarded = draft[q].boarded
               /\ report'[q].errors = report[q].errors
               /\ report'[q].conflicts \subseteq report[q].conflicts \cup {<<it.num, want[q]>>}
               /\ \A p \in Calls \ {q} : draft'[p] = draft[p] /\ report'[p] = report[p]
<1> DEFINE it  == ThisItem(q)
           row == [trip |-> it.trip, seat |-> want[q], status |-> "active", by |-> owner[q]]
           old == draft[q]
           more == IF it.seat \in {None, want[q]} THEN report[q].conflicts
                   ELSE report[q].conflicts \cup {<<it.num, want[q]>>}
<1>1. row \in Rows
  BY DEF Rows
<1>2. draft \in [Calls -> Drafts] /\ report \in [Calls -> Reports]
  BY DEF CallInv, Typed
<1>3. /\ old.booked \in [Numbers -> Rows \cup {None}]
      /\ old = [booked |-> old.booked, parcels |-> old.parcels, boarded |-> old.boarded]
      /\ old.parcels \in SUBSET Numbers /\ old.boarded \in SUBSET Numbers
  BY <1>2 DEF Drafts
<1>4. /\ report[q] = [errors |-> report[q].errors, conflicts |-> report[q].conflicts]
      /\ report[q].errors \in SUBSET (Numbers \X Reasons)
      /\ report[q].conflicts \in SUBSET (Numbers \X Labels)
  BY <1>2 DEF Reports
<1>5. draft' = [draft EXCEPT ![q] = [old EXCEPT !.booked = [old.booked EXCEPT ![it.num] = row]]]
  BY DEF AddBooking
<1> DEFINE rows == [old.booked EXCEPT ![it.num] = row]
           new  == [booked |-> rows, parcels |-> old.parcels, boarded |-> old.boarded]
<1>6. [old EXCEPT !.booked = rows] = new
  BY <1>3
<1>7. /\ rows \in [Numbers -> Rows \cup {None}] /\ rows[it.num] = row
      /\ \A n \in Numbers \ {it.num} : rows[n] = old.booked[n]
  BY <1>1, <1>3
<1>8. new \in Drafts
  BY <1>3, <1>7 DEF Drafts
<1>9. draft' = [draft EXCEPT ![q] = new]
  BY <1>5, <1>6
<1>10. /\ draft' \in [Calls -> Drafts] /\ draft'[q] = new
       /\ \A p \in Calls \ {q} : draft'[p] = draft[p]
  BY <1>2, <1>8, <1>9
<1>11. report' = [report EXCEPT ![q] = [errors |-> report[q].errors, conflicts |-> more]]
  <2>1. report' = [report EXCEPT ![q] = [report[q] EXCEPT !.conflicts = more]]
    BY DEF AddBooking
  <2>2. [report[q] EXCEPT !.conflicts = more] = [errors |-> report[q].errors, conflicts |-> more]
    BY <1>4
  <2> QED
    BY <2>1, <2>2
<1>12. [errors |-> report[q].errors, conflicts |-> more] \in Reports
  BY <1>4 DEF Reports
<1>13. /\ report' \in [Calls -> Reports] /\ report'[q] = [errors |-> report[q].errors, conflicts |-> more]
       /\ \A p \in Calls \ {q} : report'[p] = report[p]
  BY <1>2, <1>11, <1>12
<1> QED
  BY <1>1, <1>7, <1>10, <1>13 DEF AddBooking

------------------------------------------------------------------------------
(* The shapes of a step of a call: it drafts no booking, or one, commits or aborts. *)

Handled(q, i) ==
    LET it == Batch[owner[q]][i]
    IN  \/ it.num \in RejectedNumbers(report[q])
        \/ it.kind = "booking" /\ Seen(q, it.num) # None
        \/ it.kind = "parcel" /\ it.num \in parcels \cup draft[q].parcels
        \/ it.kind = "boarding" /\ it.num \in boarded \cup draft[q].boarded

Going(q) ==
    /\ pc[q] \in AtWork /\ pc'[q] \in AtWork /\ owner[q] \in Devices
    /\ UNCHANGED <<dbVars, owner, answer>>
    /\ OthersSame(q) /\ LocksKept(q)

\* The item the call works on is handled by this step.
Settles(q) == \A i \in Nat : i = at[q] => Handled(q, i)'

Quiet(q) ==
    /\ Going(q)
    /\ draft'[q].booked = draft[q].booked
    /\ draft[q].parcels \subseteq draft'[q].parcels /\ draft[q].boarded \subseteq draft'[q].boarded
    /\ report'[q].conflicts = report[q].conflicts /\ report[q].errors \subseteq report'[q].errors
    /\ at'[q] = at[q] \/ (at'[q] = at[q] + 1 /\ Settles(q))
    /\ pc'[q] = "insert" => SeatsLeft(q, ThisItem(q).trip)' > 0

Book(q) ==
    LET it  == ThisItem(q)
        row == [trip |-> it.trip, seat |-> want[q], status |-> "active", by |-> owner[q]]
    IN  /\ Going(q) /\ pc[q] = "insert" /\ pc'[q] = "item"
        /\ at'[q] = at[q] + 1 /\ it.num \in Numbers /\ it.trip \in Trips
        /\ InBatch(owner[q], it.num) /\ tripLock[it.trip] = q
        /\ booked[it.num] = None /\ ~SeatTaken(q, it.trip, want[q])
        /\ \A p \in Calls : ~Drafted(p, it.num)
        /\ row \in Rows /\ draft'[q].booked[it.num] = row
        /\ \A n \in Numbers \ {it.num} : draft'[q].booked[n] = draft[q].booked[n]
        /\ draft'[q].parcels = draft[q].parcels /\ draft'[q].boarded = draft[q].boarded
        /\ report'[q].errors = report[q].errors
        /\ report'[q].conflicts \subseteq report[q].conflicts \cup {<<it.num, want[q]>>}

LEMMA WorkStages == {"item", "lock", "insert", "parcel"} = AtWork /\ AtWork \subseteq Stages
  BY DEF AtWork, Stages

\* An item that is given up is reported.
LEMMA RejectShape ==
    ASSUME CallInv, NEW q \in Calls, NEW reason \in Reasons, NEW kind, HasItem(q, kind),
           pc[q] \in AtWork, tripLock' \in [Trips -> Calls \cup {None}], LocksKept(q),
           Reject(q, reason)
    PROVE  Quiet(q) /\ Typed' /\ CallOK(q)'
<1>1. owner[q] \in Devices /\ ThisItem(q).num \in Numbers
  BY AtWorkOwner, ItemTyped
<1>2. NextItem(q) /\ UNCHANGED <<dbVars, owner, draft, answer>>
  BY <1>1, RejectMoves
<1>3. /\ report' \in [Calls -> Reports]
      /\ report'[q] = [errors |-> report[q].errors \cup {<<ThisItem(q).num, reason>>},
                       conflicts |-> report[q].conflicts]
      /\ \A p \in Calls \ {q} : report'[p] = report[p]
  BY <1>1, RejectMoves
<1>4. Typed'
  BY <1>2, <1>3, NextItemMoves DEF CallInv, Typed, dbVars
<1>5. pc'[q] = "item" /\ at'[q] = at[q] + 1
  BY <1>2, NextItemMoves
<1>6. CallOK(q)'
  BY <1>1, <1>2, <1>5 DEF CallOK, AtWork
<1>7. OthersSame(q)
  BY <1>2, <1>3, NextItemMoves DEF OthersSame
<1>8. Going(q)
  BY <1>1, <1>2, <1>5, <1>7 DEF Going, AtWork
<1>9. ThisItem(q).num \in RejectedNumbers(report'[q])
  <2>1. <<ThisItem(q).num, reason>> \in report'[q].errors
    BY <1>3
  <2> QED
    BY <2>1 DEF RejectedNumbers
<1>10. Settles(q)
  BY <1>2, <1>9 DEF Settles, Handled, ThisItem
<1> QED
  BY <1>2, <1>3, <1>4, <1>5, <1>6, <1>8, <1>10 DEF Quiet

\* An item that is in the tables, or has just been drafted, is skipped.
LEMMA SkipShape ==
    ASSUME CallInv, NEW q \in Calls, pc[q] \in AtWork, NextItem(q),
           UNCHANGED <<dbVars, tripLock, owner, report, answer>>,
           draft' \in [Calls -> Drafts], draft'[q].booked = draft[q].booked,
           draft[q].parcels \subseteq draft'[q].parcels, draft[q].boarded \subseteq draft'[q].boarded,
           \A p \in Calls \ {q} : draft'[p] = draft[p], Settles(q)
    PROVE  Quiet(q) /\ Typed' /\ CallOK(q)'
<1>1. owner[q] \in Devices
  BY AtWorkOwner
<1>2. pc'[q] = "item" /\ at'[q] = at[q] + 1
  BY NextItemMoves
<1>3. Typed'
  BY NextItemMoves DEF CallInv, Typed, dbVars
<1>4. CallOK(q)'
  BY <1>1, <1>2 DEF CallOK, AtWork
<1>5. OthersSame(q)
  BY NextItemMoves DEF OthersSame
<1>6. Going(q)
  BY <1>1, <1>2, <1>5 DEF Going, AtWork, LocksKept
<1> QED
  BY <1>2, <1>3, <1>4, <1>6 DEF Quiet

\* The call goes on with the same item.
LEMMA StageShape ==
    ASSUME CallInv, NEW q \in Calls, pc[q] \in AtWork, NEW stage \in AtWork, Goto(q, stage),
           UNCHANGED <<dbVars, owner, at, draft, report, answer>>,
           want' \in [Calls -> Labels \cup {None}], \A p \in Calls \ {q} : want'[p] = want[p],
           tripLock' \in [Trips -> Calls \cup {None}], LocksKept(q), CallOK(q)',
           stage = "insert" => SeatsLeft(q, ThisItem(q).trip)' > 0
    PROVE  Quiet(q) /\ Typed' /\ CallOK(q)'
<1>1. owner[q] \in Devices
  BY AtWorkOwner
<1>2. /\ pc' \in [Calls -> Stages] /\ pc'[q] = stage
      /\ \A p \in Calls \ {q} : pc'[p] = pc[p]
  BY WorkStages DEF Goto, CallInv, Typed
<1>3. Typed'
  BY <1>2 DEF CallInv, Typed, dbVars
<1>4. OthersSame(q)
  BY <1>2 DEF OthersSame
<1>5. Going(q)
  BY <1>1, <1>2, <1>4 DEF Going
<1> QED
  BY <1>2, <1>3, <1>5 DEF Quiet

LEMMA CheckTicketShape ==
    ASSUME CallInv, NEW q \in Calls, CheckTicket(q) PROVE Quiet(q) /\ Typed' /\ CallOK(q)'
<1>1. /\ pc[q] = "item" /\ HasItem(q, "booking") /\ UNCHANGED <<dbVars, tripLock, owner, draft, report, answer>>
      /\ pc[q] \in AtWork
  BY DEF CheckTicket, AtWork
<1>2. owner[q] \in Devices /\ ThisItem(q).num \in Numbers /\ ThisItem(q).kind = "booking"
  BY <1>1, AtWorkOwner, ItemTyped
<1>3. CASE NextItem(q) /\ Seen(q, ThisItem(q).num) # None
  <2>1. Settles(q)
    BY <1>1, <1>2, <1>3 DEF Settles, Handled, ThisItem, Seen, Drafted, dbVars
  <2> QED
    BY <1>1, <1>3, <2>1, SkipShape DEF CallInv, Typed
<1>4. CASE Goto(q, "lock") /\ UNCHANGED <<at, want>> /\ Seen(q, ThisItem(q).num) = None
  <2>1. pc'[q] = "lock"
    BY <1>4 DEF Goto, CallInv, Typed
  <2>2. ~Drafted(q, ThisItem(q).num)
    BY <1>4 DEF Seen, Drafted
  <2>3. HasItem(q, "booking")' /\ ~Drafted(q, ThisItem(q).num)'
    BY <1>1, <1>4, <2>2 DEF HasItem, ThisItem, Drafted
  <2>4. CallOK(q)'
    BY <1>1, <1>2, <2>1, <2>3 DEF CallOK, AtWork
  <2> QED
    BY <1>1, <1>4, <2>4, StageShape DEF CallInv, Typed, AtWork, LocksKept
<1> QED
  BY <1>3, <1>4 DEF CheckTicket

LEMMA TakeTripShape ==
    ASSUME CallInv, NEW q \in Calls, TakeTrip(q) PROVE Quiet(q) /\ Typed' /\ CallOK(q)'
<1> DEFINE t == ThisItem(q).trip
<1>1. pc[q] = "lock" /\ pc[q] \in AtWork /\ HasItem(q, "booking") /\ ~Drafted(q, ThisItem(q).num)
  BY DEF TakeTrip, AtWork, CallInv, CallOK
<1>2. /\ owner[q] \in Devices /\ ThisItem(q) \in Item /\ t \in Trips \cup {None}
      /\ ThisItem(q).seat \in Labels \cup {None}
  BY <1>1, AtWorkOwner, ItemTyped
<1>3. tripLock \in [Trips -> Calls \cup {None}]
  BY DEF CallInv, Typed
<1>4. CASE UNCHANGED tripLock /\ Reject(q, "invalid")
  BY <1>1, <1>3, <1>4, RejectShape DEF Reasons, LocksKept
<1>5. ASSUME t # None, AcquireTrip(q, t)
      PROVE  /\ t \in Trips /\ tripLock' \in [Trips -> Calls \cup {None}] /\ LocksKept(q)
             /\ tripLock'[t] = q
  <2>1. t \in Trips
    BY <1>2, <1>5
  <2>2. tripLock[t] \in {None, q} /\ tripLock' = [tripLock EXCEPT ![t] = q]
    BY <1>5, <2>1 DEF AcquireTrip, RowsHeldBy
  <2> QED
    BY <1>3, <2>1, <2>2 DEF LocksKept
<1>6. ASSUME t # None, AcquireTrip(q, t), NEW reason \in {"trip_unavailable", "trip_full"},
             Reject(q, reason)
      PROVE  Quiet(q) /\ Typed' /\ CallOK(q)'
  BY <1>1, <1>5, <1>6, RejectShape DEF Reasons
<1>7. ASSUME t # None, AcquireTrip(q, t), NEW s \in Resolved(q), want' = [want EXCEPT ![q] = s],
             Goto(q, "insert"), UNCHANGED <<dbVars, owner, at, draft, report, answer>>,
             SeatsLeft(q, t) > 0
      PROVE  Quiet(q) /\ Typed' /\ CallOK(q)'
  <2>1. s \in Labels
    BY <1>2, <1>7 DEF Resolved, FirstFree
  <2>2. /\ want' \in [Calls -> Labels \cup {None}] /\ want'[q] = s
        /\ \A p \in Calls \ {q} : want'[p] = want[p]
    BY <1>7, <2>1 DEF CallInv, Typed
  <2>3. pc'[q] = "insert"
    BY <1>7 DEF Goto, CallInv, Typed
  <2>4. HasItem(q, "booking")' /\ ~Drafted(q, ThisItem(q).num)' /\ ThisItem(q)' = ThisItem(q)
    BY <1>1, <1>7 DEF HasItem, ThisItem, Drafted
  <2>5. CallOK(q)'
    BY <1>2, <1>5, <1>7, <2>1, <2>2, <2>3, <2>4 DEF CallOK, AtWork
  <2>6. SeatsLeft(q, ThisItem(q).trip)' > 0
    BY <1>7, <2>4 DEF SeatsLeft, Drafted, dbVars
  <2> QED
    BY <1>1, <1>5, <1>7, <2>2, <2>5, <2>6, StageShape DEF AtWork
<1> QED
  BY <1>4, <1>6, <1>7 DEF TakeTrip, SeatLeft

LEMMA SyncBookingShape ==
    ASSUME CallInv, NEW q \in Calls, SyncBooking(q)
    PROVE  (Quiet(q) \/ Book(q)) /\ Typed' /\ CallOK(q)'
<1> DEFINE it == ThisItem(q)
<1>1. /\ pc[q] = "insert" /\ pc[q] \in AtWork /\ HasItem(q, "booking") /\ tripLock' = tripLock
      /\ ~Drafted(q, it.num) /\ it.trip \in Trips /\ tripLock[it.trip] = q /\ want[q] \in Labels
  BY DEF SyncBooking, AtWork, CallInv, CallOK
<1>2. owner[q] \in Devices /\ it.num \in Numbers /\ it.kind = "booking" /\ at[q] \in DOMAIN Batch[owner[q]]
  BY <1>1, AtWorkOwner, ItemTyped
<1>3. LocksKept(q) /\ tripLock' \in [Trips -> Calls \cup {None}]
  BY <1>1 DEF LocksKept, CallInv, Typed
<1>4. CASE Reject(q, "seat_conflict")
  BY <1>1, <1>3, <1>4, RejectShape DEF Reasons
<1>5. CASE AddBooking(q) /\ booked[it.num] = None /\ ~SeatTaken(q, it.trip, want[q]) /\ MayInsert(q)
  <2> DEFINE row == [trip |-> it.trip, seat |-> want[q], status |-> "active", by |-> owner[q]]
  <2>1. /\ NextItem(q) /\ UNCHANGED <<dbVars, owner, answer>>
        /\ row \in Rows
        /\ draft' \in [Calls -> Drafts] /\ report' \in [Calls -> Reports]
        /\ draft'[q].booked[it.num] = row
        /\ \A n \in Numbers \ {it.num} : draft'[q].booked[n] = draft[q].booked[n]
        /\ draft'[q].parcels = draft[q].parcels /\ draft'[q].boarded = draft[q].boarded
        /\ report'[q].errors = report[q].errors
        /\ report'[q].conflicts \subseteq report[q].conflicts \cup {<<it.num, want[q]>>}
        /\ \A p \in Calls \ {q} : draft'[p] = draft[p] /\ report'[p] = report[p]
    BY <1>1, <1>2, <1>5, AddBookingMoves
  <2>2. pc'[q] = "item" /\ at'[q] = at[q] + 1
    BY <2>1, NextItemMoves
  <2>3. Typed'
    BY <1>3, <2>1, NextItemMoves DEF CallInv, Typed, dbVars
  <2>4. CallOK(q)'
    BY <1>2, <2>1, <2>2 DEF CallOK, AtWork
  <2>5. OthersSame(q)
    BY <2>1, NextItemMoves DEF OthersSame
  <2>6. Going(q)
    BY <1>1, <1>2, <1>3, <2>1, <2>2, <2>5 DEF Going, AtWork
  <2>7. \A p \in Calls : ~Drafted(p, it.num)
    BY <1>1, <1>2, <1>5 DEF MayInsert, NumberPending
  <2>8. InBatch(owner[q], it.num)
    BY <1>2 DEF InBatch, ThisItem
  <2>9. Book(q)
    BY <1>1, <1>2, <1>5, <2>1, <2>2, <2>6, <2>7, <2>8 DEF Book
  <2> QED
    BY <2>3, <2>4, <2>9
<1> QED
  BY <1>4, <1>5 DEF SyncBooking

LEMMA CheckParcelShape ==
    ASSUME CallInv, NEW q \in Calls, CheckParcel(q) PROVE Quiet(q) /\ Typed' /\ CallOK(q)'
<1>1. pc[q] = "item" /\ pc[q] \in AtWork /\ HasItem(q, "parcel") /\ tripLock' = tripLock
  BY DEF CheckParcel, AtWork
<1>2. owner[q] \in Devices /\ ThisItem(q).num \in Numbers /\ ThisItem(q).kind = "parcel"
  BY <1>1, AtWorkOwner, ItemTyped
<1>3. LocksKept(q) /\ tripLock' \in [Trips -> Calls \cup {None}]
  BY <1>1 DEF LocksKept, CallInv, Typed
<1>4. CASE /\ ThisItem(q).num \in parcels \cup draft[q].parcels /\ NextItem(q)
           /\ UNCHANGED <<dbVars, owner, draft, report, answer>>
  <2>1. Settles(q)
    BY <1>2, <1>4 DEF Settles, Handled, ThisItem, dbVars
  <2> QED
    BY <1>1, <1>4, <2>1, SkipShape DEF CallInv, Typed
<1>5. CASE Goto(q, "parcel") /\ UNCHANGED <<dbVars, owner, at, want, draft, report, answer>>
  <2>1. pc'[q] = "parcel"
    BY <1>5 DEF Goto, CallInv, Typed
  <2>2. HasItem(q, "parcel")'
    BY <1>1, <1>5 DEF HasItem, ThisItem
  <2>3. CallOK(q)'
    BY <1>2, <1>5, <2>1, <2>2 DEF CallOK, AtWork
  <2> QED
    BY <1>1, <1>3, <1>5, <2>3, StageShape DEF CallInv, Typed, AtWork
<1>6. CASE Reject(q, "invalid")
  BY <1>1, <1>3, <1>6, RejectShape DEF Reasons
<1> QED
  BY <1>4, <1>5, <1>6 DEF CheckParcel

LEMMA DraftTyped ==
    ASSUME CallInv, NEW q \in Calls
    PROVE  /\ draft[q] = [booked |-> draft[q].booked, parcels |-> draft[q].parcels,
                          boarded |-> draft[q].boarded]
           /\ draft[q].booked \in [Numbers -> Rows \cup {None}]
           /\ draft[q].parcels \in SUBSET Numbers /\ draft[q].boarded \in SUBSET Numbers
           /\ draft \in [Calls -> Drafts]
  BY DEF CallInv, Typed, Drafts

LEMMA SyncParcelShape ==
    ASSUME CallInv, NEW q \in Calls, SyncParcel(q)
    PROVE  (Quiet(q) /\ Typed' /\ CallOK(q)') \/ Abort(q)
<1> DEFINE n == ThisItem(q).num
<1>1. pc[q] = "parcel" /\ pc[q] \in AtWork /\ HasItem(q, "parcel")
  BY DEF SyncParcel, AtWork, CallInv, CallOK
<1>2. owner[q] \in Devices /\ n \in Numbers /\ ThisItem(q).kind = "parcel"
  BY <1>1, AtWorkOwner, ItemTyped
<1>3. CASE /\ draft' = [draft EXCEPT ![q].parcels = @ \cup {n}] /\ NextItem(q)
           /\ UNCHANGED <<dbVars, tripLock, owner, report, answer>>
  <2> DEFINE more == draft[q].parcels \cup {n}
             new  == [booked |-> draft[q].booked, parcels |-> more, boarded |-> draft[q].boarded]
  <2>1. draft' = [draft EXCEPT ![q] = [draft[q] EXCEPT !.parcels = more]]
    BY <1>3
  <2>2. [draft[q] EXCEPT !.parcels = more] = new
    <3>1. draft[q] = [booked |-> draft[q].booked, parcels |-> draft[q].parcels,
                      boarded |-> draft[q].boarded]
      BY DraftTyped
    <3> QED
      BY <3>1
  <2>3. new \in Drafts
    BY <1>2, DraftTyped DEF Drafts
  <2>4. /\ draft' \in [Calls -> Drafts] /\ draft'[q] = new
        /\ \A p \in Calls \ {q} : draft'[p] = draft[p]
    BY <2>1, <2>2, <2>3, DraftTyped
  <2>5. Settles(q)
    BY <1>2, <1>3, <2>4 DEF Settles, Handled, ThisItem, dbVars
  <2> QED
    BY <1>1, <1>3, <2>4, <2>5, SkipShape
<1> QED
  BY <1>3 DEF SyncParcel

LEMMA SyncBoardingShape ==
    ASSUME CallInv, NEW q \in Calls, SyncBoarding(q) PROVE Quiet(q) /\ Typed' /\ CallOK(q)'
<1> DEFINE n == ThisItem(q).num
<1>1. pc[q] = "item" /\ pc[q] \in AtWork /\ HasItem(q, "boarding") /\ tripLock' = tripLock
  BY DEF SyncBoarding, AtWork
<1>2. owner[q] \in Devices /\ n \in Numbers /\ ThisItem(q).kind = "boarding"
  BY <1>1, AtWorkOwner, ItemTyped
<1>3. CASE Reject(q, "invalid")
  BY <1>1, <1>3, RejectShape DEF Reasons, LocksKept, CallInv, Typed
<1>4. CASE /\ draft' = [draft EXCEPT ![q].boarded = @ \cup {n}] /\ NextItem(q)
           /\ UNCHANGED <<dbVars, owner, report, answer>>
  <2> DEFINE more == draft[q].boarded \cup {n}
             new  == [booked |-> draft[q].booked, parcels |-> draft[q].parcels, boarded |-> more]
  <2>1. draft' = [draft EXCEPT ![q] = [draft[q] EXCEPT !.boarded = more]]
    BY <1>4
  <2>2. [draft[q] EXCEPT !.boarded = more] = new
    <3>1. draft[q] = [booked |-> draft[q].booked, parcels |-> draft[q].parcels,
                      boarded |-> draft[q].boarded]
      BY DraftTyped
    <3> QED
      BY <3>1
  <2>3. new \in Drafts
    BY <1>2, DraftTyped DEF Drafts
  <2>4. /\ draft' \in [Calls -> Drafts] /\ draft'[q] = new
        /\ \A p \in Calls \ {q} : draft'[p] = draft[p]
    BY <2>1, <2>2, <2>3, DraftTyped
  <2>5. Settles(q)
    BY <1>2, <1>4, <2>4 DEF Settles, Handled, ThisItem, dbVars
  <2> QED
    BY <1>1, <1>4, <2>4, <2>5, SkipShape
<1> QED
  BY <1>3, <1>4 DEF SyncBoarding

LEMMA StepShape ==
    ASSUME CallInv, NEW q \in Calls, Step(q) \/ Crash(q) \/ DeadlockAbort(q)
    PROVE  \/ (Quiet(q) \/ Book(q)) /\ Typed' /\ CallOK(q)'
           \/ Commit(q)
           \/ Abort(q)
  BY CheckTicketShape, TakeTripShape, SyncBookingShape, CheckParcelShape, SyncParcelShape,
     SyncBoardingShape DEF Step, Crash, DeadlockAbort

------------------------------------------------------------------------------
(* Calls and drafts stay well formed. *)

\* A call that another one, or the desk, cannot reach.
LEMMA CallUntouched ==
    ASSUME CallInv, NEW p \in Calls,
           pc'[p] = pc[p], owner'[p] = owner[p], at'[p] = at[p], want'[p] = want[p],
           draft'[p] = draft[p], report'[p] = report[p],
           \A t \in Trips : tripLock[t] = p => tripLock'[t] = p
    PROVE  CallOK(p)'
<1>1. CallOK(p)
  BY DEF CallInv
<1>2. /\ ThisItem(p)' = ThisItem(p) /\ Drafted(p, ThisItem(p).num)' = Drafted(p, ThisItem(p).num)
      /\ HasItem(p, "booking")' = HasItem(p, "booking") /\ HasItem(p, "parcel")' = HasItem(p, "parcel")
  BY DEF ThisItem, Drafted, HasItem
<1> QED
  BY <1>1, <1>2 DEF CallOK

LEMMA DraftUntouched ==
    ASSUME CallInv, NEW p \in Calls, owner'[p] = owner[p] \/ draft[p] = NoDraft,
           draft'[p].booked = draft[p].booked,
           \A t \in Trips : tripLock[t] = p => tripLock'[t] = p,
           \A n \in Numbers : Drafted(p, n) => booked'[n] = None,
           \A n \in Numbers, c \in Calls : Drafted(p, n) /\ Drafted(c, n)' => c = p
    PROVE  DraftOK(p)'
<1> SUFFICES ASSUME NEW n \in Numbers, Drafted(p, n)' PROVE DraftedWell(p, n)'
  BY DEF DraftOK
<1>1. Drafted(p, n) /\ DraftedWell(p, n)
  BY DEF CallInv, DraftOK, Drafted
<1>2. owner'[p] = owner[p]
  BY <1>1 DEF NoDraft, Drafted
<1>3. draft[p].booked[n] \in Rows /\ draft[p].booked[n].trip \in Trips
  BY <1>1 DEF DraftedWell, Rows
<1> QED
  BY <1>1, <1>2, <1>3 DEF DraftedWell

\* Nobody drafts, and no committed booking appears.
LEMMA DraftsSame ==
    ASSUME CallInv, UNCHANGED owner, \A p \in Calls : draft'[p].booked = draft[p].booked,
           \A p \in Calls, t \in Trips : tripLock[t] = p => tripLock'[t] = p,
           \A n \in Numbers : booked[n] = None => booked'[n] = None
    PROVE  \A p \in Calls : DraftOK(p)'
<1> SUFFICES ASSUME NEW p \in Calls PROVE DraftOK(p)'
  OBVIOUS
<1>1. \A n \in Numbers : Drafted(p, n) => booked'[n] = None
  BY DEF CallInv, DraftOK, DraftedWell
<1>2. \A n \in Numbers, c \in Calls : Drafted(p, n) /\ Drafted(c, n)' => c = p
  BY DEF CallInv, DraftOK, DraftedWell, Drafted
<1> QED
  BY <1>1, <1>2, DraftUntouched

LEMMA GoingLocks ==
    ASSUME CallInv, NEW q \in Calls, LocksKept(q)
    PROVE  \A p \in Calls, t \in Trips : tripLock[t] = p => tripLock'[t] = p
<1>1. None \notin Calls
  BY SyncConstants
<1> QED
  BY <1>1 DEF LocksKept

LEMMA QuietCalls == ASSUME CallInv, NEW q \in Calls, Quiet(q), Typed', CallOK(q)' PROVE CallInv'
<1>1. \A p \in Calls : draft'[p].booked = draft[p].booked
  BY DEF Quiet, Going, OthersSame
<1>2. \A p \in Calls, t \in Trips : tripLock[t] = p => tripLock'[t] = p
  BY GoingLocks DEF Quiet, Going
<1>3. UNCHANGED <<owner, booked>>
  BY DEF Quiet, Going, dbVars
<1>4. \A p \in Calls : DraftOK(p)'
  BY <1>1, <1>2, <1>3, DraftsSame
<1>5. \A p \in Calls \ {q} : CallOK(p)'
  BY <1>2, CallUntouched DEF Quiet, Going, OthersSame
<1>6. \A n \in Numbers : SyncedWell(n)'
  BY <1>3 DEF CallInv, SyncedWell
<1> QED
  BY <1>4, <1>5, <1>6 DEF CallInv

LEMMA BookCalls == ASSUME CallInv, NEW q \in Calls, Book(q), Typed', CallOK(q)' PROVE CallInv'
<1> DEFINE it  == ThisItem(q)
           row == [trip |-> it.trip, seat |-> want[q], status |-> "active", by |-> owner[q]]
<1>1. Going(q) /\ UNCHANGED <<owner, booked>> /\ OthersSame(q) /\ it.num \in Numbers
  BY DEF Book, Going, dbVars
<1>2. \A p \in Calls, t \in Trips : tripLock[t] = p => tripLock'[t] = p
  BY <1>1, GoingLocks DEF Going
<1>3. \A p \in Calls \ {q} : CallOK(p)'
  BY <1>1, <1>2, CallUntouched DEF OthersSame
<1>4. /\ draft'[q].booked[it.num] = row /\ row \in Rows
      /\ \A n \in Numbers \ {it.num} : draft'[q].booked[n] = draft[q].booked[n]
  BY DEF Book
<1>5. \A p \in Calls : ~Drafted(p, it.num)
  BY DEF Book
<1>6. \A p \in Calls \ {q}, n \in Numbers : Drafted(p, n)' = Drafted(p, n)
  BY <1>1 DEF OthersSame, Drafted
<1>7. \A n \in Numbers \ {it.num} : Drafted(q, n)' = Drafted(q, n)
  BY <1>4 DEF Drafted
<1>8. ASSUME NEW p \in Calls, NEW n \in Numbers, Drafted(p, n)
      PROVE  DraftedWell(p, n) /\ n # it.num /\ \A c \in Calls : Drafted(c, n)' => c = p
  <2>1. DraftedWell(p, n) /\ n # it.num
    BY <1>5, <1>8 DEF CallInv, DraftOK
  <2> QED
    BY <1>6, <1>7, <2>1 DEF DraftedWell
<1>9. \A p \in Calls \ {q} : DraftOK(p)'
  <2> SUFFICES ASSUME NEW p \in Calls \ {q} PROVE DraftOK(p)'
    OBVIOUS
  <2>1. \A n \in Numbers : Drafted(p, n) => booked'[n] = None
    BY <1>1, <1>8 DEF DraftedWell
  <2>2. \A n \in Numbers, c \in Calls : Drafted(p, n) /\ Drafted(c, n)' => c = p
    BY <1>8
  <2>3. owner'[p] = owner[p] /\ draft'[p].booked = draft[p].booked
    BY <1>1 DEF OthersSame
  <2> QED
    BY <1>2, <2>1, <2>2, <2>3, DraftUntouched
<1>10. ASSUME NEW n \in Numbers, Drafted(q, n)' PROVE DraftedWell(q, n)'
  <2>1. CASE n = it.num
    <3>1. /\ row.trip \in Trips /\ row.status = "active" /\ row.by = owner[q] /\ row.trip = it.trip
          /\ tripLock[it.trip] = q /\ booked[n] = None /\ InBatch(owner[q], n)
      BY <2>1 DEF Book
    <3>2. \A p \in Calls : Drafted(p, n)' => p = q
      BY <1>5, <1>6, <2>1
    <3>3. tripLock'[it.trip] = q
      BY <1>2, <3>1
    <3> QED
      BY <1>1, <1>4, <2>1, <3>1, <3>2, <3>3 DEF DraftedWell, InBatch
  <2>2. CASE n # it.num
    <3>1. Drafted(q, n) /\ DraftedWell(q, n) /\ \A c \in Calls : Drafted(c, n)' => c = q
      BY <1>7, <1>8, <1>10, <2>2
    <3>2. draft'[q].booked[n] = draft[q].booked[n] /\ draft[q].booked[n].trip \in Trips
      BY <1>4, <2>2, <3>1 DEF DraftedWell, Rows
    <3> QED
      BY <1>1, <1>2, <3>1, <3>2 DEF DraftedWell
  <2> QED
    BY <2>1, <2>2
<1>11. \A n \in Numbers : SyncedWell(n)'
  BY <1>1 DEF CallInv, SyncedWell
<1> QED
  BY <1>3, <1>9, <1>10, <1>11 DEF CallInv, DraftOK

\* What an aborted call leaves behind.
LEMMA AbortMoves ==
    ASSUME CallInv, NEW q \in Calls, Abort(q)
    PROVE  /\ OthersSame(q) /\ UNCHANGED <<dbVars, answer>>
           /\ pc'[q] = "ended" /\ draft'[q] = NoDraft /\ report'[q] = NoReport
           /\ Typed'
           /\ \A p \in Calls \ {q}, t \in Trips : tripLock[t] = p => tripLock'[t] = p
<1>1. NoDraft \in Drafts /\ NoReport \in Reports /\ "ended" \in Stages
  BY DEF NoDraft, NoReport, Drafts, Reports, Stages
<1>2. UNCHANGED <<dbVars, answer>> /\ tripLock' = [t \in Trips |-> IF tripLock[t] = q THEN None ELSE tripLock[t]]
  BY DEF Abort, Release
<1>3. /\ pc' = [pc EXCEPT ![q] = "ended"] /\ owner' = [owner EXCEPT ![q] = None]
      /\ at' = [at EXCEPT ![q] = 1] /\ want' = [want EXCEPT ![q] = None]
      /\ draft' = [draft EXCEPT ![q] = NoDraft] /\ report' = [report EXCEPT ![q] = NoReport]
  BY DEF Abort, Goto, Forget
<1>4. OthersSame(q)
  BY <1>3 DEF OthersSame, CallInv, Typed
<1>5. tripLock' \in [Trips -> Calls \cup {None}]
  BY <1>2 DEF CallInv, Typed
<1>6. Typed'
  BY <1>1, <1>2, <1>3, <1>5 DEF CallInv, Typed, dbVars
<1> QED
  BY <1>2, <1>3, <1>4, <1>6 DEF CallInv, Typed

LEMMA NothingDrafted == ASSUME NEW q \in Calls, draft[q] = NoDraft PROVE \A n \in Numbers : ~Drafted(q, n)
  BY DEF NoDraft, Drafted

\* The step of a call that is left with no draft.
LEMMA LeaveCalls ==
    ASSUME CallInv, NEW q \in Calls, OthersSame(q), draft'[q] = NoDraft, Typed', CallOK(q)',
           \A p \in Calls \ {q}, t \in Trips : tripLock[t] = p => tripLock'[t] = p,
           \A p \in Calls \ {q}, n \in Numbers : Drafted(p, n) => booked'[n] = None,
           \A n \in Numbers : SyncedWell(n)'
    PROVE  CallInv'
<1>1. \A n \in Numbers : ~Drafted(q, n)'
  BY DEF NoDraft, Drafted
<1>2. \A p \in Calls \ {q} : CallOK(p)'
  BY CallUntouched DEF OthersSame
<1>3. \A p \in Calls \ {q} : DraftOK(p)'
  <2> SUFFICES ASSUME NEW p \in Calls \ {q} PROVE DraftOK(p)'
    OBVIOUS
  <2>1. \A c \in Calls, n \in Numbers : Drafted(c, n)' => Drafted(c, n)
    BY <1>1 DEF OthersSame, Drafted
  <2>2. \A n \in Numbers, c \in Calls : Drafted(p, n) /\ Drafted(c, n)' => c = p
    BY <2>1 DEF CallInv, DraftOK, DraftedWell
  <2>3. owner'[p] = owner[p] /\ draft'[p].booked = draft[p].booked
    BY DEF OthersSame
  <2> QED
    BY <2>2, <2>3, DraftUntouched
<1>4. DraftOK(q)'
  BY <1>1 DEF DraftOK
<1> QED
  BY <1>2, <1>3, <1>4 DEF CallInv

LEMMA AbortCalls == ASSUME CallInv, NEW q \in Calls, Abort(q) PROVE CallInv'
<1>1. CallOK(q)'
  BY AbortMoves DEF CallOK, AtWork
<1>2. \A p \in Calls \ {q}, n \in Numbers : Drafted(p, n) => booked'[n] = None
  BY AbortMoves DEF dbVars, CallInv, DraftOK, DraftedWell
<1>3. \A n \in Numbers : SyncedWell(n)'
  BY AbortMoves DEF dbVars, CallInv, SyncedWell
<1> QED
  BY <1>1, <1>2, <1>3, AbortMoves, LeaveCalls

LEMMA SeenTyped ==
    ASSUME CallInv, NEW q \in Calls, NEW n \in Numbers
    PROVE  /\ Seen(q, n) \in Rows \cup {None}
           /\ Drafted(q, n) => Seen(q, n) = draft[q].booked[n] /\ Seen(q, n) # None /\ booked[n] = None
           /\ ~Drafted(q, n) => Seen(q, n) = booked[n]
           /\ booked[n] # None => Seen(q, n) = booked[n]
<1>1. draft[q].booked[n] \in Rows \cup {None} /\ booked[n] \in Rows \cup {None}
  BY DraftTyped DEF CallInv, Typed
<1>2. Drafted(q, n) => booked[n] = None
  BY DEF CallInv, DraftOK, DraftedWell
<1> QED
  BY <1>1, <1>2 DEF Seen, Drafted

\* A commit makes what the call saw what everyone sees.
LEMMA CommitMoves ==
    ASSUME CallInv, NEW q \in Calls, Commit(q)
    PROVE  /\ pc[q] = "item" /\ pc'[q] = "done" /\ OthersSame(q) /\ draft'[q] = NoDraft
           /\ owner[q] \in Devices /\ at[q] > Len(Batch[owner[q]])
           /\ UNCHANGED <<open, owner, at, want, report, answer>>
           /\ \A n \in Numbers : booked'[n] = Seen(q, n)
           /\ \A t \in Trips : avail'[t] = SeatsLeft(q, t)
           /\ parcels' = parcels \cup draft[q].parcels /\ boarded' = boarded \cup draft[q].boarded
           /\ tripLock' = [t \in Trips |-> IF tripLock[t] = q THEN None ELSE tripLock[t]]
           /\ \A p \in Calls \ {q}, t \in Trips : tripLock[t] = p => tripLock'[t] = p
           /\ Typed'
<1>1. NoDraft \in Drafts /\ "done" \in Stages
  BY DEF NoDraft, Drafts, Stages
<1>2. /\ pc[q] = "item" /\ at[q] > Len(Batch[owner[q]])
      /\ UNCHANGED <<open, owner, at, want, report, answer>>
      /\ booked' = [n \in Numbers |-> Seen(q, n)] /\ avail' = [t \in Trips |-> SeatsLeft(q, t)]
      /\ parcels' = parcels \cup draft[q].parcels /\ boarded' = boarded \cup draft[q].boarded
      /\ pc' = [pc EXCEPT ![q] = "done"] /\ draft' = [draft EXCEPT ![q] = NoDraft]
      /\ tripLock' = [t \in Trips |-> IF tripLock[t] = q THEN None ELSE tripLock[t]]
  BY DEF Commit, Goto, Release
<1>3. owner[q] \in Devices
  BY <1>2 DEF CallInv, CallOK, AtWork
<1>4. OthersSame(q)
  BY <1>2 DEF OthersSame, CallInv, Typed
<1>5. booked' \in [Numbers -> Rows \cup {None}]
  BY <1>2, SeenTyped
<1>6. avail' \in [Trips -> Int]
  <2>1. ASSUME NEW t \in Trips PROVE SeatsLeft(q, t) \in Int
    <3> DEFINE D == {n \in Numbers : Drafted(q, n) /\ draft[q].booked[n].trip = t}
    <3>1. IsFiniteSet(D)
      BY SyncConstants, FS_Subset
    <3>2. Cardinality(D) \in Nat
      BY <3>1, FS_CardinalityType
    <3>3. SeatsLeft(q, t) = avail[t] - Cardinality(D)
      BY DEF SeatsLeft
    <3> HIDE DEF D
    <3> QED
      BY <3>2, <3>3 DEF CallInv, Typed
  <2> QED
    BY <1>2, <2>1
<1>7. parcels' \subseteq Numbers /\ boarded' \subseteq Numbers
  BY <1>2, DraftTyped DEF CallInv, Typed
<1>8. tripLock' \in [Trips -> Calls \cup {None}]
  BY <1>2 DEF CallInv, Typed
<1>9. Typed'
  BY <1>1, <1>2, <1>5, <1>6, <1>7, <1>8 DEF CallInv, Typed
<1> QED
  BY <1>2, <1>3, <1>4, <1>9 DEF CallInv, Typed

LEMMA CommitCalls == ASSUME CallInv, NEW q \in Calls, Commit(q) PROVE CallInv'
<1>1. CallOK(q)'
  BY CommitMoves DEF CallOK, AtWork
<1>2. \A p \in Calls \ {q}, n \in Numbers : Drafted(p, n) => booked'[n] = None
  <2> SUFFICES ASSUME NEW p \in Calls \ {q}, NEW n \in Numbers, Drafted(p, n) PROVE booked'[n] = None
    OBVIOUS
  <2>1. booked[n] = None /\ ~Drafted(q, n)
    BY DEF CallInv, DraftOK, DraftedWell
  <2> QED
    BY <2>1, SeenTyped, CommitMoves
<1>3. ASSUME NEW n \in Numbers PROVE SyncedWell(n)'
  <2>1. CASE Drafted(q, n)
    <3>1. DraftedWell(q, n) /\ booked'[n] = draft[q].booked[n] /\ owner[q] \in Devices
      BY <2>1, SeenTyped, CommitMoves DEF CallInv, DraftOK
    <3>2. owner[q] # None
      BY <3>1, SyncConstants
    <3> QED
      BY <3>1, <3>2 DEF DraftedWell, SyncedWell, InBatch
  <2>2. CASE ~Drafted(q, n)
    BY <2>2, SeenTyped, CommitMoves DEF CallInv, SyncedWell, InBatch
  <2> QED
    BY <2>1, <2>2
<1> QED
  BY <1>1, <1>2, <1>3, CommitMoves, LeaveCalls

LEMMA PostMoves ==
    ASSUME CallInv, NEW q \in Calls, Post(q)
    PROVE  /\ pc[q] = "idle" /\ pc'[q] = "item" /\ owner'[q] \in Devices /\ draft[q] = NoDraft
           /\ UNCHANGED <<dbVars, tripLock, at, want, draft, report, answer>>
           /\ OthersSame(q) /\ Typed'
<1>1. PICK d \in Devices : owner' = [owner EXCEPT ![q] = d]
  BY DEF Post
<1>2. "item" \in Stages /\ "idle" \notin AtWork
  BY DEF Stages, AtWork
<1> QED
  BY <1>1, <1>2 DEF Post, Typed, CallInv, CallOK, OthersSame, dbVars

LEMMA HearMoves ==
    ASSUME CallInv, NEW q \in Calls, Hear(q)
    PROVE  /\ pc[q] = "done" /\ pc'[q] = "ended" /\ owner[q] \in Devices
           /\ draft[q] = NoDraft /\ draft'[q] = NoDraft /\ report'[q] = NoReport
           /\ UNCHANGED <<dbVars, tripLock>> /\ OthersSame(q) /\ Typed'
           /\ \A d \in Devices : answer'[d] = answer[d] \/ (d = owner[q] /\ answer'[d] = report[q])
<1>1. NoDraft \in Drafts /\ NoReport \in Reports /\ "ended" \in Stages
  BY DEF NoDraft, NoReport, Drafts, Reports, Stages
<1>2. /\ pc[q] = "done" /\ owner[q] \in Devices /\ draft[q] = NoDraft
  BY DEF Hear, CallInv, CallOK, AtWork
<1>3. /\ pc' = [pc EXCEPT ![q] = "ended"] /\ owner' = [owner EXCEPT ![q] = None]
      /\ at' = [at EXCEPT ![q] = 1] /\ want' = [want EXCEPT ![q] = None]
      /\ draft' = [draft EXCEPT ![q] = NoDraft] /\ report' = [report EXCEPT ![q] = NoReport]
      /\ UNCHANGED <<dbVars, tripLock>>
      /\ answer' = [answer EXCEPT ![owner[q]] = report[q]] \/ answer' = answer
  BY DEF Hear, Forget
<1>4. answer' \in [Devices -> Reports \cup {None}]
  BY <1>2, <1>3 DEF CallInv, Typed
<1>5. Typed'
  BY <1>1, <1>3, <1>4 DEF CallInv, Typed, dbVars
<1>6. OthersSame(q)
  BY <1>3 DEF OthersSame, CallInv, Typed
<1> QED
  BY <1>1, <1>2, <1>3, <1>5, <1>6 DEF CallInv, Typed

LEMMA EndsCalls == ASSUME CallInv, NEW q \in Calls, Post(q) \/ Hear(q) PROVE CallInv'
<1>1. /\ OthersSame(q) /\ draft'[q] = NoDraft /\ Typed' /\ UNCHANGED <<dbVars, tripLock>>
  BY PostMoves, HearMoves
<1>2. CallOK(q)'
  <2>1. CASE Post(q)
    BY <2>1, PostMoves DEF CallOK, AtWork
  <2>2. CASE Hear(q)
    BY <2>2, HearMoves DEF CallOK, AtWork
  <2> QED
    BY <2>1, <2>2
<1>3. \A p \in Calls \ {q}, n \in Numbers : Drafted(p, n) => booked'[n] = None
  BY <1>1 DEF CallInv, DraftOK, DraftedWell, dbVars
<1>4. \A n \in Numbers : SyncedWell(n)'
  BY <1>1 DEF CallInv, SyncedWell, dbVars
<1> QED
  BY <1>1, <1>2, <1>3, <1>4, LeaveCalls

\* The desk works on trips that no call has locked.
LEMMA SellMoves ==
    ASSUME CallInv, NEW n \in DeskNumbers, NEW t \in Trips, NEW s \in Labels, SellOnline(n, t, s)
    PROVE  LET row == [trip |-> t, seat |-> s, status |-> "active", by |-> None]
           IN  /\ tripLock[t] = None /\ avail[t] > 0 /\ booked[n] = None /\ n \in Numbers
               /\ \A m \in Numbers : ~Holds(booked[m], t, s)
               /\ \A p \in Calls : ~Drafted(p, n)
               /\ row \in Rows /\ booked'[n] = row
               /\ \A m \in Numbers \ {n} : booked'[m] = booked[m]
               /\ avail'[t] = avail[t] - 1 /\ \A u \in Trips \ {t} : avail'[u] = avail[u]
               /\ UNCHANGED <<open, parcels, boarded, tripLock, callVars, answer>> /\ Typed'
<1> DEFINE row == [trip |-> t, seat |-> s, status |-> "active", by |-> None]
<1>1. row \in Rows /\ n \in Numbers
  BY SyncConstants DEF Rows
<1>2. /\ tripLock[t] = None /\ avail[t] > 0 /\ booked[n] = None
      /\ \A m \in Numbers : ~Holds(booked[m], t, s)
      /\ \A p \in Calls : ~Drafted(p, n)
      /\ booked' = [booked EXCEPT ![n] = row] /\ avail' = [avail EXCEPT ![t] = avail[t] - 1]
      /\ UNCHANGED <<open, parcels, boarded, tripLock, callVars, answer>>
  BY DEF SellOnline, RowsHeldBy
<1>3. Typed'
  BY <1>1, <1>2 DEF CallInv, Typed, callVars
<1> QED
  BY <1>1, <1>2, <1>3 DEF CallInv, Typed

LEMMA CancelMoves ==
    ASSUME CallInv, NEW n \in Numbers, CancelOnline(n)
    PROVE  LET t == booked[n].trip
           IN  /\ booked[n] \in Rows /\ booked[n].status # "cancelled" /\ t \in Trips
               /\ tripLock[t] = None
               /\ booked'[n] = [trip |-> t, seat |-> booked[n].seat, status |-> "cancelled",
                                by |-> booked[n].by]
               /\ \A m \in Numbers \ {n} : booked'[m] = booked[m]
               /\ avail'[t] = avail[t] + 1 /\ \A u \in Trips \ {t} : avail'[u] = avail[u]
               /\ UNCHANGED <<open, parcels, boarded, tripLock, callVars, answer>> /\ Typed'
<1> DEFINE t == booked[n].trip
           row == [trip |-> t, seat |-> booked[n].seat, status |-> "cancelled", by |-> booked[n].by]
<1>1. booked[n] \in Rows
  BY DEF CancelOnline, CallInv, Typed
<1>2. /\ booked[n] = [trip |-> t, seat |-> booked[n].seat, status |-> booked[n].status, by |-> booked[n].by]
      /\ t \in Trips /\ row \in Rows
  BY <1>1 DEF Rows
<1>3. booked' = [booked EXCEPT ![n] = row]
  <2>1. booked' = [booked EXCEPT ![n] = [booked[n] EXCEPT !.status = "cancelled"]]
    BY DEF CancelOnline
  <2>2. [booked[n] EXCEPT !.status = "cancelled"] = row
    BY <1>2
  <2> QED
    BY <2>1, <2>2
<1>4. /\ booked[n].status # "cancelled" /\ tripLock[t] = None
      /\ avail' = [avail EXCEPT ![t] = avail[t] + 1]
      /\ UNCHANGED <<open, parcels, boarded, tripLock, callVars, answer>>
  BY DEF CancelOnline
<1>5. Typed'
  BY <1>2, <1>3, <1>4 DEF CallInv, Typed, callVars
<1> QED
  BY <1>1, <1>2, <1>3, <1>4, <1>5 DEF CallInv, Typed

LEMMA DeskCalls == ASSUME CallInv, Desk PROVE CallInv'
<1>1. ASSUME Typed', UNCHANGED <<tripLock, callVars>>,
             \A p \in Calls, n \in Numbers : Drafted(p, n) => booked'[n] = None,
             \A n \in Numbers : SyncedWell(n)'
      PROVE  CallInv'
  <2>1. UNCHANGED <<pc, owner, at, want, draft, report>>
    BY <1>1 DEF callVars
  <2>2. \A p \in Calls : CallOK(p)'
    BY <1>1, <2>1, CallUntouched
  <2>3. \A p \in Calls : DraftOK(p)'
    <3> SUFFICES ASSUME NEW p \in Calls PROVE DraftOK(p)'
      OBVIOUS
    <3>1. \A c \in Calls, n \in Numbers : Drafted(c, n)' = Drafted(c, n)
      BY <2>1 DEF Drafted
    <3>2. \A n \in Numbers, c \in Calls : Drafted(p, n) /\ Drafted(c, n)' => c = p
      BY <3>1 DEF CallInv, DraftOK, DraftedWell
    <3> QED
      BY <1>1, <2>1, <3>2, DraftUntouched
  <2> QED
    BY <1>1, <2>2, <2>3 DEF CallInv
<1>2. \A p \in Calls, n \in Numbers : Drafted(p, n) => booked[n] = None
  BY DEF CallInv, DraftOK, DraftedWell
<1>3. ASSUME NEW n \in DeskNumbers, NEW t \in Trips, NEW s \in Labels, SellOnline(n, t, s)
      PROVE  CallInv'
  <2>1. \A p \in Calls, m \in Numbers : Drafted(p, m) => booked'[m] = None
    BY <1>2, <1>3, SellMoves
  <2>2. ASSUME NEW m \in Numbers PROVE SyncedWell(m)'
    <3>1. booked'[n] = [trip |-> t, seat |-> s, status |-> "active", by |-> None]
      BY <1>3, SellMoves
    <3>2. m # n => booked'[m] = booked[m]
      BY <1>3, SellMoves
    <3>3. m = n => booked'[m].by = None
      BY <3>1
    <3> QED
      BY <3>2, <3>3 DEF CallInv, SyncedWell
  <2> QED
    BY <1>1, <1>3, <2>1, <2>2, SellMoves
<1>4. ASSUME NEW n \in Numbers, CancelOnline(n) PROVE CallInv'
  <2>1. booked[n] # None
    BY <1>4 DEF CancelOnline
  <2>2. booked'[n] = [trip |-> booked[n].trip, seat |-> booked[n].seat, status |-> "cancelled",
                      by |-> booked[n].by]
    BY <1>4, CancelMoves
  <2>3. /\ \A m \in Numbers \ {n} : booked'[m] = booked[m]
        /\ UNCHANGED <<open, parcels, boarded, tripLock, callVars, answer>> /\ Typed'
    BY <1>4, CancelMoves
  <2>4. \A p \in Calls, m \in Numbers : Drafted(p, m) => booked'[m] = None
    BY <1>2, <2>1, <2>3
  <2>5. booked'[n].by = booked[n].by
    BY <2>2
  <2>6. \A m \in Numbers : SyncedWell(m)'
    BY <2>1, <2>3, <2>5 DEF CallInv, SyncedWell
  <2> QED
    BY <1>1, <2>3, <2>4, <2>6
<1>5. ASSUME NEW t \in Trips, CloseTrip(t) PROVE CallInv'
  <2>1. /\ UNCHANGED <<avail, booked, parcels, boarded, tripLock, callVars, answer>>
        /\ open' \in [Trips -> BOOLEAN]
    BY <1>5 DEF CloseTrip, CallInv, Typed
  <2>2. Typed'
    BY <2>1 DEF CallInv, Typed, callVars
  <2>3. \A m \in Numbers : SyncedWell(m)'
    BY <2>1 DEF CallInv, SyncedWell
  <2> QED
    BY <1>1, <1>2, <2>1, <2>2, <2>3
<1> QED
  BY <1>3, <1>4, <1>5 DEF Desk

\* Every step: what a call does by itself, its commit or end, a POST, the desk.
LEMMA NextShape ==
    ASSUME CallInv, [Next]_vars
    PROVE  \/ UNCHANGED vars
           \/ \E q \in Calls : (Quiet(q) \/ Book(q)) /\ Typed' /\ CallOK(q)'
           \/ \E q \in Calls : Commit(q) \/ Abort(q) \/ Post(q) \/ Hear(q)
           \/ Desk
  BY StepShape DEF Next

LEMMA CallsKept == ASSUME CallInv, [Next]_vars PROVE CallInv'
<1>1. CASE UNCHANGED vars
  <2>1. UNCHANGED <<dbVars, tripLock, pc, owner, at, want, draft, report, answer>>
    BY <1>1 DEF vars, callVars
  <2>2. Typed'
    BY <2>1 DEF CallInv, Typed, dbVars
  <2>3. \A p \in Calls : CallOK(p)'
    BY <2>1, CallUntouched
  <2>4. \A p \in Calls : DraftOK(p)'
    BY <2>1, DraftsSame DEF dbVars
  <2>5. \A n \in Numbers : SyncedWell(n)'
    BY <2>1 DEF CallInv, SyncedWell, dbVars
  <2> QED
    BY <2>2, <2>3, <2>4, <2>5 DEF CallInv
<1> QED
  BY <1>1, NextShape, QuietCalls, BookCalls, CommitCalls, AbortCalls, EndsCalls, DeskCalls

LEMMA InitCalls == Init => CallInv
<1> SUFFICES ASSUME Init PROVE CallInv
  OBVIOUS
<1>1. NoDraft \in Drafts /\ NoReport \in Reports /\ "idle" \in Stages /\ "idle" \notin AtWork
  BY DEF NoDraft, NoReport, Drafts, Reports, Stages, AtWork
<1>2. Typed
  BY <1>1, SyncConstants DEF Init, Typed
<1>3. \A q \in Calls : CallOK(q)
  BY <1>1 DEF Init, CallOK
<1>4. \A q \in Calls : DraftOK(q)
  BY NothingDrafted DEF Init, DraftOK
<1>5. \A n \in Numbers : SyncedWell(n)
  BY DEF Init, SyncedWell
<1> QED
  BY <1>2, <1>3, <1>4, <1>5 DEF CallInv

------------------------------------------------------------------------------
(* What a call sees stays: only its own abort takes a booking from it. *)

SameSale(new, old) == new # None /\ new.trip = old.trip /\ new.seat = old.seat /\ new.by = old.by

LEMMA SeenStays ==
    ASSUME CallInv, [Next]_vars, NEW p \in Calls, ~Abort(p), NEW n \in Numbers, Seen(p, n) # None
    PROVE  SameSale(Seen(p, n)', Seen(p, n))
<1>1. CASE UNCHANGED <<booked, draft>>
  BY <1>1 DEF SameSale, Seen, Drafted
<1>2. ASSUME NEW q \in Calls, Quiet(q) PROVE SameSale(Seen(p, n)', Seen(p, n))
  BY <1>2 DEF Quiet, Going, OthersSame, dbVars, SameSale, Seen, Drafted
<1>3. ASSUME NEW q \in Calls, Book(q) PROVE SameSale(Seen(p, n)', Seen(p, n))
  <2>1. /\ booked' = booked /\ ThisItem(q).num \in Numbers
        /\ \A c \in Calls \ {q} : draft'[c] = draft[c]
        /\ \A m \in Numbers \ {ThisItem(q).num} : draft'[q].booked[m] = draft[q].booked[m]
        /\ booked[ThisItem(q).num] = None /\ ~Drafted(q, ThisItem(q).num)
    BY <1>3 DEF Book, Going, OthersSame, dbVars
  <2> QED
    BY <2>1 DEF SameSale, Seen, Drafted
<1>4. ASSUME NEW q \in Calls, Commit(q) PROVE SameSale(Seen(p, n)', Seen(p, n))
  <2>1. booked'[n] = Seen(q, n) /\ (p # q => draft'[p] = draft[p]) /\ draft'[q] = NoDraft
    BY <1>4, CommitMoves DEF OthersSame
  <2>2. CASE p = q
    BY <2>1, <2>2 DEF SameSale, Seen, Drafted, NoDraft
  <2>3. CASE p # q
    BY <2>1, <2>3, SeenTyped DEF SameSale, Seen, Drafted
  <2> QED
    BY <2>2, <2>3
<1>5. ASSUME NEW q \in Calls, Abort(q) PROVE SameSale(Seen(p, n)', Seen(p, n))
  BY <1>5, AbortMoves DEF OthersSame, dbVars, SameSale, Seen, Drafted
<1>6. ASSUME NEW q \in Calls, Post(q) \/ Hear(q) PROVE SameSale(Seen(p, n)', Seen(p, n))
  <2>1. booked' = booked /\ \A c \in Calls : draft'[c] = draft[c]
    BY <1>6, PostMoves, HearMoves DEF OthersSame, dbVars
  <2> QED
    BY <2>1 DEF SameSale, Seen, Drafted
<1>7. CASE Desk
  <2>1. ASSUME NEW m \in DeskNumbers, NEW t \in Trips, NEW s \in Labels, SellOnline(m, t, s)
        PROVE  SameSale(Seen(p, n)', Seen(p, n))
    <3>1. /\ draft' = draft /\ booked[m] = None /\ ~Drafted(p, m)
          /\ \A c \in Numbers \ {m} : booked'[c] = booked[c]
      BY <2>1, SellMoves DEF callVars
    <3> QED
      BY <3>1 DEF SameSale, Seen, Drafted
  <2>2. ASSUME NEW m \in Numbers, CancelOnline(m) PROVE SameSale(Seen(p, n)', Seen(p, n))
    <3>1. draft' = draft /\ \A c \in Numbers \ {m} : booked'[c] = booked[c]
      BY <2>2, CancelMoves DEF callVars
    <3>2. booked'[m] = [trip |-> booked[m].trip, seat |-> booked[m].seat, status |-> "cancelled",
                        by |-> booked[m].by]
      BY <2>2, CancelMoves
    <3>3. booked'[m] # None
      <4>1. booked[m] \in Rows
        BY <2>2, CancelMoves
      <4>2. booked'[m] \in Rows
        BY <3>2, <4>1 DEF Rows
      <4> QED
        BY <4>2, SyncConstants
    <3>4. /\ booked'[m].trip = booked[m].trip /\ booked'[m].seat = booked[m].seat
          /\ booked'[m].by = booked[m].by
      BY <3>2
    <3> QED
      BY <3>1, <3>3, <3>4 DEF SameSale, Seen, Drafted
  <2>3. ASSUME NEW t \in Trips, CloseTrip(t) PROVE SameSale(Seen(p, n)', Seen(p, n))
    BY <1>1, <2>3 DEF CloseTrip, callVars
  <2> QED
    BY <1>7, <2>1, <2>2, <2>3 DEF Desk
<1> QED
  BY <1>1, <1>2, <1>3, <1>4, <1>5, <1>6, <1>7, NextShape DEF vars, dbVars, callVars

------------------------------------------------------------------------------
(* Seats *)

Clash(a, b) ==
    /\ a # None /\ b # None /\ a.trip = b.trip /\ a.seat = b.seat
    /\ a.status # "cancelled" /\ b.status # "cancelled"

\* No seat is held twice, neither in the tables nor in what a call sees.
HeldOnce    == \A m, n \in Numbers : m # n => ~Clash(booked[m], booked[n])
SeenOnce(q) == \A m, n \in Numbers : m # n => ~Clash(Seen(q, m), Seen(q, n))
SeatsInv    == HeldOnce /\ \A q \in Calls : SeenOnce(q)

LEMMA ClashSymmetric == \A a, b : Clash(a, b) => Clash(b, a)
  BY DEF Clash

LEMMA OpenCalls == None \notin Calls
  BY SyncConstants

\* A call books a seat that nobody holds in what it sees.
LEMMA BookSeats == ASSUME CallInv, SeatsInv, NEW q \in Calls, Book(q) PROVE SeatsInv'
<1>1. PICK num \in Numbers, row \in Rows :
        /\ draft'[q].booked[num] = row
        /\ \A n \in Numbers \ {num} : draft'[q].booked[n] = draft[q].booked[n]
        /\ \A n \in Numbers : ~Holds(Seen(q, n), row.trip, row.seat)
  <2> DEFINE it  == ThisItem(q)
             row == [trip |-> it.trip, seat |-> want[q], status |-> "active", by |-> owner[q]]
  <2>1. row.trip = it.trip /\ row.seat = want[q]
    OBVIOUS
  <2> QED
    BY <2>1 DEF Book, SeatTaken
<1>2. booked' = booked /\ \A p \in Calls \ {q} : draft'[p] = draft[p]
  BY DEF Book, Going, OthersSame, dbVars
<1>3. HeldOnce' /\ \A p \in Calls \ {q} : SeenOnce(p)'
  BY <1>2 DEF SeatsInv, HeldOnce, SeenOnce, Seen, Drafted
<1>4. Seen(q, num)' = row /\ \A n \in Numbers \ {num} : Seen(q, n)' = Seen(q, n)
  BY <1>1, <1>2, SyncConstants DEF Seen, Drafted
<1>5. \A n \in Numbers \ {num} : ~Clash(Seen(q, n), row)
  BY <1>1 DEF Clash, Holds
<1>6. \A m, n \in Numbers : m # n => ~Clash(Seen(q, m)', Seen(q, n)')
  BY <1>4, <1>5, ClashSymmetric DEF SeatsInv, SeenOnce
<1>7. SeenOnce(q)'
  BY <1>6 DEF SeenOnce, Clash
<1> QED
  BY <1>3, <1>7 DEF SeatsInv

\* Two calls that draft bookings hold the locks of different trips.
LEMMA CommitSeats == ASSUME CallInv, SeatsInv, NEW q \in Calls, Commit(q) PROVE SeatsInv'
<1>1. /\ \A n \in Numbers : booked'[n] = Seen(q, n)
      /\ \A p \in Calls \ {q} : draft'[p] = draft[p]
      /\ \A n \in Numbers : ~Drafted(q, n)'
  BY CommitMoves DEF OthersSame, NoDraft, Drafted
<1>2. HeldOnce'
  BY <1>1 DEF SeatsInv, SeenOnce, HeldOnce
<1>3. SeenOnce(q)'
  BY <1>1 DEF SeatsInv, SeenOnce, Seen
<1>4. ASSUME NEW p \in Calls \ {q} PROVE SeenOnce(p)'
  <2>1. \A n \in Numbers : /\ Drafted(p, n) => Seen(p, n)' = Seen(p, n)
                           /\ ~Drafted(p, n) => Seen(p, n)' = Seen(q, n)
    BY <1>1 DEF Seen, Drafted
  <2>2. ASSUME NEW m \in Numbers, NEW n \in Numbers, m # n, Drafted(p, m), ~Drafted(p, n)
        PROVE  ~Clash(Seen(p, m)', Seen(p, n)')
    <3>1. Seen(p, m)' = Seen(p, m) /\ Seen(p, n)' = Seen(q, n)
      BY <2>1, <2>2
    <3>2. CASE Drafted(q, n)
      <4>1. Seen(p, m) = draft[p].booked[m] /\ Seen(q, n) = draft[q].booked[n]
        BY <2>2, <3>2 DEF Seen
      <4>2. tripLock[Seen(p, m).trip] = p /\ tripLock[Seen(q, n).trip] = q
        BY <2>2, <3>2, <4>1 DEF CallInv, DraftOK, DraftedWell
      <4> QED
        BY <3>1, <4>2 DEF Clash
    <3>3. CASE ~Drafted(q, n)
      <4>1. Seen(q, n) = Seen(p, n)
        BY <2>2, <3>3 DEF Seen
      <4> QED
        BY <2>2, <3>1, <4>1 DEF SeatsInv, SeenOnce
    <3> QED
      BY <3>2, <3>3
  <2>3. ASSUME NEW m \in Numbers, NEW n \in Numbers, m # n, Drafted(p, m) <=> Drafted(p, n)
        PROVE  ~Clash(Seen(p, m)', Seen(p, n)')
    BY <2>1, <2>3 DEF SeatsInv, SeenOnce
  <2>4. \A m, n \in Numbers : m # n => ~Clash(Seen(p, m)', Seen(p, n)')
    BY <2>2, <2>3, ClashSymmetric
  <2> QED
    BY <2>4 DEF SeenOnce, Clash
<1> QED
  BY <1>2, <1>3, <1>4 DEF SeatsInv

\* The desk sells on a trip that no call has locked, so that none has drafted a booking on it.
LEMMA SellSeats ==
    ASSUME CallInv, SeatsInv, NEW n \in DeskNumbers, NEW t \in Trips, NEW s \in Labels,
           SellOnline(n, t, s)
    PROVE  SeatsInv'
<1> DEFINE row == [trip |-> t, seat |-> s, status |-> "active", by |-> None]
<1>1. /\ tripLock[t] = None /\ draft' = draft /\ booked'[n] = row /\ n \in Numbers
      /\ \A m \in Numbers \ {n} : booked'[m] = booked[m]
      /\ \A m \in Numbers : ~Holds(booked[m], t, s)
      /\ \A p \in Calls : ~Drafted(p, n)
  BY SellMoves DEF callVars
<1>2. row.trip = t /\ row.seat = s
  OBVIOUS
<1> HIDE DEF row
<1>3. \A m \in Numbers \ {n} : ~Clash(booked[m], row)
  BY <1>1, <1>2 DEF Clash, Holds
<1>4. \A k, m \in Numbers : k # m => ~Clash(booked'[k], booked'[m])
  BY <1>1, <1>3, ClashSymmetric DEF SeatsInv, HeldOnce
<1>5. HeldOnce'
  BY <1>4 DEF HeldOnce, Clash
<1>6. ASSUME NEW p \in Calls PROVE SeenOnce(p)'
  <2>1. Seen(p, n)' = row /\ \A m \in Numbers \ {n} : Seen(p, m)' = Seen(p, m)
    BY <1>1 DEF Seen, Drafted
  <2>2. ASSUME NEW m \in Numbers \ {n} PROVE ~Clash(Seen(p, m), row)
    <3>1. CASE Drafted(p, m)
      <4>1. Seen(p, m) = draft[p].booked[m] /\ tripLock[Seen(p, m).trip] = p
        BY <3>1 DEF Seen, CallInv, DraftOK, DraftedWell
      <4> QED
        BY <1>1, <1>2, <4>1, OpenCalls DEF Clash
    <3>2. CASE ~Drafted(p, m)
      BY <1>3, <3>2 DEF Seen
    <3> QED
      BY <3>1, <3>2
  <2>3. \A k, m \in Numbers : k # m => ~Clash(Seen(p, k)', Seen(p, m)')
    BY <2>1, <2>2, ClashSymmetric DEF SeatsInv, SeenOnce
  <2> QED
    BY <2>3 DEF SeenOnce, Clash
<1> QED
  BY <1>5, <1>6 DEF SeatsInv

LEMMA CancelSeats ==
    ASSUME CallInv, SeatsInv, NEW n \in Numbers, CancelOnline(n) PROVE SeatsInv'
<1>1. /\ draft' = draft /\ \A m \in Numbers \ {n} : booked'[m] = booked[m]
      /\ \A p \in Calls : ~Drafted(p, n)
  <2>1. booked[n] # None
    BY DEF CancelOnline
  <2> QED
    BY <2>1, CancelMoves DEF callVars, CallInv, DraftOK, DraftedWell
<1>2. booked'[n].status = "cancelled"
  <2>1. booked'[n] = [trip |-> booked[n].trip, seat |-> booked[n].seat, status |-> "cancelled",
                      by |-> booked[n].by]
    BY CancelMoves
  <2> QED
    BY <2>1
<1>3. \A k, m \in Numbers : k # m => ~Clash(booked'[k], booked'[m])
  BY <1>1, <1>2 DEF Clash, SeatsInv, HeldOnce
<1>4. HeldOnce'
  BY <1>3 DEF HeldOnce, Clash
<1>5. ASSUME NEW p \in Calls PROVE SeenOnce(p)'
  <2>1. Seen(p, n)' = booked'[n] /\ \A m \in Numbers \ {n} : Seen(p, m)' = Seen(p, m)
    BY <1>1 DEF Seen, Drafted
  <2>2. \A k, m \in Numbers : k # m => ~Clash(Seen(p, k)', Seen(p, m)')
    BY <1>2, <2>1 DEF Clash, SeatsInv, SeenOnce
  <2> QED
    BY <2>2 DEF SeenOnce, Clash
<1> QED
  BY <1>4, <1>5 DEF SeatsInv

LEMMA SameSeats ==
    ASSUME SeatsInv, booked' = booked,
           \A p \in Calls : draft'[p].booked = draft[p].booked \/ draft'[p] = NoDraft
    PROVE  SeatsInv'
<1>1. HeldOnce'
  BY DEF SeatsInv, HeldOnce
<1>2. ASSUME NEW p \in Calls PROVE SeenOnce(p)'
  <2>1. CASE draft'[p].booked = draft[p].booked
    BY <2>1 DEF SeatsInv, SeenOnce, Seen, Drafted
  <2>2. CASE draft'[p] = NoDraft
    BY <2>2 DEF SeatsInv, HeldOnce, SeenOnce, Seen, Drafted, NoDraft
  <2> QED
    BY <2>1, <2>2
<1> QED
  BY <1>1, <1>2 DEF SeatsInv

LEMMA SeatsKept == ASSUME CallInv, SeatsInv, [Next]_vars PROVE SeatsInv'
<1>1. CASE UNCHANGED vars
  BY <1>1, SameSeats DEF vars, dbVars, callVars
<1>2. ASSUME NEW q \in Calls, Quiet(q) \/ Abort(q) \/ Post(q) \/ Hear(q) PROVE SeatsInv'
  <2>1. CASE Quiet(q)
    BY <2>1, SameSeats DEF Quiet, Going, OthersSame, dbVars
  <2>2. CASE Abort(q)
    BY <2>2, SameSeats, AbortMoves DEF OthersSame, dbVars
  <2>3. CASE Post(q) \/ Hear(q)
    BY <2>3, SameSeats, PostMoves, HearMoves DEF OthersSame, dbVars
  <2> QED
    BY <1>2, <2>1, <2>2, <2>3
<1>3. CASE Desk
  <2>1. ASSUME NEW t \in Trips, CloseTrip(t) PROVE SeatsInv'
    BY <2>1, SameSeats DEF CloseTrip, callVars
  <2> QED
    BY <1>3, <2>1, SellSeats, CancelSeats DEF Desk
<1> QED
  BY <1>1, <1>2, <1>3, NextShape, BookSeats, CommitSeats

------------------------------------------------------------------------------
(* Counters *)

Sold(q, t) == {n \in Numbers : Drafted(q, n) /\ draft[q].booked[n].trip = t}

\* The counter is exact, and what a call sells under its locks is not more than it shows.
SeatsEnough(q) ==
    /\ \A t \in Trips : SeatsLeft(q, t) >= 0
    /\ pc[q] = "insert" => SeatsLeft(q, ThisItem(q).trip) > 0

CountInv ==
    /\ SeatsExact
    /\ \A t \in Trips : avail[t] >= 0
    /\ \A q \in Calls : SeatsEnough(q)

LEMMA SoldFinite ==
    ASSUME NEW q, NEW t PROVE IsFiniteSet(Sold(q, t)) /\ Cardinality(Sold(q, t)) \in Nat
<1>1. Sold(q, t) \subseteq Numbers
  BY DEF Sold
<1> QED
  BY <1>1, SyncConstants, FS_Subset, FS_CardinalityType

LEMMA ActiveFinite ==
    ASSUME NEW t PROVE IsFiniteSet(ActiveSeats(t)) /\ Cardinality(ActiveSeats(t)) \in Nat
<1>1. ActiveSeats(t) \subseteq Numbers
  BY DEF ActiveSeats
<1> QED
  BY <1>1, SyncConstants, FS_Subset, FS_CardinalityType

LEMMA SeatsLeftIs ==
    ASSUME NEW q, NEW t
    PROVE  /\ SeatsLeft(q, t) = avail[t] - Cardinality(Sold(q, t))
           /\ SeatsLeft(q, t)' = avail'[t] - Cardinality(Sold(q, t)')
  BY DEF SeatsLeft, Sold

\* A call that has sold seats of a trip holds its lock.
LEMMA SoldLocked ==
    ASSUME CallInv, NEW q \in Calls, NEW t \in Trips, tripLock[t] # q
    PROVE  Sold(q, t) = {} /\ SeatsLeft(q, t) = avail[t]
<1>1. Sold(q, t) = {}
  BY DEF Sold, CallInv, DraftOK, DraftedWell
<1>2. Cardinality(Sold(q, t)) = 0
  BY <1>1, FS_EmptySet
<1>3. avail[t] \in Int
  BY DEF CallInv, Typed
<1> QED
  BY <1>1, <1>2, <1>3, SeatsLeftIs

LEMMA NothingSold ==
    ASSUME CallInv', NEW q \in Calls, draft'[q] = NoDraft, NEW t \in Trips
    PROVE  SeatsLeft(q, t)' = avail'[t]
<1>1. Sold(q, t)' = {}
  BY DEF Sold, Drafted, NoDraft
<1>2. Cardinality(Sold(q, t)') = 0
  BY <1>1, FS_EmptySet
<1>3. avail'[t] \in Int
  BY DEF CallInv, Typed
<1> QED
  BY <1>2, <1>3, SeatsLeftIs

\* The trip of the booking that a call is about to insert is locked by it.
LEMMA InsertLocked ==
    ASSUME CallInv, NEW q \in Calls, pc[q] = "insert"
    PROVE  ThisItem(q).trip \in Trips /\ tripLock[ThisItem(q).trip] = q
  BY DEF CallInv, CallOK

\* A call that does not move and whose trips nobody else can change.
LEMMA StillEnough ==
    ASSUME CallInv, CountInv, CallInv', NEW p \in Calls,
           pc'[p] = pc[p], owner'[p] = owner[p], at'[p] = at[p],
           draft'[p].booked = draft[p].booked,
           \A t \in Trips : tripLock[t] = p => avail'[t] = avail[t],
           \A t \in Trips : tripLock[t] = p => tripLock'[t] = p,
           \A t \in Trips : avail'[t] >= 0
    PROVE  SeatsEnough(p)'
<1>1. \A t \in Trips : Sold(p, t)' = Sold(p, t)
  BY DEF Sold, Drafted
<1>2. ASSUME NEW t \in Trips PROVE SeatsLeft(p, t)' >= 0
  <2>1. CASE tripLock[t] = p
    <3>1. SeatsLeft(p, t)' = SeatsLeft(p, t)
      BY <1>1, <2>1, SeatsLeftIs
    <3> QED
      BY <3>1 DEF CountInv, SeatsEnough
  <2>2. CASE tripLock[t] # p
    <3>1. Cardinality(Sold(p, t)') = 0
      BY <1>1, <2>2, SoldLocked, FS_EmptySet
    <3>2. SeatsLeft(p, t)' = avail'[t] - Cardinality(Sold(p, t)')
      BY SeatsLeftIs
    <3> QED
      BY <3>1, <3>2 DEF CallInv, Typed
  <2> QED
    BY <2>1, <2>2
<1>3. ASSUME pc'[p] = "insert" PROVE (SeatsLeft(p, ThisItem(p).trip) > 0)'
  <2>1. ThisItem(p)' = ThisItem(p)
    BY DEF ThisItem
  <2>2. PICK t \in Trips : t = ThisItem(p).trip /\ tripLock[t] = p
    BY <1>3, InsertLocked
  <2>3. SeatsLeft(p, t)' = SeatsLeft(p, t)
    BY <1>1, <2>2, SeatsLeftIs
  <2>4. SeatsLeft(p, t) > 0
    BY <1>3, <2>2 DEF CountInv, SeatsEnough
  <2>5. (SeatsLeft(p, t) > 0)'
    BY <2>3, <2>4
  <2> QED
    BY <2>1, <2>2, <2>5 DEF SeatsLeft
<1> QED
  BY <1>2, <1>3 DEF SeatsEnough

LEMMA SameCounts == ASSUME SeatsExact, UNCHANGED <<avail, booked>> PROVE SeatsExact'
<1>1. \A t \in Trips : ActiveSeats(t)' = ActiveSeats(t)
  BY DEF ActiveSeats
<1> QED
  BY <1>1 DEF SeatsExact

LEMMA QuietCounts == ASSUME CallInv, CallInv', CountInv, NEW q \in Calls, Quiet(q) PROVE CountInv'
<1>1. /\ UNCHANGED <<avail, booked>> /\ OthersSame(q) /\ draft'[q].booked = draft[q].booked
      /\ pc'[q] = "insert" => SeatsLeft(q, ThisItem(q).trip)' > 0
      /\ \A p \in Calls, t \in Trips : tripLock[t] = p => tripLock'[t] = p
  BY GoingLocks DEF Quiet, Going, dbVars
<1>2. SeatsExact' /\ \A t \in Trips : avail'[t] >= 0
  BY <1>1, SameCounts DEF CountInv
<1>3. \A p \in Calls \ {q} : SeatsEnough(p)'
  BY <1>1, <1>2, StillEnough DEF OthersSame
<1>4. SeatsEnough(q)'
  <2>1. ASSUME NEW t \in Trips PROVE SeatsLeft(q, t)' >= 0
    <3>1. SeatsLeft(q, t)' = SeatsLeft(q, t)
      BY <1>1 DEF SeatsLeft, Drafted
    <3> QED
      BY <3>1 DEF CountInv, SeatsEnough
  <2> QED
    BY <1>1, <2>1 DEF SeatsEnough
<1> QED
  BY <1>2, <1>3, <1>4 DEF CountInv

\* A call sells the seat that it saw left on the trip.
LEMMA BookCounts == ASSUME CallInv, CallInv', CountInv, NEW q \in Calls, Book(q) PROVE CountInv'
<1>1. PICK num \in Numbers, row \in Rows :
        /\ draft'[q].booked[num] = row /\ row.trip = ThisItem(q).trip
        /\ ~Drafted(q, num)
        /\ \A n \in Numbers \ {num} : draft'[q].booked[n] = draft[q].booked[n]
  <2> DEFINE it  == ThisItem(q)
             row == [trip |-> it.trip, seat |-> want[q], status |-> "active", by |-> owner[q]]
  <2>1. row.trip = it.trip
    OBVIOUS
  <2> QED
    BY <2>1 DEF Book
<1>2. /\ UNCHANGED <<avail, booked>> /\ OthersSame(q) /\ pc[q] = "insert" /\ pc'[q] = "item"
      /\ \A p \in Calls, t \in Trips : tripLock[t] = p => tripLock'[t] = p
  BY GoingLocks DEF Book, Going, dbVars
<1>3. SeatsExact' /\ \A t \in Trips : avail'[t] >= 0
  BY <1>2, SameCounts DEF CountInv
<1>4. \A p \in Calls \ {q} : SeatsEnough(p)'
  BY <1>2, <1>3, StillEnough DEF OthersSame
<1>5. ASSUME NEW t \in Trips PROVE SeatsLeft(q, t)' >= 0
  <2>1. SeatsLeft(q, t)' = avail[t] - Cardinality(Sold(q, t)') /\ SeatsLeft(q, t) = avail[t] - Cardinality(Sold(q, t))
    BY <1>2, SeatsLeftIs
  <2>2. avail[t] \in Int /\ Cardinality(Sold(q, t)) \in Nat /\ SeatsLeft(q, t) >= 0
    BY SoldFinite DEF CallInv, Typed, CountInv, SeatsEnough
  <2>3. CASE t = row.trip
    <3>1. Sold(q, t)' = Sold(q, t) \cup {num} /\ num \notin Sold(q, t)
      BY <1>1, <2>3, SyncConstants DEF Sold, Drafted
    <3>2. Cardinality(Sold(q, t)') = Cardinality(Sold(q, t)) + 1
      BY <3>1, SoldFinite, FS_AddElement
    <3>3. SeatsLeft(q, t) > 0
      BY <1>1, <1>2, <2>3 DEF CountInv, SeatsEnough
    <3> QED
      BY <2>1, <2>2, <3>2, <3>3
  <2>4. CASE t # row.trip
    <3>1. Sold(q, t)' = Sold(q, t)
      BY <1>1, <2>4 DEF Sold, Drafted
    <3> QED
      BY <2>1, <2>2, <3>1
  <2> QED
    BY <2>3, <2>4
<1>6. SeatsEnough(q)'
  BY <1>2, <1>5 DEF SeatsEnough
<1> QED
  BY <1>3, <1>4, <1>6 DEF CountInv

\* A commit takes off each counter what the call sold of the trip.
LEMMA CommitCounts == ASSUME CallInv, CallInv', CountInv, NEW q \in Calls, Commit(q) PROVE CountInv'
<1>1. /\ \A n \in Numbers : booked'[n] = Seen(q, n)
      /\ \A t \in Trips : avail'[t] = SeatsLeft(q, t)
      /\ OthersSame(q) /\ draft'[q] = NoDraft /\ pc'[q] = "done"
      /\ \A p \in Calls \ {q}, t \in Trips : tripLock[t] = p => tripLock'[t] = p
  BY CommitMoves
<1>2. \A t \in Trips : avail'[t] >= 0
  BY <1>1 DEF CountInv, SeatsEnough
<1>3. ASSUME NEW t \in Trips
      PROVE  avail'[t] + Cardinality(ActiveSeats(t)') = avail[t] + Cardinality(ActiveSeats(t))
  <2>1. ActiveSeats(t)' = ActiveSeats(t) \cup Sold(q, t) /\ ActiveSeats(t) \cap Sold(q, t) = {}
    <3>1. ASSUME NEW n \in Numbers, Drafted(q, n)
          PROVE  /\ booked[n] = None /\ booked'[n] = draft[q].booked[n]
                 /\ booked'[n] # None /\ booked'[n].status # "cancelled"
      BY <1>1, <3>1, SeenTyped DEF CallInv, DraftOK, DraftedWell
    <3>2. ASSUME NEW n \in Numbers, ~Drafted(q, n) PROVE booked'[n] = booked[n]
      BY <1>1, <3>2, SeenTyped
    <3>3. ASSUME NEW n \in Numbers
          PROVE  /\ n \in ActiveSeats(t)' <=> n \in ActiveSeats(t) \cup Sold(q, t)
                 /\ n \notin ActiveSeats(t) \cap Sold(q, t)
      BY <3>1, <3>2 DEF ActiveSeats, Sold
    <3> QED
      BY <3>3 DEF ActiveSeats, Sold
  <2>2. Cardinality(ActiveSeats(t)') = Cardinality(ActiveSeats(t)) + Cardinality(Sold(q, t))
    <3>1. Cardinality(ActiveSeats(t) \cap Sold(q, t)) = 0
      BY <2>1, FS_EmptySet
    <3>2. Cardinality(ActiveSeats(t) \cup Sold(q, t)) =
             Cardinality(ActiveSeats(t)) + Cardinality(Sold(q, t))
               - Cardinality(ActiveSeats(t) \cap Sold(q, t))
      BY SoldFinite, ActiveFinite, FS_Union
    <3> QED
      BY <2>1, <3>1, <3>2, SoldFinite, ActiveFinite
  <2>3. avail'[t] = avail[t] - Cardinality(Sold(q, t)) /\ avail[t] \in Int
    BY <1>1, SeatsLeftIs DEF CallInv, Typed
  <2> QED
    BY <2>2, <2>3, SoldFinite, ActiveFinite
<1>4. SeatsExact'
  BY <1>3 DEF SeatsExact, CountInv
<1>5. ASSUME NEW p \in Calls \ {q} PROVE SeatsEnough(p)'
  <2>1. \A t \in Trips : tripLock[t] = p => avail'[t] = avail[t]
    BY <1>1, SoldLocked
  <2> QED
    BY <1>1, <1>2, <2>1, StillEnough DEF OthersSame
<1>6. SeatsEnough(q)'
  <2>1. \A t \in Trips : SeatsLeft(q, t)' = avail'[t]
    BY <1>1, NothingSold
  <2> QED
    BY <1>1, <1>2, <2>1 DEF SeatsEnough
<1> QED
  BY <1>2, <1>4, <1>5, <1>6 DEF CountInv

\* A call that has nothing drafted after a step that leaves the tables alone.
LEMMA LeaveCounts ==
    ASSUME CallInv, CallInv', CountInv, NEW q \in Calls, UNCHANGED <<avail, booked>>, OthersSame(q),
           draft'[q] = NoDraft, pc'[q] # "insert",
           \A p \in Calls \ {q}, t \in Trips : tripLock[t] = p => tripLock'[t] = p
    PROVE  CountInv'
<1>1. SeatsExact' /\ \A t \in Trips : avail'[t] >= 0
  BY SameCounts DEF CountInv
<1>2. \A p \in Calls \ {q} : SeatsEnough(p)'
  BY <1>1, StillEnough DEF OthersSame
<1>3. SeatsEnough(q)'
  <2>1. \A t \in Trips : SeatsLeft(q, t)' = avail'[t]
    BY NothingSold
  <2> QED
    BY <1>1, <2>1 DEF SeatsEnough
<1> QED
  BY <1>1, <1>2, <1>3 DEF CountInv

\* The desk changes the counter of a trip that no call has locked.
LEMMA DeskCounts == ASSUME CallInv, CallInv', CountInv, Desk PROVE CountInv'
<1>1. ASSUME UNCHANGED <<tripLock, callVars>>, SeatsExact', \A t \in Trips : avail'[t] >= 0,
             \A t \in Trips : tripLock[t] # None => avail'[t] = avail[t]
      PROVE  CountInv'
  <2>1. UNCHANGED <<pc, owner, at, draft>>
    BY <1>1 DEF callVars
  <2>2. \A p \in Calls : SeatsEnough(p)'
    BY <1>1, <2>1, StillEnough, OpenCalls
  <2> QED
    BY <1>1, <2>2 DEF CountInv
<1>2. \A t \in Trips : avail[t] \in Int /\ avail[t] >= 0 /\ avail[t] + Cardinality(ActiveSeats(t)) = TotalSeats
  BY DEF CallInv, Typed, CountInv, SeatsExact
<1>3. ASSUME NEW n \in DeskNumbers, NEW t \in Trips, NEW s \in Labels, SellOnline(n, t, s)
      PROVE  CountInv'
  <2> DEFINE row == [trip |-> t, seat |-> s, status |-> "active", by |-> None]
  <2>1. /\ tripLock[t] = None /\ avail[t] > 0 /\ booked[n] = None /\ n \in Numbers
        /\ row \in Rows /\ booked'[n] = row /\ \A m \in Numbers \ {n} : booked'[m] = booked[m]
        /\ avail'[t] = avail[t] - 1 /\ \A u \in Trips \ {t} : avail'[u] = avail[u]
        /\ UNCHANGED <<tripLock, callVars>>
    BY <1>3, SellMoves
  <2>2. row # None /\ row.trip = t /\ row.status # "cancelled"
    BY <2>1, SyncConstants
  <2> HIDE DEF row
  <2>3. ActiveSeats(t)' = ActiveSeats(t) \cup {n} /\ n \notin ActiveSeats(t)
    BY <2>1, <2>2 DEF ActiveSeats
  <2>4. \A u \in Trips \ {t} : ActiveSeats(u)' = ActiveSeats(u)
    BY <2>1, <2>2 DEF ActiveSeats
  <2>5. Cardinality(ActiveSeats(t)') = Cardinality(ActiveSeats(t)) + 1
    BY <2>3, ActiveFinite, FS_AddElement
  <2>6. ASSUME NEW u \in Trips PROVE avail'[u] + Cardinality(ActiveSeats(u)') = TotalSeats /\ avail'[u] >= 0
    <3>1. CASE u = t
      BY <1>2, <2>1, <2>5, <3>1, ActiveFinite
    <3>2. CASE u # t
      BY <1>2, <2>1, <2>4, <3>2
    <3> QED
      BY <3>1, <3>2
  <2> QED
    BY <1>1, <2>1, <2>6 DEF SeatsExact
<1>4. ASSUME NEW n \in Numbers, CancelOnline(n) PROVE CountInv'
  <2>1. PICK t \in Trips : t = booked[n].trip
    BY <1>4, CancelMoves
  <2>2. /\ booked[n].status # "cancelled" /\ tripLock[t] = None
        /\ \A m \in Numbers \ {n} : booked'[m] = booked[m]
        /\ avail'[t] = avail[t] + 1 /\ \A u \in Trips \ {t} : avail'[u] = avail[u]
        /\ UNCHANGED <<tripLock, callVars>>
    BY <1>4, <2>1, CancelMoves
  <2>3. booked'[n].status = "cancelled"
    <3>1. booked'[n] = [trip |-> booked[n].trip, seat |-> booked[n].seat, status |-> "cancelled",
                        by |-> booked[n].by]
      BY <1>4, CancelMoves
    <3> QED
      BY <3>1
  <2>4. ActiveSeats(t)' = ActiveSeats(t) \ {n} /\ n \in ActiveSeats(t)
    <3>1. booked[n] # None
      BY <1>4 DEF CancelOnline
    <3> QED
      BY <2>1, <2>2, <2>3, <3>1 DEF ActiveSeats
  <2>5. \A u \in Trips \ {t} : ActiveSeats(u)' = ActiveSeats(u)
    BY <2>1, <2>2, <2>3 DEF ActiveSeats
  <2>6. Cardinality(ActiveSeats(t)') = Cardinality(ActiveSeats(t)) - 1
    BY <2>4, ActiveFinite, FS_RemoveElement
  <2>7. ASSUME NEW u \in Trips PROVE avail'[u] + Cardinality(ActiveSeats(u)') = TotalSeats /\ avail'[u] >= 0
    <3>1. CASE u = t
      BY <1>2, <2>2, <2>6, <3>1, ActiveFinite
    <3>2. CASE u # t
      BY <1>2, <2>2, <2>5, <3>2
    <3> QED
      BY <3>1, <3>2
  <2> QED
    BY <1>1, <2>2, <2>7 DEF SeatsExact
<1>5. ASSUME NEW t \in Trips, CloseTrip(t) PROVE CountInv'
  <2>1. UNCHANGED <<avail, booked, tripLock, callVars>>
    BY <1>5 DEF CloseTrip
  <2> QED
    BY <1>1, <1>2, <2>1, SameCounts DEF CountInv
<1> QED
  BY <1>3, <1>4, <1>5 DEF Desk

LEMMA CountsKept == ASSUME CallInv, CountInv, [Next]_vars PROVE CountInv'
<1>1. CallInv'
  BY CallsKept
<1>2. CASE UNCHANGED vars
  <2>1. UNCHANGED <<avail, booked, tripLock, pc, owner, at, draft>>
    BY <1>2 DEF vars, dbVars, callVars
  <2>2. SeatsExact' /\ \A t \in Trips : avail'[t] >= 0
    BY <2>1, SameCounts DEF CountInv
  <2>3. \A p \in Calls : SeatsEnough(p)'
    BY <1>1, <2>1, <2>2, StillEnough
  <2> QED
    BY <2>2, <2>3 DEF CountInv
<1>3. ASSUME NEW q \in Calls, Abort(q) PROVE CountInv'
  BY <1>1, <1>3, AbortMoves, LeaveCounts DEF dbVars
<1>4. ASSUME NEW q \in Calls, Post(q) \/ Hear(q) PROVE CountInv'
  <2>1. /\ UNCHANGED <<avail, booked, tripLock>> /\ OthersSame(q) /\ draft'[q] = NoDraft
        /\ pc'[q] # "insert"
    BY <1>4, PostMoves, HearMoves DEF dbVars
  <2> QED
    BY <1>1, <2>1, LeaveCounts
<1> QED
  BY <1>1, <1>2, <1>3, <1>4, NextShape, QuietCounts, BookCounts, CommitCounts, DeskCounts

------------------------------------------------------------------------------
(* Reports and answers *)

\* The seats that report r names are those of the bookings that call q sees.
SeatsTold(q, r) ==
    \A c \in r.conflicts : c[1] \in Numbers /\ Seen(q, c[1]) # None /\ Seen(q, c[1]).seat = c[2]

\* Every item before the one the call works on is dealt with.
ItemsHandled(q) == \A i \in DOMAIN Batch[owner[q]] : i < at[q] => Handled(q, i)

CallTold(q) ==
    /\ pc[q] \in AtWork \cup {"done"} => SeatsTold(q, report[q]) /\ ItemsHandled(q)
    /\ pc[q] = "done" => at[q] > Len(Batch[owner[q]])

\* The same of an answered batch, in the tables.
Answered(d) ==
    /\ \A c \in answer[d].conflicts : c[1] \in Numbers /\ booked[c[1]] # None /\ booked[c[1]].seat = c[2]
    /\ \A i \in DOMAIN Batch[d] :
         LET it == Batch[d][i]
         IN  \/ it.num \in RejectedNumbers(answer[d])
             \/ it.kind = "booking" /\ booked[it.num] # None
             \/ it.kind = "parcel" /\ it.num \in parcels
             \/ it.kind = "boarding" /\ it.num \in boarded

ReportInv ==
    /\ \A q \in Calls : CallTold(q)
    /\ \A d \in Devices : answer[d] # None => Answered(d)

LEMMA InitTold == Init => ReportInv
<1> SUFFICES ASSUME Init PROVE ReportInv
  OBVIOUS
<1>1. \A q \in Calls : CallTold(q)
  BY DEF Init, CallTold, AtWork
<1> QED
  BY <1>1 DEF Init, ReportInv

LEMMA ItemNumber ==
    ASSUME NEW d \in Devices, NEW i \in DOMAIN Batch[d] PROVE Batch[d][i].num \in Numbers
<1>1. Batch[d] \in Seq(Item)
  BY SyncConstants
<1>2. Batch[d][i] \in Item
  BY <1>1
<1> QED
  BY <1>2 DEF Item

\* Neither the desk nor another call takes back what a call sees.
LEMMA HandledStays ==
    ASSUME CallInv, [Next]_vars, NEW p \in Calls, ~Abort(p), owner'[p] = owner[p], owner[p] \in Devices,
           RejectedNumbers(report[p]) \subseteq RejectedNumbers(report'[p]),
           parcels \cup draft[p].parcels \subseteq parcels' \cup draft'[p].parcels,
           boarded \cup draft[p].boarded \subseteq boarded' \cup draft'[p].boarded,
           NEW i \in DOMAIN Batch[owner[p]], Handled(p, i)
    PROVE  Handled(p, i)'
<1>1. PICK it : it = Batch[owner[p]][i] /\ it.num \in Numbers
  BY ItemNumber
<1>2. it = Batch[owner'[p]][i]
  BY <1>1
<1>3. Seen(p, it.num) # None => Seen(p, it.num)' # None
  BY <1>1, SeenStays DEF SameSale
<1>4. \/ it.num \in RejectedNumbers(report[p])
      \/ it.kind = "booking" /\ Seen(p, it.num) # None
      \/ it.kind = "parcel" /\ it.num \in parcels \cup draft[p].parcels
      \/ it.kind = "boarding" /\ it.num \in boarded \cup draft[p].boarded
  BY <1>1 DEF Handled
<1>5. \/ it.num \in RejectedNumbers(report'[p])
      \/ it.kind = "booking" /\ Seen(p, it.num)' # None
      \/ it.kind = "parcel" /\ it.num \in parcels' \cup draft'[p].parcels
      \/ it.kind = "boarding" /\ it.num \in boarded' \cup draft'[p].boarded
  BY <1>3, <1>4
<1> QED
  BY <1>2, <1>5 DEF Handled, Seen, Drafted

LEMMA NotAborted ==
    ASSUME CallInv, NEW p \in Calls, pc'[p] \in AtWork \cup {"done"} PROVE ~Abort(p)
  BY AbortMoves DEF AtWork

\* What the report of a call says stays true while the call goes on and when it commits.
LEMMA ToldStays ==
    ASSUME CallInv, [Next]_vars, NEW p \in Calls, SeatsTold(p, report[p]), ItemsHandled(p),
           pc'[p] \in AtWork \cup {"done"}, owner[p] \in Devices, owner'[p] = owner[p],
           RejectedNumbers(report[p]) \subseteq RejectedNumbers(report'[p]),
           parcels \cup draft[p].parcels \subseteq parcels' \cup draft'[p].parcels,
           boarded \cup draft[p].boarded \subseteq boarded' \cup draft'[p].boarded
    PROVE  /\ \A c \in report[p].conflicts :
                c[1] \in Numbers /\ Seen(p, c[1])' # None /\ Seen(p, c[1])'.seat = c[2]
           /\ \A i \in DOMAIN Batch[owner[p]] : i < at[p] => Handled(p, i)'
<1>1. ~Abort(p)
  BY NotAborted
<1>2. ASSUME NEW c \in report[p].conflicts
      PROVE  c[1] \in Numbers /\ Seen(p, c[1])' # None /\ Seen(p, c[1])'.seat = c[2]
  <2>1. c[1] \in Numbers /\ Seen(p, c[1]) # None /\ Seen(p, c[1]).seat = c[2]
    BY DEF SeatsTold
  <2> QED
    BY <1>1, <2>1, SeenStays DEF SameSale
<1>3. ASSUME NEW i \in DOMAIN Batch[owner[p]], i < at[p] PROVE Handled(p, i)'
  <2>1. Handled(p, i)
    BY <1>3 DEF ItemsHandled
  <2> QED
    BY <1>1, <2>1, HandledStays
<1> QED
  BY <1>2, <1>3

\* A call that another step leaves alone.
LEMMA OtherTold ==
    ASSUME CallInv, [Next]_vars, NEW p \in Calls, CallTold(p),
           pc'[p] = pc[p], owner'[p] = owner[p], at'[p] = at[p],
           draft'[p] = draft[p], report'[p] = report[p],
           parcels \subseteq parcels', boarded \subseteq boarded'
    PROVE  CallTold(p)'
<1>1. ASSUME pc[p] \in AtWork \cup {"done"} PROVE SeatsTold(p, report[p])' /\ ItemsHandled(p)'
  <2>1. SeatsTold(p, report[p]) /\ ItemsHandled(p) /\ owner[p] \in Devices
    BY <1>1 DEF CallTold, CallInv, CallOK
  <2>2. /\ \A c \in report[p].conflicts :
             c[1] \in Numbers /\ Seen(p, c[1])' # None /\ Seen(p, c[1])'.seat = c[2]
        /\ \A i \in DOMAIN Batch[owner[p]] : i < at[p] => Handled(p, i)'
    BY <1>1, <2>1, ToldStays
  <2>3. SeatsTold(p, report[p])'
    BY <2>2 DEF SeatsTold, Seen, Drafted
  <2>4. ItemsHandled(p)'
    BY <2>2 DEF ItemsHandled
  <2> QED
    BY <2>3, <2>4
<1> QED
  BY <1>1 DEF CallTold

LEMMA QuietTold ==
    ASSUME CallInv, [Next]_vars, NEW q \in Calls, CallTold(q), Quiet(q) PROVE CallTold(q)'
<1>1. /\ pc[q] \in AtWork /\ pc'[q] \in AtWork /\ owner[q] \in Devices
      /\ UNCHANGED <<owner, parcels, boarded>> /\ report'[q].conflicts = report[q].conflicts
      /\ report[q].errors \subseteq report'[q].errors
      /\ draft[q].parcels \subseteq draft'[q].parcels /\ draft[q].boarded \subseteq draft'[q].boarded
      /\ at'[q] = at[q] \/ (at'[q] = at[q] + 1 /\ Settles(q))
  BY DEF Quiet, Going, dbVars
<1>2. RejectedNumbers(report[q]) \subseteq RejectedNumbers(report'[q])
  BY <1>1 DEF RejectedNumbers
<1>3. SeatsTold(q, report[q]) /\ ItemsHandled(q)
  BY <1>1 DEF CallTold
<1>4. /\ \A c \in report[q].conflicts :
           c[1] \in Numbers /\ Seen(q, c[1])' # None /\ Seen(q, c[1])'.seat = c[2]
      /\ \A i \in DOMAIN Batch[owner[q]] : i < at[q] => Handled(q, i)'
  BY <1>1, <1>2, <1>3, ToldStays
<1>5. SeatsTold(q, report[q])'
  BY <1>1, <1>4 DEF SeatsTold, Seen, Drafted
<1>6. ItemsHandled(q)'
  <2>1. ASSUME NEW i \in DOMAIN Batch[owner[q]], i < at'[q] PROVE Handled(q, i)'
    <3>1. i \in Nat /\ at[q] \in Nat
      BY <1>1, SyncConstants DEF CallInv, Typed
    <3>2. i < at[q] \/ (i = at[q] /\ Settles(q))
      BY <1>1, <2>1, <3>1
    <3> QED
      BY <1>4, <3>1, <3>2 DEF Settles
  <2> QED
    BY <1>1, <2>1 DEF ItemsHandled
<1> QED
  BY <1>1, <1>5, <1>6 DEF CallTold, AtWork

\* The seat a conflict names is the one the booking is inserted with.
LEMMA BookTold ==
    ASSUME CallInv, [Next]_vars, NEW q \in Calls, CallTold(q), Book(q) PROVE CallTold(q)'
<1>1. /\ pc[q] = "insert" /\ pc'[q] = "item" /\ owner[q] \in Devices /\ at'[q] = at[q] + 1
      /\ UNCHANGED <<owner, booked, parcels, boarded>>
      /\ report'[q].errors = report[q].errors
      /\ draft'[q].parcels = draft[q].parcels /\ draft'[q].boarded = draft[q].boarded
  BY DEF Book, Going, dbVars
<1>2. RejectedNumbers(report[q]) \subseteq RejectedNumbers(report'[q])
  BY <1>1 DEF RejectedNumbers
<1>3. SeatsTold(q, report[q]) /\ ItemsHandled(q)
  BY <1>1 DEF CallTold, AtWork
<1>4. /\ \A c \in report[q].conflicts :
           c[1] \in Numbers /\ Seen(q, c[1])' # None /\ Seen(q, c[1])'.seat = c[2]
      /\ \A i \in DOMAIN Batch[owner[q]] : i < at[q] => Handled(q, i)'
  BY <1>1, <1>2, <1>3, ToldStays DEF AtWork
<1>5. PICK num \in Numbers, row \in Rows :
        /\ num = ThisItem(q).num /\ draft'[q].booked[num] = row /\ row.seat = want[q]
        /\ report'[q].conflicts \subseteq report[q].conflicts \cup {<<num, row.seat>>}
  <2> DEFINE it  == ThisItem(q)
             row == [trip |-> it.trip, seat |-> want[q], status |-> "active", by |-> owner[q]]
  <2>1. row.seat = want[q]
    OBVIOUS
  <2> QED
    BY <2>1 DEF Book
<1>6. Seen(q, num)' = row /\ row # None
  BY <1>5, SyncConstants DEF Seen, Drafted
<1>7. \A c \in report'[q].conflicts :
        c[1] \in Numbers /\ Seen(q, c[1])' # None /\ Seen(q, c[1])'.seat = c[2]
  <2> SUFFICES ASSUME NEW c \in report'[q].conflicts
               PROVE  c[1] \in Numbers /\ Seen(q, c[1])' # None /\ Seen(q, c[1])'.seat = c[2]
    OBVIOUS
  <2>1. CASE c \in report[q].conflicts
    BY <1>4, <2>1
  <2>2. CASE c = <<num, row.seat>>
    BY <1>6, <2>2
  <2> QED
    BY <1>5, <2>1, <2>2
<1>8. SeatsTold(q, report[q])'
  BY <1>7 DEF SeatsTold, Seen, Drafted
<1>9. ASSUME NEW i \in DOMAIN Batch[owner[q]], i = at[q] PROVE Handled(q, i)'
  <2>1. Batch[owner'[q]][i] = ThisItem(q) /\ ThisItem(q).kind = "booking"
    BY <1>1, <1>9 DEF ThisItem, CallInv, CallOK, HasItem
  <2> QED
    BY <1>5, <1>6, <2>1 DEF Handled, Seen, Drafted
<1>10. ItemsHandled(q)'
  <2>1. ASSUME NEW i \in DOMAIN Batch[owner[q]], i < at'[q] PROVE Handled(q, i)'
    <3>1. i \in Nat /\ at[q] \in Nat
      BY <1>1, SyncConstants DEF CallInv, Typed
    <3>2. i < at[q] \/ i = at[q]
      BY <1>1, <2>1, <3>1
    <3> QED
      BY <1>4, <1>9, <3>2
  <2> QED
    BY <1>1, <2>1 DEF ItemsHandled
<1> QED
  BY <1>1, <1>8, <1>10 DEF CallTold

LEMMA CommitTold ==
    ASSUME CallInv, [Next]_vars, NEW q \in Calls, CallTold(q), Commit(q) PROVE CallTold(q)'
<1>1. /\ pc[q] = "item" /\ pc'[q] = "done" /\ owner[q] \in Devices /\ at[q] > Len(Batch[owner[q]])
      /\ UNCHANGED <<owner, at, report>>
      /\ parcels' = parcels \cup draft[q].parcels /\ boarded' = boarded \cup draft[q].boarded
  BY CommitMoves
<1>2. SeatsTold(q, report[q]) /\ ItemsHandled(q)
  BY <1>1 DEF CallTold, AtWork
<1>3. /\ \A c \in report[q].conflicts :
           c[1] \in Numbers /\ Seen(q, c[1])' # None /\ Seen(q, c[1])'.seat = c[2]
      /\ \A i \in DOMAIN Batch[owner[q]] : i < at[q] => Handled(q, i)'
  BY <1>1, <1>2, ToldStays
<1>4. SeatsTold(q, report[q])'
  BY <1>1, <1>3 DEF SeatsTold, Seen, Drafted
<1>5. ItemsHandled(q)'
  BY <1>1, <1>3 DEF ItemsHandled
<1> QED
  BY <1>1, <1>4, <1>5 DEF CallTold

\* What a device was told stays true: no step takes a row from the tables, or its seat.
LEMMA AnswerStays ==
    ASSUME CallInv, [Next]_vars, NEW d \in Devices, Answered(d), answer'[d] = answer[d],
           parcels \subseteq parcels', boarded \subseteq boarded',
           \A n \in Numbers : booked[n] # None => booked'[n] # None /\ booked'[n].seat = booked[n].seat
    PROVE  Answered(d)'
  BY ItemNumber DEF Answered

LEMMA TablesGrow ==
    ASSUME CallInv, [Next]_vars
    PROVE  /\ parcels \subseteq parcels' /\ boarded \subseteq boarded'
           /\ \A n \in Numbers : booked[n] # None => booked'[n] # None /\ booked'[n].seat = booked[n].seat
<1>1. ASSUME UNCHANGED <<booked, parcels, boarded>>
      PROVE  /\ parcels \subseteq parcels' /\ boarded \subseteq boarded'
             /\ \A n \in Numbers : booked[n] # None => booked'[n] # None /\ booked'[n].seat = booked[n].seat
  BY <1>1
<1>2. ASSUME NEW q \in Calls, Commit(q)
      PROVE  /\ parcels \subseteq parcels' /\ boarded \subseteq boarded'
             /\ \A n \in Numbers : booked[n] # None => booked'[n] # None /\ booked'[n].seat = booked[n].seat
  BY <1>2, CommitMoves, SeenTyped
<1>3. ASSUME Desk
      PROVE  /\ parcels \subseteq parcels' /\ boarded \subseteq boarded'
             /\ \A n \in Numbers : booked[n] # None => booked'[n] # None /\ booked'[n].seat = booked[n].seat
  <2>1. ASSUME NEW n \in DeskNumbers, NEW t \in Trips, NEW s \in Labels, SellOnline(n, t, s)
        PROVE  \A m \in Numbers : booked[m] # None => booked'[m] # None /\ booked'[m].seat = booked[m].seat
    BY <2>1, SellMoves
  <2>2. ASSUME NEW n \in Numbers, CancelOnline(n)
        PROVE  \A m \in Numbers : booked[m] # None => booked'[m] # None /\ booked'[m].seat = booked[m].seat
    <3>1. /\ booked[n] \in Rows /\ \A m \in Numbers \ {n} : booked'[m] = booked[m]
          /\ booked'[n] = [trip |-> booked[n].trip, seat |-> booked[n].seat, status |-> "cancelled",
                           by |-> booked[n].by]
      BY <2>2, CancelMoves
    <3>2. booked'[n] \in Rows /\ booked'[n].seat = booked[n].seat
      BY <3>1 DEF Rows
    <3> QED
      BY <3>1, <3>2, SyncConstants
  <2>3. UNCHANGED <<parcels, boarded>> /\ \A t \in Trips : CloseTrip(t) => booked' = booked
    BY <1>3, SellMoves, CancelMoves DEF Desk, CloseTrip
  <2> QED
    BY <1>3, <2>1, <2>2, <2>3 DEF Desk
<1>4. ASSUME NEW q \in Calls, Quiet(q) \/ Book(q) \/ Abort(q) \/ Post(q) \/ Hear(q)
      PROVE  UNCHANGED <<booked, parcels, boarded>>
  BY <1>4, AbortMoves, PostMoves, HearMoves DEF Quiet, Book, Going, dbVars
<1> QED
  BY <1>1, <1>2, <1>3, <1>4, NextShape DEF vars, dbVars

\* The batch of a call that is done is as the device is told.
LEMMA HearTold ==
    ASSUME CallInv, [Next]_vars, ReportInv, NEW q \in Calls, Hear(q), NEW d \in Devices,
           answer'[d] # None
    PROVE  Answered(d)'
<1>1. /\ pc[q] = "done" /\ owner[q] \in Devices /\ draft[q] = NoDraft
      /\ UNCHANGED <<booked, parcels, boarded>>
      /\ answer'[d] = answer[d] \/ (d = owner[q] /\ answer'[d] = report[q])
  BY HearMoves DEF dbVars
<1>2. CASE answer'[d] = answer[d]
  BY <1>2, AnswerStays, TablesGrow DEF ReportInv
<1>3. CASE d = owner[q] /\ answer'[d] = report[q]
  <2>1. \A n \in Numbers : Seen(q, n) = booked[n]
    BY <1>1, NothingDrafted DEF Seen
  <2>2. draft[q].parcels = {} /\ draft[q].boarded = {}
    BY <1>1 DEF NoDraft
  <2>3. SeatsTold(q, report[q]) /\ ItemsHandled(q) /\ at[q] > Len(Batch[d])
    BY <1>1, <1>3 DEF ReportInv, CallTold
  <2>4. \A c \in answer'[d].conflicts : c[1] \in Numbers /\ booked[c[1]] # None /\ booked[c[1]].seat = c[2]
    BY <1>3, <2>1, <2>3 DEF SeatsTold
  <2>5. ASSUME NEW i \in DOMAIN Batch[d]
        PROVE  \/ Batch[d][i].num \in RejectedNumbers(answer'[d])
               \/ Batch[d][i].kind = "booking" /\ booked[Batch[d][i].num] # None
               \/ Batch[d][i].kind = "parcel" /\ Batch[d][i].num \in parcels
               \/ Batch[d][i].kind = "boarding" /\ Batch[d][i].num \in boarded
    <3>1. i < at[q]
      <4>1. Batch[d] \in Seq(Item) /\ at[q] \in Nat
        BY SyncConstants DEF CallInv, Typed
      <4> QED
        BY <2>3, <4>1
    <3>2. Handled(q, i)
      BY <1>3, <2>3, <3>1 DEF ItemsHandled
    <3>3. Batch[d][i].num \in Numbers
      BY ItemNumber
    <3> QED
      BY <1>3, <2>1, <2>2, <3>2, <3>3 DEF Handled
  <2> QED
    BY <1>1, <2>4, <2>5 DEF Answered
<1> QED
  BY <1>1, <1>2, <1>3

LEMMA ToldKept == ASSUME CallInv, ReportInv, [Next]_vars PROVE ReportInv'
<1>1. \A p \in Calls : CallTold(p)
  BY DEF ReportInv
<1>2. parcels \subseteq parcels' /\ boarded \subseteq boarded'
  BY TablesGrow
<1>3. ASSUME answer' = answer PROVE \A d \in Devices : answer'[d] # None => Answered(d)'
  BY <1>3, AnswerStays, TablesGrow DEF ReportInv
<1>4. ASSUME NEW q \in Calls, OthersSame(q) PROVE \A p \in Calls \ {q} : CallTold(p)'
  BY <1>1, <1>2, <1>4, OtherTold DEF OthersSame
<1>5. ASSUME UNCHANGED <<pc, owner, at, draft, report>> PROVE \A p \in Calls : CallTold(p)'
  BY <1>1, <1>2, <1>5, OtherTold
<1>6. CASE UNCHANGED vars
  BY <1>3, <1>5, <1>6 DEF vars, callVars, ReportInv
<1>7. ASSUME NEW q \in Calls, Quiet(q) \/ Book(q) PROVE ReportInv'
  <2>1. OthersSame(q) /\ answer' = answer
    BY <1>7 DEF Quiet, Book, Going
  <2>2. CallTold(q)'
    BY <1>1, <1>7, QuietTold, BookTold
  <2> QED
    BY <1>3, <1>4, <2>1, <2>2 DEF ReportInv
<1>8. ASSUME NEW q \in Calls, Commit(q) PROVE ReportInv'
  BY <1>1, <1>3, <1>4, <1>8, CommitMoves, CommitTold DEF ReportInv
<1>9. ASSUME NEW q \in Calls, Abort(q) PROVE ReportInv'
  <2>1. CallTold(q)'
    BY <1>9, AbortMoves DEF CallTold, AtWork
  <2> QED
    BY <1>3, <1>4, <1>9, <2>1, AbortMoves DEF ReportInv
<1>10. ASSUME NEW q \in Calls, Post(q) PROVE ReportInv'
  <2>1. pc[q] = "idle" /\ pc'[q] = "item" /\ UNCHANGED <<at, report, answer>> /\ OthersSame(q)
    BY <1>10, PostMoves
  <2>2. at'[q] = 1 /\ report'[q] = NoReport
    BY <2>1 DEF CallInv, CallOK
  <2>3. SeatsTold(q, report[q])'
    BY <2>2 DEF SeatsTold, NoReport
  <2>4. owner'[q] \in Devices
    BY <1>10, PostMoves
  <2>5. ItemsHandled(q)'
    <3>1. Batch[owner'[q]] \in Seq(Item)
      BY <2>4, SyncConstants
    <3> QED
      BY <2>2, <3>1 DEF ItemsHandled
  <2>6. CallTold(q)'
    BY <2>1, <2>3, <2>5 DEF CallTold
  <2> QED
    BY <1>3, <1>4, <2>1, <2>6 DEF ReportInv
<1>11. ASSUME NEW q \in Calls, Hear(q) PROVE ReportInv'
  <2>1. CallTold(q)' /\ OthersSame(q)
    BY <1>11, HearMoves DEF CallTold, AtWork
  <2> QED
    BY <1>4, <1>11, <2>1, HearTold DEF ReportInv
<1>12. CASE Desk
  <2>1. UNCHANGED <<callVars, answer>>
    BY <1>12, SellMoves, CancelMoves DEF Desk, CloseTrip
  <2> QED
    BY <1>3, <1>5, <2>1 DEF ReportInv, callVars
<1> QED
  BY <1>6, <1>7, <1>8, <1>9, <1>10, <1>11, <1>12, NextShape

------------------------------------------------------------------------------
(* Open trips: a trip stays open while a call that found it open holds its lock. *)

OpenAt(q) == open[ThisItem(q).trip]

OnOpenTrips(q) ==
    /\ pc[q] = "insert" => OpenAt(q)
    /\ \A n \in Numbers : Drafted(q, n) => open[draft[q].booked[n].trip]

OpenInv == \A q \in Calls : OnOpenTrips(q)

\* Only the test of the trip's status leads to an INSERT.
LEMMA OnlyAvailable ==
    ASSUME CallInv, NEW q \in Calls, Step(q), pc'[q] = "insert"
    PROVE  open[ThisItem(q).trip] /\ UNCHANGED <<open, owner, at>>
<1>1. \A stage : Goto(q, stage) => pc'[q] = stage
  BY DEF Goto, CallInv, Typed
<1>2. ~NextItem(q) /\ (\A reason : ~Reject(q, reason)) /\ ~Goto(q, "lock") /\ ~Goto(q, "parcel")
      /\ ~Goto(q, "ended") /\ ~Goto(q, "done")
  <2>1. ~NextItem(q)
    BY <1>1 DEF NextItem
  <2> QED
    BY <1>1, <2>1 DEF Reject
<1>3. TakeTrip(q)
  BY <1>2 DEF Step, CheckTicket, SyncBooking, AddBooking, CheckParcel, SyncParcel, Abort,
              SyncBoarding, Commit
<1> QED
  BY <1>2, <1>3 DEF TakeTrip, TripAvailable, dbVars

\* A call that does not move, when no trip closes.
LEMMA OpenUntouched ==
    ASSUME NEW p \in Calls, OnOpenTrips(p), UNCHANGED open,
           pc'[p] = pc[p], owner'[p] = owner[p], at'[p] = at[p], draft'[p] = draft[p]
    PROVE  OnOpenTrips(p)'
<1>1. ThisItem(p)' = ThisItem(p)
  BY DEF ThisItem
<1> QED
  BY <1>1 DEF OnOpenTrips, OpenAt, Drafted

\* A call with no draft, at another stage.
LEMMA OpenVacuous ==
    ASSUME NEW p \in Calls, pc'[p] # "insert", draft'[p] = NoDraft
    PROVE  OnOpenTrips(p)'
  BY DEF OnOpenTrips, Drafted, NoDraft

LEMMA StepOnOpen ==
    ASSUME CallInv, NEW q \in Calls, OnOpenTrips(q), Step(q) \/ Crash(q) \/ DeadlockAbort(q)
    PROVE  OnOpenTrips(q)' /\ OthersSame(q) /\ UNCHANGED open
<1>1. CASE Commit(q)
  BY <1>1, CommitMoves, OpenVacuous
<1>2. CASE Abort(q)
  BY <1>2, AbortMoves, OpenVacuous DEF dbVars
<1>3. CASE Quiet(q)
  <2>1. UNCHANGED open /\ OthersSame(q) /\ pc'[q] # "ended" /\ draft'[q].booked = draft[q].booked
    BY <1>3 DEF Quiet, Going, dbVars, AtWork
  <2>2. pc'[q] = "insert" => OpenAt(q)'
    <3>1. CASE Step(q)
      <4>1. ASSUME pc'[q] = "insert" PROVE OpenAt(q)'
        <5>1. open[ThisItem(q).trip] /\ UNCHANGED <<open, owner, at>>
          BY <3>1, <4>1, OnlyAvailable
        <5>2. ThisItem(q)' = ThisItem(q)
          BY <5>1 DEF ThisItem
        <5> QED
          BY <5>1, <5>2 DEF OpenAt
      <4> QED
        BY <4>1
    <3>2. CASE Crash(q) \/ DeadlockAbort(q)
      BY <2>1, <3>2, AbortMoves DEF Crash, DeadlockAbort
    <3> QED
      BY <3>1, <3>2
  <2> QED
    BY <2>1, <2>2 DEF OnOpenTrips, Drafted
<1>4. CASE Book(q)
  <2>1. PICK num \in Numbers, row \in Rows :
          /\ row.trip = ThisItem(q).trip /\ draft'[q].booked[num] = row
          /\ \A n \in Numbers \ {num} : draft'[q].booked[n] = draft[q].booked[n]
    <3> DEFINE row == [trip |-> ThisItem(q).trip, seat |-> want[q], status |-> "active",
                       by |-> owner[q]]
    <3>1. row.trip = ThisItem(q).trip
      OBVIOUS
    <3> QED
      BY <1>4, <3>1 DEF Book
  <2>2. /\ UNCHANGED open /\ OthersSame(q) /\ pc[q] = "insert" /\ pc'[q] = "item"
    BY <1>4 DEF Book, Going, dbVars
  <2>3. open[row.trip]
    BY <2>1, <2>2 DEF OnOpenTrips, OpenAt
  <2> QED
    BY <2>1, <2>2, <2>3 DEF OnOpenTrips, Drafted
<1> QED
  BY <1>1, <1>2, <1>3, <1>4, StepShape

\* No trip that a call has locked is closed.
LEMMA CloseOnOpen ==
    ASSUME CallInv, NEW t \in Trips, CloseTrip(t), NEW p \in Calls, OnOpenTrips(p)
    PROVE  OnOpenTrips(p)'
<1>1. /\ UNCHANGED <<pc, owner, at, draft>> /\ tripLock[t] # p
      /\ \A u \in Trips : u # t => open'[u] = open[u]
  <2>1. tripLock[t] = None /\ UNCHANGED callVars /\ open' = [open EXCEPT ![t] = FALSE]
    BY DEF CloseTrip
  <2> QED
    BY <2>1, OpenCalls DEF callVars, CallInv, Typed
<1>2. ThisItem(p)' = ThisItem(p)
  BY <1>1 DEF ThisItem
<1>3. pc[p] = "insert" => OpenAt(p)'
  <2>1. ASSUME pc[p] = "insert" PROVE OpenAt(p)'
    <3>1. ThisItem(p).trip \in Trips /\ tripLock[ThisItem(p).trip] = p /\ open[ThisItem(p).trip]
      BY <2>1, InsertLocked DEF OnOpenTrips, OpenAt
    <3> QED
      BY <1>1, <1>2, <3>1 DEF OpenAt
  <2> QED
    BY <2>1
<1>4. ASSUME NEW n \in Numbers, Drafted(p, n) PROVE open'[draft[p].booked[n].trip]
  <2>1. draft[p].booked[n].trip \in Trips /\ tripLock[draft[p].booked[n].trip] = p
    BY <1>4 DEF CallInv, DraftOK, DraftedWell, Rows
  <2> QED
    BY <1>1, <1>4, <2>1 DEF OnOpenTrips
<1> QED
  BY <1>1, <1>3, <1>4 DEF OnOpenTrips, Drafted

LEMMA OpenKept == ASSUME CallInv, OpenInv, [Next]_vars PROVE OpenInv'
<1> SUFFICES ASSUME NEW p \in Calls PROVE OnOpenTrips(p)'
  BY DEF OpenInv
<1>1. OnOpenTrips(p)
  BY DEF OpenInv
<1>2. CASE UNCHANGED vars
  BY <1>1, <1>2, OpenUntouched DEF vars, dbVars, callVars
<1>3. ASSUME NEW q \in Calls, Step(q) \/ Crash(q) \/ DeadlockAbort(q) PROVE OnOpenTrips(p)'
  <2>1. OnOpenTrips(q)' /\ OthersSame(q) /\ UNCHANGED open
    BY <1>3, StepOnOpen DEF OpenInv
  <2>2. p # q => OnOpenTrips(p)'
    BY <1>1, <2>1, OpenUntouched DEF OthersSame
  <2> QED
    BY <2>1, <2>2
<1>4. ASSUME NEW q \in Calls, Post(q) \/ Hear(q) PROVE OnOpenTrips(p)'
  <2>1. /\ OthersSame(q) /\ UNCHANGED open /\ pc'[q] # "insert" /\ draft'[q] = NoDraft
    BY <1>4, PostMoves, HearMoves DEF dbVars
  <2>2. p # q => OnOpenTrips(p)'
    BY <1>1, <2>1, OpenUntouched DEF OthersSame
  <2> QED
    BY <2>1, <2>2, OpenVacuous
<1>5. CASE Desk
  <2>1. ASSUME NEW n \in DeskNumbers, NEW t \in Trips, NEW s \in Labels, SellOnline(n, t, s)
        PROVE  OnOpenTrips(p)'
    BY <1>1, <2>1, OpenUntouched DEF SellOnline, callVars
  <2>2. ASSUME NEW n \in Numbers, CancelOnline(n) PROVE OnOpenTrips(p)'
    BY <1>1, <2>2, OpenUntouched DEF CancelOnline, callVars
  <2>3. ASSUME NEW t \in Trips, CloseTrip(t) PROVE OnOpenTrips(p)'
    BY <1>1, <2>3, CloseOnOpen
  <2> QED
    BY <1>5, <2>1, <2>2, <2>3 DEF Desk
<1> QED
  BY <1>2, <1>3, <1>4, <1>5 DEF Next

------------------------------------------------------------------------------
(* The seat map: what each step does to SeatHolders, SeatIssued and open. *)

mapped == <<SeatHolders, SeatIssued, open>>

LEMMA InitMaps == Init => Map!SeatInit
<1> SUFFICES ASSUME Init PROVE Map!SeatInit
  OBVIOUS
<1>1. SeatHolders = [t \in Trips |-> [s \in Labels |-> {}]]
  BY DEF Init, SeatHolders, Holds
<1>2. SeatIssued = [n \in Numbers |-> None]
  BY DEF Init, SeatIssued
<1> QED
  BY <1>1, <1>2 DEF Init, Map!SeatInit

LEMMA SameMap == ASSUME UNCHANGED <<booked, open>> PROVE UNCHANGED mapped
  BY DEF mapped, SeatHolders, SeatIssued

\* One booking changes: so does the seat it has before or after, and no other.
LEMMA HoldersUpdated ==
    ASSUME NEW t \in Trips, NEW s \in Labels, NEW X \in SUBSET Numbers,
           \A n \in Numbers : Holds(booked'[n], t, s) <=> n \in X,
           \A u \in Trips, x \in Labels, n \in Numbers :
               <<u, x>> # <<t, s>> => (Holds(booked'[n], u, x) <=> Holds(booked[n], u, x))
    PROVE  SeatHolders' = [SeatHolders EXCEPT ![t][s] = X]
<1>1. ASSUME NEW u \in Trips, NEW x \in Labels
      PROVE  SeatHolders'[u][x] = IF u = t /\ x = s THEN X ELSE SeatHolders[u][x]
  <2>1. /\ SeatHolders'[u][x] = {n \in Numbers : Holds(booked'[n], u, x)}
        /\ SeatHolders[u][x] = {n \in Numbers : Holds(booked[n], u, x)}
    BY DEF SeatHolders, Holds
  <2>2. CASE u = t /\ x = s
    BY <2>1, <2>2
  <2>3. CASE ~(u = t /\ x = s)
    BY <2>1, <2>3
  <2> QED
    BY <2>2, <2>3
<1>2. SeatHolders'[t] = [SeatHolders[t] EXCEPT ![s] = X]
  BY <1>1 DEF SeatHolders
<1>3. \A u \in Trips : u # t => SeatHolders'[u] = SeatHolders[u]
  BY <1>1 DEF SeatHolders
<1> QED
  BY <1>2, <1>3 DEF SeatHolders

LEMMA SellIssues ==
    ASSUME CallInv, NEW n \in DeskNumbers, NEW t \in Trips, NEW s \in Labels, SellOnline(n, t, s)
    PROVE  Map!Issue(t, s, n)
<1>1. PICK row \in Rows :
        /\ row.trip = t /\ row.seat = s /\ row.status = "active" /\ booked'[n] = row
        /\ \A m \in Numbers \ {n} : booked'[m] = booked[m]
        /\ n \in Numbers /\ booked[n] = None /\ UNCHANGED open
        /\ \A m \in Numbers : ~Holds(booked[m], t, s)
  <2> DEFINE row == [trip |-> t, seat |-> s, status |-> "active", by |-> None]
  <2>1. row.trip = t /\ row.seat = s /\ row.status = "active"
    OBVIOUS
  <2> QED
    BY <2>1, SellMoves
<1>2. row # None
  BY SyncConstants
<1>3. open[t] /\ booked' = [booked EXCEPT ![n] = booked'[n]]
  BY <1>1 DEF SellOnline, CallInv, Typed
<1>4. SeatHolders[t][s] = {}
  BY <1>1 DEF SeatHolders
<1>5. SeatHolders' = [SeatHolders EXCEPT ![t][s] = {n}]
  <2>1. \A m \in Numbers : Holds(booked'[m], t, s) <=> m \in {n}
    BY <1>1, <1>2 DEF Holds
  <2>2. \A u \in Trips, x \in Labels, m \in Numbers :
            <<u, x>> # <<t, s>> => (Holds(booked'[m], u, x) <=> Holds(booked[m], u, x))
    BY <1>1, <1>2 DEF Holds
  <2>3. {n} \in SUBSET Numbers
    BY <1>1
  <2> QED
    BY <2>1, <2>2, <2>3, HoldersUpdated
<1>6. SeatIssued[n] = None /\ SeatIssued' = [SeatIssued EXCEPT ![n] = <<t, s>>]
  BY <1>1, <1>2 DEF SeatIssued
<1> QED
  BY <1>1, <1>3, <1>4, <1>5, <1>6 DEF Map!Issue

LEMMA CancelFrees ==
    ASSUME CallInv, SeatsInv, NEW n \in Numbers, CancelOnline(n)
    PROVE  \E t \in Trips, s \in Labels : Map!Free(t, s)
<1>1. PICK t \in Trips, s \in Labels :
        /\ booked[n] \in Rows /\ booked[n].trip = t /\ booked[n].seat = s
        /\ booked[n].status # "cancelled"
  BY CancelMoves DEF Rows
<1>2. /\ booked[n] # None /\ booked'[n] # None
      /\ booked'[n].trip = t /\ booked'[n].seat = s /\ booked'[n].status = "cancelled"
  <2>1. booked'[n] = [trip |-> t, seat |-> s, status |-> "cancelled", by |-> booked[n].by]
    BY <1>1, CancelMoves
  <2>2. booked'[n] \in Rows
    BY <1>1, <2>1 DEF Rows
  <2> QED
    BY <1>1, <2>1, <2>2, SyncConstants
<1>3. (\A m \in Numbers \ {n} : booked'[m] = booked[m]) /\ UNCHANGED open
  BY CancelMoves
<1>4. \A m \in Numbers : Holds(booked[m], t, s) <=> m = n
  BY <1>1, <1>2 DEF SeatsInv, HeldOnce, Clash, Holds
<1>5. SeatHolders[t][s] # {}
  BY <1>4 DEF SeatHolders, Holds
<1>6. SeatHolders' = [SeatHolders EXCEPT ![t][s] = {}]
  <2>1. \A m \in Numbers : Holds(booked'[m], t, s) <=> m \in {}
    BY <1>2, <1>3, <1>4 DEF Holds
  <2>2. \A u \in Trips, x \in Labels, m \in Numbers :
            <<u, x>> # <<t, s>> => (Holds(booked'[m], u, x) <=> Holds(booked[m], u, x))
    BY <1>1, <1>2, <1>3 DEF Holds
  <2> QED
    BY <2>1, <2>2, HoldersUpdated
<1>7. UNCHANGED SeatIssued
  BY <1>1, <1>2, <1>3 DEF SeatIssued
<1> QED
  BY <1>3, <1>5, <1>6, <1>7 DEF Map!Free

\* A commit issues the drafts of the call.
LEMMA CommitIssues ==
    ASSUME CallInv, SeatsInv, OpenInv, NEW q \in Calls, Commit(q)
    PROVE  Map!IssueTogether
<1>1. PICK batch \in SUBSET Numbers : batch = {n \in Numbers : Drafted(q, n)}
  OBVIOUS
<1>2. /\ UNCHANGED open /\ \A n \in Numbers : booked'[n] = Seen(q, n)
      /\ \A n \in Numbers \ batch : booked'[n] = booked[n]
  BY <1>1, CommitMoves, SeenTyped
<1>3. ASSUME NEW n \in batch
      PROVE  \E t \in Trips, s \in Labels :
                /\ open[t] /\ SeatHolders[t][s] = {}
                /\ booked[n] = None /\ booked'[n] # None /\ booked'[n].status = "active"
                /\ booked'[n].trip = t /\ booked'[n].seat = s
  <2>1. /\ n \in Numbers /\ Drafted(q, n) /\ DraftedWell(q, n) /\ Seen(q, n) = draft[q].booked[n]
        /\ booked'[n] = draft[q].booked[n] /\ Seen(q, n) # None
    BY <1>1, <1>2, SeenTyped DEF CallInv, DraftOK
  <2>2. PICK t \in Trips, s \in Labels :
          t = draft[q].booked[n].trip /\ s = draft[q].booked[n].seat
    BY <2>1 DEF DraftedWell, Rows
  <2>3. open[t]
    BY <2>1, <2>2 DEF OpenInv, OnOpenTrips
  <2>4. ASSUME NEW m \in Numbers PROVE ~Holds(booked[m], t, s)
    <3>1. CASE booked[m] = None
      BY <3>1 DEF Holds
    <3>2. CASE booked[m] # None
      <4>1. Seen(q, m) = booked[m] /\ m # n
        BY <2>1, <3>2, SeenTyped DEF DraftedWell
      <4>2. ~Clash(Seen(q, n), Seen(q, m))
        BY <2>1, <4>1 DEF SeatsInv, SeenOnce
      <4> QED
        BY <2>1, <2>2, <4>1, <4>2 DEF Clash, Holds, DraftedWell
    <3> QED
      BY <3>1, <3>2
  <2>5. SeatHolders[t][s] = {}
    BY <2>4 DEF SeatHolders
  <2> QED
    BY <2>1, <2>2, <2>3, <2>5 DEF DraftedWell
<1>4. \A n \in batch : SeatIssued[n] = None /\ SeatIssued'[n] = <<booked'[n].trip, booked'[n].seat>>
  BY <1>3 DEF SeatIssued
<1>5. \A n \in batch : \E t \in Trips, s \in Labels :
          /\ open[t] /\ SeatHolders[t][s] = {}
          /\ SeatIssued[n] = None /\ SeatIssued'[n] = <<t, s>>
  BY <1>3, <1>4
<1>6. ASSUME NEW m \in batch, NEW n \in batch, SeatIssued'[m] = SeatIssued'[n] PROVE m = n
  <2>1. /\ booked'[m].trip = booked'[n].trip /\ booked'[m].seat = booked'[n].seat
        /\ booked'[m] # None /\ booked'[n] # None
        /\ booked'[m].status = "active" /\ booked'[n].status = "active"
    BY <1>3, <1>4, <1>6
  <2>2. Clash(Seen(q, m), Seen(q, n))
    BY <1>2, <2>1 DEF Clash
  <2> QED
    BY <2>2 DEF SeatsInv, SeenOnce
<1>7. /\ batch = {n \in Numbers : SeatIssued'[n] # SeatIssued[n]}
      /\ SeatIssued' \in [Numbers -> (Trips \X Labels) \cup {None}]
  <2>1. \A n \in Numbers \ batch :
            SeatIssued'[n] = SeatIssued[n] /\ SeatIssued'[n] \in (Trips \X Labels) \cup {None}
    BY <1>2 DEF SeatIssued, CallInv, Typed, Rows
  <2>2. ASSUME NEW n \in batch
        PROVE  SeatIssued'[n] # SeatIssued[n] /\ SeatIssued'[n] \in (Trips \X Labels) \cup {None}
    <3>1. SeatIssued[n] = None /\ SeatIssued'[n] \in Trips \X Labels
      BY <1>5
    <3>2. None \notin Trips \X Labels
      BY SyncConstants
    <3> QED
      BY <3>1, <3>2
  <2>3. \A n \in Numbers : SeatIssued'[n] \in (Trips \X Labels) \cup {None}
    BY <2>1, <2>2
  <2>4. SeatIssued' = [n \in Numbers |-> SeatIssued'[n]]
    BY DEF SeatIssued
  <2>5. batch = {n \in Numbers : SeatIssued'[n] # SeatIssued[n]}
    BY <2>1, <2>2
  <2> QED
    BY <2>3, <2>4, <2>5
<1>8. SeatHolders' = [t \in Trips |-> [s \in Labels |->
                        SeatHolders[t][s] \cup {n \in batch : SeatIssued'[n] = <<t, s>>}]]
  <2>1. ASSUME NEW t \in Trips, NEW s \in Labels
        PROVE  {n \in Numbers : Holds(booked'[n], t, s)}
                 = {n \in Numbers : Holds(booked[n], t, s)} \cup {n \in batch : SeatIssued'[n] = <<t, s>>}
    <3>1. \A n \in Numbers \ batch : Holds(booked'[n], t, s) <=> Holds(booked[n], t, s)
      BY <1>2
    <3>2. \A n \in batch : /\ Holds(booked'[n], t, s) <=> SeatIssued'[n] = <<t, s>>
                           /\ ~Holds(booked[n], t, s)
      BY <1>3, <1>4 DEF Holds
    <3> QED
      BY <3>1, <3>2
  <2>2. \A t \in Trips, s \in Labels :
          /\ SeatHolders'[t][s] = {n \in Numbers : Holds(booked'[n], t, s)}
          /\ SeatHolders[t][s] = {n \in Numbers : Holds(booked[n], t, s)}
    BY DEF SeatHolders, Holds
  <2>3. SeatHolders' = [t \in Trips |-> [s \in Labels |-> SeatHolders'[t][s]]]
    BY DEF SeatHolders
  <2> QED
    BY <2>1, <2>2, <2>3
<1> QED
  BY <1>2, <1>5, <1>6, <1>7, <1>8 DEF Map!IssueTogether

LEMMA CloseCloses == ASSUME NEW t \in Trips, CloseTrip(t) PROVE Map!Close(t)
<1>1. UNCHANGED <<SeatHolders, SeatIssued>>
  BY DEF CloseTrip, SeatHolders, SeatIssued
<1> QED
  BY <1>1 DEF CloseTrip, Map!Close

LEMMA StepMaps ==
    ASSUME CallInv, SeatsInv, OpenInv, [Next]_vars
    PROVE  [Map!BatchNext]_mapped
<1>1. ASSUME NEW q \in Calls, Quiet(q) \/ Book(q) \/ Abort(q) \/ Post(q) \/ Hear(q)
      PROVE  UNCHANGED mapped
  <2>1. UNCHANGED dbVars
    BY <1>1, AbortMoves, PostMoves, HearMoves DEF Quiet, Book, Going
  <2> QED
    BY <2>1, SameMap DEF dbVars
<1>2. ASSUME NEW q \in Calls, Commit(q) PROVE Map!BatchNext
  BY <1>2, CommitIssues DEF Map!BatchNext
<1>3. CASE Desk
  <2>1. ASSUME NEW n \in DeskNumbers, NEW t \in Trips, NEW s \in Labels, SellOnline(n, t, s)
        PROVE  Map!BatchNext
    <3>1. n \in Numbers /\ Map!Issue(t, s, n)
      BY <2>1, SellIssues, SyncConstants
    <3> QED
      BY <3>1 DEF Map!BatchNext, Map!SeatNext
  <2>2. ASSUME NEW n \in Numbers, CancelOnline(n) PROVE Map!BatchNext
    BY <2>2, CancelFrees DEF Map!BatchNext, Map!SeatNext
  <2>3. ASSUME NEW t \in Trips, CloseTrip(t) PROVE Map!BatchNext
    BY <2>3, CloseCloses DEF Map!BatchNext, Map!SeatNext
  <2> QED
    BY <1>3, <2>1, <2>2, <2>3 DEF Desk
<1>4. CASE UNCHANGED vars
  BY <1>4, SameMap DEF vars, dbVars
<1> QED
  BY <1>1, <1>2, <1>3, <1>4, NextShape

------------------------------------------------------------------------------
(* Theorems *)

LEMMA CallsAlways == Spec => []CallInv
<1>1. Init => CallInv
  BY InitCalls
<1>2. CallInv /\ [Next]_vars => CallInv'
  BY CallsKept
<1> QED
  BY <1>1, <1>2, PTL DEF Spec

LEMMA SeatsAlways == Spec => []SeatsInv
<1>1. Init => SeatsInv
  BY DEF Init, SeatsInv, HeldOnce, SeenOnce, Seen, Drafted, NoDraft, Clash
<1>2. CallInv /\ SeatsInv /\ [Next]_vars => SeatsInv'
  BY SeatsKept
<1> QED
  BY <1>1, <1>2, CallsAlways, PTL DEF Spec

LEMMA CountsAlways == Spec => []CountInv
<1>1. Init => CountInv
  <2> SUFFICES ASSUME Init PROVE CountInv
    OBVIOUS
  <2>1. \A t \in Trips : avail[t] = TotalSeats /\ ActiveSeats(t) = {}
    BY DEF Init, ActiveSeats
  <2>2. SeatsExact
    <3>1. \A t \in Trips : Cardinality(ActiveSeats(t)) = 0
      BY <2>1, FS_EmptySet
    <3> QED
      BY <2>1, <3>1, SyncConstants DEF SeatsExact
  <2>3. \A q \in Calls, t \in Trips : SeatsLeft(q, t) = avail[t]
    <3>1. \A q \in Calls, t \in Trips : Sold(q, t) = {}
      BY DEF Init, NoDraft, Sold, Drafted
    <3>2. \A q \in Calls, t \in Trips : Cardinality(Sold(q, t)) = 0
      BY <3>1, FS_EmptySet
    <3> QED
      BY <2>1, <3>2, SyncConstants, SeatsLeftIs
  <2>4. \A q \in Calls : pc[q] = "idle"
    BY DEF Init
  <2> QED
    BY <2>1, <2>2, <2>3, <2>4, SyncConstants DEF CountInv, SeatsEnough
<1>2. CallInv /\ CountInv /\ [Next]_vars => CountInv'
  BY CountsKept
<1> QED
  BY <1>1, <1>2, CallsAlways, PTL DEF Spec

LEMMA ReportsAlways == Spec => []ReportInv
<1>1. Init => ReportInv
  BY InitTold
<1>2. CallInv /\ ReportInv /\ [Next]_vars => ReportInv'
  BY ToldKept
<1> QED
  BY <1>1, <1>2, CallsAlways, PTL DEF Spec

\* No seat is sold twice, whatever the batches hold and however the calls, the desk and
\* the aborts interleave: a call inserts under the lock of the trip, and what two open
\* transactions have inserted is on different trips.
THEOREM SyncSeatsSoldOnce == Spec => []SeatsHeldOnce
<1>1. SeatsInv => SeatsHeldOnce
  BY DEF SeatsInv, HeldOnce, Clash, SeatsHeldOnce, ActiveSeats, Holds
<1> QED
  BY <1>1, SeatsAlways, PTL

\* The tables stay well formed and the seats on sale of a trip are the seats of its
\* vehicle less its active bookings, never negative, though a call reads the counter of a
\* trip once and decrements it for each booking of its batch.
THEOREM SyncCounterExact == Spec => []SyncInv
<1>1. CallInv /\ CountInv => SyncInv
  <2> SUFFICES ASSUME CallInv, CountInv PROVE SyncInv
    OBVIOUS
  <2>1. avail \in [Trips -> Nat]
    BY DEF CallInv, Typed, CountInv
  <2> QED
    BY <2>1 DEF CallInv, Typed, CountInv, SyncInv, SyncTypeOK
<1> QED
  BY <1>1, CallsAlways, CountsAlways, PTL

\* The seat of a conflict is the seat of the stored ticket from the moment the agent is
\* told: no later call, sale, cancellation or abort changes the seat of a committed row.
THEOREM SyncReportsAreTrue == Spec => []ReportedSeatIsStored
<1>1. ReportInv => ReportedSeatIsStored
  BY DEF ReportInv, Answered, ReportedSeatIsStored
<1> QED
  BY <1>1, ReportsAlways, PTL

\* Ticket numbers of the desk and of two devices are never the same.
NumbersAreOwn ==
    \A d, e \in Devices, n \in Numbers :
        InBatch(d, n) => n \notin DeskNumbers /\ (InBatch(e, n) => d = e)

\* When ticket numbers are not shared, a device that has its answer has every item of its
\* batch stored under its own name or reported as rejected.
THEOREM SyncLosesNothing == ASSUME NumbersAreOwn PROVE Spec => []NothingLostSilently
<1>1. CallInv /\ ReportInv => NothingLostSilently
  <2> SUFFICES ASSUME CallInv, ReportInv, NEW d \in Devices, answer[d] # None, NEW i \in DOMAIN Batch[d]
               PROVE  LET it == Batch[d][i]
                      IN  \/ it.num \in RejectedNumbers(answer[d])
                          \/ it.kind = "booking" /\ SyncedFrom(d, it.num)
                          \/ it.kind = "parcel" /\ it.num \in parcels
                          \/ it.kind = "boarding" /\ it.num \in boarded
    BY DEF NothingLostSilently
  <2> DEFINE it == Batch[d][i]
  <2>1. \/ it.num \in RejectedNumbers(answer[d])
        \/ it.kind = "booking" /\ booked[it.num] # None
        \/ it.kind = "parcel" /\ it.num \in parcels
        \/ it.kind = "boarding" /\ it.num \in boarded
    BY DEF ReportInv, Answered
  <2>2. ASSUME it.kind = "booking", booked[it.num] # None PROVE SyncedFrom(d, it.num)
    <3>1. it.num \in Numbers /\ InBatch(d, it.num)
      BY <2>2, ItemNumber DEF InBatch
    <3>2. booked[it.num] \in Rows
      BY <2>2, <3>1 DEF CallInv, Typed
    <3>3. booked[it.num].by \in Devices \cup {None}
      BY <3>2 DEF Rows
    <3>4. it.num \notin DeskNumbers
      BY <3>1 DEF NumbersAreOwn
    <3>5. booked[it.num].by \in Devices /\ InBatch(booked[it.num].by, it.num)
      BY <2>2, <3>1, <3>3, <3>4 DEF CallInv, SyncedWell
    <3> QED
      BY <2>2, <3>1, <3>5 DEF NumbersAreOwn, SyncedFrom
  <2> QED
    BY <2>1, <2>2
<1> QED
  BY <1>1, CallsAlways, ReportsAlways, PTL

LEMMA OpenAlways == Spec => []OpenInv
<1>1. Init => OpenInv
  BY DEF Init, OpenInv, OnOpenTrips, Drafted, NoDraft
<1>2. CallInv /\ OpenInv /\ [Next]_vars => OpenInv'
  BY OpenKept
<1> QED
  BY <1>1, <1>2, CallsAlways, PTL DEF Spec

\* The synchronisation implements the seat map, a batch at a time: the seats that
\* sync_agent_data chose under its locks, one after the other, are free and their trips are
\* open when the whole batch commits, and no commit takes back a seat that was given up.
THEOREM SyncImplementsSeatMap == Spec => ImplementsSeatMap
<1>1. [Map!BatchNext]_mapped => [Map!BatchNext]_(Map!seatVars)
  BY DEF mapped, Map!seatVars
<1> QED
  BY <1>1, InitMaps, StepMaps, CallsAlways, SeatsAlways, OpenAlways, PTL
     DEF Spec, ImplementsSeatMap, Map!BatchSpec

==============================================================================
