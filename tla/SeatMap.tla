------------------------------- MODULE SeatMap -------------------------------
(***************************************************************************)
(* What the reservation desk promises about seats, with no row lock, no    *)
(* counter and no request in sight.                                        *)
(*                                                                         *)
(* A seat of a trip is free or has one holder.  A new ticket is issued for *)
(* a free seat of an open trip, and names that seat for good.  A seat      *)
(* changes hands only by being freed first; the holder of an issued ticket *)
(* may get the ticket's own seat back while it is free.  A closed trip     *)
(* stays closed.  Module Bookings implements SeatSpec, where tickets are   *)
(* issued one by one; module OfflineSync implements BatchSpec.             *)
(***************************************************************************)

CONSTANTS Trips,        \* trips on sale
          Labels,       \* seat labels
          Bookings,     \* tickets
          None          \* no ticket issued

VARIABLES holders,      \* holders[t][s]: the tickets that hold seat s of trip t
          issued,       \* issued[b]: the seat ticket b was issued for, or None
          open          \* open[t]: new tickets may be issued for trip t

seatVars == <<holders, issued, open>>

SeatTypeOK ==
    /\ holders \in [Trips -> [Labels -> SUBSET Bookings]]
    /\ issued \in [Bookings -> (Trips \X Labels) \cup {None}]
    /\ open \in [Trips -> BOOLEAN]

SeatInit ==
    /\ holders = [t \in Trips |-> [s \in Labels |-> {}]]
    /\ issued = [b \in Bookings |-> None]
    /\ open = [t \in Trips |-> TRUE]

Issue(t, s, b) ==
    /\ open[t]
    /\ holders[t][s] = {}
    /\ issued[b] = None
    /\ holders' = [holders EXCEPT ![t][s] = {b}]
    /\ issued' = [issued EXCEPT ![b] = <<t, s>>]
    /\ UNCHANGED open

Free(t, s) ==
    /\ holders[t][s] # {}
    /\ holders' = [holders EXCEPT ![t][s] = {}]
    /\ UNCHANGED <<issued, open>>

Reinstate(t, s, b) ==
    /\ holders[t][s] = {}
    /\ issued[b] = <<t, s>>
    /\ holders' = [holders EXCEPT ![t][s] = {b}]
    /\ UNCHANGED <<issued, open>>

Close(t) ==
    /\ open[t]
    /\ open' = [open EXCEPT ![t] = FALSE]
    /\ UNCHANGED <<holders, issued>>

SeatNext ==
    \E t \in Trips :
        \/ Close(t)
        \/ \E s \in Labels :
              \/ Free(t, s)
              \/ \E b \in Bookings : Issue(t, s, b) \/ Reinstate(t, s, b)

SeatSpec == SeatInit /\ [][SeatNext]_seatVars

\* The tickets of a batch are issued at once, each for a free seat of its own.
IssueTogether ==
    LET batch == {b \in Bookings : issued'[b] # issued[b]}
    IN  /\ issued' \in [Bookings -> (Trips \X Labels) \cup {None}]
        /\ \A b \in batch : \E t \in Trips, s \in Labels :
              /\ open[t] /\ holders[t][s] = {}
              /\ issued[b] = None /\ issued'[b] = <<t, s>>
        /\ \A b, c \in batch : issued'[b] = issued'[c] => b = c
        /\ holders' = [t \in Trips |-> [s \in Labels |->
                          holders[t][s] \cup {b \in batch : issued'[b] = <<t, s>>}]]
        /\ UNCHANGED open

BatchNext == IssueTogether \/ SeatNext

\* The seat map where tickets are issued in batches as well.
BatchSpec == SeatInit /\ [][BatchNext]_seatVars

==============================================================================
