---------------------------- MODULE Feedback_proofs ----------------------------
(***************************************************************************)
(* Proofs about module Feedback, for any number of travellers, requests,   *)
(* notifications and days.                                                 *)
(***************************************************************************)
EXTENDS Feedback, TLAPS

ClaimRows == [status: ClaimStatuses, created: 0..MaxNow, responded: Times, response: BOOLEAN]

\* Claims: an answer always has its time, and an answered claim is no longer new.
ClaimInv ==
    /\ now \in 0..MaxNow
    /\ claim \in [Users -> ClaimRows \cup {NoClaim}]
    /\ answered \in [Users -> Times]
    /\ report \in [Users -> ReportStatuses \cup {"none"}]
    /\ excuse \subseteq Excuses \X Users
    /\ AnswerKeepsItsTime
    /\ \A u \in Users : claim[u].response => answered[u] # Never /\ claim[u].status # "submitted"

\* The traveller has taken the trip, or had when the tests of his review were made.
Travelled(u) == (booking[u] = "paid" /\ over) \/ Excused("late", u)

OpinionInv ==
    /\ over \in BOOLEAN
    /\ booking \in [Users -> {"pending", "paid", "cancelled"}]
    /\ reviews \in [Users -> Nat]
    /\ response \cup flagged \cup reported \subseteq Users
    /\ \A u \in Users : reviews[u] > 0 => Travelled(u)
    /\ reported \subseteq flagged

InboxInv ==
    /\ arrived \in [Users -> SUBSET Items] /\ shown \in [Users -> SUBSET Items]
    /\ read \in [Users -> SUBSET Items]
    /\ ReadWasShown

\* What a request relies on between its load and its save.
JobOK(c) ==
    LET u == job[c].user
    IN  /\ pc[c] \in {"respond", "escalate", "close"} => u \in Users /\ claim[u] # NoClaim
        /\ pc[c] = "respond" => job[c].status \in Answers
        /\ pc[c] \in {"eligible", "unique", "insert", "answer", "flag"} => u \in Users
        /\ pc[c] = "eligible" => (job[c].over => over \/ Excused("late", u))
        /\ pc[c] \in {"unique", "insert"} => Travelled(u)

JobInv ==
    /\ pc = [c \in Calls |-> pc[c]] /\ job = [c \in Calls |-> job[c]]
    /\ \A c \in Calls : JobOK(c)

SavedInv == ClaimInv /\ OpinionInv /\ InboxInv /\ JobInv

------------------------------------------------------------------------------
LEMMA StartMoves ==
    ASSUME JobInv, NEW c \in Calls, NEW stage, NEW work, Start(c, stage, work)
    PROVE  /\ pc'[c] = stage /\ job'[c] = work
           /\ \A q \in Calls \ {c} : pc'[q] = pc[q] /\ job'[q] = job[q]
           /\ pc' = [q \in Calls |-> pc'[q]] /\ job' = [q \in Calls |-> job'[q]]
  BY DEF JobInv, Start

\* What the requests rely on stays true of the rows.
Steady ==
    /\ \A u \in Users : claim[u] # NoClaim => claim'[u] # NoClaim
    /\ \A u \in Users : Travelled(u) => Travelled(u)'
    /\ \A u \in Users : over \/ Excused("late", u) => (over \/ Excused("late", u))'

LEMMA JobKept ==
    ASSUME NEW c, JobOK(c), Steady, pc'[c] = pc[c], job'[c] = job[c]
    PROVE  JobOK(c)'
<1>1. ASSUME NEW u \in Users, u = job[c].user PROVE JobOK(c)'
  <2>1. Travelled(u) => Travelled(u)'
    BY DEF Steady
  <2>2. over \/ <<"late", u>> \in excuse => over' \/ <<"late", u>> \in excuse'
    BY DEF Steady, Excused
  <2>3. claim[u] # NoClaim => claim'[u] # NoClaim
    BY DEF Steady
  <2>4. /\ pc[c] = "eligible" => (job[c].over => over \/ <<"late", u>> \in excuse)
        /\ pc[c] \in {"unique", "insert"} => Travelled(u)
        /\ pc[c] \in {"respond", "escalate", "close"} => claim[u] # NoClaim
        /\ pc[c] = "respond" => job[c].status \in Answers
    BY <1>1 DEF JobOK, Excused
  <2>5. /\ pc'[c] = "eligible" => (job'[c].over => over' \/ <<"late", u>> \in excuse')
        /\ pc'[c] \in {"unique", "insert"} => Travelled(u)'
        /\ pc'[c] \in {"respond", "escalate", "close"} => claim'[u] # NoClaim
        /\ pc'[c] = "respond" => job'[c].status \in Answers
    BY <2>1, <2>2, <2>3, <2>4
  <2>6. job'[c].user = u
    BY <1>1
  <2> QED
    BY <2>5, <2>6 DEF JobOK, Travelled, Excused
<1>2. CASE job[c].user \notin Users
  BY <1>2 DEF JobOK
<1> QED
  BY <1>1, <1>2

LEMMA JobsKept == ASSUME JobInv, Steady, UNCHANGED <<pc, job>> PROVE JobInv'
<1>1. \A c \in Calls : JobOK(c)'
  BY JobKept DEF JobInv
<1> QED
  BY <1>1 DEF JobInv

\* A request moves on; the others rely on what they did.
LEMMA StartKeeps ==
    ASSUME JobInv, Steady, NEW c \in Calls, NEW stage, NEW work, Start(c, stage, work), JobOK(c)'
    PROVE  JobInv'
<1>1. \A q \in Calls \ {c} : JobOK(q)'
  BY StartMoves, JobKept DEF JobInv
<1> QED
  BY <1>1, StartMoves DEF JobInv

LEMMA EndKeeps == ASSUME JobInv, Steady, NEW c \in Calls, End(c) PROVE JobInv'
<1>1. Start(c, "done", Idle)
  BY DEF End
<1>2. pc'[c] = "done"
  BY <1>1, StartMoves
<1>3. JobOK(c)'
  BY <1>2 DEF JobOK
<1> QED
  BY <1>1, <1>3, StartKeeps

LEMMA SteadyOpinions == ASSUME UNCHANGED <<claim, over, booking>>, excuse \subseteq excuse' PROVE Steady
  BY DEF Steady, Travelled, Excused

LEMMA OpinionsSame ==
    ASSUME OpinionInv, UNCHANGED opinions, excuse \subseteq excuse' PROVE OpinionInv'
<1>1. UNCHANGED <<over, booking, reviews, response, flagged, reported>>
  BY DEF opinions
<1> QED
  BY <1>1 DEF OpinionInv, Travelled, Excused

LEMMA InboxSame == ASSUME InboxInv, UNCHANGED inbox, excuse \subseteq excuse' PROVE InboxInv'
<1>1. UNCHANGED <<arrived, shown, read>>
  BY DEF inbox
<1> QED
  BY <1>1 DEF InboxInv, ReadWasShown, Excused

LEMMA ClaimsSame ==
    ASSUME ClaimInv, UNCHANGED claims, excuse \subseteq excuse', excuse' \subseteq Excuses \X Users
    PROVE  ClaimInv'
<1>1. UNCHANGED <<now, claim, answered, report>>
  BY DEF claims
<1> QED
  BY <1>1 DEF ClaimInv, AnswerKeepsItsTime, Excused

------------------------------------------------------------------------------
(* Claims and reports *)

\* A step on claims only has to keep the claims and the requests.
LEMMA ClaimStepKeeps ==
    ASSUME SavedInv, UNCHANGED <<opinions, inbox>>, excuse \subseteq excuse', ClaimInv', JobInv'
    PROVE  SavedInv'
  BY OpinionsSame, InboxSame DEF SavedInv

LEMMA SteadyClaims ==
    ASSUME UNCHANGED opinions, excuse \subseteq excuse',
           \A u \in Users : claim[u] # NoClaim => claim'[u] # NoClaim
    PROVE  Steady
  BY DEF Steady, Travelled, Excused, opinions

\* The clock, and a new claim or report.
LEMMA FilingKeeps ==
    ASSUME SavedInv,
           \/ Tick
           \/ \E u \in Users : SubmitClaim(u) \/ FileReport(u)
           \/ \E u \in Users, s \in ReportStatuses \cup {"unknown"} : SetReportStatus(u, s)
    PROVE  SavedInv'
<1>1. UNCHANGED <<opinions, inbox, pc, job, excuse, answered>>
  BY DEF Tick, SubmitClaim, FileReport, SetReportStatus
<1>2. CASE Tick
  <2>1. UNCHANGED <<claim, report>> /\ now' \in 0..MaxNow
    BY <1>2, FeedbackConstants DEF Tick, SavedInv, ClaimInv
  <2>2. ClaimInv'
    BY <1>1, <2>1 DEF SavedInv, ClaimInv, AnswerKeepsItsTime, Excused
  <2> QED
    BY <1>1, <2>1, <2>2, SteadyClaims, JobsKept, ClaimStepKeeps DEF SavedInv
<1>3. ASSUME NEW u \in Users, SubmitClaim(u) PROVE SavedInv'
  <2> DEFINE row == [NoClaim EXCEPT !.status = "submitted", !.created = now]
  <2>1. claim' = [claim EXCEPT ![u] = row] /\ claim[u] = NoClaim /\ UNCHANGED <<now, report>>
    BY <1>3 DEF SubmitClaim
  <2>2. row \in ClaimRows /\ ~row.response /\ row # NoClaim
    <3>1. Never \in Times /\ now \in 0..MaxNow
      BY FeedbackConstants DEF Times, Never, SavedInv, ClaimInv
    <3>2. NoClaim \in [status: {"none"}, created: {Never}, responded: Times, response: {FALSE}]
      BY <3>1 DEF NoClaim
    <3>3. row \in [status: {"submitted"}, created: 0..MaxNow, responded: Times, response: {FALSE}]
      BY <3>1, <3>2
    <3>4. row \in ClaimRows /\ row.status = "submitted" /\ ~row.response
      BY <3>3 DEF ClaimRows, ClaimStatuses
    <3> QED
      BY <3>2, <3>4
  <2> HIDE DEF row
  <2>3. \A k \in Users : claim'[k] = IF k = u THEN row ELSE claim[k]
    BY <2>1 DEF SavedInv, ClaimInv
  <2>4. ClaimInv'
    BY <1>1, <2>1, <2>2, <2>3 DEF SavedInv, ClaimInv, AnswerKeepsItsTime, Excused
  <2>5. \A k \in Users : claim[k] # NoClaim => claim'[k] # NoClaim
    BY <2>2, <2>3
  <2> QED
    BY <1>1, <2>4, <2>5, SteadyClaims, JobsKept, ClaimStepKeeps DEF SavedInv
<1>4. CASE \/ \E u \in Users : FileReport(u)
           \/ \E u \in Users, s \in ReportStatuses \cup {"unknown"} : SetReportStatus(u, s)
  <2>1. UNCHANGED <<now, claim>> /\ report' \in [Users -> ReportStatuses \cup {"none"}]
    BY <1>4 DEF FileReport, SetReportStatus, KnownStatus, ReportStatuses, SavedInv, ClaimInv
  <2>2. ClaimInv'
    BY <1>1, <2>1 DEF SavedInv, ClaimInv, AnswerKeepsItsTime, Excused
  <2> QED
    BY <1>1, <2>1, <2>2, SteadyClaims, JobsKept, ClaimStepKeeps DEF SavedInv
<1> QED
  BY <1>2, <1>3, <1>4

LEMMA BeginClaimKeeps ==
    ASSUME SavedInv, NEW c \in Calls, NEW u \in Users,
           \/ \E s \in Answers : BeginClaim(c, u, "respond", s)
           \/ BeginClaim(c, u, "escalate", "escalated") \/ BeginClaim(c, u, "close", "closed")
    PROVE  SavedInv'
<1>1. PICK op \in {"respond", "escalate", "close"}, s \in ClaimStatuses :
          BeginClaim(c, u, op, s) /\ (op = "respond" => s \in Answers)
  BY DEF Answers, ClaimStatuses
<1> DEFINE work == [op |-> op, user |-> u, status |-> s, copy |-> claim[u]]
<1>2. /\ UNCHANGED <<claims, opinions, inbox, excuse>> /\ Start(c, op, work) /\ claim[u] # NoClaim
      /\ work.user = u /\ work.status = s
  BY <1>1 DEF BeginClaim
<1> HIDE DEF work
<1>3. pc'[c] = op /\ job'[c] = work
  BY <1>2, StartMoves DEF SavedInv
<1>4. UNCHANGED claim
  BY <1>2 DEF claims
<1>5. JobOK(c)'
  BY <1>1, <1>2, <1>3, <1>4 DEF JobOK
<1> QED
  BY <1>2, <1>4, <1>5, SteadyClaims, StartKeeps, ClaimsSame, ClaimStepKeeps DEF SavedInv, ClaimInv

\* A save of a claim: the row stays well formed, its answer keeps its time.
LEMMA SaveClaimKeeps ==
    ASSUME SavedInv, NEW c \in Calls, NEW u \in Users, NEW row \in ClaimRows, NEW time \in Times,
           End(c), UNCHANGED <<now, report, opinions, inbox>>,
           excuse \subseteq excuse', excuse' \subseteq Excuses \X Users,
           claim' = [claim EXCEPT ![u] = row], answered' = [answered EXCEPT ![u] = time],
           row.response => row.responded = time \/ <<"closing", u>> \in excuse',
           row.response => time # Never /\ row.status # "submitted"
    PROVE  SavedInv'
<1>1. \A k \in Users : /\ claim'[k] = IF k = u THEN row ELSE claim[k]
                       /\ answered'[k] = IF k = u THEN time ELSE answered[k]
  BY DEF SavedInv, ClaimInv
<1>2. row # NoClaim
  BY DEF ClaimRows, NoClaim, ClaimStatuses
<1>3. AnswerKeepsItsTime'
  BY <1>1 DEF SavedInv, ClaimInv, AnswerKeepsItsTime, Excused
<1>4. ClaimInv'
  BY <1>1, <1>3 DEF SavedInv, ClaimInv
<1>5. Steady
  BY <1>1, <1>2, SteadyClaims
<1> QED
  BY <1>4, <1>5, EndKeeps, ClaimStepKeeps DEF SavedInv

LEMMA SaveKeeps ==
    ASSUME SavedInv, NEW c \in Calls, Respond(c) \/ Escalate(c) \/ Close(c) PROVE SavedInv'
<1> DEFINE u == job[c].user
<1>1. u \in Users /\ claim[u] \in ClaimRows /\ End(c) /\ UNCHANGED <<now, report, opinions, inbox>>
  <2>1. u \in Users /\ claim[u] # NoClaim
    BY DEF SavedInv, JobInv, JobOK, Respond, Escalate, Close
  <2> QED
    BY <2>1 DEF SavedInv, ClaimInv, Respond, Escalate, Close
<1>2. claim[u] = [status |-> claim[u].status, created |-> claim[u].created,
                  responded |-> claim[u].responded, response |-> claim[u].response]
  BY <1>1 DEF ClaimRows
<1>3. now \in Times /\ now # Never /\ answered[u] \in Times /\ excuse \subseteq Excuses \X Users
  BY <1>1, FeedbackConstants DEF SavedInv, ClaimInv, Times, Never
<1>4. CASE Respond(c)
  <2> DEFINE row == [claim[u] EXCEPT !.status = job[c].status, !.response = TRUE, !.responded = now]
  <2>1. job[c].status \in Answers
    BY <1>4 DEF SavedInv, JobInv, JobOK, Respond
  <2>2. row \in ClaimRows /\ row.responded = now /\ row.status # "submitted"
    BY <1>1, <1>3, <2>1 DEF ClaimRows, Answers, ClaimStatuses
  <2>3. claim' = [claim EXCEPT ![u] = row] /\ answered' = [answered EXCEPT ![u] = now] /\ UNCHANGED excuse
    BY <1>4 DEF Respond
  <2> HIDE DEF row
  <2> QED
    BY <1>1, <1>3, <2>2, <2>3, SaveClaimKeeps
<1>5. CASE Escalate(c)
  <2> DEFINE row == [claim[u] EXCEPT !.status = "escalated"]
  <2>1. /\ row \in ClaimRows /\ row.status = "escalated"
        /\ row.responded = claim[u].responded /\ row.response = claim[u].response
    BY <1>1 DEF ClaimRows, ClaimStatuses
  <2>2. claim' = [claim EXCEPT ![u] = row] /\ UNCHANGED <<answered, excuse>>
    BY <1>5 DEF Escalate
  <2>3. answered' = [answered EXCEPT ![u] = answered[u]]
    BY <1>1, <2>2 DEF SavedInv, ClaimInv
  <2>4. row.response => /\ row.responded = answered[u] \/ <<"closing", u>> \in excuse'
                        /\ answered[u] # Never
    BY <1>1, <2>1, <2>2 DEF SavedInv, ClaimInv, AnswerKeepsItsTime, Excused
  <2> HIDE DEF row
  <2> QED
    BY <1>1, <1>3, <2>1, <2>2, <2>3, <2>4, SaveClaimKeeps
<1>6. CASE Close(c)
  <2> DEFINE time == RespondedAfterClose(job[c].copy, claim[u].responded)
             row == [claim[u] EXCEPT !.status = "closed", !.responded = time]
  <2>1. time \in {now, claim[u].responded} /\ time \in Times
    BY <1>1, <1>3 DEF RespondedAfterClose, ClaimRows
  <2>2. /\ row \in ClaimRows /\ row.status = "closed"
        /\ row.responded = time /\ row.response = claim[u].response
    BY <1>1, <2>1 DEF ClaimRows, ClaimStatuses
  <2>3. claim' = [claim EXCEPT ![u] = row] /\ UNCHANGED answered
    BY <1>6 DEF Close
  <2>4. answered' = [answered EXCEPT ![u] = answered[u]]
    BY <1>1, <2>3 DEF SavedInv, ClaimInv
  <2>5. /\ excuse \subseteq excuse' /\ excuse' \subseteq Excuses \X Users
        /\ claim[u].responded # job[c].copy.responded => <<"closing", u>> \in excuse'
    <3>1. <<"closing", u>> \in Excuses \X Users
      BY <1>1 DEF Excuses
    <3> QED
      BY <1>3, <1>6, <3>1 DEF Close, ExcuseIf
  <2>6. row.response => /\ row.responded = answered[u] \/ <<"closing", u>> \in excuse'
                        /\ answered[u] # Never
    <3>1. SUFFICES ASSUME claim[u].response, claim[u].responded = job[c].copy.responded
                   PROVE  /\ time = answered[u] \/ <<"closing", u>> \in excuse'
                          /\ answered[u] # Never
      BY <1>1, <2>2, <2>5 DEF SavedInv, ClaimInv
    <3>2. answered[u] # Never /\ (claim[u].responded = answered[u] \/ <<"closing", u>> \in excuse)
      BY <1>1, <3>1 DEF SavedInv, ClaimInv, AnswerKeepsItsTime, Excused
    <3> QED
      BY <2>5, <3>1, <3>2 DEF RespondedAfterClose
  <2> HIDE DEF row, time
  <2> QED
    BY <1>1, <1>3, <2>2, <2>3, <2>4, <2>5, <2>6, SaveClaimKeeps
<1> QED
  BY <1>4, <1>5, <1>6

------------------------------------------------------------------------------
(* Reviews *)

\* A step on reviews only has to keep the opinions and the requests.
LEMMA ReviewStepKeeps ==
    ASSUME SavedInv, UNCHANGED <<claims, inbox>>, excuse \subseteq excuse',
           excuse' \subseteq Excuses \X Users, OpinionInv', JobInv'
    PROVE  SavedInv'
  BY ClaimsSame, InboxSame DEF SavedInv

\* What ceases for a traveller is excused.
LEMMA TripKeeps ==
    ASSUME SavedInv, SetTripStatus \/ \E u \in Users, s \in {"pending", "paid", "cancelled"} : SetBooking(u, s)
    PROVE  SavedInv'
<1>1. UNCHANGED <<claims, reviews, response, flagged, reported, inbox, pc, job>>
  BY DEF SetTripStatus, SetBooking
<1>2. /\ excuse \subseteq excuse' /\ excuse' \subseteq Excuses \X Users
      /\ over' \in BOOLEAN /\ booking' \in [Users -> {"pending", "paid", "cancelled"}]
      /\ \A u \in Users : Travelled(u) => Travelled(u)'
      /\ \A u \in Users : over \/ Excused("late", u) => (over \/ Excused("late", u))'
  <2>1. CASE SetTripStatus
    <3>1. over' = ~over /\ UNCHANGED booking /\ over \in BOOLEAN
      BY <2>1 DEF SetTripStatus, SavedInv, OpinionInv
    <3>2. excuse \subseteq excuse' /\ excuse' \subseteq Excuses \X Users
          /\ (over => {"late"} \X Users \subseteq excuse')
      BY <2>1 DEF SetTripStatus, Excuses, SavedInv, ClaimInv
    <3>3. ASSUME NEW u \in Users
          PROVE  /\ Travelled(u) => Travelled(u)'
                 /\ over \/ Excused("late", u) => (over \/ Excused("late", u))'
      <4>1. over => <<"late", u>> \in excuse'
        BY <3>2
      <4> QED
        BY <3>1, <3>2, <4>1 DEF Travelled, Excused
    <3> QED
      BY <3>1, <3>2, <3>3 DEF SavedInv, OpinionInv
  <2>2. ASSUME NEW k \in Users, NEW s \in {"pending", "paid", "cancelled"}, SetBooking(k, s)
        PROVE  /\ excuse \subseteq excuse' /\ excuse' \subseteq Excuses \X Users
               /\ over' = over /\ booking' \in [Users -> {"pending", "paid", "cancelled"}]
               /\ \A u \in Users : Travelled(u) => Travelled(u)'
    <3>1. booking' = [booking EXCEPT ![k] = s] /\ over' = over
          /\ excuse' = IF booking[k] = "paid" THEN excuse \cup {<<"late", k>>} ELSE excuse
      BY <2>2 DEF SetBooking, ExcuseIf
    <3>2. <<"late", k>> \in Excuses \X Users
      BY DEF Excuses
    <3>3. \A u \in Users : booking'[u] = IF u = k THEN s ELSE booking[u]
      BY <3>1 DEF SavedInv, OpinionInv
    <3>4. ASSUME NEW u \in Users, Travelled(u) PROVE Travelled(u)'
      <4>1. CASE u = k
        BY <3>1, <3>4, <4>1 DEF Travelled, Excused
      <4>2. CASE u # k
        BY <3>1, <3>3, <3>4, <4>2 DEF Travelled, Excused
      <4> QED
        BY <4>1, <4>2
    <3> QED
      BY <3>1, <3>2, <3>4 DEF SavedInv, OpinionInv, ClaimInv
  <2>3. CASE \E k \in Users, s \in {"pending", "paid", "cancelled"} : SetBooking(k, s)
    <3>1. /\ excuse \subseteq excuse' /\ excuse' \subseteq Excuses \X Users
          /\ over' = over /\ booking' \in [Users -> {"pending", "paid", "cancelled"}]
          /\ \A u \in Users : Travelled(u) => Travelled(u)'
      BY <2>2, <2>3
    <3> QED
      BY <3>1 DEF SavedInv, OpinionInv, Excused
  <2> QED
    BY <2>1, <2>3
<1>3. OpinionInv'
  BY <1>1, <1>2 DEF SavedInv, OpinionInv
<1>4. UNCHANGED claim
  BY <1>1 DEF claims
<1>5. Steady
  BY <1>2, <1>4 DEF Steady
<1> QED
  BY <1>1, <1>2, <1>3, <1>5, JobsKept, ReviewStepKeeps DEF SavedInv

\* A request on a review moves on.
LEMMA ReviewMoveKeeps ==
    ASSUME SavedInv, NEW c \in Calls, NEW stage, NEW work, UNCHANGED <<claims, opinions, inbox, excuse>>,
           End(c) \/ (Start(c, stage, work)
                        /\ stage \in {"eligible", "unique", "insert", "answer", "flag"}
                        /\ work.user \in Users
                        /\ (stage = "eligible" => (work.over => over \/ Excused("late", work.user)))
                        /\ (stage \in {"unique", "insert"} => Travelled(work.user)))
    PROVE  SavedInv'
<1>1. UNCHANGED <<claim, over, booking>>
  BY DEF claims, opinions
<1>2. Steady
  BY <1>1, SteadyOpinions
<1>3. OpinionInv' /\ excuse \subseteq Excuses \X Users
  BY OpinionsSame DEF SavedInv, ClaimInv
<1>4. CASE End(c)
  BY <1>2, <1>3, <1>4, EndKeeps, ReviewStepKeeps DEF SavedInv
<1>5. CASE ~End(c)
  <2>1. /\ Start(c, stage, work)
        /\ stage \in {"eligible", "unique", "insert", "answer", "flag"}
        /\ work.user \in Users
        /\ (stage = "eligible" => (work.over => over \/ Excused("late", work.user)))
        /\ (stage \in {"unique", "insert"} => Travelled(work.user))
    BY <1>5
  <2>2. pc'[c] = stage /\ job'[c] = work
    BY <2>1, StartMoves DEF SavedInv
  <2>3. JobOK(c)'
    BY <1>1, <2>1, <2>2 DEF JobOK, Travelled, Excused
  <2> QED
    BY <1>2, <1>3, <2>1, <2>3, StartKeeps, ReviewStepKeeps DEF SavedInv
<1> QED
  BY <1>4, <1>5

LEMMA ReviewTestsKeep ==
    ASSUME SavedInv, NEW c \in Calls,
           \/ \E u \in Users : \/ BeginReview(c, u)
                               \/ BeginModerate(c, u, "answer") \/ BeginModerate(c, u, "flag")
           \/ TestEligible(c) \/ TestUnique(c)
    PROVE  SavedInv'
<1>1. UNCHANGED <<claims, opinions, inbox, excuse>>
  BY DEF BeginReview, BeginModerate, TestEligible, TestUnique
<1>2. JobOK(c)
  BY DEF SavedInv, JobInv
<1>3. ASSUME NEW u \in Users, BeginReview(c, u) PROVE SavedInv'
  <2> DEFINE work == [op |-> "review", user |-> u, over |-> over]
  <2>1. Start(c, "eligible", work) /\ work.user = u /\ work.over = over
    BY <1>3 DEF BeginReview
  <2> HIDE DEF work
  <2> QED
    BY <1>1, <2>1, ReviewMoveKeeps
<1>4. ASSUME NEW u \in Users, NEW op \in {"answer", "flag"}, BeginModerate(c, u, op) PROVE SavedInv'
  <2> DEFINE work == [op |-> op, user |-> u, flagged |-> u \in flagged]
  <2>1. Start(c, op, work) /\ work.user = u
    BY <1>4 DEF BeginModerate
  <2> HIDE DEF work
  <2> QED
    BY <1>1, <2>1, ReviewMoveKeeps
<1>5. CASE TestEligible(c)
  <2>1. End(c) \/ (CanReview(c, job[c].user) /\ Start(c, "unique", job[c]))
    BY <1>5 DEF TestEligible
  <2>2. job[c].user \in Users /\ (job[c].over => over \/ Excused("late", job[c].user))
    BY <1>2, <1>5 DEF JobOK, TestEligible
  <2>3. CanReview(c, job[c].user) => Travelled(job[c].user)
    BY <2>2 DEF CanReview, Travelled
  <2> QED
    BY <1>1, <2>1, <2>2, <2>3, ReviewMoveKeeps
<1>6. CASE TestUnique(c)
  <2>1. End(c) \/ Start(c, "insert", job[c])
    BY <1>6 DEF TestUnique
  <2>2. job[c].user \in Users /\ Travelled(job[c].user)
    BY <1>2, <1>6 DEF JobOK, TestUnique
  <2> QED
    BY <1>1, <2>1, <2>2, ReviewMoveKeeps
<1> QED
  BY <1>3, <1>4, <1>5, <1>6

LEMMA ReviewSaveKeeps ==
    ASSUME SavedInv, NEW c \in Calls, InsertReview(c) \/ RespondToReview(c) \/ FlagReview(c)
    PROVE  SavedInv'
<1> DEFINE u == job[c].user
<1>1. /\ UNCHANGED <<claims, inbox, excuse, over, booking>> /\ End(c) /\ u \in Users
      /\ InsertReview(c) => Travelled(u)
  BY DEF InsertReview, RespondToReview, FlagReview, SavedInv, JobInv, JobOK
<1>2. UNCHANGED claim /\ (\A k : Travelled(k)' <=> Travelled(k)) /\ Steady
  BY <1>1, SteadyOpinions DEF claims, Travelled, Excused
<1>3. excuse' \subseteq Excuses \X Users
  BY <1>1 DEF SavedInv, ClaimInv
<1>4. OpinionInv'
  <2>1. CASE InsertReview(c)
    <3>1. /\ reviews' = [reviews EXCEPT ![u] = IF AllowedRow(u) THEN @ + 1 ELSE @]
          /\ UNCHANGED <<response, flagged, reported>>
      BY <2>1 DEF InsertReview
    <3>2. \A k \in Users : reviews'[k] \in {reviews[k], 1} /\ (reviews'[k] # reviews[k] => k = u)
      BY <1>1, <3>1 DEF AllowedRow, SavedInv, OpinionInv
    <3>3. reviews' \in [Users -> Nat]
      BY <1>1, <3>1 DEF SavedInv, OpinionInv
    <3> QED
      BY <1>1, <1>2, <2>1, <3>1, <3>2, <3>3 DEF SavedInv, OpinionInv
  <2>2. CASE RespondToReview(c)
    BY <1>1, <1>2, <2>2 DEF RespondToReview, FlagAfterResponse, SavedInv, OpinionInv
  <2>3. CASE FlagReview(c)
    BY <1>1, <1>2, <2>3 DEF FlagReview, SavedInv, OpinionInv
  <2> QED
    BY <2>1, <2>2, <2>3
<1> QED
  BY <1>1, <1>2, <1>3, <1>4, EndKeeps, ReviewStepKeeps DEF SavedInv

------------------------------------------------------------------------------
LEMMA InboxStepKeeps == ASSUME SavedInv, InboxStep PROVE SavedInv'
<1>1. UNCHANGED <<claims, opinions, pc, job>>
  BY DEF InboxStep, Arrive, ListNotices, ReadAll, OpenMessage, ReadNotice
<1>2. PICK u \in Users :
          \/ \E item \in Items : Arrive(u, item)
          \/ ListNotices(u) \/ ReadAll(u) \/ OpenMessage(u)
          \/ \E n \in Notices : ReadNotice(u, n)
  BY DEF InboxStep
<1>3. excuse \subseteq excuse' /\ excuse' \subseteq Excuses \X Users
  <2>1. <<"all", u>> \in Excuses \X Users
    BY DEF Excuses
  <2> QED
    BY <1>2, <2>1 DEF Arrive, ListNotices, ReadAll, OpenMessage, ReadNotice, ExcuseIf, SavedInv, ClaimInv
<1>4. InboxInv'
  <2>1. \A k \in Users : arrived[k] \subseteq Items /\ shown[k] \subseteq Items /\ read[k] \subseteq Items
    BY DEF SavedInv, InboxInv
  <2>2. CASE \E item \in Items : Arrive(u, item)
    BY <2>1, <2>2 DEF Arrive, SavedInv, InboxInv, ReadWasShown, Excused
  <2>3. CASE ListNotices(u)
    BY <2>1, <2>3 DEF ListNotices, SavedInv, InboxInv, ReadWasShown, Excused
  <2>4. CASE ReadAll(u)
    <3>1. /\ read' = [read EXCEPT ![u] = @ \cup (arrived[u] \cap Notices)]
          /\ excuse' = excuse \cup {<<"all", u>>} /\ UNCHANGED <<arrived, shown>>
      BY <2>4 DEF ReadAll, MarkedRead, ExcuseIf
    <3> QED
      BY <2>1, <3>1 DEF SavedInv, InboxInv, ReadWasShown, Excused
  <2>5. CASE OpenMessage(u)
    BY <2>1, <2>5 DEF OpenMessage, Items, SavedInv, InboxInv, ReadWasShown, Excused
  <2>6. CASE \E n \in Notices : ReadNotice(u, n)
    BY <2>1, <2>6 DEF ReadNotice, Items, SavedInv, InboxInv, ReadWasShown, Excused
  <2> QED
    BY <1>2, <2>2, <2>3, <2>4, <2>5, <2>6
<1>5. Steady
  BY <1>1, <1>3, SteadyOpinions DEF claims, opinions
<1>6. ClaimInv' /\ OpinionInv'
  BY <1>1, <1>3, ClaimsSame, OpinionsSame DEF SavedInv
<1>7. JobInv'
  BY <1>1, <1>5, JobsKept DEF SavedInv
<1> QED
  BY <1>4, <1>6, <1>7 DEF SavedInv

LEMMA FailKeeps == ASSUME SavedInv, NEW c \in Calls, Fail(c) PROVE SavedInv'
<1>1. UNCHANGED <<claims, opinions, inbox, excuse>> /\ End(c)
  BY DEF Fail
<1> QED
  BY <1>1, ReviewMoveKeeps

LEMMA InitSavedInv == Init => SavedInv
<1> SUFFICES ASSUME Init PROVE SavedInv
  OBVIOUS
<1>1. NoClaim.response = FALSE /\ Never \in Times
  BY FeedbackConstants DEF NoClaim, Times, Never
<1>2. ClaimInv
  BY <1>1, FeedbackConstants DEF Init, ClaimInv, AnswerKeepsItsTime
<1>3. OpinionInv
  <2>1. booking \in [Users -> {"pending", "paid", "cancelled"}]
    <3>1. booking \in [Users -> {"pending", "paid"}]
      BY DEF Init
    <3> QED
      BY <3>1
  <2>2. reviews \in [Users -> Nat] /\ \A u \in Users : reviews[u] = 0
    BY DEF Init
  <2>3. over \in BOOLEAN /\ response = {} /\ flagged = {} /\ reported = {}
    BY DEF Init
  <2>4. \A u \in Users : reviews[u] > 0 => Travelled(u)
    BY <2>2
  <2> QED
    BY <2>1, <2>2, <2>3, <2>4 DEF OpinionInv
<1>4. InboxInv
  BY DEF Init, InboxInv, ReadWasShown
<1>5. JobInv
  BY DEF Init, JobInv, JobOK
<1> QED
  BY <1>2, <1>3, <1>4, <1>5 DEF SavedInv

LEMMA NextKeepsSavedInv == SavedInv /\ [Next]_vars => SavedInv'
<1> SUFFICES ASSUME SavedInv, [Next]_vars PROVE SavedInv'
  OBVIOUS
<1>1. CASE UNCHANGED vars
  <2>1. UNCHANGED <<claims, opinions, inbox, pc, job, excuse>>
    BY <1>1 DEF vars
  <2>2. Steady
    BY <2>1, SteadyOpinions DEF claims, opinions
  <2> QED
    BY <2>1, <2>2, JobsKept, OpinionsSame, ReviewStepKeeps DEF SavedInv, ClaimInv
<1>2. CASE ClaimStep
  BY <1>2, FilingKeeps, BeginClaimKeeps, SaveKeeps DEF ClaimStep
<1>3. CASE ReportStep
  BY <1>3, FilingKeeps DEF ReportStep
<1>4. CASE ReviewStep
  BY <1>4, TripKeeps, ReviewTestsKeep, ReviewSaveKeeps DEF ReviewStep
<1> QED
  BY <1>1, <1>2, <1>3, <1>4, InboxStepKeeps, FailKeeps DEF Next

\* What requests rely on between load and save holds whatever their number.
THEOREM Saved == Spec => []SavedInv
  BY InitSavedInv, NextKeepsSavedInv, PTL DEF Spec

\* An answer keeps its time, what is overdue is unanswered, reviewers have travelled,
\* and what is read was shown.
THEOREM FeedbackInvariant == Spec => []FeedbackInv
<1> SUFFICES ASSUME SavedInv PROVE FeedbackInv
  BY Saved, PTL
<1>1. FeedbackTypeOK
  BY DEF SavedInv, ClaimInv, OpinionInv, InboxInv, FeedbackTypeOK, ClaimRows
<1>2. OverdueHasNoAnswer
  BY DEF SavedInv, ClaimInv, OverdueHasNoAnswer, Overdue, UnresolvedClaims, Unresolved
<1> QED
  BY <1>1, <1>2 DEF SavedInv, ClaimInv, OpinionInv, InboxInv, FeedbackInv, ReviewersTravelled, Travelled

\* A review that an admin flagged is no longer public, whatever is saved after.
THEOREM FlaggedStaysHidden == Spec => []FlaggedIsHidden
<1>1. SavedInv => FlaggedIsHidden
  BY DEF SavedInv, OpinionInv, FlaggedIsHidden, PublicReviews
<1> QED
  BY <1>1, Saved, PTL

===============================================================================
