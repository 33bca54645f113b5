-------------------------------- MODULE Feedback --------------------------------
(***************************************************************************)
(* What travellers send back about a trip they took, and what they are     *)
(* sent: claims, reviews, speed reports, notifications, messages.          *)
(*                                                                         *)
(* No row is locked.  A view loads a row and a service saves some columns  *)
(* of its copy; a review is inserted after three queries.  One trip, one   *)
(* claim, one review, one report and one message per traveller.  Claims,   *)
(* reports, reviews and the inbox share no row: a behaviour follows one of *)
(* the four.                                                               *)
(***************************************************************************)
EXTENDS Integers, FiniteSets

CONSTANTS Users,   \* travellers
          Notices, \* notifications of a traveller
          Calls,   \* requests that load a row and save it later
          MaxNow   \* bound on the clock, in days

ASSUME FeedbackConstants == MaxNow \in Nat

VARIABLES
    matter,   \* what the behaviour follows
    now,      \* days since the first claim could be filed
    claim,    \* claim[u]: its row
    answered, \* answered[u]: when the company last answered, or Never
    report,   \* report[u]: status of the speed report
    over,     \* the trip is completed
    booking,  \* booking[u] on that trip
    reviews,  \* reviews[u]: rows of Review of u for the trip
    response, \* reviews that have a response
    flagged,  \* reviews whose is_flagged column is set
    reported, \* reviews that a company admin has flagged
    arrived,  \* arrived[u]: notifications and messages to u
    shown,    \* shown[u]: those that a list or a page has shown to u
    read,     \* read[u]: those whose is_read column is set
    pc, job, excuse

claims == <<now, claim, answered, report>>
opinions == <<over, booking, reviews, response, flagged, reported>>
inbox == <<arrived, shown, read>>
vars == <<matter, claims, opinions, inbox, pc, job, excuse>>

Matters == {"claims", "reports", "reviews", "inbox"}

Never == -1
Times == Never..MaxNow

ClaimStatuses  == {"submitted", "in_progress", "resolved", "closed", "escalated"}
Answers        == {"in_progress", "resolved", "closed"}
Unresolved     == {"submitted", "in_progress", "escalated"}
ReportStatuses == {"pending", "reviewed", "closed"}
Items          == Notices \cup {"message"}

NoClaim == [status |-> "none", created |-> Never, responded |-> Never, response |-> FALSE]

\* closing: the claim was closed by a request that had loaded it before an answer;
\* late:    the booking was cancelled, or the trip reopened, after the review's tests;
\* all:     everything was marked as read.
Excuses == {"closing", "late", "all"}

Idle == [op |-> "none"]

Init ==
    /\ matter \in Matters
    /\ now = 0
    /\ claim = [u \in Users |-> NoClaim]
    /\ answered = [u \in Users |-> Never]
    /\ report = [u \in Users |-> "none"]
    /\ over = FALSE
    /\ booking \in [Users -> {"pending", "paid"}]
    /\ reviews = [u \in Users |-> 0]
    /\ response = {} /\ flagged = {} /\ reported = {}
    /\ arrived = [u \in Users |-> {}]
    /\ shown = [u \in Users |-> {}]
    /\ read = [u \in Users |-> {}]
    /\ pc = [c \in Calls |-> "idle"]
    /\ job = [c \in Calls |-> Idle]
    /\ excuse = {}

------------------------------------------------------------------------------
Excused(why, u) == <<why, u>> \in excuse

ExcuseIf(test, why, u) == excuse' = IF test THEN excuse \cup {<<why, u>>} ELSE excuse

Start(c, stage, work) ==
    /\ pc' = [pc EXCEPT ![c] = stage]
    /\ job' = [job EXCEPT ![c] = work]

End(c) == Start(c, "done", Idle)

Tick == now < MaxNow /\ now' = now + 1
        /\ UNCHANGED <<claim, answered, report, opinions, inbox, pc, job, excuse>>

------------------------------------------------------------------------------
(* Claims *)

SubmitClaim(u) ==
    /\ claim[u] = NoClaim
    /\ claim' = [claim EXCEPT ![u] = [NoClaim EXCEPT !.status = "submitted", !.created = now]]
    /\ UNCHANGED <<now, answered, report, opinions, inbox, pc, job, excuse>>

\* The views respond, escalate and close load the claim; none looks at its status.
BeginClaim(c, u, op, status) ==
    /\ pc[c] = "idle" /\ claim[u] # NoClaim
    /\ Start(c, op, [op |-> op, user |-> u, status |-> status, copy |-> claim[u]])
    /\ UNCHANGED <<claims, opinions, inbox, excuse>>

Respond(c) ==
    LET u == job[c].user
    IN  /\ pc[c] = "respond"
        /\ claim' = [claim EXCEPT ![u].status = job[c].status, ![u].response = TRUE,
                                  ![u].responded = now]
        /\ answered' = [answered EXCEPT ![u] = now]
        /\ End(c)
        /\ UNCHANGED <<now, report, opinions, inbox, excuse>>

Escalate(c) ==
    /\ pc[c] = "escalate"
    /\ claim' = [claim EXCEPT ![job[c].user].status = "escalated"]
    /\ End(c)
    /\ UNCHANGED <<now, answered, report, opinions, inbox, excuse>>

\* Mutant: the date is set whatever it was.
RespondedAfterCloseAlways(copy, stored) == now

\* responded_at is set, and saved, only if the loaded row had none.
RespondedAfterClose(copy, stored) == IF copy.responded = Never THEN now ELSE stored

Close(c) ==
    LET u == job[c].user
    IN  /\ pc[c] = "close"
        /\ claim' = [claim EXCEPT ![u].status = "closed",
                                  ![u].responded = RespondedAfterClose(job[c].copy, @)]
        /\ ExcuseIf(claim[u].responded # job[c].copy.responded, "closing", u)
        /\ End(c)
        /\ UNCHANGED <<now, answered, report, opinions, inbox>>

\* annotated_claims: is_overdue, 48 hours
Overdue(row) == row.status = "submitted" /\ row.created < now - 2

\* unresolved_first and the super admin's list
UnresolvedClaims == {u \in Users : claim[u].status \in Unresolved}

------------------------------------------------------------------------------
(* Speed reports *)

FileReport(u) ==
    /\ report[u] = "none"
    /\ report' = [report EXCEPT ![u] = "pending"]
    /\ UNCHANGED <<now, claim, answered, opinions, inbox, pc, job, excuse>>

\* "Statut de signalement invalide."
KnownStatus(status) == status \in ReportStatuses

\* update_status writes the status alone, whatever it was.
SetReportStatus(u, status) ==
    /\ report[u] # "none" /\ KnownStatus(status)
    /\ report' = [report EXCEPT ![u] = status]
    /\ UNCHANGED <<now, claim, answered, opinions, inbox, pc, job, excuse>>

------------------------------------------------------------------------------
(* Reviews *)

\* Administrators set the status of the trip; bookings are paid and cancelled.
SetTripStatus ==
    /\ over' = ~over
    /\ excuse' = IF over THEN excuse \cup ({"late"} \X Users) ELSE excuse
    /\ UNCHANGED <<claims, booking, reviews, response, flagged, reported, inbox, pc, job>>

SetBooking(u, status) ==
    /\ booking[u] # status
    /\ booking' = [booking EXCEPT ![u] = status]
    /\ ExcuseIf(booking[u] = "paid", "late", u)
    /\ UNCHANGED <<claims, over, reviews, response, flagged, reported, inbox, pc, job>>

\* The serializer loads the trip.
BeginReview(c, u) ==
    /\ pc[c] = "idle"
    /\ Start(c, "eligible", [op |-> "review", user |-> u, over |-> over])
    /\ UNCHANGED <<claims, opinions, inbox, excuse>>

\* can_review
CanReview(c, u) == job[c].over /\ booking[u] = "paid"

TestEligible(c) ==
    /\ pc[c] = "eligible"
    /\ IF CanReview(c, job[c].user) THEN Start(c, "unique", job[c]) ELSE End(c)
    /\ UNCHANGED <<claims, opinions, inbox, excuse>>

\* "Vous avez deja depose un avis pour ce voyage."
TestUnique(c) ==
    /\ pc[c] = "unique"
    /\ IF reviews[job[c].user] = 0 THEN Start(c, "insert", job[c]) ELSE End(c)
    /\ UNCHANGED <<claims, opinions, inbox, excuse>>

\* unique_review_per_user_trip: the loser of a race gets an IntegrityError.
AllowedRow(u) == reviews[u] = 0

InsertReview(c) ==
    LET u == job[c].user
    IN  /\ pc[c] = "insert"
        /\ reviews' = [reviews EXCEPT ![u] = IF AllowedRow(u) THEN @ + 1 ELSE @]
        /\ End(c)
        /\ UNCHANGED <<claims, over, booking, response, flagged, reported, inbox, excuse>>

BeginModerate(c, u, op) ==
    /\ pc[c] = "idle" /\ reviews[u] > 0
    /\ Start(c, op, [op |-> op, user |-> u, flagged |-> u \in flagged])
    /\ UNCHANGED <<claims, opinions, inbox, excuse>>

\* Mutant: the review is saved with all its columns.
FlagAfterResponseAll(c) ==
    IF job[c].flagged THEN flagged \cup {job[c].user} ELSE flagged \ {job[c].user}

\* respond_to_review: is_flagged is not among its columns.
FlagAfterResponse(c) == flagged

RespondToReview(c) ==
    /\ pc[c] = "answer"
    /\ response' = response \cup {job[c].user}
    /\ flagged' = FlagAfterResponse(c)
    /\ End(c)
    /\ UNCHANGED <<claims, over, booking, reviews, reported, inbox, excuse>>

FlagReview(c) ==
    /\ pc[c] = "flag"
    /\ flagged' = flagged \cup {job[c].user}
    /\ reported' = reported \cup {job[c].user}
    /\ End(c)
    /\ UNCHANGED <<claims, over, booking, reviews, response, inbox, excuse>>

\* The public list
PublicReviews == {u \in Users : reviews[u] > 0 /\ u \notin flagged}

------------------------------------------------------------------------------
(* Notifications and messages *)

\* notify, or a message from an agent
Arrive(u, item) ==
    /\ item \notin arrived[u]
    /\ arrived' = [arrived EXCEPT ![u] = @ \cup {item}]
    /\ UNCHANGED <<claims, opinions, shown, read, pc, job, excuse>>

ListNotices(u) ==
    /\ shown' = [shown EXCEPT ![u] = @ \cup (arrived[u] \cap Notices)]
    /\ UNCHANGED <<claims, opinions, arrived, read, pc, job, excuse>>

\* read: of a notification the user sees
ReadNotice(u, n) ==
    /\ n \in shown[u] \cap Notices
    /\ read' = [read EXCEPT ![u] = @ \cup {n}]
    /\ UNCHANGED <<claims, opinions, arrived, shown, pc, job, excuse>>

\* mark_all_read: one UPDATE
MarkedRead(u) == [read EXCEPT ![u] = @ \cup (arrived[u] \cap Notices)]

ReadAll(u) ==
    /\ read' = MarkedRead(u)
    /\ ExcuseIf(TRUE, "all", u)
    /\ UNCHANGED <<claims, opinions, arrived, shown, pc, job>>

\* MessageViewSet.retrieve, by the recipient; its sender may open it too, to no effect.
OpenMessage(u) ==
    /\ "message" \in arrived[u]
    /\ shown' = [shown EXCEPT ![u] = @ \cup {"message"}]
    /\ read' = [read EXCEPT ![u] = @ \cup {"message"}]
    /\ UNCHANGED <<claims, opinions, arrived, pc, job, excuse>>

------------------------------------------------------------------------------
\* A process dies before its save.
Fail(c) ==
    /\ pc[c] \notin {"idle", "done"}
    /\ End(c)
    /\ UNCHANGED <<claims, opinions, inbox, excuse>>

ClaimStep ==
    \/ Tick
    \/ \E u \in Users : SubmitClaim(u)
    \/ \E c \in Calls :
        \/ \E u \in Users :
            \/ \E s \in Answers : BeginClaim(c, u, "respond", s)
            \/ BeginClaim(c, u, "escalate", "escalated")
            \/ BeginClaim(c, u, "close", "closed")
        \/ Respond(c) \/ Escalate(c) \/ Close(c)

ReportStep ==
    \E u \in Users : FileReport(u) \/ \E s \in ReportStatuses \cup {"unknown"} : SetReportStatus(u, s)

ReviewStep ==
    \/ SetTripStatus
    \/ \E u \in Users, s \in {"pending", "paid", "cancelled"} : SetBooking(u, s)
    \/ \E c \in Calls :
        \/ \E u \in Users :
            \/ BeginReview(c, u)
            \/ BeginModerate(c, u, "answer") \/ BeginModerate(c, u, "flag")
        \/ TestEligible(c) \/ TestUnique(c) \/ InsertReview(c)
        \/ RespondToReview(c) \/ FlagReview(c)

InboxStep ==
    \E u \in Users :
        \/ \E item \in Items : Arrive(u, item)
        \/ ListNotices(u) \/ ReadAll(u) \/ OpenMessage(u)
        \/ \E n \in Notices : ReadNotice(u, n)

Next ==
    /\ UNCHANGED matter
    /\ \/ matter = "claims" /\ ClaimStep
       \/ matter = "reports" /\ ReportStep
       \/ matter = "reviews" /\ ReviewStep
       \/ matter = "inbox" /\ InboxStep
       \/ \E c \in Calls : Fail(c)

Spec == Init /\ [][Next]_vars

------------------------------------------------------------------------------
(* Properties *)

FeedbackTypeOK ==
    /\ now \in 0..MaxNow
    /\ claim \in [Users -> [status: ClaimStatuses, created: 0..MaxNow, responded: Times,
                                response: BOOLEAN] \cup {NoClaim}]
    /\ answered \in [Users -> Times]
    /\ report \in [Users -> ReportStatuses \cup {"none"}]
    /\ over \in BOOLEAN
    /\ booking \in [Users -> {"pending", "paid", "cancelled"}]
    /\ reviews \in [Users -> Nat]
    /\ response \cup flagged \cup reported \subseteq Users
    /\ arrived \in [Users -> SUBSET Items] /\ shown \in [Users -> SUBSET Items]
    /\ read \in [Users -> SUBSET Items]
    /\ excuse \subseteq Excuses \X Users

\* responded_at, from which claim_stats takes the delay of the answer, is the time of
\* the last answer, unless a request that had loaded the claim before it closed it.
AnswerKeepsItsTime ==
    \A u \in Users :
        claim[u].response => claim[u].responded = answered[u] \/ Excused("closing", u)

\* A claim that the lists call overdue is among the unresolved and has had no answer.
OverdueHasNoAnswer ==
    \A u \in Users : Overdue(claim[u]) => u \in UnresolvedClaims /\ ~claim[u].response

\* Whoever reviewed a trip has paid it and it is completed, unless that ceased.
ReviewersTravelled ==
    \A u \in Users :
        reviews[u] > 0 => (booking[u] = "paid" /\ over) \/ Excused("late", u)

\* A review that an admin flagged is no longer public, whatever is saved after.
FlaggedIsHidden == reported \cap PublicReviews = {}

\* What is marked as read was shown to its recipient, unless he marked all as read.
ReadWasShown == \A u \in Users : read[u] \subseteq shown[u] \/ Excused("all", u)

\* The rows are well formed, and the lists say what happened.
FeedbackInv ==
    /\ FeedbackTypeOK
    /\ AnswerKeepsItsTime /\ OverdueHasNoAnswer /\ ReviewersTravelled /\ ReadWasShown

==============================================================================
