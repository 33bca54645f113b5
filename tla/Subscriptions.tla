----------------------------- MODULE Subscriptions -----------------------------
(***************************************************************************)
(* The daily task that reminds companies of the end of their subscription, *)
(* renews it or suspends the company, next to the requests that change the *)
(* status of companies (module Companies).                                 *)
(*                                                                         *)
(* The scheduler queues one run a day, whether a worker is up or not; late *)
(* runs may work side by side.  A run reads the date once.  It works on    *)
(* copies it selected at once, and each of its writes commits by itself.   *)
(***************************************************************************)
EXTENDS Companies

CONSTANTS Subs,        \* rows of subscriptions_subscription
          CompanyOf,   \* CompanyOf[s]: subscription.company
          Duration,    \* days of a plan
          WarningDays, \* EXPIRY_WARNING_DAYS
          Runs,        \* worker processes that run the task
          LastDay,     \* bound on the calendar
          None

\* A subscription as a run selected it.
Copies == [of: Subs, end: Nat]

ASSUME SubscriptionConstants ==
    /\ CompanyOf \in [Subs -> Companies]
    /\ Duration \in Nat \ {0} /\ WarningDays \in Nat \ {0} /\ LastDay \in Nat
    /\ None \notin Copies

VARIABLES
    today,    \* the date
    due,      \* runs of the task that wait for a worker
    sub,      \* sub[s]: the row
    auto,     \* subscriptions with auto_renew
    run,      \* run[r]: where the run is, and the copies it has still to treat
    reminded, \* reminders sent in the current period of a subscription
    periods,  \* periods sold: one, and one more at each renewal due
    spoilt    \* what happened to the reminder of a subscription: see Spoilt

subVars == <<sub, auto, reminded, periods, spoilt>>
vars == <<companyVars, today, due, run, subVars>>

Rows == [status: {"active", "expired"}, end: Nat, warned: BOOLEAN]

Phases == {"idle", "remind", "flag", "treat", "announce", "suspend"}

\* again:  two runs selected the subscription for a reminder, or one died before the flag;
\* missed: a day passed before its run was complete;
\* failed: a run failed.
Spoilt == {"again", "missed", "failed"}

NoRun == [at |-> "idle", day |-> 0, todo |-> {}, cur |-> None]

SubTypeOK ==
    /\ CompanyTypeOK
    /\ today \in 0..LastDay /\ due \in Nat
    /\ sub \in [Subs -> Rows] /\ auto \subseteq Subs
    /\ run \in [Runs -> [at: Phases, day: 0..LastDay, todo: SUBSET Copies, cur: Copies \cup {None}]]
    /\ reminded \in [Subs -> Nat] /\ periods \in [Subs -> Nat]
    /\ spoilt \subseteq Spoilt \X Subs

Init ==
    /\ CompanyInit
    /\ today = 0 /\ due = 1
    /\ sub \in [Subs -> [status: {"active"}, end: 1..(WarningDays + 1), warned: {FALSE}]]
    /\ auto \in SUBSET Subs
    /\ run = [r \in Runs |-> NoRun]
    /\ reminded = [s \in Subs |-> 0] /\ periods = [s \in Subs |-> 1]
    /\ spoilt = {}

------------------------------------------------------------------------------
Working(r) == run[r].at # "idle"

Spoil(why, S) == spoilt' = spoilt \cup ({why} \X S)

Copied(S) == {[of |-> s, end |-> sub[s].end] : s \in S}

\* To a phase, with what is left to treat and the copy being treated.
Proceed(r, phase, todo, cur) ==
    run' = [run EXCEPT ![r] = [at |-> phase, day |-> @.day, todo |-> todo, cur |-> cur]]

\* Midnight, and the scheduler at 8:00 (beat_schedule).  A run is killed after half
\* an hour (CELERY_TASK_TIME_LIMIT): it may pass midnight, never a whole day.
NextDay ==
    /\ today < LastDay
    /\ \A r \in Runs : Working(r) => run[r].day = today
    /\ today' = today + 1 /\ due' = due + 1
    /\ IF due > 0 \/ \E r \in Runs : Working(r)
       THEN Spoil("missed", Subs) ELSE UNCHANGED spoilt
    /\ UNCHANGED <<companyVars, run, sub, auto, reminded, periods>>

\* Mutant: end_date__lt for end_date__lte.
ExpiringOffByOne(day) ==
    {s \in Subs : /\ sub[s].status = "active" /\ ~sub[s].warned
                  /\ sub[s].end > day /\ sub[s].end < day + WarningDays}

Expiring(day) ==
    {s \in Subs : /\ sub[s].status = "active" /\ ~sub[s].warned
                  /\ sub[s].end > day /\ sub[s].end <= day + WarningDays}

\* Mutant: a day of grace.
ExpiredWithGrace(day) == {s \in Subs : sub[s].status = "active" /\ sub[s].end < day - 1}

Expired(day) == {s \in Subs : sub[s].status = "active" /\ sub[s].end < day}

\* Another run has this subscription on its list of reminders.
OnAnotherList(r, s) ==
    \E q \in Runs \ {r} :
        /\ run[q].at \in {"remind", "flag"}
        /\ \E c \in run[q].todo \cup {run[q].cur} : c # None /\ c.of = s

\* A worker takes the task: today, and the list of reminders.
StartRun(r) ==
    /\ run[r].at = "idle" /\ due > 0
    /\ due' = due - 1
    /\ run' = [run EXCEPT ![r] = [at |-> "remind", day |-> today,
                                  todo |-> Copied(Expiring(today)), cur |-> None]]
    /\ Spoil("again", {s \in Expiring(today) : OnAnotherList(r, s)})
    /\ UNCHANGED <<companyVars, today, sub, auto, reminded, periods>>

\* _notify_company: notification and SMS.
Remind(r) ==
    /\ run[r].at = "remind"
    /\ \E c \in run[r].todo :
        /\ reminded' = [reminded EXCEPT ![c.of] = @ + 1]
        /\ Proceed(r, "flag", run[r].todo \ {c}, c)
    /\ UNCHANGED <<companyVars, today, due, sub, auto, periods, spoilt>>

\* Mutant: the flag is set on the copy and never saved.
FlaggedInMemory(s) == sub[s].warned

Flagged(s) == TRUE

\* subscription.save(update_fields=["expiry_reminder_sent"])
SaveFlag(r) ==
    /\ run[r].at = "flag"
    /\ sub' = [sub EXCEPT ![run[r].cur.of].warned = Flagged(run[r].cur.of)]
    /\ Proceed(r, "remind", run[r].todo, None)
    /\ UNCHANGED <<companyVars, today, due, auto, reminded, periods, spoilt>>

SelectExpired(r) ==
    /\ run[r].at = "remind" /\ run[r].todo = {}
    /\ Proceed(r, "treat", Copied(Expired(run[r].day)), None)
    /\ UNCHANGED <<companyVars, today, due, subVars>>

\* Mutant: the row is read again before it is extended.
RenewalBaseFresh(r, c) == IF sub[c.of].end > run[r].day THEN sub[c.of].end ELSE run[r].day

\* max(subscription.end_date, today), on the copy.
RenewalBase(r, c) == IF c.end > run[r].day THEN c.end ELSE run[r].day

\* renew_subscription
Renew(r) ==
    /\ run[r].at = "treat"
    /\ \E c \in run[r].todo :
        /\ c.of \in auto
        /\ sub' = [sub EXCEPT ![c.of] = [status |-> "active", warned |-> FALSE,
                                         end |-> RenewalBase(r, c) + Duration]]
        /\ reminded' = [reminded EXCEPT ![c.of] = 0]
        /\ periods' = [periods EXCEPT ![c.of] =
                         IF sub[c.of].end < run[r].day THEN @ + 1 ELSE @]
        /\ Proceed(r, "announce", run[r].todo \ {c}, c)
    /\ UNCHANGED <<companyVars, today, due, auto, spoilt>>

\* _notify_company, after the renewal.
AnnounceRenewal(r) ==
    /\ run[r].at = "announce"
    /\ Proceed(r, "treat", run[r].todo, None)
    /\ UNCHANGED <<companyVars, today, due, subVars>>

\* expire_subscription
Expire(r) ==
    /\ run[r].at = "treat"
    /\ \E c \in run[r].todo :
        /\ c.of \notin auto
        /\ sub' = [sub EXCEPT ![c.of].status = "expired"]
        /\ Proceed(r, "suspend", run[r].todo \ {c}, c)
    /\ UNCHANGED <<companyVars, today, due, auto, reminded, periods, spoilt>>

\* Mutant: "status" is not among the update_fields.
SuspendedInMemory(k) == company[k]

SuspendedBy(k) == "suspended"

\* suspend_company, whatever the company's status; earlier activations no longer count.
\* The cached public list is left as it is.
SuspendCompany(r) ==
    LET k == CompanyOf[run[r].cur.of]
    IN  /\ run[r].at = "suspend"
        /\ company' = [company EXCEPT ![k] = SuspendedBy(k)]
        /\ cause' = cause \ {<<"activated", k>>}
        /\ listed' = [listed EXCEPT ![k] = IF @ = "fresh" THEN "stale" ELSE @]
        /\ Proceed(r, "treat", run[r].todo, None)
        /\ UNCHANGED <<pc, task, toldOf, today, due, subVars>>

Rest(r) == run' = [run EXCEPT ![r] = NoRun]

EndRun(r) ==
    /\ run[r].at = "treat" /\ run[r].todo = {}
    /\ Rest(r)
    /\ UNCHANGED <<companyVars, today, due, subVars>>

\* The worker dies, the time limit is reached, or a statement raises and
\* log_task_errors ends the run: nobody goes on with the list.
RunFails(r) ==
    /\ Working(r)
    /\ Rest(r)
    /\ spoilt' = spoilt \cup ({"failed"} \X Subs)
                   \cup (IF run[r].at = "flag" THEN {<<"again", run[r].cur.of>>} ELSE {})
    /\ cause' = IF run[r].at = "suspend"
                THEN cause \cup {<<"interrupted", CompanyOf[run[r].cur.of]>>} ELSE cause
    /\ UNCHANGED <<company, pc, task, toldOf, listed, today, due, sub, auto, reminded, periods>>

RunStep(r) ==
    \/ StartRun(r) \/ Remind(r) \/ SaveFlag(r) \/ SelectExpired(r) \/ Renew(r)
    \/ AnnounceRenewal(r) \/ Expire(r) \/ SuspendCompany(r) \/ EndRun(r)

Next ==
    \/ NextDay
    \/ \E r \in Runs : RunStep(r) \/ RunFails(r)
    \/ CompanyNext /\ UNCHANGED <<today, due, run, subVars>>

Spec == Init /\ [][Next]_vars

\* Workers run; nothing is assumed of administrators, nor of the calendar.
FairSpec == Spec /\ \A r \in Runs : WF_vars(RunStep(r))

------------------------------------------------------------------------------
(* Properties *)

\* A company whose subscription expired is not shown to travellers, on its page or in the
\* public list, unless a run is about to suspend it or died there, or someone made it active
\* since.  The list may show it through an answer cached before the suspension only, which
\* cache_page drops within the hour.
AboutToSuspend(s) == \E r \in Runs : run[r].at = "suspend" /\ run[r].cur.of = s

CachedBefore(k) == k \notin Active /\ listed[k] = "stale"

LapsedIsHidden ==
    \A s \in Subs :
        sub[s].status = "expired" /\ CompanyOf[s] \in Visible
            => \/ AboutToSuspend(s) \/ CachedBefore(CompanyOf[s])
               \/ Caused("activated", CompanyOf[s]) \/ Caused("interrupted", CompanyOf[s])

\* A period is granted at most once however many runs overlap: the end is never more
\* than one plan after the day that granted it.
NoPeriodForFree == \A s \in Subs : periods[s] > 1 => sub[s].end <= today + Duration

\* The rows and the runs are well formed, and no run grants what another granted.
SubInv == SubTypeOK /\ NoPeriodForFree

\* One reminder per period, unless two runs held it on their lists or one died
\* between the SMS and the flag.
RemindedOnce == \A s \in Subs : reminded[s] > 1 => <<"again", s>> \in spoilt

\* No company is suspended without a reminder, unless a day's run was missed or failed.
WarnedBeforeExpiry ==
    \A s \in Subs :
        sub[s].status = "expired"
            => reminded[s] > 0 \/ <<"missed", s>> \in spoilt \/ <<"failed", s>> \in spoilt

\* While a run waits for a worker, a subscription past its end gets renewed or
\* expired, unless a run fails.
LapsedIsTreated ==
    \A s \in Subs :
        (sub[s].status = "active" /\ sub[s].end < today /\ due > 0)
            ~> (sub[s].status = "expired" \/ sub[s].end >= today \/ <<"failed", s>> \in spoilt)

==============================================================================
