------------------------------- MODULE Companies -------------------------------
(***************************************************************************)
(* The status of companies: requests of the platform's administrators and  *)
(* of the companies themselves.                                            *)
(*                                                                         *)
(* Each request loads a copy of the company and tests that copy.  The four *)
(* services save the status column alone; the generic PATCH of either      *)
(* administrator saves every column of the copy.  Nothing is locked.       *)
(* Module Subscriptions adds the daily task, which suspends companies too. *)
(*                                                                         *)
(* Travellers read the rows, and a public list that is cached for an hour. *)
(***************************************************************************)
EXTENDS Integers, FiniteSets

CONSTANTS Companies,  \* rows of companies_company
          Admins      \* requests of administrators

ASSUME SomeCompany == Companies # {}

VARIABLES
    company,  \* company[k]: its status
    pc,       \* where each request is
    task,     \* what it does, to which company, and the status it will write
    toldOf,   \* toldOf[k]: which of "approved" and "rejected" its representative was told
    cause,    \* what happened to a company: see Causes
    listed    \* listed[k]: whether the cached public list shows k: see Listings

companyVars == <<company, pc, task, toldOf, cause, listed>>

CompanyStatuses == {"pending", "active", "suspended", "rejected"}

\* POST approve and reject, for pending companies; activate and suspend.
Verdicts  == {"approved", "rejected"}
Decisions == Verdicts \cup {"activated", "suspended"}

\* "form": PATCH, of the platform's administrator, who may set the status, or of the
\* company's own, who may not.
Tasks == [op: Decisions \cup {"form"}, of: Companies, new: CompanyStatuses]

Stages == {"idle", "save", "tell", "done"}

\* overlap:     two decisions on a pending company overlapped;
\* reopened:    a form made the company pending again;
\* activated:   since the daily task suspended it, someone made the company active,
\*              by choice or by writing back a stale copy;
\* interrupted: the daily task died between an expiry and the suspension.
Causes == {"overlap", "reopened", "activated", "interrupted"}

\* Shown by an answer that is "fresh", or "stale": the daily task suspended the company
\* since the answer was read from the rows.
Listings == {"no", "fresh", "stale"}

\* The status each decision writes.
StatusAfter(op) ==
    CASE op = "approved"  -> "active"
      [] op = "rejected"  -> "rejected"
      [] op = "activated" -> "active"
      [] op = "suspended" -> "suspended"

CompanyTypeOK ==
    /\ company \in [Companies -> CompanyStatuses]
    /\ pc \in [Admins -> Stages]
    /\ task \in [Admins -> Tasks]
    /\ toldOf \in [Companies -> SUBSET Verdicts]
    /\ cause \subseteq Causes \X Companies
    /\ listed \in [Companies -> Listings]

NoTask == [op |-> "form", of |-> CHOOSE k \in Companies : TRUE, new |-> "pending"]

CompanyInit ==
    /\ company \in [Companies -> {"pending", "active"}]
    /\ pc = [a \in Admins |-> "idle"]
    /\ task = [a \in Admins |-> NoTask]
    /\ toldOf = [k \in Companies |-> {}]
    /\ cause = {}
    /\ listed = [k \in Companies |-> "no"]

------------------------------------------------------------------------------
Caused(reason, k) == <<reason, k>> \in cause

Goto(a, stage) == pc' = [pc EXCEPT ![a] = stage]

Start(a, op, k, new) ==
    /\ Goto(a, "save")
    /\ task' = [task EXCEPT ![a] = [op |-> op, of |-> k, new |-> new]]

End(a) == Goto(a, "done") /\ task' = [task EXCEPT ![a] = NoTask]

Deciding(a, k) ==
    pc[a] = "save" /\ task[a].of = k /\ task[a].op \in Verdicts

\* Mutant: a rejected company may be approved after all.
MayDecideRejected(op, k) ==
    CASE op = "approved"  -> company[k] \in {"pending", "rejected"}
      [] op = "rejected"  -> company[k] = "pending"
      [] op = "activated" -> company[k] # "active"
      [] OTHER            -> TRUE

\* approve and reject look for a pending company, activate for one that is not active.
MayDecide(op, k) ==
    CASE op \in {"approved", "rejected"} -> company[k] = "pending"
      [] op = "activated"                -> company[k] # "active"
      [] OTHER                           -> TRUE

\* get_object() and the service's test, on the same copy.
BeginDecision(a, op, k) ==
    /\ pc[a] = "idle"
    /\ IF MayDecide(op, k)
       THEN /\ Start(a, op, k, StatusAfter(op))
            /\ cause' = cause \cup {<<"overlap", k>> : b \in {b \in Admins : op \in Verdicts /\ Deciding(b, k)}}
       ELSE End(a) /\ UNCHANGED cause
    /\ UNCHANGED <<company, toldOf>>

\* What a write of the status makes of the history of the company.
CauseOfWrite(k, new) ==
    cause \cup (IF new = "active" /\ company[k] # "active" THEN {<<"activated", k>>} ELSE {})
          \cup (IF new = "pending" /\ company[k] # "pending" THEN {<<"reopened", k>>} ELSE {})

Write(k, new) ==
    /\ company' = [company EXCEPT ![k] = new]
    /\ cause' = CauseOfWrite(k, new)

\* approve_company, reject_company, activate_company, suspend_company: the status column.
SaveDecision(a) ==
    /\ pc[a] = "save" /\ task[a].op \in Decisions
    /\ Write(task[a].of, task[a].new)
    /\ IF task[a].op \in Verdicts THEN Goto(a, "tell") /\ UNCHANGED task ELSE End(a)
    /\ UNCHANGED toldOf

\* send_sms to the representative, after the save; only the verdicts are kept track of.
TellDecision(a) ==
    /\ pc[a] = "tell"
    /\ toldOf' = [toldOf EXCEPT ![task[a].of] = @ \cup {task[a].op}]
    /\ End(a)
    /\ UNCHANGED <<company, cause>>

\* SuperCompanyViewSet.update, partial_update: any field of CompanyDetailSerializer.
BeginEdit(a, k, new) ==
    /\ pc[a] = "idle"
    /\ Start(a, "form", k, new)
    /\ UNCHANGED <<company, toldOf, cause>>

\* CompanySettingsView.patch: the look of the company, not its status.
BeginSettings(a, k) ==
    /\ pc[a] = "idle"
    /\ Start(a, "form", k, company[k])
    /\ UNCHANGED <<company, toldOf, cause>>

\* serializer.save() on the loaded instance writes every column.
SaveForm(a) ==
    /\ pc[a] = "save" /\ task[a].op = "form"
    /\ Write(task[a].of, task[a].new)
    /\ End(a)
    /\ UNCHANGED toldOf

\* The process dies; what was saved stays.
AdminFails(a) ==
    /\ pc[a] \in {"save", "tell"}
    /\ End(a)
    /\ UNCHANGED <<company, toldOf, cause>>

AdminStep(a) ==
    \/ \E k \in Companies :
        \/ \E op \in Decisions : BeginDecision(a, op, k)
        \/ \E new \in CompanyStatuses : BeginEdit(a, k, new)
        \/ BeginSettings(a, k)
    \/ SaveDecision(a) \/ TellDecision(a) \/ SaveForm(a) \/ AdminFails(a)

------------------------------------------------------------------------------
(* What travellers see *)

\* get_queryset, for the page of one company and for the list
Active == {k \in Companies : company[k] = "active"}

\* PublicCompanyViewSet.list, when the cache has no answer: cache_page keeps what was read
\* before any later change of the rows.  (An answer that shows nobody is as good as none.)
ListCompanies ==
    /\ \A k \in Companies : listed[k] = "no"
    /\ listed' = [k \in Companies |-> IF k \in Active THEN "fresh" ELSE "no"]
    /\ UNCHANGED <<company, pc, task, toldOf, cause>>

\* An hour after it was kept; no write drops the answer before.
ListExpires ==
    /\ listed' = [k \in Companies |-> "no"]
    /\ UNCHANGED <<company, pc, task, toldOf, cause>>

\* On its own page, which is not cached, or in the list.
Visible == Active \cup {k \in Companies : listed[k] # "no"}

CompanyNext ==
    \/ \E a \in Admins : AdminStep(a) /\ UNCHANGED listed
    \/ ListCompanies \/ ListExpires

------------------------------------------------------------------------------
(* Properties *)

\* A representative is told both "approved" and "rejected" only if the two requests
\* overlapped, or a form made the company pending again.
DecidedOnce ==
    \A k \in Companies :
        toldOf[k] = Verdicts => Caused("overlap", k) \/ Caused("reopened", k)

==============================================================================
