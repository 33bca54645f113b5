------------------------- MODULE Subscriptions_proofs -------------------------
(***************************************************************************)
(* Proofs about modules Subscriptions and Companies, for any number of     *)
(* companies, subscriptions, administrators and overlapping runs, and any  *)
(* length of a plan and of the warning.                                    *)
(***************************************************************************)
EXTENDS Subscriptions, TLAPS

RunStates == [at: Phases, day: 0..LastDay, todo: SUBSET Copies, cur: Copies \cup {None}]

\* What a run holds: the copies it treats were expired on its day.
RunOK(r) ==
    /\ run[r].day <= today
    /\ run[r].at \in {"flag", "announce", "suspend"} => run[r].cur \in Copies
    /\ run[r].at = "remind" => run[r].cur = None
    /\ run[r].at \in {"treat", "announce", "suspend"} => \A c \in run[r].todo : c.end < run[r].day

\* A request writes the status its decision calls for, and tells verdicts only.
AdminOK(a) ==
    /\ pc[a] \in {"save", "tell"} /\ task[a].op \in Decisions
            => task[a].new = StatusAfter(task[a].op)
    /\ pc[a] = "tell" => task[a].op \in Verdicts

AdminInv == CompanyTypeOK /\ \A a \in Admins : AdminOK(a)

TypeInv == SubTypeOK /\ AdminInv /\ \A r \in Runs : RunOK(r)

------------------------------------------------------------------------------
(* Types *)

LEMMA ProceedMoves ==
    ASSUME TypeInv, NEW r \in Runs, NEW phase \in Phases, NEW todo \in SUBSET Copies,
           NEW cur \in Copies \cup {None}, Proceed(r, phase, todo, cur)
    PROVE  /\ run'[r] = [at |-> phase, day |-> run[r].day, todo |-> todo, cur |-> cur]
           /\ \A q \in Runs \ {r} : run'[q] = run[q]
           /\ run' \in [Runs -> RunStates]
<1>1. run \in [Runs -> RunStates]
  BY DEF TypeInv, SubTypeOK, RunStates
<1>2. run[r] \in RunStates
  BY <1>1
<1>3. run' = [run EXCEPT ![r] = [at |-> phase, day |-> run[r].day, todo |-> todo, cur |-> cur]]
  BY DEF Proceed
<1>4. [at |-> phase, day |-> run[r].day, todo |-> todo, cur |-> cur] \in RunStates
  BY <1>2 DEF RunStates
<1> QED
  BY <1>1, <1>3, <1>4

LEMMA RestMoves ==
    ASSUME TypeInv, NEW r \in Runs, Rest(r)
    PROVE  /\ run'[r] = NoRun
           /\ \A q \in Runs \ {r} : run'[q] = run[q]
           /\ run' \in [Runs -> RunStates]
<1>1. run \in [Runs -> RunStates]
  BY DEF TypeInv, SubTypeOK, RunStates
<1>2. NoRun \in RunStates
  BY SubscriptionConstants DEF RunStates, NoRun, Phases
<1> QED
  BY <1>1, <1>2 DEF Rest

\* The copies of a selection, one of each subscription.
LEMMA CopiesOf ==
    ASSUME TypeInv, NEW S \in SUBSET Subs
    PROVE  /\ Copied(S) \in SUBSET Copies
           /\ \A c \in Copied(S) : c.of \in S /\ c.end = sub[c.of].end
           /\ \A s \in S : \E c \in Copied(S) : c.of = s
           /\ \A c, d \in Copied(S) : c.of = d.of => c = d
<1>1. \A s \in Subs : sub[s].end \in Nat
  BY DEF TypeInv, SubTypeOK, Rows
<1>2. \A c \in Copied(S) : \E s \in S : c = [of |-> s, end |-> sub[s].end]
  BY DEF Copied
<1>3. \A s \in S : [of |-> s, end |-> sub[s].end] \in Copied(S)
  BY DEF Copied
<1>4. \A c \in Copied(S) : c.of \in S /\ c.end = sub[c.of].end /\ c = [of |-> c.of, end |-> sub[c.of].end]
  BY <1>2
<1>5. \A s \in S : \E c \in Copied(S) : c.of = s
  BY <1>3
<1>6. \A c \in Copied(S) : c \in Copies
  BY <1>1, <1>2 DEF Copies
<1>7. \A c, d \in Copied(S) : c.of = d.of => c = d
  BY <1>4
<1> QED
  BY <1>4, <1>5, <1>6, <1>7

LEMMA WriteTypes ==
    ASSUME CompanyTypeOK, NEW k \in Companies, NEW new \in CompanyStatuses, Write(k, new)
    PROVE  /\ company' \in [Companies -> CompanyStatuses]
           /\ cause' \subseteq Causes \X Companies
<1>1. company' \in [Companies -> CompanyStatuses]
  BY DEF CompanyTypeOK, Write
<1>2. cause' \subseteq Causes \X Companies
  BY DEF CompanyTypeOK, Write, CauseOfWrite, Causes
<1> QED
  BY <1>1, <1>2

LEMMA NoTaskTyped == NoTask \in Tasks
<1>1. (CHOOSE k \in Companies : TRUE) \in Companies
  BY SomeCompany
<1> QED
  BY <1>1 DEF NoTask, Tasks, CompanyStatuses

LEMMA StartKeeps ==
    ASSUME AdminInv, NEW a \in Admins, NEW op \in Decisions \cup {"form"},
           NEW k \in Companies, NEW new \in CompanyStatuses, Start(a, op, k, new),
           op \in Decisions => new = StatusAfter(op)
    PROVE  /\ pc' \in [Admins -> Stages] /\ task' \in [Admins -> Tasks]
           /\ \A b \in Admins : AdminOK(b)'
<1>1. [op |-> op, of |-> k, new |-> new] \in Tasks
  BY DEF Tasks
<1>2. pc' \in [Admins -> Stages] /\ task' \in [Admins -> Tasks]
  BY <1>1 DEF AdminInv, CompanyTypeOK, Start, Goto, Stages
<1>3. /\ pc'[a] = "save" /\ task'[a] = [op |-> op, of |-> k, new |-> new]
      /\ \A b \in Admins \ {a} : pc'[b] = pc[b] /\ task'[b] = task[b]
  BY DEF AdminInv, CompanyTypeOK, Start, Goto
<1>4. AdminOK(a)'
  BY <1>3 DEF AdminOK
<1>5. \A b \in Admins \ {a} : AdminOK(b)'
  BY <1>3 DEF AdminInv, AdminOK
<1> QED
  BY <1>2, <1>4, <1>5

LEMMA EndKeeps ==
    ASSUME AdminInv, NEW a \in Admins, End(a)
    PROVE  /\ pc' \in [Admins -> Stages] /\ task' \in [Admins -> Tasks]
           /\ pc'[a] = "done" /\ \A b \in Admins \ {a} : pc'[b] = pc[b] /\ task'[b] = task[b]
           /\ \A b \in Admins : AdminOK(b)'
<1>1. /\ pc' \in [Admins -> Stages] /\ task' \in [Admins -> Tasks]
      /\ pc'[a] = "done" /\ \A b \in Admins \ {a} : pc'[b] = pc[b] /\ task'[b] = task[b]
  BY NoTaskTyped DEF AdminInv, CompanyTypeOK, End, Goto, Stages
<1> QED
  BY <1>1 DEF AdminInv, AdminOK

\* The public list is read and dropped without a trace in the rows.
PublicStep == ListCompanies \/ ListExpires

LEMMA PublicStepReads ==
    ASSUME PublicStep
    PROVE  /\ UNCHANGED <<company, pc, task, toldOf, cause>>
           /\ listed' \in [Companies -> Listings]
           /\ \A k \in Companies : listed'[k] = "fresh" => company[k] = "active"
  BY DEF PublicStep, ListCompanies, ListExpires, Listings, Active

\* One lemma per kind of request, on what it does to types.
LEMMA AdminTypes ==
    ASSUME AdminInv, NEW a \in Admins, AdminStep(a), UNCHANGED listed
    PROVE  AdminInv'
<1>2. ASSUME NEW k \in Companies, NEW op \in Decisions, BeginDecision(a, op, k)
      PROVE  AdminInv'
  <2>1. StatusAfter(op) \in CompanyStatuses
    BY DEF Decisions, Verdicts, StatusAfter, CompanyStatuses
  <2>2. cause' \subseteq Causes \X Companies
    BY <1>2 DEF BeginDecision, Causes, AdminInv, CompanyTypeOK
  <2>3. UNCHANGED <<company, toldOf>> /\ (Start(a, op, k, StatusAfter(op)) \/ End(a))
    BY <1>2 DEF BeginDecision
  <2> QED
    BY <2>1, <2>2, <2>3, StartKeeps, EndKeeps DEF AdminInv, CompanyTypeOK
<1>3. ASSUME NEW k \in Companies, NEW op \in {"form"}, NEW new \in CompanyStatuses,
             Start(a, op, k, new), UNCHANGED <<company, toldOf, cause>>
      PROVE  AdminInv'
  <2>1. op \notin Decisions
    BY DEF Decisions, Verdicts
  <2> QED
    BY <1>3, <2>1, StartKeeps DEF AdminInv, CompanyTypeOK
<1>4. ASSUME NEW k \in Companies, NEW new \in CompanyStatuses, BeginEdit(a, k, new)
      PROVE  AdminInv'
  BY <1>3, <1>4 DEF BeginEdit
<1>5. ASSUME NEW k \in Companies, BeginSettings(a, k) PROVE AdminInv'
  <2>1. company[k] \in CompanyStatuses
    BY DEF AdminInv, CompanyTypeOK
  <2> QED
    BY <1>3, <1>5, <2>1 DEF BeginSettings
<1>6. CompanyTypeOK /\ AdminOK(a) /\ task[a].of \in Companies /\ task[a].new \in CompanyStatuses
  BY DEF AdminInv, CompanyTypeOK, Tasks
<1>7. CASE SaveDecision(a)
  <2>1. /\ company' \in [Companies -> CompanyStatuses] /\ cause' \subseteq Causes \X Companies
        /\ toldOf' = toldOf
    BY <1>6, <1>7, WriteTypes DEF SaveDecision
  <2>2. CASE End(a)
    BY <1>6, <2>1, <2>2, EndKeeps DEF AdminInv, CompanyTypeOK
  <2>3. CASE task[a].op \in Verdicts /\ Goto(a, "tell") /\ UNCHANGED task
    <3>1. /\ pc' \in [Admins -> Stages] /\ pc'[a] = "tell"
          /\ \A b \in Admins \ {a} : pc'[b] = pc[b]
      BY <1>6, <2>3 DEF CompanyTypeOK, Goto, Stages
    <3>2. pc[a] = "save"
      BY <1>7 DEF SaveDecision
    <3>3. \A b \in Admins : AdminOK(b)'
      BY <2>3, <3>1, <3>2 DEF AdminInv, AdminOK
    <3> QED
      BY <1>6, <2>1, <2>3, <3>1, <3>3 DEF AdminInv, CompanyTypeOK
  <2> QED
    BY <1>7, <2>2, <2>3 DEF SaveDecision
<1>8. CASE TellDecision(a)
  <2>1. task[a].op \in Verdicts
    BY <1>6, <1>8 DEF TellDecision, AdminOK
  <2>2. toldOf' \in [Companies -> SUBSET Verdicts]
    BY <1>6, <1>8, <2>1 DEF TellDecision, CompanyTypeOK
  <2> QED
    BY <1>6, <1>8, <2>2, EndKeeps DEF TellDecision, AdminInv, CompanyTypeOK
<1>9. CASE SaveForm(a)
  <2>1. Write(task[a].of, task[a].new) /\ End(a) /\ UNCHANGED toldOf
    BY <1>9 DEF SaveForm
  <2> QED
    BY <1>6, <2>1, WriteTypes, EndKeeps DEF AdminInv, CompanyTypeOK
<1>10. CASE AdminFails(a)
  BY <1>6, <1>10, EndKeeps DEF AdminFails, AdminInv, CompanyTypeOK
<1> QED
  BY <1>2, <1>4, <1>5, <1>7, <1>8, <1>9, <1>10 DEF AdminStep

LEMMA AdminsSame == ASSUME AdminInv, UNCHANGED <<pc, task, toldOf>>,
                           company' \in [Companies -> CompanyStatuses],
                           cause' \subseteq Causes \X Companies,
                           listed' \in [Companies -> Listings]
                    PROVE  AdminInv'
  BY DEF AdminInv, CompanyTypeOK, AdminOK

LEMMA CompanyTypes == ASSUME AdminInv, CompanyNext PROVE AdminInv'
<1>1. CASE PublicStep
  BY <1>1, PublicStepReads, AdminsSame DEF AdminInv, CompanyTypeOK
<1>2. ASSUME NEW a \in Admins, AdminStep(a), UNCHANGED listed PROVE AdminInv'
  BY <1>2, AdminTypes
<1> QED
  BY <1>1, <1>2 DEF CompanyNext, PublicStep

LEMMA RunMoved ==
    ASSUME TypeInv, NEW r \in Runs, NEW phase \in Phases, NEW todo \in SUBSET Copies,
           NEW cur \in Copies \cup {None}, Proceed(r, phase, todo, cur), today' = today,
           phase \in {"flag", "announce", "suspend"} => cur \in Copies,
           phase = "remind" => cur = None,
           phase \in {"treat", "announce", "suspend"} => \A c \in todo : c.end < run[r].day
    PROVE  run' \in [Runs -> RunStates] /\ \A q \in Runs : RunOK(q)'
<1>1. /\ run'[r] = [at |-> phase, day |-> run[r].day, todo |-> todo, cur |-> cur]
      /\ \A q \in Runs \ {r} : run'[q] = run[q]
      /\ run' \in [Runs -> RunStates]
  BY ProceedMoves
<1>2. RunOK(r) /\ \A q \in Runs \ {r} : RunOK(q)
  BY DEF TypeInv
<1>3. RunOK(r)'
  BY <1>1, <1>2 DEF RunOK
<1>4. \A q \in Runs \ {r} : RunOK(q)'
  BY <1>1, <1>2 DEF RunOK
<1> QED
  BY <1>1, <1>3, <1>4

LEMMA RunTyped ==
    ASSUME TypeInv, NEW r \in Runs
    PROVE  /\ run[r].at \in Phases /\ run[r].day \in Nat /\ run[r].todo \in SUBSET Copies
           /\ run[r].cur \in Copies \cup {None} /\ run[r].day <= today
           /\ today \in Nat /\ Duration \in Nat \ {0} /\ LastDay \in Nat
<1>1. run[r] \in RunStates
  BY DEF TypeInv, SubTypeOK, RunStates
<1> QED
  BY <1>1, SubscriptionConstants DEF RunStates, TypeInv, RunOK, SubTypeOK

\* A run stays where its copies can be, whatever it does to the rows.
LEMMA RunsKept == ASSUME TypeInv, [Next]_vars
                  PROVE  run' \in [Runs -> RunStates] /\ \A q \in Runs : RunOK(q)'
<1>1. CASE UNCHANGED <<today, run>>
  BY <1>1 DEF TypeInv, SubTypeOK, RunStates, RunOK
<1>2. CASE NextDay
  <2>1. run' = run /\ today' = today + 1 /\ today \in Nat
    BY <1>2, SubscriptionConstants DEF NextDay, TypeInv, SubTypeOK
  <2>2. ASSUME NEW q \in Runs PROVE RunOK(q)'
    <3>1. RunOK(q) /\ run[q].day \in Nat
      BY RunTyped DEF TypeInv
    <3> QED
      BY <2>1, <3>1 DEF RunOK
  <2> QED
    BY <2>1, <2>2 DEF TypeInv, SubTypeOK, RunStates
<1>3. ASSUME NEW r \in Runs, RunStep(r) PROVE run' \in [Runs -> RunStates] /\ \A q \in Runs : RunOK(q)'
  <2> USE RunTyped
  <2> DEFINE OK == run' \in [Runs -> RunStates] /\ \A q \in Runs : RunOK(q)'
  <2>1. CASE StartRun(r)
    <3>1. Expiring(today) \in SUBSET Subs
      BY DEF Expiring
    <3> DEFINE new == [at |-> "remind", day |-> today, todo |-> Copied(Expiring(today)), cur |-> None]
    <3>2. new \in RunStates
      BY <3>1, CopiesOf DEF RunStates, Phases, TypeInv, SubTypeOK
    <3>3. run' = [run EXCEPT ![r] = new] /\ today' = today
      BY <2>1 DEF StartRun
    <3>4. run' \in [Runs -> RunStates]
      BY <3>2, <3>3 DEF TypeInv, SubTypeOK, RunStates
    <3>5. run'[r] = new /\ \A q \in Runs \ {r} : run'[q] = run[q]
      BY <3>3 DEF TypeInv, SubTypeOK
    <3>6. RunOK(r)'
      BY <3>3, <3>5 DEF RunOK
    <3>7. \A q \in Runs \ {r} : RunOK(q)'
      BY <3>3, <3>5 DEF RunOK, TypeInv
    <3> QED
      BY <3>4, <3>6, <3>7
  <2>2. CASE Remind(r)
    <3>1. PICK c \in run[r].todo : Proceed(r, "flag", run[r].todo \ {c}, c)
      BY <2>2 DEF Remind
    <3> QED
      BY <2>2, <3>1, RunMoved DEF Remind, Phases
  <2>3. CASE SaveFlag(r)
    BY <2>3, RunMoved DEF SaveFlag, Phases
  <2>4. CASE SelectExpired(r)
    <3>1. Expired(run[r].day) \in SUBSET Subs
      BY DEF Expired
    <3>2. \A s \in Expired(run[r].day) : sub[s].end < run[r].day
      BY DEF Expired
    <3>3. Copied(Expired(run[r].day)) \in SUBSET Copies
          /\ \A c \in Copied(Expired(run[r].day)) : c.end < run[r].day
      BY <3>1, <3>2, CopiesOf
    <3> QED
      BY <2>4, <3>3, RunMoved DEF SelectExpired, Phases
  <2>5. ASSUME run[r].at \in {"treat", "announce", "suspend"}, NEW c \in run[r].todo, today' = today,
               \/ Proceed(r, "announce", run[r].todo \ {c}, c)
               \/ Proceed(r, "suspend", run[r].todo \ {c}, c)
               \/ Proceed(r, "treat", run[r].todo, None)
        PROVE  OK
    <3>1. \A d \in run[r].todo : d.end < run[r].day
      BY <2>5 DEF TypeInv, RunOK
    <3> QED
      BY <2>5, <3>1, RunMoved DEF Phases
  <2>6. CASE Renew(r)
    BY <2>5, <2>6 DEF Renew
  <2>7. CASE Expire(r)
    BY <2>5, <2>7 DEF Expire
  <2>8. CASE AnnounceRenewal(r) \/ SuspendCompany(r)
    <3>1. Proceed(r, "treat", run[r].todo, None) /\ today' = today
          /\ \A d \in run[r].todo : d.end < run[r].day
      BY <2>8 DEF AnnounceRenewal, SuspendCompany, TypeInv, RunOK
    <3> QED
      BY <3>1, RunMoved DEF Phases
  <2>9. CASE EndRun(r)
    <3>1. Rest(r) /\ today' = today /\ today >= 0
      BY <2>9 DEF EndRun
    <3> QED
      BY <3>1, RestMoves DEF TypeInv, RunOK, NoRun
  <2> QED
    BY <1>3, <2>1, <2>2, <2>3, <2>4, <2>6, <2>7, <2>8, <2>9 DEF RunStep
<1>4. ASSUME NEW r \in Runs, RunFails(r) PROVE run' \in [Runs -> RunStates] /\ \A q \in Runs : RunOK(q)'
  <2>1. Rest(r) /\ today' = today /\ today >= 0
    BY <1>4, RunTyped DEF RunFails
  <2> QED
    BY <2>1, RestMoves DEF TypeInv, RunOK, NoRun
<1> QED
  BY <1>1, <1>2, <1>3, <1>4 DEF Next, vars

LEMMA CurOf ==
    ASSUME TypeInv, NEW r \in Runs, run[r].cur \in Copies
    PROVE  run[r].cur.of \in Subs /\ CompanyOf[run[r].cur.of] \in Companies
  BY SubscriptionConstants DEF Copies

LEMMA TodoOf ==
    ASSUME TypeInv, NEW r \in Runs, NEW c \in run[r].todo PROVE c.of \in Subs /\ c.end \in Nat
<1>1. c \in Copies
  BY RunTyped
<1> QED
  BY <1>1 DEF Copies

LEMMA TypesKept == ASSUME TypeInv, [Next]_vars PROVE TypeInv'
<1> DEFINE Rest2 == /\ today' \in 0..LastDay /\ due' \in Nat
                    /\ sub' \in [Subs -> Rows] /\ auto' \subseteq Subs
                    /\ reminded' \in [Subs -> Nat] /\ periods' \in [Subs -> Nat]
                    /\ spoilt' \subseteq Spoilt \X Subs
<1>1. run' \in [Runs -> RunStates] /\ \A q \in Runs : RunOK(q)'
  BY RunsKept
<1>2. /\ today \in 0..LastDay /\ due \in Nat /\ sub \in [Subs -> Rows] /\ auto \subseteq Subs
      /\ reminded \in [Subs -> Nat] /\ periods \in [Subs -> Nat] /\ spoilt \subseteq Spoilt \X Subs
      /\ AdminInv /\ CompanyTypeOK
  BY DEF TypeInv, SubTypeOK
<1>3. CASE UNCHANGED vars
  <2>1. AdminInv'
    BY <1>2, <1>3, AdminsSame DEF vars, companyVars, CompanyTypeOK
  <2> QED
    BY <1>1, <1>2, <1>3, <2>1 DEF vars, subVars, TypeInv, SubTypeOK, RunStates, AdminInv
<1>4. ASSUME Rest2, AdminInv' PROVE TypeInv'
  BY <1>1, <1>4 DEF TypeInv, SubTypeOK, RunStates, AdminInv
<1>5. ASSUME UNCHANGED companyVars PROVE AdminInv'
  BY <1>2, <1>5, AdminsSame DEF companyVars, CompanyTypeOK
<1>6. CASE NextDay
  <2>1. spoilt' \subseteq Spoilt \X Subs
    BY <1>2, <1>6 DEF NextDay, Spoil, Spoilt
  <2> QED
    BY <1>2, <1>4, <1>5, <1>6, <2>1, SubscriptionConstants DEF NextDay
<1>7. CASE CompanyNext /\ UNCHANGED <<today, due, run, subVars>>
  BY <1>2, <1>4, <1>7, CompanyTypes DEF subVars
<1>8. ASSUME NEW r \in Runs, RunStep(r) PROVE TypeInv'
  <2> USE <1>2, RunTyped, CurOf
  <2>1. CASE StartRun(r)
    <3>1. spoilt' \subseteq Spoilt \X Subs
      BY <2>1 DEF StartRun, Spoil, Spoilt, Expiring
    <3> QED
      BY <1>4, <1>5, <2>1, <3>1 DEF StartRun
  <2>2. CASE Remind(r)
    <3>1. PICK c \in run[r].todo : reminded' = [reminded EXCEPT ![c.of] = @ + 1]
      BY <2>2 DEF Remind
    <3>2. reminded' \in [Subs -> Nat]
      BY <3>1, TodoOf
    <3> QED
      BY <1>4, <1>5, <2>2, <3>2 DEF Remind
  <2>3. CASE SaveFlag(r)
    <3>1. run[r].cur.of \in Subs
      BY <2>3 DEF SaveFlag, TypeInv, RunOK
    <3>2. sub' = [sub EXCEPT ![run[r].cur.of].warned = TRUE]
      BY <2>3 DEF SaveFlag, Flagged
    <3>3. sub' \in [Subs -> Rows]
      BY <3>1, <3>2 DEF Rows
    <3> QED
      BY <1>4, <1>5, <2>3, <3>3 DEF SaveFlag
  <2>4. CASE SelectExpired(r) \/ AnnounceRenewal(r) \/ EndRun(r)
    BY <1>4, <1>5, <2>4 DEF SelectExpired, AnnounceRenewal, EndRun, subVars
  <2>5. CASE Renew(r)
    <3>1. PICK c \in run[r].todo :
              /\ sub' = [sub EXCEPT ![c.of] = [status |-> "active", warned |-> FALSE,
                                               end |-> RenewalBase(r, c) + Duration]]
              /\ reminded' = [reminded EXCEPT ![c.of] = 0]
              /\ periods' = [periods EXCEPT ![c.of] =
                               IF sub[c.of].end < run[r].day THEN @ + 1 ELSE @]
      BY <2>5 DEF Renew
    <3>2. c.of \in Subs /\ c.end \in Nat
      BY TodoOf
    <3>3. RenewalBase(r, c) \in Nat
      BY <3>2 DEF RenewalBase
    <3>4. [status |-> "active", warned |-> FALSE, end |-> RenewalBase(r, c) + Duration] \in Rows
      BY <3>3 DEF Rows
    <3>5. sub' \in [Subs -> Rows] /\ reminded' \in [Subs -> Nat]
      BY <3>1, <3>4
    <3>6. periods' \in [Subs -> Nat]
      BY <3>1, <3>2
    <3> QED
      BY <1>4, <1>5, <2>5, <3>5, <3>6 DEF Renew
  <2>6. CASE Expire(r)
    <3>1. PICK c \in run[r].todo : sub' = [sub EXCEPT ![c.of].status = "expired"]
      BY <2>6 DEF Expire
    <3>2. sub' \in [Subs -> Rows]
      BY <3>1, TodoOf DEF Rows
    <3> QED
      BY <1>4, <1>5, <2>6, <3>2 DEF Expire
  <2>7. CASE SuspendCompany(r)
    <3>1. /\ company' \in [Companies -> CompanyStatuses]
          /\ cause' \subseteq cause /\ cause \subseteq Causes \X Companies
          /\ listed' \in [Companies -> Listings]
      BY <2>7 DEF SuspendCompany, SuspendedBy, CompanyTypeOK, CompanyStatuses, Listings
    <3>2. AdminInv'
      BY <2>7, <3>1, AdminsSame DEF SuspendCompany
    <3> QED
      BY <1>4, <2>7, <3>2 DEF SuspendCompany, subVars
  <2> QED
    BY <1>8, <2>1, <2>2, <2>3, <2>4, <2>5, <2>6, <2>7 DEF RunStep
<1>9. ASSUME NEW r \in Runs, RunFails(r) PROVE TypeInv'
  <2>1. run[r].at \in {"flag", "suspend"} => run[r].cur.of \in Subs /\ CompanyOf[run[r].cur.of] \in Companies
    BY CurOf DEF TypeInv, RunOK
  <2>2. spoilt' \subseteq Spoilt \X Subs
    BY <1>2, <1>9, <2>1 DEF RunFails, Spoilt
  <2>3. cause' \subseteq Causes \X Companies
    BY <1>2, <1>9, <2>1 DEF RunFails, Causes, CompanyTypeOK
  <2>4. AdminInv'
    BY <1>2, <1>9, <2>3, AdminsSame DEF RunFails, CompanyTypeOK
  <2> QED
    BY <1>2, <1>4, <1>9, <2>2, <2>4 DEF RunFails
<1> QED
  BY <1>3, <1>6, <1>7, <1>8, <1>9 DEF Next

LEMMA TypesStart == Init => TypeInv
<1> SUFFICES ASSUME Init PROVE TypeInv
  OBVIOUS
<1>1. CompanyTypeOK
  BY NoTaskTyped DEF Init, CompanyInit, CompanyTypeOK, CompanyStatuses, Stages, Listings
<1>2. AdminInv
  BY <1>1 DEF Init, CompanyInit, AdminInv, AdminOK
<1>3. run \in [Runs -> RunStates]
  BY SubscriptionConstants DEF Init, NoRun, RunStates, Phases
<1>4. sub \in [Subs -> Rows]
  <2>1. WarningDays + 1 \in Nat
    BY SubscriptionConstants
  <2>2. ASSUME NEW s \in Subs PROVE sub[s].end \in Nat
    <3>1. sub[s] \in [status: {"active"}, end: 1..(WarningDays + 1), warned: {FALSE}]
      BY DEF Init
    <3>2. sub[s].end \in 1..(WarningDays + 1)
      BY <3>1
    <3> QED
      BY <2>1, <3>2
  <2>3. sub = [s \in Subs |-> [status |-> "active", end |-> sub[s].end, warned |-> FALSE]]
    BY DEF Init
  <2>4. \A s \in Subs : [status |-> "active", end |-> sub[s].end, warned |-> FALSE] \in Rows
    BY <2>2 DEF Rows
  <2> QED
    BY <2>3, <2>4
<1>5. \A r \in Runs : RunOK(r)
  BY DEF Init, NoRun, RunOK
<1> QED
  BY <1>1, <1>2, <1>3, <1>4, <1>5, SubscriptionConstants DEF Init, TypeInv, SubTypeOK, AdminInv, RunStates, Spoilt

------------------------------------------------------------------------------
(* A verdict once told stands: the requests on one pending company. *)

Telling(a, k) == pc[a] = "tell" /\ task[a].of = k

\* As long as no two decisions on k overlapped and no form made k pending again.
OneVerdict(k) ==
    /\ \A a, b \in Admins : Deciding(a, k) /\ Deciding(b, k) => a = b
    /\ \A a, b \in Admins : Telling(a, k) /\ Telling(b, k) => a = b
    /\ \A a \in Admins : Telling(a, k) => toldOf[k] = {}
    /\ (toldOf[k] # {} \/ \E a \in Admins : Telling(a, k))
            => company[k] # "pending" /\ \A a \in Admins : ~Deciding(a, k)
    /\ toldOf[k] # Verdicts

Disputed(k) == Caused("overlap", k) \/ Caused("reopened", k)

VerdictInv == \A k \in Companies : Disputed(k) \/ OneVerdict(k)

LEMMA VerdictSame ==
    ASSUME NEW k, Disputed(k) \/ OneVerdict(k), UNCHANGED <<pc, task, toldOf>>,
           company'[k] = "pending" => company[k] = "pending" \/ Disputed(k)',
           Disputed(k) => Disputed(k)'
    PROVE  Disputed(k)' \/ OneVerdict(k)'
  BY DEF OneVerdict, Deciding, Telling

\* A request that decides or tells nothing about k.
LEMMA VerdictElsewhere ==
    ASSUME AdminInv, NEW k \in Companies, Disputed(k) \/ OneVerdict(k), NEW a \in Admins,
           toldOf'[k] = toldOf[k],
           \A b \in Admins \ {a} : pc'[b] = pc[b] /\ task'[b] = task[b],
           ~Deciding(a, k)', ~Telling(a, k)',
           company'[k] = "pending" => company[k] = "pending" \/ Disputed(k)',
           Disputed(k) => Disputed(k)'
    PROVE  Disputed(k)' \/ OneVerdict(k)'
<1>1. \A b \in Admins : (Deciding(b, k)' => Deciding(b, k)) /\ (Telling(b, k)' => Telling(b, k))
  BY DEF Deciding, Telling
<1>2. CASE Disputed(k)
  BY <1>2
<1>3. CASE OneVerdict(k)
  <2>1. \A c, b \in Admins : Deciding(c, k)' /\ Deciding(b, k)' => c = b
    BY <1>1, <1>3 DEF OneVerdict
  <2>2. \A c, b \in Admins : Telling(c, k)' /\ Telling(b, k)' => c = b
    BY <1>1, <1>3 DEF OneVerdict
  <2>3. \A c \in Admins : Telling(c, k)' => toldOf'[k] = {}
    BY <1>1, <1>3 DEF OneVerdict
  <2>4. (toldOf'[k] # {} \/ \E c \in Admins : Telling(c, k)')
            => \/ Disputed(k)'
               \/ company'[k] # "pending" /\ \A c \in Admins : ~Deciding(c, k)'
    BY <1>1, <1>3 DEF OneVerdict
  <2>5. toldOf'[k] # Verdicts
    BY <1>3 DEF OneVerdict
  <2> QED
    BY <2>1, <2>2, <2>3, <2>4, <2>5 DEF OneVerdict
<1> QED
  BY <1>2, <1>3

LEMMA VerdictWrite ==
    ASSUME AdminInv, NEW k \in Companies, NEW j \in Companies, NEW new \in CompanyStatuses,
           Write(j, new)
    PROVE  /\ Disputed(k) => Disputed(k)'
           /\ company'[k] = "pending" => company[k] = "pending" \/ Disputed(k)'
           /\ k = j => company'[k] = new
           /\ k # j => company'[k] = company[k]
  BY DEF AdminInv, CompanyTypeOK, Write, CauseOfWrite, Disputed, Caused

LEMMA VerdictByAdmin ==
    ASSUME AdminInv, VerdictInv, NEW a \in Admins, AdminStep(a) PROVE VerdictInv'
<1>2. CompanyTypeOK /\ AdminOK(a) /\ task[a].of \in Companies /\ task[a].new \in CompanyStatuses
  BY DEF AdminInv, CompanyTypeOK, Tasks
<1>3. SUFFICES ASSUME NEW k \in Companies PROVE Disputed(k)' \/ OneVerdict(k)'
  BY DEF VerdictInv
<1>4. Disputed(k) \/ OneVerdict(k)
  BY DEF VerdictInv
<1>5. ASSUME End(a)
      PROVE  /\ \A b \in Admins \ {a} : pc'[b] = pc[b] /\ task'[b] = task[b]
             /\ ~Deciding(a, k)' /\ ~Telling(a, k)'
  <2>1. pc'[a] = "done" /\ \A b \in Admins \ {a} : pc'[b] = pc[b] /\ task'[b] = task[b]
    BY <1>5, EndKeeps
  <2> QED
    BY <2>1 DEF Deciding, Telling
<1>6. ASSUME NEW op, NEW j, NEW new, Start(a, op, j, new)
      PROVE  /\ \A b \in Admins \ {a} : pc'[b] = pc[b] /\ task'[b] = task[b]
             /\ pc'[a] = "save" /\ task'[a].op = op /\ task'[a].of = j
             /\ ~Telling(a, k)'
  <2>1. pc'[a] = "save" /\ task'[a] = [op |-> op, of |-> j, new |-> new]
        /\ \A b \in Admins \ {a} : pc'[b] = pc[b] /\ task'[b] = task[b]
    BY <1>2, <1>6 DEF Start, Goto, CompanyTypeOK
  <2> QED
    BY <2>1 DEF Telling
<1>7. ASSUME NEW j \in Companies, NEW op \in Decisions, BeginDecision(a, op, j)
      PROVE  Disputed(k)' \/ OneVerdict(k)'
  <2>1. UNCHANGED <<company, toldOf>> /\ (Disputed(k) => Disputed(k)')
    BY <1>7 DEF BeginDecision, Disputed, Caused
  <2>2. CASE End(a)
    BY <1>2, <1>4, <1>5, <2>1, <2>2, VerdictElsewhere
  <2>3. CASE Start(a, op, j, StatusAfter(op)) /\ (k # j \/ op \notin Verdicts)
    <3>1. ~Deciding(a, k)'
      BY <1>6, <2>3 DEF Deciding
    <3> QED
      BY <1>2, <1>4, <1>6, <2>1, <2>3, <3>1, VerdictElsewhere
  <2>4. CASE /\ Start(a, op, j, StatusAfter(op)) /\ k = j /\ op \in Verdicts /\ MayDecide(op, j)
             /\ cause' = cause \cup {<<"overlap", j>> : b \in {b \in Admins : op \in Verdicts /\ Deciding(b, j)}}
    <3>1. company[k] = "pending"
      BY <2>4 DEF MayDecide, Verdicts
    <3>2. CASE \E b \in Admins : Deciding(b, k)
      BY <2>4, <3>2 DEF Disputed, Caused
    <3>3. CASE OneVerdict(k) /\ ~\E b \in Admins : Deciding(b, k)
      <4>1. toldOf[k] = {} /\ \A b \in Admins : ~Telling(b, k)
        BY <3>1, <3>3 DEF OneVerdict
      <4>2. \A b \in Admins : ~Telling(b, k)' /\ (Deciding(b, k)' => b = a)
        BY <1>6, <2>4, <3>3, <4>1 DEF Telling, Deciding
      <4>3. toldOf'[k] = {} /\ {} # Verdicts
        BY <2>1, <4>1 DEF Verdicts
      <4> QED
        BY <4>2, <4>3 DEF OneVerdict
    <3> QED
      BY <1>4, <2>1, <3>2, <3>3
  <2> QED
    BY <1>7, <2>2, <2>3, <2>4 DEF BeginDecision
<1>8. ASSUME NEW j \in Companies, NEW op \in {"form"}, NEW new, Start(a, op, j, new),
             UNCHANGED <<company, toldOf, cause>>
      PROVE  Disputed(k)' \/ OneVerdict(k)'
  <2>1. ~Deciding(a, k)'
    BY <1>6, <1>8 DEF Deciding, Verdicts
  <2>2. Disputed(k) => Disputed(k)'
    BY <1>8 DEF Disputed, Caused
  <2> QED
    BY <1>4, <1>6, <1>8, <2>1, <2>2, VerdictElsewhere
<1>9. CASE SaveDecision(a)
  <2>1. Write(task[a].of, task[a].new) /\ toldOf' = toldOf /\ pc[a] = "save"
    BY <1>9 DEF SaveDecision
  <2>2. CASE End(a)
    BY <1>2, <1>4, <1>5, <2>1, <2>2, VerdictWrite, VerdictElsewhere
  <2>3. CASE task[a].op \in Verdicts /\ Goto(a, "tell") /\ UNCHANGED task
    <3>1. pc'[a] = "tell" /\ \A b \in Admins \ {a} : pc'[b] = pc[b] /\ task'[b] = task[b]
      BY <1>2, <2>3 DEF Goto, CompanyTypeOK
    <3>2. ~Deciding(a, k)'
      BY <3>1 DEF Deciding
    <3>3. CASE task[a].of # k
      <4>1. ~Telling(a, k)'
        BY <2>3, <3>3 DEF Telling
      <4> QED
        BY <1>2, <1>4, <2>1, <3>1, <3>2, <4>1, VerdictWrite, VerdictElsewhere
    <3>4. CASE task[a].of = k /\ OneVerdict(k)
      <4>1. Deciding(a, k)
        BY <2>1, <2>3, <3>4 DEF Deciding
      <4>2. toldOf[k] = {} /\ \A b \in Admins : ~Telling(b, k)
        BY <3>4, <4>1 DEF OneVerdict
      <4>3. \A b \in Admins : ~Deciding(b, k)' /\ (Telling(b, k)' => b = a)
        BY <3>1, <3>2, <3>4, <4>1, <4>2 DEF OneVerdict, Deciding, Telling
      <4>4. company'[k] = task[a].new
        BY <1>2, <2>1, <3>4, VerdictWrite
      <4>5. task[a].new # "pending"
        BY <1>2, <2>1, <2>3 DEF AdminOK, Decisions, Verdicts, StatusAfter
      <4>6. toldOf'[k] = {} /\ {} # Verdicts
        BY <2>1, <4>2 DEF Verdicts
      <4> QED
        BY <4>3, <4>4, <4>5, <4>6 DEF OneVerdict
    <3> QED
      BY <1>2, <1>4, <2>1, <3>3, <3>4, VerdictWrite
  <2> QED
    BY <1>9, <2>2, <2>3 DEF SaveDecision
<1>10. CASE TellDecision(a)
  <2>1. /\ pc[a] = "tell" /\ End(a) /\ UNCHANGED <<company, cause>>
        /\ toldOf' = [toldOf EXCEPT ![task[a].of] = @ \cup {task[a].op}]
    BY <1>10 DEF TellDecision
  <2>2. Disputed(k)' <=> Disputed(k)
    BY <2>1 DEF Disputed, Caused
  <2>3. CASE task[a].of # k
    <3>1. toldOf'[k] = toldOf[k]
      BY <1>2, <2>1, <2>3 DEF CompanyTypeOK
    <3> QED
      BY <1>2, <1>4, <1>5, <2>1, <2>2, <3>1, VerdictElsewhere
  <2>4. CASE task[a].of = k /\ OneVerdict(k)
    <3>1. Telling(a, k)
      BY <2>1, <2>4 DEF Telling
    <3>2. toldOf'[k] = {task[a].op}
      BY <1>2, <2>1, <2>4, <3>1 DEF OneVerdict, CompanyTypeOK
    <3>3. \A b \in Admins : ~Telling(b, k)' /\ ~Deciding(b, k)'
      BY <1>5, <2>1, <2>4, <3>1 DEF OneVerdict, Telling, Deciding
    <3>4. company'[k] # "pending"
      BY <2>1, <2>4, <3>1 DEF OneVerdict
    <3>5. {task[a].op} # Verdicts
      BY DEF Verdicts
    <3> QED
      BY <3>2, <3>3, <3>4, <3>5 DEF OneVerdict
  <2> QED
    BY <1>4, <2>2, <2>3, <2>4
<1>11. CASE SaveForm(a)
  <2>1. Write(task[a].of, task[a].new) /\ End(a) /\ UNCHANGED toldOf
    BY <1>11 DEF SaveForm
  <2> QED
    BY <1>2, <1>4, <1>5, <2>1, VerdictWrite, VerdictElsewhere
<1>12. CASE AdminFails(a)
  <2>1. End(a) /\ UNCHANGED <<company, toldOf, cause>>
    BY <1>12 DEF AdminFails
  <2>2. Disputed(k) => Disputed(k)'
    BY <2>1 DEF Disputed, Caused
  <2> QED
    BY <1>4, <1>5, <2>1, <2>2, VerdictElsewhere
<1> QED
  BY <1>7, <1>8, <1>9, <1>10, <1>11, <1>12 DEF AdminStep, BeginEdit, BeginSettings

LEMMA VerdictByCompany == ASSUME AdminInv, VerdictInv, CompanyNext PROVE VerdictInv'
<1>1. CASE PublicStep
  <2>1. UNCHANGED <<company, pc, task, toldOf, cause>>
    BY <1>1, PublicStepReads
  <2>2. \A k \in Companies : Disputed(k)' = Disputed(k)
    BY <2>1 DEF Disputed, Caused
  <2> QED
    BY <2>1, <2>2, VerdictSame DEF VerdictInv
<1>2. ASSUME NEW a \in Admins, AdminStep(a) PROVE VerdictInv'
  BY <1>2, VerdictByAdmin
<1> QED
  BY <1>1, <1>2 DEF CompanyNext, PublicStep

\* Nothing else decides: the daily task only suspends.
LEMMA RunStepCompanies ==
    ASSUME TypeInv, NEW r \in Runs, RunStep(r) \/ RunFails(r)
    PROVE  /\ UNCHANGED <<pc, task, toldOf>>
           /\ \A k \in Companies : company'[k] = company[k] \/ company'[k] = "suspended"
           /\ \A k \in Companies : Disputed(k)' = Disputed(k)
<1>1. CASE UNCHANGED companyVars
  BY <1>1 DEF companyVars, Disputed, Caused
<1>2. CASE SuspendCompany(r)
  BY <1>2 DEF SuspendCompany, SuspendedBy, Disputed, Caused, TypeInv, SubTypeOK, CompanyTypeOK
<1>3. CASE RunFails(r)
  BY <1>3 DEF RunFails, Disputed, Caused
<1> QED
  BY <1>1, <1>2, <1>3 DEF RunStep, StartRun, Remind, SaveFlag, SelectExpired, Renew,
     AnnounceRenewal, Expire, EndRun

LEMMA VerdictsKept == ASSUME TypeInv, VerdictInv, [Next]_vars PROVE VerdictInv'
<1>1. AdminInv
  BY DEF TypeInv
<1>2. CASE UNCHANGED companyVars
  <2>1. \A k \in Companies : Disputed(k)' = Disputed(k)
    BY <1>2 DEF companyVars, Disputed, Caused
  <2> QED
    BY <1>2, <2>1, VerdictSame DEF companyVars, VerdictInv
<1>3. CASE CompanyNext
  BY <1>1, <1>3, VerdictByCompany
<1>4. ASSUME NEW r \in Runs, RunStep(r) \/ RunFails(r) PROVE VerdictInv'
  BY <1>4, RunStepCompanies, VerdictSame DEF VerdictInv
<1> QED
  BY <1>2, <1>3, <1>4 DEF Next, NextDay, vars

------------------------------------------------------------------------------
(* Lapsed subscriptions hide their company, and no run renews twice. *)

Excusable(k) == Caused("activated", k) \/ Caused("interrupted", k)

\* On its page, or in a list that was read since the task last suspended it.
Shown(k) == company[k] = "active" \/ listed[k] = "fresh"

\* A company becomes visible by an activation only.
LEMMA ShownByActivation ==
    ASSUME AdminInv, CompanyNext, NEW k \in Companies
    PROVE  /\ Shown(k)' => Shown(k) \/ Excusable(k)'
           /\ Excusable(k) => Excusable(k)'
<1>1. ASSUME NEW a \in Admins, AdminStep(a), UNCHANGED listed
      PROVE  /\ company'[k] = "active" => company[k] = "active" \/ Excusable(k)'
             /\ Excusable(k) => Excusable(k)'
  <2>1. task[a].of \in Companies
    BY DEF AdminInv, CompanyTypeOK, Tasks
  <2>2. CASE Write(task[a].of, task[a].new)
    BY <2>1, <2>2 DEF AdminInv, CompanyTypeOK, Write, CauseOfWrite, Excusable, Caused
  <2>3. CASE UNCHANGED company /\ cause \subseteq cause'
    BY <2>3 DEF Excusable, Caused
  <2> QED
    BY <1>1, <2>2, <2>3 DEF AdminStep, BeginDecision, BeginEdit, BeginSettings, SaveDecision,
       TellDecision, SaveForm, AdminFails
<1>2. CASE PublicStep
  BY <1>2, PublicStepReads DEF Shown, Excusable, Caused
<1> QED
  BY <1>1, <1>2 DEF CompanyNext, PublicStep, Shown

LEMMA SuspensionPending ==
    ASSUME NEW r \in Runs, \A q \in Runs \ {r} : run'[q] = run[q], run[r].at # "suspend",
           NEW s, AboutToSuspend(s)
    PROVE  AboutToSuspend(s)'
  BY DEF AboutToSuspend

LEMMA LapsedKept == ASSUME TypeInv, LapsedIsHidden, [Next]_vars PROVE LapsedIsHidden'
<1> SUFFICES ASSUME NEW s \in Subs, (sub[s].status = "expired")', (CompanyOf[s] \in Visible)',
                    ~CachedBefore(CompanyOf[s])', ~Excusable(CompanyOf[s])'
             PROVE  AboutToSuspend(s)'
  BY DEF LapsedIsHidden, Excusable
<1> DEFINE k == CompanyOf[s]
<1>1. k \in Companies /\ AdminInv
  BY SubscriptionConstants DEF TypeInv
<1>shown. Shown(k)'
  <2>1. TypeInv'
    BY TypesKept
  <2>2. listed'[k] \in {"no", "fresh", "stale"}
    BY <1>1, <2>1 DEF TypeInv, SubTypeOK, CompanyTypeOK, Listings
  <2> QED
    BY <1>1, <2>2 DEF Shown, Visible, Active, CachedBefore
<1>2. ASSUME sub[s].status = "expired", Shown(k), ~Excusable(k)
      PROVE  AboutToSuspend(s)
  BY <1>1, <1>2 DEF LapsedIsHidden, Shown, Visible, Active, CachedBefore, Excusable
<1>3. CASE CompanyNext /\ UNCHANGED <<run, sub>>
  <2>1. AboutToSuspend(s)
    BY <1>1, <1>shown, <1>2, <1>3, ShownByActivation
  <2> QED
    BY <1>3, <2>1 DEF AboutToSuspend
<1>4. CASE UNCHANGED <<run, sub, company, cause, listed>>
  BY <1>1, <1>shown, <1>2, <1>4 DEF Shown, Excusable, Caused, AboutToSuspend
<1>5. ASSUME NEW r \in Runs, RunStep(r), UNCHANGED <<company, cause, listed>>, run[r].at # "suspend",
             \A q \in Runs \ {r} : run'[q] = run[q],
             sub'[s].status = "expired" => sub[s].status = "expired" \/ AboutToSuspend(s)'
      PROVE  AboutToSuspend(s)'
  <2>1. ~Excusable(k) /\ Shown(k)
    BY <1>shown, <1>5 DEF Shown, Excusable, Caused
  <2> QED
    BY <1>2, <1>5, <2>1, SuspensionPending
<1>6. ASSUME NEW r \in Runs, RunStep(r) PROVE AboutToSuspend(s)'
  <2> USE RunTyped
  <2>1. CASE StartRun(r)
    <3>1. \A q \in Runs \ {r} : run'[q] = run[q]
      BY <2>1 DEF StartRun, TypeInv, SubTypeOK
    <3> QED
      BY <1>5, <1>6, <2>1, <3>1 DEF StartRun, companyVars
  <2>2. CASE Remind(r)
    <3>1. PICK c \in run[r].todo : Proceed(r, "flag", run[r].todo \ {c}, c)
      BY <2>2 DEF Remind
    <3>2. \A q \in Runs \ {r} : run'[q] = run[q]
      BY <3>1, ProceedMoves DEF Phases
    <3> QED
      BY <1>5, <1>6, <2>2, <3>2 DEF Remind, companyVars
  <2>3. CASE SaveFlag(r)
    <3>1. \A q \in Runs \ {r} : run'[q] = run[q]
      BY <2>3, ProceedMoves DEF SaveFlag, Phases
    <3>2. run[r].cur.of \in Subs
      BY <2>3, CurOf DEF SaveFlag, TypeInv, RunOK
    <3>3. sub' = [sub EXCEPT ![run[r].cur.of].warned = TRUE]
      BY <2>3 DEF SaveFlag, Flagged
    <3>4. sub'[s].status = sub[s].status
      BY <3>2, <3>3 DEF TypeInv, SubTypeOK, Rows
    <3> QED
      BY <1>5, <1>6, <2>3, <3>1, <3>4 DEF SaveFlag, companyVars
  <2>4. CASE SelectExpired(r)
    <3>1. Copied(Expired(run[r].day)) \in SUBSET Copies
      BY CopiesOf DEF Expired
    <3>2. \A q \in Runs \ {r} : run'[q] = run[q]
      BY <2>4, <3>1, ProceedMoves DEF SelectExpired, Phases
    <3> QED
      BY <1>5, <1>6, <2>4, <3>2 DEF SelectExpired, companyVars, subVars
  <2>5. CASE Renew(r)
    <3>1. PICK c \in run[r].todo :
              /\ Proceed(r, "announce", run[r].todo \ {c}, c)
              /\ sub' = [sub EXCEPT ![c.of] = [status |-> "active", warned |-> FALSE,
                                               end |-> RenewalBase(r, c) + Duration]]
      BY <2>5 DEF Renew
    <3>2. \A q \in Runs \ {r} : run'[q] = run[q]
      BY <3>1, ProceedMoves DEF Phases
    <3>3. sub'[s].status = "expired" => sub[s].status = "expired"
      BY <3>1 DEF TypeInv, SubTypeOK
    <3> QED
      BY <1>5, <1>6, <2>5, <3>2, <3>3 DEF Renew, companyVars
  <2>6. CASE AnnounceRenewal(r)
    <3>1. \A q \in Runs \ {r} : run'[q] = run[q]
      BY <2>6, ProceedMoves DEF AnnounceRenewal, Phases
    <3> QED
      BY <1>5, <1>6, <2>6, <3>1 DEF AnnounceRenewal, companyVars, subVars
  <2>7. CASE Expire(r)
    <3>1. PICK c \in run[r].todo : /\ Proceed(r, "suspend", run[r].todo \ {c}, c)
                                   /\ sub' = [sub EXCEPT ![c.of].status = "expired"]
      BY <2>7 DEF Expire
    <3> DEFINE left == run[r].todo \ {c}
    <3>a. left \in SUBSET Copies /\ c \in Copies \cup {None}
      OBVIOUS
    <3>b. Proceed(r, "suspend", left, c) /\ "suspend" \in Phases
      BY <3>1 DEF Phases
    <3> HIDE DEF left
    <3>2. /\ run'[r] = [at |-> "suspend", day |-> run[r].day, todo |-> left, cur |-> c]
          /\ \A q \in Runs \ {r} : run'[q] = run[q]
      BY <3>a, <3>b, ProceedMoves
    <3>3. c.of = s => AboutToSuspend(s)'
      BY <3>2 DEF AboutToSuspend
    <3>4. c.of # s => sub'[s] = sub[s]
      BY <3>1 DEF TypeInv, SubTypeOK
    <3> QED
      BY <1>5, <1>6, <2>7, <3>2, <3>3, <3>4 DEF Expire, companyVars
  <2>8. CASE SuspendCompany(r)
    <3> DEFINE j == CompanyOf[run[r].cur.of]
    <3>1. j \in Companies
      BY <2>8, CurOf DEF SuspendCompany, TypeInv, RunOK
    <3>2. /\ company' = [company EXCEPT ![j] = "suspended"] /\ cause' = cause \ {<<"activated", j>>}
          /\ listed' = [listed EXCEPT ![j] = IF @ = "fresh" THEN "stale" ELSE @]
          /\ Proceed(r, "treat", run[r].todo, None) /\ sub' = sub /\ run[r].at = "suspend"
      BY <2>8 DEF SuspendCompany, SuspendedBy, subVars
    <3>3. k # j
      BY <1>1, <1>shown, <3>1, <3>2 DEF Shown, AdminInv, CompanyTypeOK
    <3>4. Shown(k) /\ ~Excusable(k)
      BY <1>1, <1>shown, <3>1, <3>2, <3>3 DEF Shown, Excusable, Caused, AdminInv, CompanyTypeOK
    <3>5. PICK q \in Runs : run[q].at = "suspend" /\ run[q].cur.of = s
      BY <1>2, <3>2, <3>4 DEF AboutToSuspend
    <3>6. q # r
      BY <3>3, <3>5
    <3>7. run'[q] = run[q]
      <4>1. /\ Proceed(r, "treat", run[r].todo, None)
            /\ run[r].todo \in SUBSET Copies /\ None \in Copies \cup {None} /\ "treat" \in Phases
        BY <3>2 DEF Phases
      <4> QED
        BY <3>6, <4>1, ProceedMoves
    <3> QED
      BY <3>5, <3>7 DEF AboutToSuspend
  <2>9. CASE EndRun(r)
    <3>1. \A q \in Runs \ {r} : run'[q] = run[q]
      BY <2>9, RestMoves DEF EndRun
    <3> QED
      BY <1>5, <1>6, <2>9, <3>1 DEF EndRun, companyVars, subVars
  <2> QED
    BY <1>6, <2>1, <2>2, <2>3, <2>4, <2>5, <2>6, <2>7, <2>8, <2>9 DEF RunStep
<1>7. ASSUME NEW r \in Runs, RunFails(r) PROVE AboutToSuspend(s)'
  <2>1. UNCHANGED <<company, listed, sub>> /\ cause \subseteq cause' /\ \A q \in Runs \ {r} : run'[q] = run[q]
    BY <1>7, RestMoves DEF RunFails
  <2>2. PICK q \in Runs : run[q].at = "suspend" /\ run[q].cur.of = s
    BY <1>1, <1>shown, <1>2, <2>1 DEF Shown, Excusable, Caused, AboutToSuspend
  <2>3. q # r
    BY <1>7, <2>2 DEF RunFails, Excusable, Caused
  <2> QED
    BY <2>1, <2>2, <2>3 DEF AboutToSuspend
<1> QED
  BY <1>3, <1>4, <1>6, <1>7 DEF Next, vars, subVars, companyVars, NextDay

LEMMA PeriodsKept == ASSUME TypeInv, NoPeriodForFree, [Next]_vars PROVE NoPeriodForFree'
<1>1. today \in Nat /\ Duration \in Nat /\ \A s \in Subs : sub[s].end \in Nat
  BY SubscriptionConstants DEF TypeInv, SubTypeOK, Rows
<1>2. ASSUME \A s \in Subs : sub'[s].end = sub[s].end, periods' = periods,
             today' \in {today, today + 1}
      PROVE  NoPeriodForFree'
  BY <1>1, <1>2 DEF NoPeriodForFree
<1>3. ASSUME NEW r \in Runs, Renew(r) PROVE NoPeriodForFree'
  <2>1. PICK c \in run[r].todo :
            /\ sub' = [sub EXCEPT ![c.of] = [status |-> "active", warned |-> FALSE,
                                             end |-> RenewalBase(r, c) + Duration]]
            /\ periods' = [periods EXCEPT ![c.of] =
                             IF sub[c.of].end < run[r].day THEN @ + 1 ELSE @]
    BY <1>3 DEF Renew
  <2>2. c.of \in Subs /\ run[r].day \in Nat /\ run[r].day <= today
    BY TodoOf, RunTyped
  <2>3. c.end < run[r].day /\ c.end \in Nat
    BY <1>3, TodoOf DEF Renew, TypeInv, RunOK
  <2>4. RenewalBase(r, c) = run[r].day
    BY <2>2, <2>3 DEF RenewalBase
  <2>5. sub'[c.of].end = run[r].day + Duration /\ today' = today
    BY <1>3, <2>1, <2>2, <2>4 DEF TypeInv, SubTypeOK, Renew
  <2>6. \A s \in Subs : s # c.of => sub'[s] = sub[s] /\ periods'[s] = periods[s]
    BY <2>1 DEF TypeInv, SubTypeOK
  <2> QED
    BY <1>1, <2>2, <2>5, <2>6 DEF NoPeriodForFree
<1>4. ASSUME NEW r \in Runs, SaveFlag(r) PROVE NoPeriodForFree'
  <2>1. run[r].cur.of \in Subs
    BY <1>4, CurOf DEF SaveFlag, TypeInv, RunOK
  <2>2. sub' = [sub EXCEPT ![run[r].cur.of].warned = TRUE] /\ periods' = periods /\ today' = today
    BY <1>4 DEF SaveFlag, Flagged
  <2>3. \A s \in Subs : sub'[s].end = sub[s].end
    BY <2>1, <2>2 DEF TypeInv, SubTypeOK, Rows
  <2> QED
    BY <1>2, <2>2, <2>3
<1>5. ASSUME NEW r \in Runs, Expire(r) PROVE NoPeriodForFree'
  <2>1. PICK c \in run[r].todo : sub' = [sub EXCEPT ![c.of].status = "expired"]
    BY <1>5 DEF Expire
  <2>2. \A s \in Subs : sub'[s].end = sub[s].end
    BY <2>1, TodoOf DEF TypeInv, SubTypeOK, Rows
  <2> QED
    BY <1>2, <1>5, <2>2 DEF Expire
<1>6. CASE sub' = sub /\ periods' = periods /\ today' \in {today, today + 1}
  BY <1>2, <1>6
<1> QED
  BY <1>3, <1>4, <1>5, <1>6 DEF Next, vars, subVars, NextDay, RunStep, StartRun, Remind,
     SelectExpired, AnnounceRenewal, SuspendCompany, EndRun, RunFails

------------------------------------------------------------------------------
(* One reminder per period *)

Reminding(r) == run[r].at \in {"remind", "flag"}

\* s is still on the list of r; r sent the reminder of s and has to save the flag.
Waiting(r, s)  == Reminding(r) /\ \E c \in run[r].todo : c.of = s
Flagging(r, s) == run[r].at = "flag" /\ run[r].cur.of = s

Again(s) == <<"again", s>> \in spoilt

\* One run at most has to do with the reminder of s, and s is on its list until it is sent.
OneReminder(s) ==
    /\ \A r, q \in Runs : (Waiting(r, s) \/ Flagging(r, s))
                            /\ (Waiting(q, s) \/ Flagging(q, s)) => r = q
    /\ \A r \in Runs : Waiting(r, s) => ~Flagging(r, s) /\ reminded[s] = 0
    /\ \A r \in Runs : Reminding(r) =>
            \A c, d \in run[r].todo : c.of = s /\ d.of = s => c = d
    /\ reminded[s] <= 1
    /\ reminded[s] > 0 => sub[s].warned \/ \E r \in Runs : Flagging(r, s)

ReminderInv == \A s \in Subs : Again(s) \/ OneReminder(s)

\* A step that sends no reminder and adds to no list.
LEMMA ReminderFrame ==
    ASSUME TypeInv, NEW s \in Subs, Again(s) \/ OneReminder(s), spoilt \subseteq spoilt',
           reminded'[s] = reminded[s] \/ reminded'[s] = 0,
           sub[s].warned => sub'[s].warned \/ reminded'[s] = 0,
           \A q \in Runs : Reminding(q)' => Reminding(q) /\ run'[q].todo = run[q].todo,
           \A q \in Runs : Flagging(q, s)' => Flagging(q, s),
           \A q \in Runs : Flagging(q, s) => Flagging(q, s)' \/ sub'[s].warned \/ Again(s)'
    PROVE  Again(s)' \/ OneReminder(s)'
<1>1. CASE Again(s)
  BY <1>1 DEF Again
<1>2. CASE OneReminder(s)
  <2>1. \A q \in Runs : Waiting(q, s)' => Waiting(q, s)
    BY DEF Waiting
  <2>2. reminded[s] \in Nat
    BY DEF TypeInv, SubTypeOK
  <2>3. \A r, q \in Runs : (Waiting(r, s)' \/ Flagging(r, s)')
                             /\ (Waiting(q, s)' \/ Flagging(q, s)') => r = q
    BY <1>2, <2>1 DEF OneReminder
  <2>4. \A r \in Runs : Waiting(r, s)' => ~Flagging(r, s)' /\ reminded'[s] = 0
    BY <1>2, <2>1 DEF OneReminder
  <2>5. \A r \in Runs : Reminding(r)' =>
            \A c, d \in run'[r].todo : c.of = s /\ d.of = s => c = d
    BY <1>2 DEF OneReminder
  <2>6. reminded'[s] <= 1
    BY <1>2, <2>2 DEF OneReminder
  <2>7. reminded'[s] > 0 => sub'[s].warned \/ (\E r \in Runs : Flagging(r, s)') \/ Again(s)'
    BY <1>2, <2>2 DEF OneReminder
  <2> QED
    BY <2>3, <2>4, <2>5, <2>6, <2>7 DEF OneReminder
<1> QED
  BY <1>1, <1>2

\* The same of a step of run r that is not reminding afterwards.
LEMMA ReminderLeft ==
    ASSUME TypeInv, NEW s \in Subs, Again(s) \/ OneReminder(s), spoilt \subseteq spoilt',
           NEW r \in Runs, \A q \in Runs \ {r} : run'[q] = run[q], ~Reminding(r)',
           Flagging(r, s) => Again(s)',
           reminded'[s] = reminded[s] \/ reminded'[s] = 0,
           sub[s].warned => sub'[s].warned \/ reminded'[s] = 0
    PROVE  Again(s)' \/ OneReminder(s)'
<1>1. \A q \in Runs : Reminding(q)' => Reminding(q) /\ run'[q].todo = run[q].todo
  BY DEF Reminding
<1>2. \A q \in Runs : Flagging(q, s)' => Flagging(q, s)
  BY DEF Reminding, Flagging
<1>3. \A q \in Runs : Flagging(q, s) => Flagging(q, s)' \/ Again(s)'
  BY DEF Flagging
<1> QED
  BY <1>1, <1>2, <1>3, ReminderFrame

LEMMA ReminderByRun ==
    ASSUME TypeInv, ReminderInv, NEW r \in Runs, RunStep(r), NEW s \in Subs
    PROVE  Again(s)' \/ OneReminder(s)'
<1>1. Again(s) \/ OneReminder(s)
  BY DEF ReminderInv
<1> USE RunTyped
<1>2. CASE StartRun(r)
  <2> DEFINE list == Copied(Expiring(today))
  <2>1. /\ run'[r] = [at |-> "remind", day |-> today, todo |-> list, cur |-> None]
        /\ \A q \in Runs \ {r} : run'[q] = run[q]
        /\ UNCHANGED <<sub, reminded>> /\ spoilt \subseteq spoilt' /\ run[r].at = "idle"
    BY <1>2 DEF StartRun, Spoil, TypeInv, SubTypeOK
  <2>2. s \in Expiring(today) /\ OnAnotherList(r, s) => Again(s)'
    BY <1>2 DEF StartRun, Spoil, Again
  <2>3. Expiring(today) \in SUBSET Subs
    BY DEF Expiring
  <2>4. /\ \A c \in list : c.of \in Expiring(today)
        /\ \A c, d \in list : c.of = d.of => c = d
    BY <2>3, CopiesOf
  <2> HIDE DEF list
  <2>5. ~Flagging(r, s)' /\ ~Flagging(r, s) /\ ~Waiting(r, s)
    BY <2>1 DEF Flagging, Waiting, Reminding
  <2>6. \A q \in Runs \ {r} : /\ Flagging(q, s)' = Flagging(q, s)
                              /\ Waiting(q, s)' = Waiting(q, s)
                              /\ Reminding(q)' = Reminding(q)
    BY <2>1 DEF Flagging, Waiting, Reminding
  <2>7. CASE Again(s)
    BY <2>1, <2>7 DEF Again
  <2>8. CASE OneReminder(s) /\ ~Waiting(r, s)'
    <3>1. \A q, p \in Runs : (Waiting(q, s)' \/ Flagging(q, s)')
                               /\ (Waiting(p, s)' \/ Flagging(p, s)') => q = p
      BY <2>5, <2>6, <2>8 DEF OneReminder
    <3>2. \A q \in Runs : Waiting(q, s)' => ~Flagging(q, s)' /\ reminded'[s] = 0
      BY <2>1, <2>5, <2>6, <2>8 DEF OneReminder
    <3>3. \A q \in Runs : Reminding(q)' => \A c, d \in run'[q].todo : c.of = s /\ d.of = s => c = d
      BY <2>1, <2>4, <2>6, <2>8 DEF OneReminder
    <3>4. reminded'[s] > 0 => sub'[s].warned \/ \E q \in Runs : Flagging(q, s)'
      BY <2>1, <2>5, <2>6, <2>8 DEF OneReminder
    <3> QED
      BY <2>1, <2>8, <3>1, <3>2, <3>3, <3>4 DEF OneReminder
  <2>9. CASE OneReminder(s) /\ s \in Expiring(today) /\ ~OnAnotherList(r, s)
    <3>1. \A q \in Runs \ {r} : ~Waiting(q, s) /\ ~Flagging(q, s)
      <4>1. SUFFICES ASSUME NEW q \in Runs \ {r}, Waiting(q, s) \/ Flagging(q, s) PROVE FALSE
        OBVIOUS
      <4>2. PICK c \in run[q].todo \cup {run[q].cur} : c \in Copies /\ c.of = s
        BY <4>1 DEF Waiting, Flagging, TypeInv, RunOK
      <4>3. c # None
        BY <4>2, SubscriptionConstants
      <4> QED
        BY <2>9, <4>1, <4>2, <4>3 DEF OnAnotherList, Waiting, Flagging, Reminding
    <3>2. \A q \in Runs : ~Flagging(q, s) /\ ~Flagging(q, s)'
      BY <2>5, <2>6, <3>1
    <3>3. \A q \in Runs \ {r} : ~Waiting(q, s)'
      BY <2>6, <3>1
    <3>4. reminded[s] = 0 /\ reminded'[s] = 0
      BY <2>1, <2>9, <3>2 DEF OneReminder, Expiring, TypeInv, SubTypeOK
    <3>5. \A q \in Runs : Reminding(q)' => \A c, d \in run'[q].todo : c.of = s /\ d.of = s => c = d
      BY <2>1, <2>4, <2>6, <2>9 DEF OneReminder
    <3> QED
      BY <3>2, <3>3, <3>4, <3>5 DEF OneReminder
  <2>10. Waiting(r, s)' => s \in Expiring(today)
    BY <2>1, <2>4 DEF Waiting
  <2> QED
    BY <1>1, <2>2, <2>7, <2>8, <2>9, <2>10
<1>3. CASE Remind(r)
  <2>1. PICK c \in run[r].todo : /\ reminded' = [reminded EXCEPT ![c.of] = @ + 1]
                                 /\ Proceed(r, "flag", run[r].todo \ {c}, c)
    BY <1>3 DEF Remind
  <2> DEFINE left == run[r].todo \ {c}
  <2>2. left \in SUBSET Copies /\ c \in Copies \cup {None} /\ c.of \in Subs
    BY TodoOf
  <2>3. Proceed(r, "flag", left, c) /\ "flag" \in Phases
    BY <2>1 DEF Phases
  <2>4. \A d \in left : d \in run[r].todo /\ d # c
    OBVIOUS
  <2> HIDE DEF left
  <2>5. /\ run'[r] = [at |-> "flag", day |-> run[r].day, todo |-> left, cur |-> c]
        /\ \A q \in Runs \ {r} : run'[q] = run[q]
    BY <2>2, <2>3, ProceedMoves
  <2>6. UNCHANGED <<sub, spoilt>> /\ run[r].at = "remind"
    BY <1>3 DEF Remind
  <2>7. \A q \in Runs \ {r} : /\ Flagging(q, s)' = Flagging(q, s)
                              /\ Waiting(q, s)' = Waiting(q, s)
                              /\ Reminding(q)' = Reminding(q)
    BY <2>5 DEF Flagging, Waiting, Reminding
  <2>8. /\ ~Flagging(r, s) /\ Reminding(r) /\ (Waiting(r, s)' => Waiting(r, s))
        /\ (Flagging(r, s)' <=> c.of = s) /\ (c.of = s => Waiting(r, s))
    BY <2>4, <2>5, <2>6 DEF Flagging, Waiting, Reminding
  <2>9. CASE Again(s)
    BY <2>6, <2>9 DEF Again
  <2>10. CASE OneReminder(s)
    <3>1. reminded[s] \in Nat /\ reminded'[s] = IF c.of = s THEN reminded[s] + 1 ELSE reminded[s]
      BY <2>1 DEF TypeInv, SubTypeOK
    <3>2. c.of = s => ~Waiting(r, s)'
      BY <2>4, <2>5, <2>8, <2>10 DEF OneReminder, Waiting
    <3>3. \A q, p \in Runs : (Waiting(q, s)' \/ Flagging(q, s)')
                               /\ (Waiting(p, s)' \/ Flagging(p, s)') => q = p
      BY <2>7, <2>8, <2>10 DEF OneReminder
    <3>4. \A q \in Runs : Waiting(q, s)' => ~Flagging(q, s)' /\ reminded'[s] = 0
      BY <2>7, <2>8, <2>10, <3>1, <3>2 DEF OneReminder
    <3>5. \A q \in Runs : Reminding(q)' => \A d, e \in run'[q].todo : d.of = s /\ e.of = s => d = e
      BY <2>4, <2>5, <2>7, <2>8, <2>10 DEF OneReminder
    <3>6. reminded'[s] <= 1
      BY <2>8, <2>10, <3>1 DEF OneReminder
    <3>7. reminded'[s] > 0 => sub'[s].warned \/ \E q \in Runs : Flagging(q, s)'
      BY <2>6, <2>7, <2>8, <2>10, <3>1 DEF OneReminder
    <3> QED
      BY <3>3, <3>4, <3>5, <3>6, <3>7 DEF OneReminder
  <2> QED
    BY <1>1, <2>9, <2>10
<1>4. CASE SaveFlag(r)
  <2>1. run[r].cur.of \in Subs /\ run[r].at = "flag" /\ UNCHANGED <<reminded, spoilt>>
    BY <1>4, CurOf DEF SaveFlag, TypeInv, RunOK
  <2>2. sub' = [sub EXCEPT ![run[r].cur.of].warned = TRUE]
    BY <1>4 DEF SaveFlag, Flagged
  <2>3. (sub[s].warned \/ run[r].cur.of = s) => sub'[s].warned
    BY <2>1, <2>2 DEF TypeInv, SubTypeOK, Rows
  <2>4. /\ run'[r] = [at |-> "remind", day |-> run[r].day, todo |-> run[r].todo, cur |-> None]
        /\ \A q \in Runs \ {r} : run'[q] = run[q]
    BY <1>4, ProceedMoves DEF SaveFlag, Phases
  <2>5. \A q \in Runs : Reminding(q)' => Reminding(q) /\ run'[q].todo = run[q].todo
    BY <2>1, <2>4 DEF Reminding
  <2>6. \A q \in Runs : Flagging(q, s)' => Flagging(q, s)
    BY <2>4 DEF Flagging
  <2>7. \A q \in Runs : Flagging(q, s) => Flagging(q, s)' \/ sub'[s].warned
    BY <2>3, <2>4 DEF Flagging
  <2> QED
    BY <1>1, <2>1, <2>3, <2>5, <2>6, <2>7, ReminderFrame
<1>5. ASSUME ~Flagging(r, s), spoilt' = spoilt, NEW phase \in {"treat", "announce", "suspend"},
             NEW todo \in SUBSET Copies, NEW cur \in Copies \cup {None}, Proceed(r, phase, todo, cur),
             reminded'[s] = reminded[s] \/ reminded'[s] = 0,
             sub[s].warned => sub'[s].warned \/ reminded'[s] = 0
      PROVE  Again(s)' \/ OneReminder(s)'
  <2>1. /\ run'[r] = [at |-> phase, day |-> run[r].day, todo |-> todo, cur |-> cur]
        /\ \A q \in Runs \ {r} : run'[q] = run[q]
    BY <1>5, ProceedMoves DEF Phases
  <2>2. ~Reminding(r)'
    BY <2>1 DEF Reminding
  <2> QED
    BY <1>1, <1>5, <2>1, <2>2, ReminderLeft
<1>6. CASE SelectExpired(r)
  <2>1. Copied(Expired(run[r].day)) \in SUBSET Copies
    BY CopiesOf DEF Expired
  <2>2. ~Flagging(r, s)
    BY <1>6 DEF SelectExpired, Flagging
  <2> QED
    BY <1>5, <1>6, <2>1, <2>2 DEF SelectExpired, subVars
<1>7. CASE Renew(r)
  <2>1. PICK c \in run[r].todo :
            /\ sub' = [sub EXCEPT ![c.of] = [status |-> "active", warned |-> FALSE,
                                             end |-> RenewalBase(r, c) + Duration]]
            /\ reminded' = [reminded EXCEPT ![c.of] = 0]
            /\ Proceed(r, "announce", run[r].todo \ {c}, c)
    BY <1>7 DEF Renew
  <2>2. c.of = s => reminded'[s] = 0
    BY <2>1 DEF TypeInv, SubTypeOK
  <2>3. c.of # s => reminded'[s] = reminded[s] /\ sub'[s] = sub[s]
    BY <2>1 DEF TypeInv, SubTypeOK
  <2>4. run[r].todo \ {c} \in SUBSET Copies /\ ~Flagging(r, s) /\ spoilt' = spoilt
    BY <1>7 DEF Renew, Flagging
  <2> QED
    BY <1>5, <2>1, <2>2, <2>3, <2>4
<1>8. CASE AnnounceRenewal(r)
  BY <1>5, <1>8 DEF AnnounceRenewal, subVars, Flagging
<1>9. CASE Expire(r)
  <2>1. PICK c \in run[r].todo : /\ sub' = [sub EXCEPT ![c.of].status = "expired"]
                                 /\ Proceed(r, "suspend", run[r].todo \ {c}, c)
    BY <1>9 DEF Expire
  <2>2. sub'[s].warned = sub[s].warned
    BY <2>1, TodoOf DEF TypeInv, SubTypeOK, Rows
  <2>3. run[r].todo \ {c} \in SUBSET Copies /\ ~Flagging(r, s) /\ UNCHANGED <<reminded, spoilt>>
    BY <1>9 DEF Expire, Flagging
  <2> QED
    BY <1>5, <2>1, <2>2, <2>3
<1>10. CASE SuspendCompany(r)
  BY <1>5, <1>10 DEF SuspendCompany, subVars, Flagging
<1>11. CASE EndRun(r)
  <2>1. run'[r] = NoRun /\ \A q \in Runs \ {r} : run'[q] = run[q]
    BY <1>11, RestMoves DEF EndRun
  <2>2. ~Reminding(r)' /\ ~Flagging(r, s) /\ UNCHANGED <<sub, reminded, spoilt>>
    BY <1>11, <2>1 DEF Reminding, Flagging, NoRun, EndRun, subVars
  <2> QED
    BY <1>1, <2>1, <2>2, ReminderLeft
<1> QED
  BY <1>2, <1>3, <1>4, <1>6, <1>7, <1>8, <1>9, <1>10, <1>11 DEF RunStep

LEMMA RemindersKept == ASSUME TypeInv, ReminderInv, [Next]_vars PROVE ReminderInv'
<1> SUFFICES ASSUME NEW s \in Subs PROVE Again(s)' \/ OneReminder(s)'
  BY DEF ReminderInv
<1>1. Again(s) \/ OneReminder(s)
  BY DEF ReminderInv
<1>2. CASE UNCHANGED <<run, sub, reminded>> /\ spoilt \subseteq spoilt'
  <2>1. \A q \in Runs : Reminding(q)' = Reminding(q) /\ Flagging(q, s)' = Flagging(q, s)
    BY <1>2 DEF Reminding, Flagging
  <2> QED
    BY <1>1, <1>2, <2>1, ReminderFrame
<1>3. CASE NextDay
  <2>1. spoilt \subseteq spoilt'
    BY <1>3 DEF NextDay, Spoil
  <2> QED
    BY <1>2, <1>3, <2>1 DEF NextDay
<1>4. ASSUME NEW r \in Runs, RunFails(r) PROVE Again(s)' \/ OneReminder(s)'
  <2>1. run'[r] = NoRun /\ \A q \in Runs \ {r} : run'[q] = run[q]
    BY <1>4, RestMoves DEF RunFails
  <2>2. ~Reminding(r)' /\ UNCHANGED <<sub, reminded>> /\ spoilt \subseteq spoilt'
    BY <1>4, <2>1 DEF Reminding, NoRun, RunFails
  <2>3. Flagging(r, s) => Again(s)'
    BY <1>4 DEF RunFails, Flagging, Again
  <2> QED
    BY <1>1, <2>1, <2>2, <2>3, ReminderLeft
<1> QED
  BY <1>2, <1>3, <1>4, ReminderByRun DEF Next, vars, subVars

------------------------------------------------------------------------------
(* No suspension without a warning, when every day's run is on time *)

Late(s) == <<"missed", s>> \in spoilt \/ <<"failed", s>> \in spoilt

\* One run a day, which is over at midnight.
OnTime ==
    /\ due \in {0, 1}
    /\ due = 1 => \A r \in Runs : ~Working(r)
    /\ \A r, q \in Runs : Working(r) /\ Working(q) => r = q
    /\ \A r \in Runs : Working(r) => run[r].day = today

\* A subscription that is not renewed has been warned of by the day of its end; the run
\* of the day before its end has it on its list.
InTime(s) ==
    /\ sub[s].status = "expired" => reminded[s] > 0
    /\ sub[s].status = "active" /\ sub[s].end <= today => reminded[s] > 0
    /\ sub[s].warned => reminded[s] > 0
    /\ due = 0 /\ sub[s].status = "active" /\ sub[s].end = today + 1
            => reminded[s] > 0 \/ \E r \in Runs : Waiting(r, s)
    /\ \A r \in Runs : Flagging(r, s) => reminded[s] > 0
    /\ \A r \in Runs : run[r].at \in {"treat", "announce", "suspend"} =>
            \A c \in run[r].todo : c.of = s => reminded[s] > 0

Warned(s) == IF s \in auto THEN sub[s].status = "active" ELSE InTime(s)

WarnInv == \A s \in Subs : Late(s) \/ (OnTime /\ Warned(s))

\* A run goes on: it stays on time, and its lists get no longer.
LEMMA OnTimeKept ==
    ASSUME OnTime, NEW r \in Runs, Working(r), due' = due, today' = today,
           \A q \in Runs \ {r} : run'[q] = run[q],
           Working(r)' => run'[r].day = run[r].day
    PROVE  OnTime'
<1>1. \A q \in Runs : Working(q)' => Working(q) /\ run'[q].day = run[q].day
  BY DEF Working
<1>2. /\ due' = 1 => \A q \in Runs : ~Working(q)'
      /\ \A p, q \in Runs : Working(p)' /\ Working(q)' => p = q
      /\ \A q \in Runs : Working(q)' => run'[q].day = today'
  BY <1>1 DEF OnTime
<1> QED
  BY <1>2 DEF OnTime

LEMMA WarnByRun ==
    ASSUME TypeInv, WarnInv, NEW r \in Runs, RunStep(r), NEW s \in Subs, ~Late(s)'
    PROVE  OnTime' /\ Warned(s)'
<1> USE RunTyped
<1>1. spoilt \subseteq spoilt' /\ today' = today /\ auto' = auto
  BY DEF RunStep, StartRun, Remind, SaveFlag, SelectExpired, Renew, AnnounceRenewal, Expire,
     SuspendCompany, EndRun, Spoil, subVars
<1>2. OnTime /\ Warned(s)
  BY <1>1 DEF WarnInv, Late
<1>3. /\ sub[s].status \in {"active", "expired"} /\ sub[s].end \in Nat
      /\ reminded[s] \in Nat /\ sub[s].warned \in BOOLEAN
  BY DEF TypeInv, SubTypeOK, Rows
<1>4. CASE StartRun(r)
  <2> DEFINE list == Copied(Expiring(today))
  <2>1. /\ run'[r] = [at |-> "remind", day |-> today, todo |-> list, cur |-> None]
        /\ \A q \in Runs \ {r} : run'[q] = run[q]
        /\ UNCHANGED <<sub, reminded>> /\ due > 0 /\ due' = due - 1
    BY <1>4 DEF StartRun, TypeInv, SubTypeOK
  <2>2. due = 1 /\ due' = 0 /\ \A q \in Runs : ~Working(q)
    BY <1>2, <2>1 DEF OnTime
  <2>3. \A q \in Runs \ {r} : ~Working(q)'
    BY <2>1, <2>2 DEF Working
  <2>4. OnTime'
    BY <1>1, <2>1, <2>2, <2>3 DEF OnTime
  <2>5. Expiring(today) \in SUBSET Subs
    BY DEF Expiring
  <2>6. s \in Expiring(today) => \E c \in list : c.of = s
    BY <2>5, CopiesOf
  <2> HIDE DEF list
  <2>7. CASE s \in auto
    BY <1>1, <1>2, <2>1, <2>4, <2>7 DEF Warned
  <2>8. CASE s \notin auto
    <3>1. InTime(s)
      BY <1>2, <2>8 DEF Warned
    <3>2. s \in Expiring(today) => Waiting(r, s)'
      BY <2>1, <2>6 DEF Waiting, Reminding
    <3>3. sub[s].status = "active" /\ sub[s].end = today + 1 => reminded[s] > 0 \/ s \in Expiring(today)
      BY <1>3, <3>1, SubscriptionConstants DEF InTime, Expiring
    <3>4. \A q \in Runs : ~Flagging(q, s)' /\ run'[q].at \notin {"treat", "announce", "suspend"}
      BY <2>1, <2>3 DEF Flagging, Working
    <3>5. InTime(s)'
      BY <1>1, <2>1, <3>1, <3>2, <3>3, <3>4 DEF InTime
    <3> QED
      BY <1>1, <2>4, <2>8, <3>5 DEF Warned
  <2> QED
    BY <2>7, <2>8
\* What any other step of a run has to show.
<1>5. ASSUME Working(r), due' = due, \A q \in Runs \ {r} : run'[q] = run[q],
             Working(r)' => run'[r].day = run[r].day,
             s \notin auto =>
                /\ sub'[s].status # sub[s].status => reminded[s] > 0
                /\ sub'[s].end = sub[s].end
                /\ sub'[s].warned => sub[s].warned \/ reminded[s] > 0
                /\ reminded'[s] >= reminded[s]
                /\ Waiting(r, s) => Waiting(r, s)' \/ reminded'[s] > 0
                /\ Flagging(r, s)' => Flagging(r, s) \/ reminded'[s] > 0
                /\ run'[r].at \in {"treat", "announce", "suspend"} =>
                     \A c \in run'[r].todo : c.of = s => reminded'[s] > 0,
             s \in auto => sub'[s].status = "active"
      PROVE  OnTime' /\ Warned(s)'
  <2>1. OnTime'
    BY <1>1, <1>2, <1>5, OnTimeKept
  <2>2. CASE s \notin auto
    <3>1. InTime(s) /\ reminded'[s] >= reminded[s] /\ reminded'[s] \in Nat
      BY <1>2, <2>2, <1>5, TypesKept DEF Warned, TypeInv, SubTypeOK, Next
    <3>2. reminded[s] > 0 => reminded'[s] > 0
      BY <1>3, <3>1
    <3>3. \A q \in Runs : Waiting(q, s) => Waiting(q, s)' \/ reminded'[s] > 0
      BY <1>5, <2>2 DEF Waiting, Reminding
    <3>4. \A q \in Runs : Flagging(q, s)' => reminded'[s] > 0
      BY <1>5, <2>2, <3>1, <3>2 DEF InTime, Flagging
    <3>5. \A q \in Runs : run'[q].at \in {"treat", "announce", "suspend"} =>
            \A c \in run'[q].todo : c.of = s => reminded'[s] > 0
      BY <1>5, <2>2, <3>1, <3>2 DEF InTime
    <3>6. /\ sub'[s].status = "expired" => reminded'[s] > 0
          /\ sub'[s].status = "active" /\ sub'[s].end <= today => reminded'[s] > 0
          /\ sub'[s].warned => reminded'[s] > 0
          /\ due = 0 /\ sub'[s].status = "active" /\ sub'[s].end = today + 1
                => reminded'[s] > 0 \/ \E q \in Runs : Waiting(q, s)'
      BY <1>3, <1>5, <2>2, <3>1, <3>2, <3>3 DEF InTime
    <3>7. InTime(s)'
      BY <1>1, <1>5, <3>4, <3>5, <3>6 DEF InTime
    <3> QED
      BY <1>1, <2>1, <2>2, <3>7 DEF Warned
  <2>3. CASE s \in auto
    BY <1>1, <1>5, <2>1, <2>3 DEF Warned
  <2> QED
    BY <2>2, <2>3
<1>6. s \in auto => sub[s].status = "active"
  BY <1>2 DEF Warned
<1>7. s \notin auto => InTime(s)
  BY <1>2 DEF Warned
<1>8. CASE Remind(r)
  <2>1. PICK c \in run[r].todo : /\ reminded' = [reminded EXCEPT ![c.of] = @ + 1]
                                 /\ Proceed(r, "flag", run[r].todo \ {c}, c)
    BY <1>8 DEF Remind
  <2> DEFINE left == run[r].todo \ {c}
  <2>2. left \in SUBSET Copies /\ c \in Copies \cup {None} /\ c.of \in Subs
    BY TodoOf
  <2>3. Proceed(r, "flag", left, c) /\ "flag" \in Phases
    BY <2>1 DEF Phases
  <2>4. \A d \in run[r].todo : d \in left \/ d = c
    OBVIOUS
  <2> HIDE DEF left
  <2>5. /\ run'[r] = [at |-> "flag", day |-> run[r].day, todo |-> left, cur |-> c]
        /\ \A q \in Runs \ {r} : run'[q] = run[q]
    BY <2>2, <2>3, ProceedMoves
  <2>6. sub' = sub /\ due' = due /\ Working(r)
    BY <1>8 DEF Remind, Working
  <2>7. reminded'[s] >= reminded[s] /\ (c.of = s => reminded'[s] > 0)
    BY <1>3, <2>1 DEF TypeInv, SubTypeOK
  <2>8. Waiting(r, s) => Waiting(r, s)' \/ reminded'[s] > 0
    BY <2>4, <2>5, <2>7 DEF Waiting, Reminding
  <2>9. Flagging(r, s)' => reminded'[s] > 0
    BY <2>5, <2>7 DEF Flagging
  <2>10. run'[r].at \notin {"treat", "announce", "suspend"} /\ run'[r].day = run[r].day
    BY <2>5
  <2> QED
    BY <1>5, <1>6, <2>5, <2>6, <2>7, <2>8, <2>9, <2>10
<1>9. CASE SaveFlag(r)
  <2>1. run[r].cur.of \in Subs /\ run[r].at = "flag" /\ UNCHANGED <<reminded, due>> /\ Working(r)
    BY <1>9, CurOf DEF SaveFlag, TypeInv, RunOK, Working
  <2>2. sub' = [sub EXCEPT ![run[r].cur.of].warned = TRUE]
    BY <1>9 DEF SaveFlag, Flagged
  <2>3. /\ sub'[s].status = sub[s].status /\ sub'[s].end = sub[s].end
        /\ sub'[s].warned => sub[s].warned \/ run[r].cur.of = s
    BY <2>1, <2>2 DEF TypeInv, SubTypeOK, Rows
  <2>4. /\ run'[r] = [at |-> "remind", day |-> run[r].day, todo |-> run[r].todo, cur |-> None]
        /\ \A q \in Runs \ {r} : run'[q] = run[q]
    BY <1>9, ProceedMoves DEF SaveFlag, Phases
  <2>5. Flagging(r, s) <=> run[r].cur.of = s
    BY <2>1 DEF Flagging
  <2>6. s \notin auto => (sub'[s].warned => sub[s].warned \/ reminded[s] > 0)
    BY <1>7, <2>3, <2>5 DEF InTime
  <2>7. /\ Waiting(r, s) => Waiting(r, s)'
        /\ ~Flagging(r, s)' /\ run'[r].at \notin {"treat", "announce", "suspend"}
        /\ run'[r].day = run[r].day
    BY <2>4 DEF Waiting, Reminding, Flagging
  <2>8. reminded'[s] >= reminded[s]
    BY <1>3, <2>1
  <2> QED
    BY <1>5, <1>6, <2>1, <2>3, <2>4, <2>6, <2>7, <2>8
<1>10. CASE SelectExpired(r)
  <2> DEFINE list == Copied(Expired(run[r].day))
  <2>1. Expired(run[r].day) \in SUBSET Subs
    BY DEF Expired
  <2>2. list \in SUBSET Copies /\ \A c \in list : c.of \in Expired(run[r].day)
    BY <2>1, CopiesOf
  <2>3. /\ run[r].at = "remind" /\ run[r].todo = {} /\ Proceed(r, "treat", list, None)
        /\ UNCHANGED <<sub, reminded, due>>
    BY <1>10 DEF SelectExpired, subVars
  <2> HIDE DEF list
  <2>4. /\ run'[r] = [at |-> "treat", day |-> run[r].day, todo |-> list, cur |-> None]
        /\ \A q \in Runs \ {r} : run'[q] = run[q]
    BY <2>2, <2>3, ProceedMoves DEF Phases
  <2>5. Working(r) /\ ~Waiting(r, s) /\ ~Flagging(r, s)' /\ run'[r].day = run[r].day
    BY <2>3, <2>4 DEF Working, Waiting, Flagging
  <2>6. run[r].day = today
    BY <1>2, <2>5 DEF OnTime
  <2>7. s \notin auto => \A c \in run'[r].todo : c.of = s => reminded'[s] > 0
    <3>1. SUFFICES ASSUME s \notin auto, NEW c \in list, c.of = s PROVE reminded[s] > 0
      BY <2>3, <2>4
    <3>2. sub[s].status = "active" /\ sub[s].end < today
      BY <2>2, <2>6, <3>1 DEF Expired
    <3> QED
      BY <1>3, <1>7, <3>1, <3>2 DEF InTime
  <2>8. reminded'[s] >= reminded[s]
    BY <1>3, <2>3
  <2> QED
    BY <1>5, <1>6, <2>3, <2>4, <2>5, <2>7, <2>8
\* From one subscription to the next, or between the two writes on one.
<1>11. ASSUME run[r].at \in {"treat", "announce", "suspend"}, UNCHANGED <<reminded, due>>,
              NEW phase \in {"treat", "announce", "suspend"},
              NEW todo \in SUBSET run[r].todo, NEW cur \in Copies \cup {None},
              Proceed(r, phase, todo, cur),
              s \notin auto => /\ sub'[s].end = sub[s].end /\ sub'[s].warned = sub[s].warned
                               /\ sub'[s].status # sub[s].status => reminded[s] > 0,
              s \in auto => sub'[s].status = "active"
       PROVE  OnTime' /\ Warned(s)'
  <2>1. todo \in SUBSET Copies
    OBVIOUS
  <2>2. /\ run'[r] = [at |-> phase, day |-> run[r].day, todo |-> todo, cur |-> cur]
        /\ \A q \in Runs \ {r} : run'[q] = run[q]
    BY <1>11, <2>1, ProceedMoves DEF Phases
  <2>3. Working(r) /\ ~Waiting(r, s) /\ ~Flagging(r, s)' /\ run'[r].day = run[r].day
    BY <1>11, <2>2 DEF Working, Waiting, Reminding, Flagging
  <2>4. s \notin auto => \A c \in run'[r].todo : c.of = s => reminded'[s] > 0
    BY <1>7, <1>11, <2>2 DEF InTime
  <2>5. reminded'[s] >= reminded[s]
    BY <1>3, <1>11
  <2> QED
    BY <1>5, <1>11, <2>2, <2>3, <2>4, <2>5
<1>12. CASE Renew(r)
  <2>1. PICK c \in run[r].todo :
            /\ c.of \in auto
            /\ sub' = [sub EXCEPT ![c.of] = [status |-> "active", warned |-> FALSE,
                                             end |-> RenewalBase(r, c) + Duration]]
            /\ reminded' = [reminded EXCEPT ![c.of] = 0]
            /\ Proceed(r, "announce", run[r].todo \ {c}, c)
    BY <1>12 DEF Renew
  <2> DEFINE left == run[r].todo \ {c}
  <2>2. left \in SUBSET Copies /\ c \in Copies \cup {None} /\ c.of \in Subs
    BY TodoOf
  <2>3. Proceed(r, "announce", left, c) /\ "announce" \in Phases
    BY <2>1 DEF Phases
  <2>4. \A d \in left : d \in run[r].todo
    OBVIOUS
  <2> HIDE DEF left
  <2>5. /\ run'[r] = [at |-> "announce", day |-> run[r].day, todo |-> left, cur |-> c]
        /\ \A q \in Runs \ {r} : run'[q] = run[q]
    BY <2>2, <2>3, ProceedMoves
  <2>6. run[r].at = "treat" /\ due' = due
    BY <1>12 DEF Renew
  <2>7. Working(r) /\ ~Waiting(r, s) /\ ~Flagging(r, s)' /\ run'[r].day = run[r].day
    BY <2>5, <2>6 DEF Working, Waiting, Reminding, Flagging
  <2>8. s \notin auto => sub'[s] = sub[s] /\ reminded'[s] = reminded[s]
    BY <2>1 DEF TypeInv, SubTypeOK
  <2>9. s \notin auto => \A d \in run'[r].todo : d.of = s => reminded'[s] > 0
    BY <1>7, <2>4, <2>5, <2>6, <2>8 DEF InTime
  <2>10. s \in auto => sub'[s].status = "active"
    BY <1>6, <2>1 DEF TypeInv, SubTypeOK
  <2>11. s \notin auto => reminded'[s] >= reminded[s]
    BY <1>3, <2>8
  <2> QED
    BY <1>5, <2>5, <2>6, <2>7, <2>8, <2>9, <2>10, <2>11
<1>13. CASE Expire(r)
  <2>1. PICK c \in run[r].todo : /\ c.of \notin auto
                                 /\ sub' = [sub EXCEPT ![c.of].status = "expired"]
                                 /\ Proceed(r, "suspend", run[r].todo \ {c}, c)
    BY <1>13 DEF Expire
  <2>2. c.of \in Subs /\ c \in Copies \cup {None} /\ run[r].todo \ {c} \in SUBSET run[r].todo
    BY TodoOf
  <2>3. /\ sub'[s].end = sub[s].end /\ sub'[s].warned = sub[s].warned
        /\ c.of # s => sub'[s] = sub[s]
    BY <2>1, <2>2 DEF TypeInv, SubTypeOK, Rows
  <2>4. run[r].at = "treat" /\ UNCHANGED <<reminded, due>>
    BY <1>13 DEF Expire
  <2>5. s \notin auto /\ c.of = s => reminded[s] > 0
    BY <1>7, <2>4 DEF InTime
  <2> QED
    BY <1>6, <1>11, <2>1, <2>2, <2>3, <2>4, <2>5
<1>14. CASE AnnounceRenewal(r) \/ SuspendCompany(r)
  <2>1. /\ run[r].at \in {"announce", "suspend"} /\ UNCHANGED <<reminded, due, sub>>
        /\ Proceed(r, "treat", run[r].todo, None)
    BY <1>14 DEF AnnounceRenewal, SuspendCompany, subVars
  <2> QED
    BY <1>6, <1>11, <2>1
<1>15. CASE EndRun(r)
  <2>1. run'[r] = NoRun /\ \A q \in Runs \ {r} : run'[q] = run[q]
    BY <1>15, RestMoves DEF EndRun
  <2>2. run[r].at = "treat" /\ UNCHANGED <<reminded, due, sub>>
    BY <1>15 DEF EndRun, subVars
  <2>3. Working(r) /\ ~Working(r)' /\ ~Waiting(r, s) /\ ~Flagging(r, s)' /\ run'[r].at = "idle"
    BY <2>1, <2>2 DEF Working, Waiting, Reminding, Flagging, NoRun
  <2>4. reminded'[s] >= reminded[s]
    BY <1>3, <2>2
  <2> QED
    BY <1>5, <1>6, <2>1, <2>2, <2>3, <2>4
<1> QED
  BY <1>4, <1>8, <1>9, <1>10, <1>12, <1>13, <1>14, <1>15 DEF RunStep

LEMMA WarningsKept == ASSUME TypeInv, WarnInv, [Next]_vars PROVE WarnInv'
<1> SUFFICES ASSUME NEW s \in Subs, ~Late(s)' PROVE OnTime' /\ Warned(s)'
  BY DEF WarnInv
<1>1. CASE UNCHANGED <<today, due, run, subVars>>
  <2>1. OnTime /\ Warned(s)
    BY <1>1 DEF WarnInv, Late, subVars
  <2>2. OnTime'
    BY <1>1, <2>1 DEF OnTime, Working
  <2>3. Warned(s)'
    BY <1>1, <2>1 DEF Warned, InTime, Waiting, Reminding, Flagging, subVars
  <2> QED
    BY <2>2, <2>3
<1>2. CASE NextDay
  <2>1. /\ today' = today + 1 /\ due' = due + 1 /\ UNCHANGED <<run, sub, auto, reminded>>
        /\ spoilt \subseteq spoilt'
    BY <1>2 DEF NextDay, Spoil
  <2>2. due = 0 /\ \A r \in Runs : ~Working(r)
    <3>1. due > 0 \/ (\E r \in Runs : Working(r)) => <<"missed", s>> \in spoilt'
      BY <1>2 DEF NextDay, Spoil
    <3>2. due \in Nat
      BY DEF TypeInv, SubTypeOK
    <3> QED
      BY <3>1, <3>2 DEF Late
  <2>3. OnTime /\ Warned(s)
    BY <2>1 DEF WarnInv, Late
  <2>4. \A r \in Runs : ~Working(r)'
    BY <2>1, <2>2 DEF Working
  <2>5. OnTime'
    BY <2>1, <2>2, <2>4 DEF OnTime
  <2>6. CASE s \notin auto
    <3>1. InTime(s) /\ \A r \in Runs : ~Waiting(r, s)
      BY <2>2, <2>3, <2>6 DEF Warned, Waiting, Reminding, Working
    <3>2. sub[s].end \in Nat /\ today \in Nat /\ due' = 1
      BY <2>1, <2>2, SubscriptionConstants DEF TypeInv, SubTypeOK, Rows
    <3>3. sub[s].status = "active" /\ sub[s].end <= today + 1 => reminded[s] > 0
      BY <2>2, <3>1, <3>2 DEF InTime
    <3>4. \A r \in Runs : Flagging(r, s)' => reminded[s] > 0
      BY <2>1, <3>1 DEF InTime, Flagging
    <3>5. InTime(s)'
      BY <2>1, <3>1, <3>2, <3>3, <3>4 DEF InTime
    <3> QED
      BY <2>1, <2>5, <2>6, <3>5 DEF Warned
  <2>7. CASE s \in auto
    BY <2>1, <2>3, <2>5, <2>7 DEF Warned
  <2> QED
    BY <2>6, <2>7
<1>3. ASSUME NEW r \in Runs, RunFails(r) PROVE FALSE
  BY <1>3 DEF RunFails, Late
<1> QED
  BY <1>1, <1>2, <1>3, WarnByRun DEF Next, vars

------------------------------------------------------------------------------
SubscriptionInv == TypeInv /\ VerdictInv /\ LapsedIsHidden /\ NoPeriodForFree /\ ReminderInv /\ WarnInv

LEMMA SubscriptionInductive == Spec => []SubscriptionInv
<1>1. Init => SubscriptionInv
  <2> SUFFICES ASSUME Init PROVE SubscriptionInv
    OBVIOUS
  <2>1. TypeInv
    BY TypesStart
  <2>2. \A s \in Subs : sub[s].status = "active" /\ sub[s].warned = FALSE /\ sub[s].end \in Nat
                        /\ sub[s].end > 0
    <3>1. WarningDays + 1 \in Nat
      BY SubscriptionConstants
    <3>2. ASSUME NEW s \in Subs
          PROVE  /\ sub[s].status = "active" /\ sub[s].warned = FALSE
                 /\ sub[s].end \in 1..(WarningDays + 1)
      <4>1. sub[s] \in [status: {"active"}, end: 1..(WarningDays + 1), warned: {FALSE}]
        BY DEF Init
      <4> QED
        BY <4>1
    <3>3. \A n \in 1..(WarningDays + 1) : n \in Nat /\ n > 0
      BY <3>1
    <3> QED
      BY <3>2, <3>3
  <2>3. \A r \in Runs : run[r].at = "idle"
    BY DEF Init, NoRun
  <2>4. VerdictInv
    BY DEF Init, CompanyInit, VerdictInv, OneVerdict, Deciding, Telling, Verdicts
  <2>5. LapsedIsHidden
    BY <2>2 DEF LapsedIsHidden
  <2>6. NoPeriodForFree
    BY DEF Init, NoPeriodForFree
  <2>7. ReminderInv
    BY <2>3 DEF Init, ReminderInv, OneReminder, Waiting, Reminding, Flagging
  <2>8. OnTime
    BY <2>3 DEF Init, OnTime, Working
  <2>9. ASSUME NEW s \in Subs PROVE Warned(s)
    BY <2>2, <2>3 DEF Init, Warned, InTime, Waiting, Reminding, Flagging
  <2> QED
    BY <2>1, <2>4, <2>5, <2>6, <2>7, <2>8, <2>9 DEF SubscriptionInv, WarnInv
<1>2. SubscriptionInv /\ [Next]_vars => SubscriptionInv'
  BY TypesKept, VerdictsKept, LapsedKept, PeriodsKept, RemindersKept, WarningsKept DEF SubscriptionInv
<1> QED
  BY <1>1, <1>2, PTL DEF Spec

\* However many late runs overlap, the end of a subscription is at most one plan after
\* the day that granted it (renew_subscription works on a copy).
THEOREM RenewalsAreExact == Spec => []SubInv
<1>1. SubscriptionInv => SubInv
  BY DEF SubscriptionInv, TypeInv, SubInv
<1> QED
  BY <1>1, SubscriptionInductive, PTL

\* approve_company and reject_company both succeed on one company only if they
\* overlapped, or if a form saved the company as pending again.
THEOREM VerdictsStand == Spec => []DecidedOnce
<1>1. SubscriptionInv => DecidedOnce
  BY DEF SubscriptionInv, VerdictInv, OneVerdict, Disputed, DecidedOnce
<1> QED
  BY <1>1, SubscriptionInductive, PTL

\* A company whose subscription expired is neither on its page nor in the public list, but
\* for a run that is about to suspend it or died there, or an activation since; and but for
\* the hour of cache_page, when the list was read before the suspension.
THEOREM LapsedCompaniesHide == Spec => []LapsedIsHidden
<1>1. SubscriptionInv => LapsedIsHidden
  BY DEF SubscriptionInv
<1> QED
  BY <1>1, SubscriptionInductive, PTL

\* The flag expiry_reminder_sent keeps the daily task from repeating a reminder, as long
\* as no other run held the subscription on its list.
THEOREM RemindersAreSingle == Spec => []RemindedOnce
<1>1. SubscriptionInv => RemindedOnce
  <2> SUFFICES ASSUME SubscriptionInv, NEW s \in Subs, reminded[s] > 1 PROVE Again(s)
    BY DEF RemindedOnce, Again
  <2>1. reminded[s] \in Nat /\ (Again(s) \/ OneReminder(s))
    BY DEF SubscriptionInv, TypeInv, SubTypeOK, ReminderInv
  <2> QED
    BY <2>1 DEF OneReminder
<1> QED
  BY <1>1, SubscriptionInductive, PTL

\* When the task runs every day and does not fail, no subscription expires without the
\* reminder, however short the plan and the warning.
THEOREM ExpiriesAreWarned == Spec => []WarnedBeforeExpiry
<1>1. SubscriptionInv => WarnedBeforeExpiry
  <2> SUFFICES ASSUME SubscriptionInv, NEW s \in Subs, sub[s].status = "expired", ~Late(s)
               PROVE  reminded[s] > 0
    BY DEF WarnedBeforeExpiry, Late
  <2>1. Warned(s)
    BY DEF SubscriptionInv, WarnInv
  <2> QED
    BY <2>1 DEF Warned, InTime
<1> QED
  BY <1>1, SubscriptionInductive, PTL

==============================================================================
