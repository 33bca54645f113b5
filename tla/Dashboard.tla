------------------------------- MODULE Dashboard -------------------------------
(***************************************************************************)
(* The figures of the dashboards over the rows the other modules change,   *)
(* and the cache that serves their pages for five minutes.                 *)
(*                                                                         *)
(* A figure is one query.  Sales, payments, cancellations and changes of a *)
(* commission rate are single steps; days go by.  Seats have no numbers    *)
(* here: where two bookings of one seat would be refused by the index,     *)
(* both outcomes are behaviours.  A behaviour is a long stretch of days,   *)
(* a short one with sales, or a short one with readers.                    *)
(***************************************************************************)
EXTENDS Calendar, FiniteSets, Functions

CONSTANTS Admins,     \* company administrators with an access token each
          CompanyOf,  \* CompanyOf[a]: the company a administers
          Trips,
          RouteOf,    \* RouteOf[t]
          OwnerOf,    \* OwnerOf[r]: the company of route r
          Seats,      \* Seats[t]: total_seats of its vehicle
          DepartsIn,  \* DepartsIn[t]: days from the start of the sales to its departure
          Prices,     \* Prices[t]: what t was ever sold for, in hundredths of a franc
          Rates,      \* Rates[k]: what the commission_rate of k is ever set to, in
                      \* hundredths of a percent
          Bookings,
          Payments,
          Methods,    \* payment methods
          TopCount,   \* how many routes company_top_routes shows; five in the code
          Drift,      \* bound: seats of a trip given back more than once
          Scenarios   \* [from: first date, days: how many follow, activity]

ASSUME DashboardConstants ==
    /\ IsFiniteSet(Bookings) /\ IsFiniteSet(Payments) /\ IsFiniteSet(Trips) /\ IsFiniteSet(Methods)
    /\ \A a \in Admins : CompanyOf[a] \in Range(OwnerOf)
    /\ \A t \in Trips : RouteOf[t] \in DOMAIN OwnerOf
    /\ \A t \in Trips : Seats[t] \in Nat \ {0} /\ Prices[t] \subseteq Int
    /\ \A k \in Range(OwnerOf) : Rates[k] \subseteq Int
    /\ TopCount \in Nat
    /\ \A s \in Scenarios :
        IsDate(s.from) /\ s.days \in Nat /\ s.activity \in {"none", "sales", "pages"}

VARIABLES
    date,     \* today
    left,     \* days left
    activity, \* what goes on besides
    booking,  \* booking[b]: its row
    payment,  \* payment[p]: its row; a booking may have several
    free,     \* free[t]: its available_seats
    rate,     \* rate[k]: the commission_rate of company k
    cache,    \* pages kept by cache_page
    served    \* pages that were served since the last of them expired

facts == <<booking, payment, free, rate>>
vars == <<date, left, activity, facts, cache, served>>

Companies == Range(OwnerOf)
Routes    == Range(RouteOf)

Today == Ordinal(date)

None == [status |-> "none"]

BookingRows == [status: {"pending", "paid", "cancelled"}, trip: Trips, amount: Int]

PendingPayments == [status: {"pending"}, booking: Bookings, method: Methods, amount: Int]

\* With the rate in force at the confirmation, which only the properties read.
ConfirmedPayments ==
    [status: {"paid"}, booking: Bookings, method: Methods, amount: Int,
     paid_at: Int, commission: Int, rate: Int]

Init ==
    /\ \E s \in Scenarios : date = s.from /\ left = s.days /\ activity = s.activity
    /\ booking = [b \in Bookings |-> None]
    /\ payment = [p \in Payments |-> None]
    /\ free = [t \in Trips |-> Seats[t]]
    /\ rate \in [Companies -> UNION {Rates[k] : k \in Companies}]
    /\ \A k \in Companies : rate[k] \in Rates[k]
    /\ cache = {} /\ served = {}

------------------------------------------------------------------------------
(* The rows *)

\* The day of departure of a trip, in a behaviour with sales.
Departure(t) == DepartsIn[t] + Ordinal((CHOOSE s \in Scenarios : s.activity = "sales").from)

Made(b) == booking[b].status # "none"

OnTrip(t) == {b \in Bookings : Made(b) /\ booking[b].trip = t}

Active(t) == {b \in OnTrip(t) : booking[b].status # "cancelled"}

CompanyOfBooking(b) == OwnerOf[RouteOf[booking[b].trip]]

\* create_booking: online, and unpaid; or at the counter: paid, without a row of Payment.
Book(b, t, status, amount) ==
    /\ ~Made(b) /\ free[t] > 0
    /\ booking' = [booking EXCEPT ![b] = [status |-> status, trip |-> t, amount |-> amount]]
    /\ free' = [free EXCEPT ![t] = @ - 1]
    /\ UNCHANGED <<date, left, activity, payment, rate, cache, served>>

\* cancel_booking: the test of the status may be of a copy older than the cancellation, and
\* the seat is given back again.  A confirmed payment stays.
Cancel(b) ==
    LET t == booking[b].trip
    IN  /\ Made(b)
        /\ booking[b].status = "cancelled" => free[t] < Seats[t] + Drift
        /\ booking' = [booking EXCEPT ![b].status = "cancelled"]
        /\ free' = [free EXCEPT ![t] = @ + 1]
        /\ UNCHANGED <<date, left, activity, payment, rate, cache, served>>

\* initiate_payment, of any booking that is not paid
Initiate(p, b, method) ==
    /\ payment[p] = None /\ Made(b) /\ booking[b].status # "paid"
    /\ payment' = [payment EXCEPT ![p] =
            [status |-> "pending", booking |-> b, method |-> method, amount |-> booking[b].amount]]
    /\ UNCHANGED <<date, left, activity, booking, free, rate, cache, served>>

\* External: Decimal.quantize rounds a half to the even neighbour.
Rounded(n, d) ==
    LET q == n \div d
        r == n % d
    IN  IF 2 * r > d \/ (2 * r = d /\ q % 2 = 1) THEN q + 1 ELSE q

\* compute_commission
Commission(amount, percent) == Rounded(amount * percent, 10000)

\* confirm_payment: the booking becomes paid whatever it was, without a seat of the counter.
Confirm(p) ==
    LET b == payment[p].booking
        percent == rate[CompanyOfBooking(b)]
        amount == payment[p].amount
    IN  /\ payment[p].status = "pending"
        /\ booking' = [booking EXCEPT ![b].status = "paid"]
        /\ payment' = [payment EXCEPT ![p] =
                [status |-> "paid", booking |-> b, method |-> payment[p].method,
                 amount |-> amount, paid_at |-> Today,
                 commission |-> Commission(amount, percent), rate |-> percent]]
        /\ UNCHANGED <<date, left, activity, free, rate, cache, served>>

\* The super administrator edits a company.
SetRate(k, percent) ==
    /\ rate' = [rate EXCEPT ![k] = percent]
    /\ UNCHANGED <<date, left, activity, booking, payment, free, cache, served>>

------------------------------------------------------------------------------
(* Company figures *)

PaidEver == {p \in Payments : payment[p].status = "paid"}

Amount == [p \in PaidEver |-> payment[p].amount]

CompanyPaid(p) == CompanyOfBooking(payment[p].booking)

RoutePaid(p) == RouteOf[booking[payment[p].booking].trip]

\* _paid_payments
PaidPayments(k, start, end) ==
    {p \in PaidEver : /\ CompanyPaid(p) = k
                      /\ start <= payment[p].paid_at /\ payment[p].paid_at < end}

\* _company_revenue
Revenue(k, start, end) == SumFunctionOnSet(Amount, PaidPayments(k, start, end))

\* TruncWeek or TruncDate
Bucket(day, w) == IF GroupByWeek(w) THEN Monday(day) ELSE day

\* company_revenue_chart
RevenueChart(k, w) ==
    LET paid == PaidPayments(k, w.start, w.end)
    IN  [bucket \in {Bucket(payment[p].paid_at, w) : p \in paid} |->
            SumFunctionOnSet(Amount, {p \in paid : Bucket(payment[p].paid_at, w) = bucket})]

\* _pct, in hundredths of a percent
Pct(part, whole) == IF whole = 0 THEN 0 ELSE Rounded(10000 * part, whole)

\* Mutant: the shares are taken of all that was ever paid.
BreakdownTotalEver(k, w) == Revenue(k, 0, w.end)

\* sum(row["amount"] for row in rows)
BreakdownTotal(k, w) == Revenue(k, w.start, w.end)

\* company_payment_breakdown
PaymentBreakdown(k, w) ==
    LET paid == PaidPayments(k, w.start, w.end)
        used == {payment[p].method : p \in paid}
        amount == [m \in used |-> SumFunctionOnSet(Amount, {p \in paid : payment[p].method = m})]
    IN  [m \in used |-> [amount |-> amount[m], pct |-> Pct(amount[m], BreakdownTotal(k, w))]]

\* The groups of company_top_routes.
RevenueByRoute(k, w) ==
    LET paid == PaidPayments(k, w.start, w.end)
    IN  [r \in {RoutePaid(p) : p \in paid} |->
            SumFunctionOnSet(Amount, {p \in paid : RoutePaid(p) = r})]

\* order_by("-revenue")[:5]: equal revenues come in any order.
TopRoutes(k, w) ==
    LET all == RevenueByRoute(k, w)
        IsTop(shown) ==
            /\ Cardinality(shown) <= TopCount
            /\ shown # DOMAIN all => Cardinality(shown) = TopCount
            /\ \A r \in shown, o \in DOMAIN all \ shown : all[r] >= all[o]
    IN  {Restrict(all, shown) : shown \in {S \in SUBSET DOMAIN all : IsTop(S)}}

Departing(k, start, end) ==
    {t \in Trips : OwnerOf[RouteOf[t]] = k /\ start <= Departure(t) /\ Departure(t) < end}

SeatsTaken(t) == Cardinality(Active(t))

\* _company_fill_rate: the mean over the trips, to a hundredth of a percent
FillRate(k, start, end) ==
    LET trips == Departing(k, start, end)
        filled == [t \in trips |-> Pct(SeatsTaken(t), Seats[t])]
    IN  IF trips = {} THEN 0 ELSE SumFunction(filled) \div Cardinality(trips)

\* company_fill_rate_by_route: one query joins the trips to their bookings and to their
\* vehicles, so that a trip with n bookings brings its seats n times.
FillRateByRoute(k, w) ==
    LET trips(r) == {t \in Departing(k, w.start, w.end) : RouteOf[t] = r}
        taken(r) == [t \in trips(r) |-> SeatsTaken(t)]
        joined(r) == [t \in trips(r) |->
            Seats[t] * (IF OnTrip(t) = {} THEN 1 ELSE Cardinality(OnTrip(t)))]
    IN  [r \in {RouteOf[t] : t \in Departing(k, w.start, w.end)} |->
            Pct(SumFunction(taken(r)), SumFunction(joined(r)))]

------------------------------------------------------------------------------
(* Platform figures *)

CommissionOf == [p \in PaidEver |-> payment[p].commission]

\* super_overview
TotalCommission == SumFunction(CommissionOf)

PaidTo(k) == {p \in PaidEver : CompanyPaid(p) = k}

\* super_revenue_by_company
RevenueByCompany ==
    [k \in {CompanyPaid(p) : p \in PaidEver} |->
        [revenue    |-> SumFunctionOnSet(Amount, PaidTo(k)),
         commission |-> SumFunctionOnSet(CommissionOf, PaidTo(k))]]

------------------------------------------------------------------------------
(* Pages *)

\* Mutant: the pages do not vary on the Authorization header.
CacheKeyOfUrl(a, page) == <<page>>

\* cache_page(300), vary_on_headers("Authorization")
CacheKey(a, page) == <<page, a>>

Pages == {"overview"}

Cached(a, page) == {e \in cache : e.key = CacheKey(a, page)}

\* A page is computed for the company of its reader, or served as it was.
Get(a, page) ==
    LET fresh == [key |-> CacheKey(a, page), company |-> CompanyOf[a], made |-> Today]
        entry == IF Cached(a, page) = {} THEN fresh ELSE CHOOSE e \in Cached(a, page) : TRUE
    IN  /\ cache' = cache \cup {entry}
        /\ served' = served \cup {[reader |-> a, entry |-> entry]}
        /\ UNCHANGED <<date, left, activity, facts>>

\* Five minutes later.
Expire(entry) ==
    /\ entry \in cache
    /\ cache' = cache \ {entry}
    /\ served' = {s \in served : s.entry # entry}
    /\ UNCHANGED <<date, left, activity, facts>>

\* Midnight; pages older than a day have expired.
NextDay ==
    /\ left > 0 /\ \A e \in cache : e.made = Today
    /\ date' = Tomorrow(date) /\ left' = left - 1
    /\ UNCHANGED <<activity, facts, cache, served>>

RowStep ==
    \/ \E b \in Bookings :
        \/ \E t \in Trips, s \in {"pending", "paid"} :
              \E amount \in Prices[t] : Book(b, t, s, amount)
        \/ Cancel(b)
        \/ \E p \in Payments, m \in Methods : Initiate(p, b, m)
    \/ \E p \in Payments : Confirm(p)
    \/ \E k \in Companies : \E percent \in Rates[k] : SetRate(k, percent)

PageStep ==
    \/ \E a \in Admins, page \in Pages : Get(a, page)
    \/ \E entry \in cache : Expire(entry)

Next ==
    \/ NextDay
    \/ activity = "sales" /\ RowStep
    \/ activity = "pages" /\ PageStep

Spec == Init /\ [][Next]_vars

------------------------------------------------------------------------------
(* Properties *)

DashboardTypeOK ==
    /\ IsDate(date) /\ left \in Nat
    /\ booking \in [Bookings -> {None} \cup BookingRows]
    /\ payment \in [Payments -> {None} \cup PendingPayments \cup ConfirmedPayments]
    /\ free \in [Trips -> Nat]
    /\ rate \in [Companies -> Int]
    /\ \A e \in cache : e.company \in Companies

Windows == {ResolvePeriod(p, date) : p \in Periods} \cup {ResolveCustom(Today - 1, Today)}

\* Today is in every window that is asked for, and the window it is compared with is as
\* long and ends where it starts.
WindowsAreComparable ==
    \A w \in Windows :
        /\ InWindow(Today, w)
        /\ w.previous_end = w.start /\ w.end - w.start = w.previous_end - w.previous_start

\* From one day to the next the window of a period is the same, or the one that starts
\* where it ended: no day of the calendar falls between two reports or in both.
NoDayBetweenReports ==
    \A p \in Periods :
        LET w == ResolvePeriod(p, date)
            next == ResolvePeriod(p, Tomorrow(date))
        IN  next = w \/ next.start = w.end

\* Reports of successive periods can be compared and added.
WindowsTile == WindowsAreComparable /\ NoDayBetweenReports

\* The chart and the breakdown by method add up to the revenue of the overview, and the
\* shares of the breakdown to a hundred percent but for the rounding.
RevenueAgrees ==
    \A k \in Companies, w \in Windows :
        LET revenue == Revenue(k, w.start, w.end)
            breakdown == PaymentBreakdown(k, w)
            shares == SumFunction([m \in DOMAIN breakdown |-> breakdown[m].pct])
        IN  /\ SumFunction(RevenueChart(k, w)) = revenue
            /\ SumFunction([m \in DOMAIN breakdown |-> breakdown[m].amount]) = revenue
            /\ revenue > 0 =>
                shares \in (10000 - Cardinality(Methods))..(10000 + Cardinality(Methods))

\* The best routes add up to the revenue when the cut leaves none out, and else bring at
\* least the part of it that is their part of the routes.
TopRoutesLead ==
    \A k \in Companies, w \in Windows : \A table \in TopRoutes(k, w) :
        LET revenue == Revenue(k, w.start, w.end)
            routes == Cardinality(DOMAIN RevenueByRoute(k, w))
            shown == Cardinality(DOMAIN table)
        IN  /\ shown = routes => SumFunction(table) = revenue
            /\ routes * SumFunction(table) >= shown * revenue

\* No payment is counted in a period and in the one it is compared with.
NoPaymentTwice ==
    \A k \in Companies, w \in Windows :
        PaidPayments(k, w.start, w.end)
            \cap PaidPayments(k, w.previous_start, w.previous_end) = {}

\* What the confirmed payments of a company owe, at the rates in force when they were.
Owed == [p \in PaidEver |-> payment[p].rate * payment[p].amount]

\* The commissions of the platform are those of its companies, each what its payments owe
\* within half a centime per payment, whatever the rates have become.
CommissionsAgree ==
    LET rows == RevenueByCompany
    IN  /\ SumFunction([k \in DOMAIN rows |-> rows[k].commission]) = TotalCommission
        /\ \A k \in DOMAIN rows :
            LET error == 10000 * rows[k].commission - SumFunctionOnSet(Owed, PaidTo(k))
                bound == 5000 * Cardinality(PaidTo(k))
            IN  error \in (-bound)..bound

\* Rows are well formed, and the figures of the pages add up.
FiguresAgree ==
    /\ DashboardTypeOK
    /\ RevenueAgrees /\ TopRoutesLead /\ NoPaymentTwice /\ CommissionsAgree

\* A page shows the company of its reader, though pages outlive the request.
ServedIsOwn == \A s \in served : s.entry.company = CompanyOf[s.reader]

\* services.py: "Fill rate of a trip = active bookings / vehicle total seats"; docs:
\* "Taux de remplissage moyen par trajet".  When one trip departs, the rate of its route is
\* the rate of the overview.
RouteFillIsOccupancy ==
    \A k \in Companies, w \in Windows : \A t \in Departing(k, w.start, w.end) :
        Departing(k, w.start, w.end) = {t}
            => FillRateByRoute(k, w)[RouteOf[t]] = FillRate(k, w.start, w.end)

==============================================================================
