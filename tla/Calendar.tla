-------------------------------- MODULE Calendar --------------------------------
(***************************************************************************)
(* The time windows of the dashboards.  A date is a record; a moment is    *)
(* the number of its day, for the windows begin and end at midnight, and   *)
(* Africa/Ouagadougou has no daylight saving time.                         *)
(***************************************************************************)
EXTENDS Integers, Sequences

\* External: Python's datetime.date.
Leap(year) == year % 4 = 0 /\ (year % 100 # 0 \/ year % 400 = 0)

DaysIn(year, month) ==
    IF month = 2 /\ Leap(year) THEN 29
    ELSE <<31, 28, 31, 30, 31, 30, 31, 31, 30, 31, 30, 31>>[month]

\* A year of Python is 1 or later.
IsDate(date) ==
    /\ date \in [year: Nat \ {0}, month: 1..12, day: 1..31]
    /\ date.day <= DaysIn(date.year, date.month)

\* toordinal: 1 January of year 1 is day 1, a Monday.
Ordinal(date) ==
    LET past == date.year - 1
        before == <<0, 31, 59, 90, 120, 151, 181, 212, 243, 273, 304, 334>>[date.month]
    IN  365 * past + past \div 4 - past \div 100 + past \div 400
          + before + (IF date.month > 2 /\ Leap(date.year) THEN 1 ELSE 0) + date.day

\* date + timedelta(days=1)
Tomorrow(date) ==
    IF date.day < DaysIn(date.year, date.month) THEN [date EXCEPT !.day = @ + 1]
    ELSE IF date.month < 12 THEN [date EXCEPT !.month = @ + 1, !.day = 1]
    ELSE [year |-> date.year + 1, month |-> 1, day |-> 1]

\* weekday(): Monday is 0.
Weekday(day) == (day + 6) % 7

Monday(day) == day - Weekday(day)

FirstOf(year, month) == Ordinal([year |-> year, month |-> month, day |-> 1])

------------------------------------------------------------------------------
(* resolve_period *)

Periods == {"today", "week", "month", "year"}

\* PeriodRange: ends are exclusive; the window before has the same length.
Window(start, end) ==
    [start |-> start, end |-> end,
     previous_start |-> start - (end - start), previous_end |-> start]

\* Mutant: thirty days and one are enough for any month.
MonthEndFixed(date) == FirstOf(date.year, date.month) + 31

\* The month after December is January of the next year.
MonthEnd(date) ==
    IF date.month = 12 THEN FirstOf(date.year + 1, 1) ELSE FirstOf(date.year, date.month + 1)

ResolvePeriod(period, date) ==
    CASE period = "today" -> Window(Ordinal(date), Ordinal(date) + 1)
      [] period = "week"  -> Window(Monday(Ordinal(date)), Monday(Ordinal(date)) + 7)
      [] period = "month" -> Window(FirstOf(date.year, date.month), MonthEnd(date))
      [] period = "year"  -> Window(FirstOf(date.year, 1), FirstOf(date.year + 1, 1))

\* period=custom: the whole of the last day belongs to it.
ResolveCustom(first, last) == Window(first, last + 1)

\* group_by_week: beyond 92 days
GroupByWeek(w) == w.end - w.start > 92

InWindow(day, w) == w.start <= day /\ day < w.end

==============================================================================
