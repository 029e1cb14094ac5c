------------------------------ MODULE Calendar ------------------------------
(***************************************************************************)
(* Calendar dates, compared as the code compares its 'YYYY-MM-DD' strings, *)
(* and the month-by-month view of a date range.  A date is <<month, day>>. *)
(***************************************************************************)
EXTENDS Integers, Sequences

CONSTANT DaysIn         \* the number of days of each month

ASSUME CalendarAssumption == DaysIn \in Seq(Nat \ {0})

Months == 1..Len(DaysIn)
Dates  == UNION {{m} \X (1..DaysIn[m]) : m \in Months}

WholeMonth(m) == 1..DaysIn[m]

\* The days some month has.
AnyDay == {date[2] : date \in Dates}

FirstOf(m) == <<m, 1>>
LastOf(m)  == <<m, DaysIn[m]>>

Upto(a, b)   == a[1] < b[1] \/ (a[1] = b[1] /\ a[2] <= b[2])
Before(a, b) == Upto(a, b) /\ a # b
Between(a, d, b) == Upto(a, d) /\ Upto(d, b)

\* The months a range spans, and the days of each that fall inside it.
MonthsOf(from, to) == from[1]..to[1]
FromDay(from, m)   == IF m = from[1] THEN from[2] ELSE 1
ToDay(to, m)       == IF m = to[1] THEN to[2] ELSE DaysIn[m]
WindowOf(from, to, m) == FromDay(from, m)..ToDay(to, m)
=============================================================================
