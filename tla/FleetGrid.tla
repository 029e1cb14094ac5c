----------------------------- MODULE FleetGrid -----------------------------
(***************************************************************************)
(* Fleet monitoring (Gojek): the imported detail rows, the edits an admin  *)
(* makes to them, the days nobody is billed for (bebas-setoran exceptions  *)
(* and rental bookings), and the figures the grid, the exit card, the      *)
(* outstanding breakdown and the date-range summary derive from them.      *)
(*                                                                         *)
(* A row's period is the month its file was uploaded for: nothing checks   *)
(* it against the date of the row.  A row's type is free text, of which    *)
(* the figures know three kinds; rows of any other kind are kept too.      *)
(***************************************************************************)
EXTENDS Calendar, FiniteSets, FiniteSetsExt

CONSTANTS
    Ids,                \* detail rows
    Plates,             \* the registered plates: the scope of the grid
    Drivers,
    DueAmounts,         \* amounts of due rows, in rupiah
    PaidAmounts,        \* amounts of deductions and manual payments
    MaxFacts,           \* how many rows, exceptions and bookings there are at most
    NoPlate, NoDriver,  \* an empty plate and an empty name
    NoRow,              \* an id not in use
    Keep                \* a field an edit leaves out

Modes  == {"plate", "driver"}

PaidTypes  == {"deduction", "manual"}
MoneyTypes == PaidTypes \cup {"due"}

Row == [plate : Plates \cup {NoPlate}, driver : Drivers \cup {NoDriver},
        date : Dates, period : Months, type : MoneyTypes \cup {"other"},
        counted : BOOLEAN, amount : DueAmounts \cup PaidAmounts]

ASSUME FleetAssumption ==
    /\ IsFiniteSet(Ids)
    /\ DueAmounts \subseteq Nat \ {0}
    /\ PaidAmounts \subseteq Nat \ {0}
    /\ MaxFacts \in Nat
    /\ NoPlate \notin Plates \cup Drivers \cup {NoDriver}
    /\ NoDriver \notin Drivers
    /\ NoRow \notin Row

VARIABLES
    details,            \* fleet_import_details
    exceptions,         \* fleet_exceptions
    bookings            \* rentals: the plate and the days it is out

fleetVars == <<details, exceptions, bookings>>

-----------------------------------------------------------------------------
(* The rows and the days waived *)

\* Rows without a registered plate are out of scope; manual payments among them
\* wait in a queue of their own, out of every figure, until an edit names a plate.
Live   == {i \in Ids : details[i] # NoRow}
Scoped == {i \in Live : details[i].plate \in Plates}

\* An explicit exception, or a booking, waives the plate's day.
Excused(plate, date) == \E e \in exceptions : e.plate = plate /\ e.date = date /\ e.bebas
RentedOut(plate, date) ==
    \E b \in bookings : b.plate = plate /\ Upto(b.from, date) /\ Upto(date, b.to)
WaivedDay(plate, date) == Excused(plate, date) \/ RentedOut(plate, date)
Waived(i) == WaivedDay(details[i].plate, details[i].date)

\* The subject of a grid row, and the opposite identity a balance is explained by.
Key(mode, i)     == IF mode = "plate" THEN details[i].plate ELSE details[i].driver
PartKey(mode, i) == IF mode = "plate" THEN details[i].driver ELSE details[i].plate

Sum(S) == SumFunction([i \in S |-> details[i].amount])

Due(S)     == Sum({i \in S : details[i].type = "due"})
Paid(S)    == Sum({i \in S : details[i].type \in PaidTypes})
Counted(S) == Sum({i \in S : details[i].type \in PaidTypes /\ details[i].counted})
Balance(S) == Due(S) - Paid(S)

-----------------------------------------------------------------------------
(* The monthly pivot *)

PivotRows(m)       == {i \in Scoped : details[i].period = m /\ details[i].type \in MoneyTypes}
RowsOf(mode, k, m) == {i \in PivotRows(m) : Key(mode, i) = k}
OnDay(S, d)        == {i \in S : details[i].date[2] = d}

PivotKeys(mode, m) == {Key(mode, i) : i \in PivotRows(m)}

\* Mutant: an empty name is dropped like an empty plate.
NamedKeys(mode, m) == PivotKeys(mode, m) \ {NoPlate, NoDriver}
\* The keys the aggregates are asked for: the nameless driver is one of them.
StatsKeys(mode, m) == PivotKeys(mode, m) \ {NoPlate}

TotalDeduction(mode, k, m)  == Counted(RowsOf(mode, k, m))
DailyCounted(mode, k, m, d) == Counted(OnDay(RowsOf(mode, k, m), d))
DailyDue(mode, k, m, d)     == Due(OnDay(RowsOf(mode, k, m), d))

\* On a day the month they are filed in does not have.
OffMonth(m) == {i \in PivotRows(m) : details[i].date[2] \notin WholeMonth(m)}

-----------------------------------------------------------------------------
(* The balance: everything up to the end of the month, waived days dropped  *)
(* from both sides.                                                         *)

History(mode, k, m) ==
    {i \in Scoped : /\ details[i].date[1] <= m /\ details[i].type \in MoneyTypes
                    /\ Key(mode, i) = k /\ ~Waived(i)}

\* The part of the history dated in the month, between two days of it.
Slice(mode, k, m, from, to) ==
    {i \in History(mode, k, m) : details[i].date[1] = m /\ details[i].date[2] \in from..to}
MonthSlice(mode, k, m) == Slice(mode, k, m, 1, DaysIn[m])

\* A key the aggregates were not asked for reads zero.
Stat(mode, k, m, value) == IF k \in StatsKeys(mode, m) THEN value ELSE 0

Outstanding(mode, k, m)       == Stat(mode, k, m, Balance(History(mode, k, m)))
MonthBalanceDelta(mode, k, m) == Stat(mode, k, m, Balance(MonthSlice(mode, k, m)))
CalculatedTarget(mode, k, m)  == Stat(mode, k, m, Due(MonthSlice(mode, k, m)))
OutstandingMonth(mode, k, m)  == CalculatedTarget(mode, k, m) - TotalDeduction(mode, k, m)

\* Mutant: the window starts with the month.
TargetToDay(mode, k, m, from, to) == Stat(mode, k, m, Due(Slice(mode, k, m, 1, to)))
WindowTarget(mode, k, m, from, to) == Stat(mode, k, m, Due(Slice(mode, k, m, from, to)))
DeltaToDay(mode, k, m, to) == Stat(mode, k, m, Balance(Slice(mode, k, m, 1, to)))

\* The days of a row on which a plate was billed, less those on which every
\* plate that billed it was waived.
BilledPlates(mode, k, m, d) ==
    {details[i].plate : i \in {j \in OnDay(RowsOf(mode, k, m), d) : details[j].type = "due"}}

\* Mutant: a single waived plate waives the day.
AnyPlateWaived(mode, k, m, d) == \E p \in BilledPlates(mode, k, m, d) : WaivedDay(p, <<m, d>>)
AllPlatesWaived(mode, k, m, d) == \A p \in BilledPlates(mode, k, m, d) : WaivedDay(p, <<m, d>>)
BilledDays(mode, k, m) ==
    {d \in 1..DaysIn[m] : DailyDue(mode, k, m, d) > 0 /\ ~AllPlatesWaived(mode, k, m, d)}

-----------------------------------------------------------------------------
(* Lifecycle: a subject not in the newest import has left *)

\* Rows of every kind keep a subject alive.
SubjectRows(mode, k) == {i \in Scoped : Key(mode, i) = k}
Subjects(mode)       == {Key(mode, i) : i \in Scoped}

\* The newest date is that of all rows, of every kind, in scope or not.
Exited(mode, k) ==
    \E j \in Live : \A i \in SubjectRows(mode, k) : Before(details[i].date, details[j].date)

\* Mutant: what was paid "tidak masuk setoran" stays owed.
ExitBalanceCounted(mode, k) ==
    LET S == {i \in SubjectRows(mode, k) : ~Excused(details[i].plate, details[i].date)}
    IN  Due(S) - Counted(S)

\* All of the subject's history; only the explicit exceptions are skipped.
ExitBalance(mode, k) ==
    Balance({i \in SubjectRows(mode, k) : ~Excused(details[i].plate, details[i].date)})

OutstandingDriverKeluar(mode) ==
    SumFunction([k \in {s \in Subjects(mode) : Exited(mode, s)} |-> ExitBalance(mode, k)])

-----------------------------------------------------------------------------
(* Totals of the table *)

OverRows(mode, m, Figure(_)) == SumFunction([k \in PivotKeys(mode, m) |-> Figure(k)])
OverActive(mode, m, Figure(_)) ==
    SumFunction([k \in {s \in PivotKeys(mode, m) : ~Exited(mode, s)} |-> Figure(k)])

TableDeduction(mode, m)   == OverRows(mode, m, LAMBDA k : TotalDeduction(mode, k, m))
TableDue(mode, m)         == OverRows(mode, m, LAMBDA k : CalculatedTarget(mode, k, m))
TableShortfall(mode, m)   == OverRows(mode, m, LAMBDA k : OutstandingMonth(mode, k, m))
DailyTotal(mode, m, d)    == OverRows(mode, m, LAMBDA k : DailyCounted(mode, k, m, d))
TableOutstanding(mode, m) == OverActive(mode, m, LAMBDA k : Outstanding(mode, k, m))

\* The balance at the end of a day: what the month was entered with, and what
\* the days up to it moved.
OutstandingToDay(mode, m, to) ==
    OverActive(mode, m, LAMBDA k : Outstanding(mode, k, m) - MonthBalanceDelta(mode, k, m)
                                       + DeltaToDay(mode, k, m, to))

-----------------------------------------------------------------------------
(* "Rincian Outstanding": the balance per contributor and per month *)

\* Mutant: rows without an opposite identity are left out.
NamedContributors(mode, k, m) == {PartKey(mode, i) : i \in History(mode, k, m)} \ {NoDriver}
Contributors(mode, k, m) == {PartKey(mode, i) : i \in History(mode, k, m)}

PartDelta(mode, k, m, p) == Balance({i \in History(mode, k, m) : PartKey(mode, i) = p})

MovedMonths(mode, k, m)  == {details[i].date[1] : i \in History(mode, k, m)}
Delta(mode, k, m, ym)    == Balance({i \in History(mode, k, m) : details[i].date[1] = ym})
RunningBalance(mode, k, m, ym) ==
    SumFunction([n \in {l \in MovedMonths(mode, k, m) : l <= ym} |-> Delta(mode, k, m, n)])

-----------------------------------------------------------------------------
(* A date range, answered month by month *)

RangeDeduction(from, to) ==
    SumFunction([m \in MonthsOf(from, to) |->
        SumFunction([d \in WindowOf(from, to, m) |-> DailyTotal("plate", m, d)])])
RangeDue(from, to) ==
    SumFunction([m \in MonthsOf(from, to) |->
        OverRows("plate", m, LAMBDA k : WindowTarget("plate", k, m, FromDay(from, m), ToDay(to, m)))])

\* A balance is cumulative: the last month's is the answer.
RangeAsOf(to) == OutstandingToDay("plate", to[1], to[2])

-----------------------------------------------------------------------------
(* What changes the data *)

\* Bound: a row of another kind, filed for another month or without a plate takes
\* two places, and edits stay within the bound.
IsOdd(row)  == row.type = "other" \/ row.period # row.date[1] \/ row.plate = NoPlate
Places(row) == IF IsOdd(row) THEN 2 ELSE 1
Facts == Cardinality(Live) + Cardinality({i \in Live : IsOdd(details[i])})
             + Cardinality(exceptions) + Cardinality(bookings)

\* A parsed row: manual payments start as counted, any row may lack plate or name.
Importable ==
    {r \in Row : /\ r.counted
                 /\ r.amount \in (IF r.type = "due" THEN DueAmounts ELSE PaidAmounts)}

ImportRow(i, r) ==
    /\ details[i] = NoRow
    /\ Facts + Places(r) <= MaxFacts
    /\ details' = [details EXCEPT ![i] = r]
    /\ UNCHANGED <<exceptions, bookings>>

RollBackRow(i) ==
    /\ i \in Live
    /\ details' = [details EXCEPT ![i] = NoRow]
    /\ UNCHANGED <<exceptions, bookings>>

\* One row: a new plate, a new name, and for a manual payment the setoran flag.
EditDetail(i, plate, driver, counted) ==
    /\ i \in Live
    /\ details' = [details EXCEPT ![i] =
                      [details[i] EXCEPT !.plate = plate, !.driver = driver,
                          !.counted = IF details[i].type = "manual" THEN counted ELSE @]]
    /\ UNCHANGED <<exceptions, bookings>>
    /\ Facts' <= MaxFacts

\* Every row of a plate in a period.
EditPlate(plate, m, newPlate, newDriver) ==
    /\ details' = [i \in Ids |->
                      IF i \in Live /\ details[i].plate = plate /\ details[i].period = m
                      THEN [details[i] EXCEPT !.plate = IF newPlate = Keep THEN @ ELSE newPlate,
                                              !.driver = IF newDriver = Keep THEN @ ELSE newDriver]
                      ELSE details[i]]
    /\ UNCHANGED <<exceptions, bookings>>
    /\ Facts' <= MaxFacts

CreateException(e) ==
    /\ Facts < MaxFacts
    /\ exceptions' = exceptions \cup {e}
    /\ UNCHANGED <<details, bookings>>

RemoveException(e) ==
    /\ exceptions' = exceptions \ {e}
    /\ UNCHANGED <<details, bookings>>

AddBooking(b) ==
    /\ Facts < MaxFacts
    /\ Upto(b.from, b.to)
    /\ bookings' = bookings \cup {b}
    /\ UNCHANGED <<details, exceptions>>

RemoveBooking(b) ==
    /\ bookings' = bookings \ {b}
    /\ UNCHANGED <<details, exceptions>>

FleetInit ==
    /\ details = [i \in Ids |-> NoRow]
    /\ exceptions = {}
    /\ bookings = {}

FleetNext ==
    \/ Facts < MaxFacts /\ \E i \in Ids, r \in Importable : ImportRow(i, r)
    \/ \E i \in Live : RollBackRow(i)
    \/ \E i \in Live, p \in Plates \cup {NoPlate}, n \in Drivers \cup {NoDriver}, c \in BOOLEAN :
           EditDetail(i, p, n, c)
    \/ \E i \in Live, q \in Plates \cup {NoPlate, Keep}, n \in Drivers \cup {NoDriver, Keep} :
           EditPlate(details[i].plate, details[i].period, q, n)
    \/ \E e \in [plate : Plates, date : Dates, bebas : BOOLEAN] : CreateException(e)
    \/ \E e \in exceptions : RemoveException(e)
    \/ \E b \in [plate : Plates, from : Dates, to : Dates] : AddBooking(b)
    \/ \E b \in bookings : RemoveBooking(b)

FleetSpec == FleetInit /\ [][FleetNext]_fleetVars

-----------------------------------------------------------------------------
(* Properties *)

\* The breakdown explains the balance it opens from: its contributors add up to
\* the row's outstanding, and the running balance it shows after each month is
\* the outstanding the grid of that month shows (buildOutstandingBreakdown,
\* historyRows: "the popup would contradict the number it opened from").
BreakdownMatchesBalance ==
    \A mode \in Modes, m \in Months : \A k \in PivotKeys(mode, m) :
        /\ SumFunction([p \in Contributors(mode, k, m) |-> PartDelta(mode, k, m, p)])
               = Outstanding(mode, k, m)
        /\ RunningBalance(mode, k, m, m) = Outstanding(mode, k, m)
        /\ \A ym \in 1..m : k \in PivotKeys(mode, ym) =>
               RunningBalance(mode, k, m, ym) = Outstanding(mode, k, ym)

\* Billed in a month to a subject the table of the month does not list: all its
\* rows are filed in other months.
Missed(mode, m) ==
    {i \in Scoped : details[i].date[1] = m /\ ~Waived(i) /\ Key(mode, i) \notin PivotKeys(mode, m)}

\* Regrouping the rows by driver moves no money: setoran and every day's total
\* are the same in both modes, and so are the due and the month's shortfall but
\* for what was billed to subjects the table misses, which takes a file uploaded
\* for another month
\* (monitoring-mode.ts; the balance is the exception, see BalanceSameInBothModes).
TotalsSameInBothModes ==
    \A m \in Months :
        /\ TableDeduction("plate", m) = TableDeduction("driver", m)
        /\ TableDue("plate", m) + Due(Missed("plate", m))
               = TableDue("driver", m) + Due(Missed("driver", m))
        /\ TableShortfall("plate", m) + Due(Missed("plate", m))
               = TableShortfall("driver", m) + Due(Missed("driver", m))
        /\ \A d \in AnyDay : DailyTotal("plate", m, d) = DailyTotal("driver", m, d)

\* The total outstanding is the same in both modes too (monitoring-mode.ts,
\* "every table total (setoran, due, outstanding, per-day totals) is identical").
BalanceSameInBothModes ==
    \A m \in Months : TableOutstanding("plate", m) = TableOutstanding("driver", m)

\* A range of one whole month is that month, but for the setoran on days the
\* month does not have, and adjacent ranges add up: every range is the sum of its
\* days (combineGojekRange).
RangesAddUp ==
    /\ \A m \in Months :
           LET first == <<m, 1>>  last == <<m, DaysIn[m]>>
           IN  /\ RangeDeduction(first, last) + Counted(OffMonth(m)) = TableDeduction("plate", m)
               /\ RangeDue(first, last) = TableDue("plate", m)
               /\ RangeAsOf(last) = TableOutstanding("plate", m)
    /\ \A from, to \in Dates :
           LET days == {d \in Dates : Upto(from, d) /\ Upto(d, to)}
           IN  Before(from, to) =>
                   /\ RangeDeduction(from, to) = SumFunction([d \in days |-> RangeDeduction(d, d)])
                   /\ RangeDue(from, to) = SumFunction([d \in days |-> RangeDue(d, d)])

\* The caption of a row ("21-24, 4 hari"), computed from the pivot, names
\* exactly the days the amount beside it, computed by the database, was summed
\* over, for every row whose bills of the month are those filed in it
\* (billedWindow, fetchCumulativeStats).
CaptionMatchesAmount ==
    \A mode \in Modes, m \in Months : \A k \in PivotKeys(mode, m) :
        {i \in RowsOf(mode, k, m) : details[i].type = "due"}
            = {i \in SubjectRows(mode, k) : details[i].date[1] = m /\ details[i].type = "due"} =>
        /\ BilledDays(mode, k, m) =
               {details[i].date[2] : i \in {j \in MonthSlice(mode, k, m) : details[j].type = "due"}}
        /\ (CalculatedTarget(mode, k, m) > 0) <=> (BilledDays(mode, k, m) # {})

\* Active, yet without a row in the table of the month: the newest row is of
\* another kind, or filed for another month.
Unlisted(mode, m) == {k \in Subjects(mode) : ~Exited(mode, k) /\ k \notin PivotKeys(mode, m)}

\* Seen from the newest month, the balance of the active rows and the card of
\* those who left share out everything ever billed and paid: nothing is counted
\* twice, and nothing lost but what an active subject without a row owes, in
\* either mode, while no booking is on record (the card does not waive rented-out
\* days) (fetchLifecycle).
NothingLost ==
    \A mode \in Modes, j \in Live :
        (bookings = {} /\ \A i \in Live : Upto(details[i].date, details[j].date)) =>
            LET m == details[j].date[1]
            IN  TableOutstanding(mode, m) + OutstandingDriverKeluar(mode)
                    = Balance({i \in Scoped : /\ ~Excused(details[i].plate, details[i].date)
                                              /\ Key(mode, i) \notin Unlisted(mode, m)})

=============================================================================
