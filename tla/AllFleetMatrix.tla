--------------------------- MODULE AllFleetMatrix ---------------------------
(***************************************************************************)
(* All Fleet Monitoring of a partner: Gojek setoran, Grab earning and      *)
(* rental omset side by side, one row per plate or one row per driver, and *)
(* the drill-down of a cell.  It composes the three monitoring modules and *)
(* only regroups what they compute.                                        *)
(*                                                                         *)
(* A subject is a plate, or a person; money of nobody in particular goes   *)
(* to the subject with the empty name, the residual row.                   *)
(***************************************************************************)
EXTENDS FleetGrid, GrabGrid, RentalGrid, SequencesExt

CONSTANT MaxRecords     \* how many rows, trips and bookings there are at most

ASSUME MatrixAssumption ==
    /\ MaxRecords \in Nat
    /\ GrabPlates = Plates
    /\ Persons \subseteq Drivers \cup {NoDriver}
    /\ NoPlate \notin RentalPlates

matrixVars == <<fleetVars, trips, rentalVars>>

Residual(mode) == IF mode = "plate" THEN NoPlate ELSE NoDriver

-----------------------------------------------------------------------------
(* What each source brings in *)

PartnerTrips(mode, m) == GrabKeys("partner", mode, m)

\* Several Grab rows share a plate.
GrabRowsOf(mode, m, k) == {key \in PartnerTrips(mode, m) : key[1] = k}

CellGojek(mode, m, k, d) == DailyCounted(mode, k, m, d)
CellGrab(mode, m, k, d) ==
    SumFunction([key \in GrabRowsOf(mode, m, k) |-> DailyEarning("partner", mode, m, key, d)])

RentalOf(p, m, d) ==
    LET daily == DailyIncome(p, m) IN IF d \in DOMAIN daily THEN daily[d] ELSE 0

\* Mutant: rental income is left out of the table by driver.
CellRentalByPlate(mode, m, k, d) ==
    IF mode = "plate" /\ k \in RentalPlates THEN RentalOf(k, m, d) ELSE 0

\* A booking has no driver: by driver, all of it is in the residual row.
CellRental(mode, m, k, d) ==
    IF mode = "plate" THEN IF k \in RentalPlates THEN RentalOf(k, m, d) ELSE 0
    ELSE IF k = NoDriver THEN SumFunction([p \in RentalPlates |-> RentalOf(p, m, d)])
    ELSE 0

CellTotal(mode, m, k, d) ==
    CellGojek(mode, m, k, d) + CellGrab(mode, m, k, d) + CellRental(mode, m, k, d)

MatrixSubjects(mode, m) ==
    PivotKeys(mode, m) \cup {key[1] : key \in PartnerTrips(mode, m)}
        \cup {IF mode = "plate" THEN rentals[i].plate ELSE NoDriver : i \in MonthBookings(m)}

MatrixDay(mode, m, d) ==
    SumFunction([k \in MatrixSubjects(mode, m) |-> CellTotal(mode, m, k, d)])

\* Such days, of files uploaded for another month, are dropped.
KeptDays(m) == {d \in AnyDay : d \in WholeMonth(m)}

RowTotal(mode, m, k) == SumFunction([d \in KeptDays(m) |-> CellTotal(mode, m, k, d)])
MatrixTotal(mode, m) == SumFunction([k \in MatrixSubjects(mode, m) |-> RowTotal(mode, m, k)])

-----------------------------------------------------------------------------
(* "There is data, and it earned nothing": the pink cells *)

GojekSeen(mode, m, k)    == {details[i].date[2] : i \in RowsOf(mode, k, m)}
GrabSeen(mode, m, key)   == {trips[t].date[2] : t \in GrabRow("partner", mode, m, key)}

ZeroAfterGojek(mode, m, k, d) == d \in GojekSeen(mode, m, k) /\ CellGojek(mode, m, k, d) = 0

\* The rows of the other sources are absorbed later, the Grab rows in an order:
\* a row that earned nothing marks the cell when it is still empty.
MarkedByGrab(mode, m, k, d, order) ==
    \E n \in DOMAIN order :
        /\ d \in GrabSeen(mode, m, order[n])
        /\ \A j \in 1..n : DailyEarning("partner", mode, m, order[j], d) = 0
        /\ CellGojek(mode, m, k, d) = 0

IsZero(mode, m, k, d, order) ==
    ZeroAfterGojek(mode, m, k, d) \/ MarkedByGrab(mode, m, k, d, order)

-----------------------------------------------------------------------------
(* The drill-down of a cell *)

CellBookings(mode, m, k, d) ==
    IF mode = "plate" THEN PlateBookings(k, m, d)
    ELSE IF k = NoDriver THEN DayBookings(m, d)
    ELSE {}

CellTrips(mode, m, k, d) ==
    IF mode = "plate" THEN DayTrips("partner", m, d, k) ELSE DayTripsOf("partner", m, d, k)

\* In the cell, but not in its drill-down.
CellStrays(mode, m, k, d) ==
    {t \in Strays("partner", m, d) :
        k = IF mode = "plate" THEN trips[t].plate ELSE PersonOf[trips[t].driver]}

CellItems(mode, m, k, d) ==
    {i \in OnDay(RowsOf(mode, k, m), d) : details[i].type \in PaidTypes}

CellExplained(mode, m, k, d) ==
    Counted(CellItems(mode, m, k, d)) + Earned(CellTrips(mode, m, k, d))
        + OmsetOf(CellBookings(mode, m, k, d), m, d)

-----------------------------------------------------------------------------
(* What changes the data.  Exceptions and the days a booking waives move no *)
(* setoran, and are left to FleetGrid.                                      *)

\* Bound, with two places for an odd row as in FleetGrid.
Recorded == Facts + Cardinality(Imported) + Cardinality(Booked)

MatrixInit == FleetInit /\ GrabInit /\ RentalInit

FleetStep ==
    \/ /\ Recorded < MaxRecords
       /\ \E i \in Ids, r \in Importable : Recorded + Places(r) <= MaxRecords /\ ImportRow(i, r)
    \/ \E i \in Live, p \in Plates \cup {NoPlate}, n \in Drivers \cup {NoDriver}, c \in BOOLEAN :
           EditDetail(i, p, n, c)

GrabStep ==
    Recorded < MaxRecords /\ \E t \in TripIds, r \in Trip : ImportTrip(t, r)

RentalStep ==
    \/ Recorded < MaxRecords /\ \E i \in RentalIds, b \in Booking : CreateRental(i, b)
    \/ \E i \in RentalIds : RemoveRental(i)

MatrixNext ==
    \/ FleetStep /\ UNCHANGED <<trips, rentalVars>>
    \/ GrabStep /\ UNCHANGED <<fleetVars, rentalVars>>
    \/ RentalStep /\ UNCHANGED <<fleetVars, trips>>

MatrixSpec == MatrixInit /\ [][MatrixNext]_matrixVars

-----------------------------------------------------------------------------
(* Properties *)

\* Regrouping loses no rupiah: on every day the matrix by plate and the matrix
\* by driver both show what the three sources report, and over the month what the
\* three screens show but for the days the month does not have; every cell, the
\* residual row included, is what its drill-down lists, but for Grab trips dated
\* in another month; no plate is left nameless, and a cell with data but no money
\* is marked as such (buildAllFleetMatrix, PortalAllFleetService.cell).
MatrixAgrees ==
    \A mode \in Modes, m \in Months :
        /\ MatrixTotal(mode, m) + Counted(OffMonth(m)) + Earned(Overflow("partner", m))
               = TableDeduction("plate", m) + TotalEarnings("partner", "plate", m, AnyDay)
                     + Recap(MonthBookings(m), m, LAMBDA item : item.omset)
        /\ NoPlate \notin MatrixSubjects("plate", m)
        /\ \A d \in WholeMonth(m) :
              /\ MatrixDay(mode, m, d)
                     = DailyTotal("plate", m, d) + DailyEarnings("partner", "plate", m, d)
                           + OmsetOf(DayBookings(m, d), m, d)
              /\ \A k \in MatrixSubjects(mode, m) :
                     /\ CellExplained(mode, m, k, d) + Earned(CellStrays(mode, m, k, d))
                            = CellTotal(mode, m, k, d)
                     /\ (/\ CellTotal(mode, m, k, d) = 0
                         /\ \/ d \in GojekSeen(mode, m, k)
                            \/ \E key \in GrabRowsOf(mode, m, k) : d \in GrabSeen(mode, m, key))
                        => \A order \in SetToSeqs(GrabRowsOf(mode, m, k)) :
                               IsZero(mode, m, k, d, order)

\* "never marks a day with money as zero" (all-fleet-matrix.spec.ts:176).
ZeroMeansNoMoney ==
    \A mode \in Modes, m \in Months : \A k \in MatrixSubjects(mode, m), d \in WholeMonth(m) :
        \A order \in SetToSeqs(GrabRowsOf(mode, m, k)) :
            IsZero(mode, m, k, d, order) => CellTotal(mode, m, k, d) = 0
=============================================================================
