---------------------------- MODULE MCMonitoring ----------------------------
(***************************************************************************)
(* Model checking of the monitoring figures.  A behaviour follows one view *)
(* from start to end: the Gojek figures, the setoran column, the Grab      *)
(* figures, the rental grid, or the matrix that composes them.             *)
(***************************************************************************)
EXTENDS AllFleetMatrix, SetoranColumn, TLC

CONSTANTS
    i1, i2, i3,         \* detail rows
    t1, t2,             \* trips
    r1, r2,             \* bookings
    A, B, C,            \* plates: two registered, one not
    x,                  \* a driver
    s, ss, sn,          \* two spellings of its name, and an empty one
    P, NoPartner,       \* the partner of the registered plates
    Views               \* the modules a run follows

VARIABLE view

ShortMonths == <<1, 2>>

PersonSpelt  == [n \in {s, ss, sn} |-> IF n = sn THEN NoDriver ELSE x]
PartnerNames == [p \in {A, B, C} |-> IF p = C THEN NoPartner ELSE P]

\* Per day, and per month at a price that one day of two halves unevenly.
Quotes == {[unit |-> "hari", price |-> 7, cogs |-> 2, extra |-> 5, rate |-> 1100],
           [unit |-> "bulan", price |-> 45, cogs |-> 4, extra |-> 0, rate |-> 1100]}

Interchangeable ==
    Permutations(Ids) \cup Permutations(Plates)

MCInit == view \in Views /\ MatrixInit /\ ColumnInit

Looking(v) == view = v /\ UNCHANGED view

MCNext ==
    \/ Looking("fleet") /\ FleetNext /\ UNCHANGED <<trips, rentalVars, columnVars>>
    \/ Looking("column") /\ ColumnNext /\ UNCHANGED matrixVars
    \/ Looking("grab") /\ GrabNext /\ UNCHANGED <<fleetVars, rentalVars, columnVars>>
    \/ Looking("rental") /\ RentalNext /\ UNCHANGED <<fleetVars, trips, columnVars>>
    \/ Looking("matrix") /\ MatrixNext /\ UNCHANGED columnVars

MCSpec == MCInit /\ [][MCNext]_<<view, matrixVars, columnVars>>
=============================================================================
