------------------------------ MODULE GrabGrid ------------------------------
(***************************************************************************)
(* Grab monitoring: the imported trips and the grid built from them, one   *)
(* row per plate, city and spelling of the driver's name, or one row per   *)
(* person; a date window narrows the money of the rows, never the rows.    *)
(* A trip's period is the month its file was uploaded for: nothing checks  *)
(* it against the date of the trip.                                        *)
(***************************************************************************)
EXTENDS Calendar, FiniteSets, FiniteSetsExt

CONSTANTS
    TripIds,            \* rows of grab_import_details
    GrabPlates,         \* the plates a partner registered: the scope of its grid
    NoGrabPlate,        \* a plate nobody registered
    Cities,
    Spellings,          \* the names as files spell them
    PersonOf,           \* the person a spelling names, blanks and case aside
    Earnings,           \* total_earning_collected
    PartnerOf,          \* the rental partner of a plate
    NoTrip              \* an id not in use

Trip == [plate : GrabPlates \cup {NoGrabPlate}, city : Cities, driver : Spellings,
         date : Dates, period : Months, earning : Earnings]

Persons == {PersonOf[s] : s \in Spellings}

ASSUME GrabAssumption ==
    /\ IsFiniteSet(TripIds) /\ IsFiniteSet(GrabPlates)
    /\ Earnings \subseteq Nat
    /\ NoGrabPlate \notin GrabPlates
    /\ NoTrip \notin Trip
    /\ DOMAIN PersonOf = Spellings
    /\ DOMAIN PartnerOf = GrabPlates \cup {NoGrabPlate}

VARIABLE trips          \* grab_import_details

-----------------------------------------------------------------------------
(* Rows of the grid *)

Imported == {t \in TripIds : trips[t] # NoTrip}

\* An administrator sees every trip, a partner those of its registered plates.
Scopes == {"admin", "partner"}
InScope(scope) ==
    IF scope = "admin" THEN Imported ELSE {t \in Imported : trips[t].plate \in GrabPlates}

\* The identity of a row: plate, city and spelling, or the person.
GrabKey(mode, t) ==
    IF mode = "plate" THEN <<trips[t].plate, trips[t].city, trips[t].driver>>
    ELSE <<PersonOf[trips[t].driver]>>

MonthTrips(scope, m)    == {t \in InScope(scope) : trips[t].period = m}
GrabKeys(scope, mode, m) == {GrabKey(mode, t) : t \in MonthTrips(scope, m)}
GrabRow(scope, mode, m, key) == {t \in MonthTrips(scope, m) : GrabKey(mode, t) = key}

Earned(S) == SumFunction([t \in S |-> trips[t].earning])

\* What a row earned on the days of a window, and whether it has a day there.
\* Without a window (AnyDay) every trip counts, whatever its day.
Windowed(scope, mode, m, key, window) ==
    {t \in GrabRow(scope, mode, m, key) : trips[t].date[2] \in window}
RowEarning(scope, mode, m, key, window) == Earned(Windowed(scope, mode, m, key, window))
DailyEarning(scope, mode, m, key, d)    == RowEarning(scope, mode, m, key, {d})

TotalEarnings(scope, mode, m, window) ==
    SumFunction([key \in GrabKeys(scope, mode, m) |-> RowEarning(scope, mode, m, key, window)])
DailyEarnings(scope, mode, m, d) == TotalEarnings(scope, mode, m, {d})

\* Trips behind a cell, by period and by exact date: of a plate, or of a person.
DayTrips(scope, m, d, plate) ==
    {t \in MonthTrips(scope, m) : trips[t].date = <<m, d>> /\ trips[t].plate = plate}
DayTripsOf(scope, m, d, person) ==
    {t \in MonthTrips(scope, m) : trips[t].date = <<m, d>> /\ PersonOf[trips[t].driver] = person}

-----------------------------------------------------------------------------
(* The dashboard: a month, or a range of dates, over the rows by plate *)

ByPartner(scope, m, window, partner) ==
    SumFunction([key \in {k \in GrabKeys(scope, "plate", m) : PartnerOf[k[1]] = partner} |->
                     RowEarning(scope, "plate", m, key, window)])

RangeEarning(scope, from, to) ==
    SumFunction([m \in MonthsOf(from, to) |->
                     TotalEarnings(scope, "plate", m, WindowOf(from, to, m))])

RangePartner(scope, from, to, partner) ==
    SumFunction([m \in MonthsOf(from, to) |->
                     ByPartner(scope, m, WindowOf(from, to, m), partner)])

\* Mutant: every row of the months counts as active.
ListedVehicles(scope, from, to) ==
    UNION {GrabKeys(scope, "plate", m) : m \in MonthsOf(from, to)}

\* A vehicle is active when it has a day in the range; two months count it once.
ActiveVehicles(scope, from, to) ==
    UNION {{key \in GrabKeys(scope, "plate", m) :
                Windowed(scope, "plate", m, key, WindowOf(from, to, m)) # {}} :
           m \in MonthsOf(from, to)}

-----------------------------------------------------------------------------
ImportTrip(t, r) ==
    /\ trips[t] = NoTrip
    /\ trips' = [trips EXCEPT ![t] = r]

RollBackTrip(t) ==
    /\ t \in Imported
    /\ trips' = [trips EXCEPT ![t] = NoTrip]

GrabInit == trips = [t \in TripIds |-> NoTrip]

GrabNext ==
    \/ \E t \in TripIds, r \in Trip : ImportTrip(t, r)
    \/ \E t \in TripIds : RollBackTrip(t)

GrabSpec == GrabInit /\ [][GrabNext]_trips

-----------------------------------------------------------------------------
(* Properties *)

\* The day a trip is shown on: its day of the month, in the month it is filed in.
FiledDay(t) == <<trips[t].period, trips[t].date[2]>>

\* Shown on a day of the month, but dated in another one.
Strays(scope, m, d) ==
    {t \in MonthTrips(scope, m) : trips[t].date[2] = d /\ trips[t].date[1] # m}

\* On a day the month they are filed in does not have.
Overflow(scope, m) == {t \in MonthTrips(scope, m) : trips[t].date[2] \notin WholeMonth(m)}

\* Grab money is never lost or counted twice, however it is grouped: the rows
\* by plate and the rows by person have the same totals, day by day and over
\* the month; a cell is what its drill-down lists, but for the trips dated in
\* another month, which the drill-down leaves out; a range is the money shown on
\* its days, a range of one whole month that month but for the days it does not
\* have; the partners share out the total; the vehicles counted active are
\* those with a trip shown in the range, once each
\* (GrabGridService, dayDetails, combineGrabRange, toGrabSummary).
GrabFiguresAgree ==
    \A scope \in Scopes :
        /\ \A m \in Months :
              /\ \A d \in AnyDay :
                    /\ DailyEarnings(scope, "plate", m, d) = DailyEarnings(scope, "driver", m, d)
                    /\ \A p \in {trips[t].plate : t \in MonthTrips(scope, m)} :
                           Earned(DayTrips(scope, m, d, p))
                             + Earned({t \in Strays(scope, m, d) : trips[t].plate = p})
                               = SumFunction([key \in {k \in GrabKeys(scope, "plate", m) : k[1] = p} |->
                                                  DailyEarning(scope, "plate", m, key, d)])
                    /\ \A person \in {PersonOf[trips[t].driver] : t \in MonthTrips(scope, m)} :
                           Earned(DayTripsOf(scope, m, d, person))
                             + Earned({t \in Strays(scope, m, d) : PersonOf[trips[t].driver] = person})
                               = DailyEarning(scope, "driver", m, <<person>>, d)
              /\ \A mode \in {"plate", "driver"} :
                    RangeEarning(scope, FirstOf(m), LastOf(m)) + Earned(Overflow(scope, m))
                        = TotalEarnings(scope, mode, m, AnyDay)
        /\ \A from, to \in Dates : Upto(from, to) =>
              LET inside == {t \in InScope(scope) :
                                FiledDay(t) \in Dates /\ Between(from, FiledDay(t), to)}
              IN  /\ RangeEarning(scope, from, to) = Earned(inside)
                  /\ SumFunction([q \in {PartnerOf[p] : p \in DOMAIN PartnerOf} |->
                                      RangePartner(scope, from, to, q)])
                         = Earned(inside)
                  /\ ActiveVehicles(scope, from, to) = {GrabKey("plate", t) : t \in inside}
=============================================================================
