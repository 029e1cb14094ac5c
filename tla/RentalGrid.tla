----------------------------- MODULE RentalGrid -----------------------------
(***************************************************************************)
(* Rental Monitoring: the bookings of a partner, and the plate x day grid  *)
(* a request builds from them, one booking at a time, in whatever order    *)
(* the database returns them.  A request reads its bookings once, so the   *)
(* table stays as it is while a grid is being built.                       *)
(***************************************************************************)
EXTENDS RentalPricing

CONSTANTS
    RentalIds,
    NoRental,           \* an id not in use
    NoMonth             \* no grid is shown

ASSUME RentalAssumption ==
    /\ IsFiniteSet(RentalIds) /\ IsFiniteSet(RentalPlates)
    /\ NoRental \notin Booking
    /\ NoMonth \notin Months

VARIABLES
    rentals,            \* the rentals table
    shown,              \* the month of the grid being built, or last built
    unread,             \* the bookings still to be placed in it
    days,               \* its cells: the amount, the colour, the bookings
    totals              \* its rows' totals

rentalVars == <<rentals, shown, unread, days, totals>>

Booked == {i \in RentalIds : rentals[i] # NoRental}

\* The one query behind every month-scoped view.
MonthBookings(m) ==
    {i \in Booked : Upto(rentals[i].from, LastOf(m)) /\ Upto(FirstOf(m), rentals[i].to)}

EmptyTotals == [omset |-> 0, cogs |-> 0, nett |-> 0, rentedDays |-> 0]

NoGrid ==
    /\ shown' = NoMonth
    /\ unread' = {}
    /\ days' = <<>>
    /\ totals' = [p \in RentalPlates |-> EmptyTotals]

-----------------------------------------------------------------------------
(* The writes.  What they check of the evidence is in RentalProofs. *)

CreateRental(i, b) ==
    /\ unread = {}
    /\ i \notin Booked
    /\ Upto(b.from, b.to)
    /\ rentals' = [rentals EXCEPT ![i] = b]
    /\ NoGrid

UpdateRental(i, b) ==
    /\ unread = {}
    /\ i \in Booked
    /\ Upto(b.from, b.to)
    /\ rentals' = [rentals EXCEPT ![i] = b]
    /\ NoGrid

UpdatePaymentStatus(i, paid) ==
    /\ unread = {}
    /\ i \in Booked
    /\ rentals' = [rentals EXCEPT ![i].paid = paid]
    /\ NoGrid

RemoveRental(i) ==
    /\ unread = {}
    /\ i \in Booked
    /\ rentals' = [rentals EXCEPT ![i] = NoRental]
    /\ NoGrid

-----------------------------------------------------------------------------
(* The grid *)

OpenGrid(m) ==
    /\ unread = {}
    /\ shown' = m
    /\ unread' = MonthBookings(m)
    /\ days' = <<>>
    /\ totals' = [p \in RentalPlates |-> EmptyTotals]
    /\ UNCHANGED rentals

\* Mutant: the colour is that of the booking read last.
LastPart(i, pd) ==
    LET b    == rentals[i]
        omset == DayOmset(b, shown, pd[2])
    IN  IF pd \in DOMAIN days
        THEN [amount |-> days[pd].amount + omset,
              paid   |-> b.paid,
              ids    |-> days[pd].ids \cup {i}]
        ELSE [amount |-> omset, paid |-> b.paid, ids |-> {i}]

\* One booking's part of a cell.  The unpaid side wins.
Part(i, pd) ==
    LET b    == rentals[i]
        omset == DayOmset(b, shown, pd[2])
    IN  IF pd \in DOMAIN days
        THEN [amount |-> days[pd].amount + omset,
              paid   |-> days[pd].paid /\ b.paid,
              ids    |-> days[pd].ids \cup {i}]
        ELSE [amount |-> omset, paid |-> b.paid, ids |-> {i}]

PlaceBooking(i) ==
    LET b     == rentals[i]
        item  == Present(b, {shown})
        cells == {b.plate} \X BookedDays(b, shown)
    IN  /\ i \in unread
        /\ unread' = unread \ {i}
        /\ days' = [pd \in DOMAIN days \cup cells |-> IF pd \in cells THEN Part(i, pd) ELSE days[pd]]
        /\ totals' = [totals EXCEPT ![b.plate] =
                         [omset |-> @.omset + item.omset,
                          cogs |-> @.cogs + item.cogs,
                          nett |-> @.nett + item.nett,
                          rentedDays |-> @.rentedDays + Cardinality(cells \ DOMAIN days)]]
        /\ UNCHANGED <<rentals, shown>>

RentalInit ==
    /\ rentals = [i \in RentalIds |-> NoRental]
    /\ shown = NoMonth
    /\ unread = {}
    /\ days = <<>>
    /\ totals = [p \in RentalPlates |-> EmptyTotals]

RentalNext ==
    \/ \E i \in RentalIds, b \in Booking : CreateRental(i, b) \/ UpdateRental(i, b)
    \/ \E i \in RentalIds, paid \in BOOLEAN : UpdatePaymentStatus(i, paid)
    \/ \E i \in RentalIds : RemoveRental(i) \/ PlaceBooking(i)
    \/ \E m \in Months : OpenGrid(m)

RentalSpec == RentalInit /\ [][RentalNext]_rentalVars

-----------------------------------------------------------------------------
(* The other readers of the same bookings *)

\* A cell's drill-down: the bookings of the day that bring in something.
DayBookings(m, d) == {i \in Booked : /\ Between(rentals[i].from, <<m, d>>, rentals[i].to)
                                     /\ DayOmset(rentals[i], m, d) # 0}

\* The drill-down of one plate's cell, and of the row of no plate: every one.
PlateBookings(p, m, d) == {i \in DayBookings(m, d) : rentals[i].plate = p}

OmsetOf(S, m, d) == SumFunction([i \in S |-> DayOmset(rentals[i], m, d)])

\* The column of the All Fleet matrix.
DailyIncome(p, m) ==
    LET S == {i \in MonthBookings(m) : rentals[i].plate = p}
    IN  [d \in UNION {BookedDays(rentals[i], m) : i \in S} |->
            OmsetOf({i \in S : d \in BookedDays(rentals[i], m)}, m, d)]

Recap(S, m, Figure(_)) == SumFunction([i \in S |-> Figure(Present(rentals[i], {m}))])

-----------------------------------------------------------------------------
(* Properties *)

\* A cell names every booking of its plate and day read so far, and never
\* claims money was collected while part of it was not, in whatever order two
\* bookings of the same day arrive (buildRentalGrid, "the unpaid side wins").
CellsTellTheTruth ==
    \A pd \in DOMAIN days :
        /\ days[pd].ids = {i \in MonthBookings(shown) \ unread :
                              rentals[i].plate = pd[1] /\ pd[2] \in BookedDays(rentals[i], shown)}
        /\ days[pd].paid <=> \A i \in days[pd].ids : rentals[i].paid

\* The grid, its totals, the monthly recap, the matrix column and a cell's
\* drill-down, each computed on its own from the bookings, show the same money
\* ("so the two screens always agree", PartnerRentalsService).
RentalFiguresAgree ==
    shown # NoMonth /\ unread = {} =>
        \A p \in RentalPlates :
            LET cells == {pd \in DOMAIN days : pd[1] = p}
                mine  == {i \in MonthBookings(shown) : rentals[i].plate = p}
                daily == DailyIncome(p, shown)
            IN  /\ totals[p].omset = SumFunction([pd \in cells |-> days[pd].amount])
                /\ totals[p].omset = Recap(mine, shown, LAMBDA item : item.omset)
                /\ totals[p].nett = Recap(mine, shown, LAMBDA item : item.nett)
                /\ totals[p].rentedDays = Cardinality(cells)
                /\ {<<p, d>> : d \in DOMAIN daily} = cells
                /\ \A d \in DOMAIN daily :
                       /\ days[<<p, d>>].amount = daily[d]
                       /\ daily[d] = OmsetOf(PlateBookings(p, shown, d), shown, d)

\* The invoice, whose lines are whole months, bills what the recap of the whole
\* booking shows, built from single days; a month booked in full costs exactly
\* the price quoted (buildRentalInvoice, "so the printed VAT can never disagree
\* with the lines printed above it").
InvoiceMatchesRecap ==
    \A i \in Booked :
        LET b    == rentals[i]
            item == Present(b, BookedMonths(b))
        IN  /\ Invoice(b) = [subtotal |-> item.omset, ppn |-> item.ppn, total |-> item.billed]
            /\ \A m \in Months :
                   (b.tariff.unit = "bulan" /\ BookedDays(b, m) = 1..DaysIn[m])
                       => Gross(b, {m}) = b.tariff.price
=============================================================================
