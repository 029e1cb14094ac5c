--------------------------- MODULE RentalPricing ---------------------------
(***************************************************************************)
(* What a rental booking costs.  A booking is quoted per day ("hari") or   *)
(* per month ("bulan"); every month it touches bills its share of the      *)
(* monthly price, rounded once, and spreads that share over the booked     *)
(* days of the month so that no rupiah is lost.                            *)
(***************************************************************************)
EXTENDS Calendar, FiniteSets, FiniteSetsExt

CONSTANTS
    RentalPlates,       \* plates that are rented out, registered or not
    Tariffs             \* the quotes of an instance

Units == {"hari", "bulan"}

\* rate is the PPN rate in basis points, kept with the booking; 0 is untaxed.
Booking ==
    [plate : RentalPlates, from : Dates, to : Dates, tariff : Tariffs, paid : BOOLEAN]

ASSUME PricingAssumption ==
    Tariffs \subseteq
        [unit : Units, price : Nat, cogs : Nat, extra : Nat, rate : Nat]

\* Math.round(p / q) for p, q >= 0.
RoundHalfUp(p, q) == (2 * p + q) \div (2 * q)

PpnFor(base, rate) == RoundHalfUp(base * rate, 10000)

-----------------------------------------------------------------------------
(* The days of a booking and the money of each *)

\* The booked days of a month: the range clipped to it.
BookedDays(b, m)  == {d \in 1..DaysIn[m] : Between(b.from, <<m, d>>, b.to)}
BookedMonths(b)   == {m \in Months : BookedDays(b, m) # {}}
DaysBooked(b, ms) == SumFunction([m \in ms |-> Cardinality(BookedDays(b, m))])

\* One month's share of a monthly price.
MonthShare(b, m) == RoundHalfUp(b.tariff.price * Cardinality(BookedDays(b, m)), DaysIn[m])

\* Mutant: every day gets the same whole part.
EvenDailyAmount(b, m, d) ==
    IF b.tariff.unit = "hari" THEN b.tariff.price
    ELSE MonthShare(b, m) \div Cardinality(BookedDays(b, m))

\* The share is spread by largest remainder: the first days get a rupiah more.
DailyAmount(b, m, d) ==
    IF b.tariff.unit = "hari" THEN b.tariff.price
    ELSE LET days   == BookedDays(b, m)
             share  == MonthShare(b, m)
             before == Cardinality({e \in days : e < d})
         IN  share \div Cardinality(days)
                 + (IF before < share % Cardinality(days) THEN 1 ELSE 0)

Gross(b, ms) ==
    SumFunction([m \in ms |-> SumFunction([d \in BookedDays(b, m) |-> DailyAmount(b, m, d)])])

\* Mutant: it comes on the first day of the booking, so only in its first month.
DayOmsetOnce(b, m, d) == DailyAmount(b, m, d) + (IF <<m, d>> = b.from THEN b.tariff.extra ELSE 0)

\* The day's part of the booking's omset: what the booking costs once on top
\* comes on the first of its days in the month.
DayOmset(b, m, d) ==
    DailyAmount(b, m, d)
        + (IF \A e \in BookedDays(b, m) : d <= e THEN b.tariff.extra ELSE 0)

-----------------------------------------------------------------------------
(* The recap of a booking, over the months presented: one month on the     *)
(* screens, all of its months on the invoice.                              *)

Present(b, ms) ==
    LET days  == DaysBooked(b, ms)
        gross == Gross(b, ms)
        cogs  == b.tariff.cogs * days
        base  == gross + b.tariff.extra
        ppn   == PpnFor(base, b.tariff.rate)
    IN  [days |-> days, gross |-> gross, cogs |-> cogs, omset |-> base,
         nett |-> gross - cogs - b.tariff.extra, ppn |-> ppn, billed |-> base + ppn]

-----------------------------------------------------------------------------
(* The invoice *)

\* One line per month for a monthly price, one line in all for a daily one.
RentalLines(b) ==
    IF b.tariff.unit = "bulan" THEN [m \in BookedMonths(b) |-> MonthShare(b, m)]
    ELSE [m \in {b.from[1]} |-> b.tariff.price * DaysBooked(b, BookedMonths(b))]

Subtotal(b) == SumFunction(RentalLines(b)) + b.tariff.extra

Invoice(b) ==
    [subtotal |-> Subtotal(b), ppn |-> PpnFor(Subtotal(b), b.tariff.rate),
     total |-> Subtotal(b) + PpnFor(Subtotal(b), b.tariff.rate)]
=============================================================================
