---------------------------- MODULE MatrixProofs ----------------------------
(***************************************************************************)
(* The figures of the rental grid agree with each other and with the       *)
(* invoice, and the matrix of all fleets with the three screens it is made *)
(* of, for any number of bookings, rows and trips.                         *)
(***************************************************************************)
EXTENDS AllFleetMatrix, FleetProofs

-----------------------------------------------------------------------------
(***************************************************************************)
(* The cells of the rental grid tell the truth for any number of bookings, *)
(* plates and months, and for every order in which a request places them:  *)
(* the cells that exist are those some placed booking covers, so the first *)
(* booking of a cell finds none and every later one adds to it.            *)
(***************************************************************************)

Placed    == MonthBookings(shown) \ unread
Covers(i, pd) == pd[1] = rentals[i].plate /\ pd[2] \in BookedDays(rentals[i], shown)
Covering(pd)  == {i \in Placed : Covers(i, pd)}

\* What a cell is worth: it names the placed bookings that cover it, and has the
\* colour of payment only if all of them are paid.
Truthful(pd) ==
    /\ days[pd].ids = Covering(pd)
    /\ days[pd].paid <=> \A i \in Covering(pd) : rentals[i].paid

GridInv ==
    /\ rentals \in [RentalIds -> Booking \cup {NoRental}]
    /\ shown = NoMonth => days = <<>> /\ unread = {}
    /\ shown # NoMonth =>
        /\ shown \in Months
        /\ unread \subseteq MonthBookings(shown)
        /\ \A pd : pd \in DOMAIN days <=>
                       pd \in RentalPlates \X Nat /\ Covering(pd) # {}
    /\ \A pd \in DOMAIN days : Truthful(pd)

-----------------------------------------------------------------------------
LEMMA NoCells == DOMAIN <<>> = {}
  OBVIOUS

\* The invariant says what the property says, cell by cell.
LEMMA GridIsTruthful == GridInv => CellsTellTheTruth
  BY DEF GridInv, Truthful, Covering, Covers, Placed, CellsTellTheTruth

\* Nothing is shown after a write.
LEMMA NoGridKeeps ==
    ASSUME NoGrid, rentals' \in [RentalIds -> Booking \cup {NoRental}]
    PROVE  GridInv'
  BY NoCells DEF NoGrid, GridInv

LEMMA GridInvInit == RentalInit => GridInv
  BY NoCells DEF RentalInit, GridInv

\* A grid starts without a cell, and without a placed booking.
LEMMA OpenGridKeeps ==
    ASSUME GridInv, NEW m \in Months, OpenGrid(m)
    PROVE  GridInv'
  <1>1. /\ shown' = m /\ rentals' = rentals /\ days' = <<>>
        /\ unread' = MonthBookings(m)
    BY DEF OpenGrid
  <1>2. unread' = MonthBookings(shown)'
    BY <1>1 DEF MonthBookings, Booked
  <1>3. \A pd : Covering(pd)' = {}
    BY <1>2 DEF Covering, Placed
  <1>4. shown' # NoMonth
    BY <1>1, RentalAssumption
  <1> QED
    BY <1>1, <1>2, <1>3, <1>4, NoCells DEF GridInv

\* A booking is placed: it joins the cells it covers and makes those that were
\* not there; the others keep what they had.
LEMMA PlaceBookingKeeps ==
    ASSUME GridInv, NEW i \in RentalIds, PlaceBooking(i)
    PROVE  GridInv'
  <1> DEFINE b     == rentals[i]
             cells == {b.plate} \X BookedDays(b, shown)
  <1>1. /\ i \in unread
        /\ unread' = unread \ {i}
        /\ days' = [pd \in DOMAIN days \cup cells |-> IF pd \in cells THEN Part(i, pd) ELSE days[pd]]
        /\ rentals' = rentals /\ shown' = shown
    BY DEF PlaceBooking
  <1>2. shown # NoMonth /\ shown \in Months /\ i \in MonthBookings(shown)
    BY <1>1 DEF GridInv
  <1>3. b \in Booking
    BY <1>2 DEF GridInv, MonthBookings, Booked
  <1>4. MonthBookings(shown)' = MonthBookings(shown)
    BY <1>1 DEF MonthBookings, Booked
  <1>5. Placed' = Placed \cup {i} /\ i \notin Placed
    BY <1>1, <1>2, <1>4 DEF Placed
  <1>6. \A j, pd : Covers(j, pd)' <=> Covers(j, pd)
    BY <1>1 DEF Covers, BookedDays
  <1>7. \A pd : Covering(pd)' = Covering(pd) \cup (IF Covers(i, pd) THEN {i} ELSE {})
    BY <1>5, <1>6 DEF Covering
  <1>8. \A pd \in RentalPlates \X Nat : pd \in cells <=> Covers(i, pd)
    BY DEF Covers
  <1>9. cells \subseteq RentalPlates \X Nat
    BY <1>3 DEF Booking, BookedDays
  <1>10. DOMAIN days \subseteq RentalPlates \X Nat
    BY <1>2 DEF GridInv
  <1>11. DOMAIN days' = DOMAIN days \cup cells
    BY <1>1
  <1>12. \A pd : pd \in DOMAIN days' <=> pd \in RentalPlates \X Nat /\ Covering(pd)' # {}
    BY <1>2, <1>7, <1>8, <1>9, <1>10, <1>11 DEF GridInv
  <1>13. ASSUME NEW pd \in DOMAIN days' PROVE Truthful(pd)'
    <2>1. pd \in RentalPlates \X Nat
      BY <1>9, <1>10, <1>11
    <2>2. CASE pd \notin cells
      <3>1. days'[pd] = days[pd] /\ pd \in DOMAIN days /\ Covering(pd)' = Covering(pd)
        BY <1>1, <1>7, <1>8, <1>11, <2>1, <2>2
      <3> QED
        BY <1>1, <3>1 DEF GridInv, Truthful
    <2>3. CASE pd \in cells /\ pd \in DOMAIN days
      <3>1. days'[pd].ids = days[pd].ids \cup {i}
        BY <1>1, <1>11, <2>3 DEF Part
      <3>2. days'[pd].paid = (days[pd].paid /\ b.paid)
        BY <1>1, <1>11, <2>3 DEF Part
      <3>3. Covering(pd)' = Covering(pd) \cup {i}
        BY <1>7, <1>8, <2>1, <2>3
      <3>4. Truthful(pd)
        BY <2>3 DEF GridInv
      <3>5. days'[pd].ids = Covering(pd)'
        BY <3>1, <3>3, <3>4 DEF Truthful
      <3>6. days'[pd].paid <=> \A j \in Covering(pd)' : rentals'[j].paid
        BY <1>1, <3>2, <3>3, <3>4 DEF Truthful
      <3> QED
        BY <3>5, <3>6 DEF Truthful
    <2>4. CASE pd \in cells /\ pd \notin DOMAIN days
      <3>1. days'[pd].ids = {i}
        BY <1>1, <1>11, <2>4 DEF Part
      <3>2. days'[pd].paid = b.paid
        BY <1>1, <1>11, <2>4 DEF Part
      <3>3. Covering(pd) = {}
        BY <1>2, <2>1, <2>4 DEF GridInv
      <3>4. Covering(pd)' = {i}
        BY <1>7, <1>8, <2>1, <2>4, <3>3
      <3>5. days'[pd].paid <=> \A j \in Covering(pd)' : rentals'[j].paid
        BY <1>1, <3>2, <3>4
      <3> QED
        BY <3>1, <3>4, <3>5 DEF Truthful
    <2> QED
      BY <2>2, <2>3, <2>4
  <1>14. unread' \subseteq MonthBookings(shown)'
    BY <1>1, <1>2, <1>4 DEF GridInv
  <1> QED
    BY <1>1, <1>2, <1>12, <1>13, <1>14 DEF GridInv

\* A placed booking adds to the cells it covers, or makes them.
LEMMA GridInvNext == GridInv /\ [RentalNext]_rentalVars => GridInv'
  <1> SUFFICES ASSUME GridInv, [RentalNext]_rentalVars PROVE GridInv'
    OBVIOUS
  <1>1. CASE UNCHANGED rentalVars
    <2>1. /\ rentals' = rentals /\ shown' = shown /\ unread' = unread /\ days' = days
      BY <1>1 DEF rentalVars
    <2>2. MonthBookings(shown)' = MonthBookings(shown)
      BY <2>1 DEF MonthBookings, Booked
    <2>3. \A pd : Covering(pd)' = Covering(pd)
      BY <2>1, <2>2 DEF Covering, Covers, Placed, BookedDays
    <2> QED
      BY <2>1, <2>2, <2>3 DEF GridInv, Truthful
  <1>2. ASSUME NEW i \in RentalIds, NEW b \in Booking, CreateRental(i, b) \/ UpdateRental(i, b)
        PROVE  GridInv'
    BY <1>2, NoGridKeeps DEF CreateRental, UpdateRental, GridInv
  <1>3. ASSUME NEW i \in RentalIds, NEW paid \in BOOLEAN, UpdatePaymentStatus(i, paid)
        PROVE  GridInv'
    <2>1. rentals[i] \in Booking
      BY <1>3 DEF UpdatePaymentStatus, Booked, GridInv
    <2>2. [rentals[i] EXCEPT !.paid = paid] \in Booking
      BY <2>1 DEF Booking
    <2>3. rentals' \in [RentalIds -> Booking \cup {NoRental}]
      BY <1>3, <2>2 DEF UpdatePaymentStatus, GridInv
    <2> QED
      BY <1>3, <2>3, NoGridKeeps DEF UpdatePaymentStatus
  <1>4. ASSUME NEW i \in RentalIds, RemoveRental(i) PROVE GridInv'
    BY <1>4, NoGridKeeps DEF RemoveRental, GridInv
  <1>5. ASSUME NEW i \in RentalIds, PlaceBooking(i) PROVE GridInv'
    BY <1>5, PlaceBookingKeeps
  <1>6. ASSUME NEW m \in Months, OpenGrid(m) PROVE GridInv'
    BY <1>6, OpenGridKeeps
  <1> QED
    BY <1>1, <1>2, <1>3, <1>4, <1>5, <1>6 DEF RentalNext

\* A cell of the rental grid names its bookings and shows paid only if every one
\* of them is (buildRentalGrid), in whatever order they were placed.
THEOREM CellsAreTrue == RentalSpec => []CellsTellTheTruth
  <1> QED
    BY GridInvInit, GridInvNext, GridIsTruthful, PTL DEF RentalSpec

-----------------------------------------------------------------------------
(***************************************************************************)
(* What a booking costs over the months it touches: the shares of a month  *)
(* add up to its price, and what the invoice bills is what the recap       *)
(* shows.                                                                  *)
(***************************************************************************)

(* Division *)

\* A multiple of b that is larger is larger by b at least.
LEMMA ProductGrows == \A b \in Nat, m, n \in Int : m < n => b * m + b <= b * n
<1>1. SUFFICES ASSUME NEW b \in Nat, NEW m \in Int, NEW n \in Int, m < n PROVE b * m + b <= b * n
  OBVIOUS
<1>2. PICK k \in Nat : n = m + (1 + k)
  <2>1. n - m - 1 \in Nat /\ n = m + (1 + (n - m - 1))
    BY <1>1
  <2> QED
    BY <2>1
<1>3. b * n = b * m + b * (1 + k) /\ b * (1 + k) = b * 1 + b * k
  BY <1>2, Distributes
<1>4. b * k \in Nat /\ b * m \in Int /\ b * 1 = b
  OBVIOUS
<1> QED
  BY <1>3, <1>4

LEMMA Division ==
    ASSUME NEW a \in Nat, NEW b \in Nat, b > 0
    PROVE  a \div b \in Nat /\ a % b \in 0..(b - 1) /\ a = (a \div b) * b + (a % b)
OBVIOUS

\* A quotient is known by a remainder below the divisor.
LEMMA QuotientIs ==
    ASSUME NEW a \in Nat, NEW b \in Nat, b > 0, NEW q \in Int, NEW r \in 0..(b - 1), a = b * q + r
    PROVE  a \div b = q
<1>1. a \div b \in Nat /\ a % b \in 0..(b - 1) /\ a = (a \div b) * b + (a % b)
  BY Division
<1>2. (a \div b) * b = b * (a \div b) /\ b * (a \div b) \in Int /\ b * q \in Int
  BY <1>1
<1>3. CASE a \div b < q
  <2>1. b * (a \div b) + b <= b * q
    BY <1>1, <1>3, ProductGrows
  <2> QED
    BY <1>1, <1>2, <2>1
<1>4. CASE q < a \div b
  <2>1. b * q + b <= b * (a \div b)
    BY <1>1, <1>4, ProductGrows
  <2> QED
    BY <1>1, <1>2, <2>1
<1> QED
  BY <1>1, <1>3, <1>4

LEMMA RoundType == \A p, q \in Nat : q > 0 => RoundHalfUp(p, q) \in Nat
<1>1. SUFFICES ASSUME NEW p \in Nat, NEW q \in Nat, q > 0 PROVE RoundHalfUp(p, q) \in Nat
  OBVIOUS
<1>2. \A a, b \in Nat : b > 0 => a \div b \in Nat
  OBVIOUS
<1>3. 2 * p + q \in Nat /\ 2 * q \in Nat /\ 2 * q > 0
  BY <1>1
<1> QED
  BY <1>2, <1>3 DEF RoundHalfUp

\* What divides evenly is not rounded.
LEMMA RoundWhole == \A p, q \in Nat : q > 0 => RoundHalfUp(p * q, q) = p
<1>1. SUFFICES ASSUME NEW p \in Nat, NEW q \in Nat, q > 0 PROVE RoundHalfUp(p * q, q) = p
  OBVIOUS
<1>2. p * q \in Nat /\ 2 * (p * q) + q = (2 * q) * p + q
  OBVIOUS
<1>3. 2 * (p * q) + q \in Nat /\ 2 * q \in Nat /\ 2 * q > 0 /\ q \in 0..(2 * q - 1)
  BY <1>1, <1>2
<1>4. (2 * (p * q) + q) \div (2 * q) = p
  BY <1>2, <1>3, QuotientIs
<1> QED
  BY <1>4 DEF RoundHalfUp

-----------------------------------------------------------------------------
(* The days of a booking *)

LEMMA BookedDaysFinite ==
    ASSUME NEW b, NEW m \in Months
    PROVE  IsFiniteSet(BookedDays(b, m)) /\ BookedDays(b, m) \subseteq 1..DaysIn[m]
<1>1. IsFiniteSet(1..DaysIn[m])
  BY MonthLength, FS_Interval
<1>2. BookedDays(b, m) \in SUBSET (1..DaysIn[m])
  BY DEF BookedDays
<1> QED
  BY <1>1, <1>2, FS_Subset

\* The days booked in a month are consecutive.
LEMMA BookedInterval ==
    ASSUME NEW b \in Booking, NEW m \in Months, BookedDays(b, m) # {}
    PROVE  \E lo, hi \in 1..DaysIn[m] : lo <= hi /\ BookedDays(b, m) = lo..hi
<1> DEFINE lo == IF b.from[1] = m THEN b.from[2] ELSE 1
           hi == IF b.to[1] = m THEN b.to[2] ELSE DaysIn[m]
<1>1. b.from \in Dates /\ b.to \in Dates
  BY DEF Booking
<1>2. b.from[1] \in Int /\ b.to[1] \in Int /\ b.from[2] \in Int /\ b.to[2] \in Int /\ m \in Int
  BY <1>1, DateParts, MonthLength DEF Months
<1>3. PICK d \in 1..DaysIn[m] : Between(b.from, <<m, d>>, b.to)
  BY DEF BookedDays
<1>4. lo \in 1..DaysIn[m] /\ hi \in 1..DaysIn[m]
  BY <1>1, DateParts, MonthLength
<1>5. \A e \in 1..DaysIn[m] : Between(b.from, <<m, e>>, b.to) <=> lo <= e /\ e <= hi
  BY <1>2, <1>3, MonthLength DEF Between, Upto
<1>6. lo <= hi /\ BookedDays(b, m) = lo..hi
  <2>1. lo <= d /\ d <= hi
    BY <1>3, <1>5
  <2>2. lo..hi \subseteq 1..DaysIn[m]
    BY <1>4, MonthLength
  <2> HIDE DEF lo, hi
  <2>3. BookedDays(b, m) = lo..hi
    BY <1>4, <1>5, <2>2, MonthLength DEF BookedDays
  <2> QED
    BY <1>4, <2>1, <2>3, MonthLength
<1> HIDE DEF lo, hi
<1> QED
  BY <1>4, <1>6

LEMMA TariffType ==
    ASSUME NEW b \in Booking
    PROVE  /\ b.tariff.unit \in Units /\ b.tariff.price \in Nat /\ b.tariff.cogs \in Nat
           /\ b.tariff.extra \in Nat /\ b.tariff.rate \in Nat
<1>1. b.tariff \in [unit : Units, price : Nat, cogs : Nat, extra : Nat, rate : Nat]
  BY PricingAssumption DEF Booking
<1> QED
  BY <1>1

LEMMA ShareType ==
    ASSUME NEW b \in Booking, NEW m \in Months
    PROVE  MonthShare(b, m) \in Nat
<1>1. Cardinality(BookedDays(b, m)) \in Nat
  BY BookedDaysFinite, FS_CardinalityType
<1>2. \A x, y \in Nat : x * y \in Nat
  OBVIOUS
<1> QED
  BY <1>1, <1>2, TariffType, MonthLength, RoundType DEF MonthShare

\* The share of a month is spread over its days without a rupiah lost.
LEMMA ShareSpread ==
    ASSUME NEW b \in Booking, NEW m \in Months, b.tariff.unit = "bulan", BookedDays(b, m) # {}
    PROVE  /\ \A d \in BookedDays(b, m) : DailyAmount(b, m, d) \in Nat
           /\ SumFunction([d \in BookedDays(b, m) |-> DailyAmount(b, m, d)]) = MonthShare(b, m)
<1> DEFINE S     == BookedDays(b, m)
           share == MonthShare(b, m)
           n     == Cardinality(S)
           each  == share \div n
           rest  == share % n
<1>1. PICK lo, hi \in 1..DaysIn[m] : lo <= hi /\ S = lo..hi
  BY BookedInterval
<1>2. lo \in Int /\ hi \in Int /\ IsFiniteSet(S) /\ n = hi - lo + 1 /\ n \in Nat /\ n > 0
  <2>1. lo \in Int /\ hi \in Int
    BY <1>1, MonthLength
  <2>2. IsFiniteSet(lo..hi) /\ Cardinality(lo..hi) = IF lo > hi THEN 0 ELSE hi - lo + 1
    BY <2>1, FS_Interval
  <2> QED
    BY <1>1, <2>1, <2>2
<1>3. each \in Nat /\ rest \in 0..(n - 1) /\ share = each * n + rest
  <2>1. share \in Nat
    BY ShareType
  <2>2. n \in Nat /\ n > 0
    BY <1>2
  <2> HIDE DEF share, n
  <2> QED
    BY <2>1, <2>2, Division
<1>4. ASSUME NEW d \in S PROVE Cardinality({e \in S : e < d}) = d - lo
  <2> HIDE DEF S
  <2>1. {e \in S : e < d} = lo..(d - 1) /\ d \in Int /\ d - 1 \in Int /\ lo <= d
    BY <1>1, <1>2
  <2>2. Cardinality(lo..(d - 1)) = IF lo > d - 1 THEN 0 ELSE (d - 1) - lo + 1
    BY <1>2, <2>1, FS_Interval
  <2>3. Cardinality(lo..(d - 1)) = d - lo
    BY <1>2, <2>1, <2>2
  <2> QED
    BY <2>1, <2>3
<1> DEFINE f == [d \in S |-> DailyAmount(b, m, d)]
           g == [d \in S |-> each]
           h == [d \in S |-> IF d - lo < rest THEN 1 ELSE 0]
           more == {d \in S : d - lo < rest}
<1>5. \A d \in S : DailyAmount(b, m, d) = each + (IF d - lo < rest THEN 1 ELSE 0)
  BY <1>4 DEF DailyAmount
<1>6. \A d \in S : DailyAmount(b, m, d) \in Nat
  BY <1>3, <1>5
<1>7. SumFunctionOnSet(f, S) = SumFunctionOnSet(g, S) + SumFunctionOnSet(h, S)
  <2>1. \A d \in S : g[d] \in Int /\ h[d] \in Int /\ f[d] = g[d] + h[d]
    BY <1>3, <1>5
  <2> HIDE DEF f, g, h, S
  <2> QED
    BY <1>2, <2>1, SumPlus
<1>8. SumFunctionOnSet(g, S) = each * n
  <2>1. \A d \in S : g[d] = each
    OBVIOUS
  <2> HIDE DEF g, S, each
  <2> QED
    BY <1>2, <1>3, <2>1, SumConstant
<1>9. SumFunctionOnSet(h, S) = rest
  <2>1. more = lo..(lo + rest - 1)
    <3> HIDE DEF rest, n
    <3> QED
      BY <1>1, <1>2, <1>3
  <2>2. IsFiniteSet(more) /\ Cardinality(more) = rest
    <3> HIDE DEF rest, n, more
    <3>1. rest \in Nat
      BY <1>2, <1>3
    <3> QED
      BY <1>2, <2>1, <3>1, FS_Interval
  <2>3. \A d \in more : h[d] = 1
    OBVIOUS
  <2>4. more \in SUBSET S /\ \A d \in more : h[d] \in Int
    OBVIOUS
  <2>5. \A d \in S \ more : h[d] = 0
    OBVIOUS
  <2> HIDE DEF h, S, more
  <2>6. SumFunctionOnSet(h, more) = Cardinality(more)
    BY <2>2, <2>3, SumOnes
  <2>7. SumFunctionOnSet(h, S) = SumFunctionOnSet(h, more)
    BY <1>2, <2>4, <2>5, SumZeros
  <2> QED
    BY <2>2, <2>6, <2>7
<1>10. SumFunction(f) = SumFunctionOnSet(f, S)
  BY SumIs
<1>11. SumFunction(f) = share
  <2> HIDE DEF f, g, h, S, share, each, rest
  <2> QED
    BY <1>3, <1>7, <1>8, <1>9, <1>10
<1> QED
  BY <1>6, <1>11

\* What a booking costs for the days of a month.
MonthGross(b, m) == SumFunction([d \in BookedDays(b, m) |-> DailyAmount(b, m, d)])

\* The price of a month: by the day, or the share of a month.
LEMMA MonthGrossIs ==
    ASSUME NEW b \in Booking, NEW m \in Months
    PROVE  /\ \A d \in BookedDays(b, m) : DailyAmount(b, m, d) \in Nat
           /\ MonthGross(b, m) \in Nat
           /\ b.tariff.unit = "hari" => MonthGross(b, m) = b.tariff.price * Cardinality(BookedDays(b, m))
           /\ b.tariff.unit = "bulan" /\ BookedDays(b, m) # {} => MonthGross(b, m) = MonthShare(b, m)
<1> DEFINE S == BookedDays(b, m)
           f == [d \in S |-> DailyAmount(b, m, d)]
<1>1. IsFiniteSet(S)
  BY BookedDaysFinite
<1>2. MonthGross(b, m) = SumFunctionOnSet(f, S)
  BY SumIs DEF MonthGross
<1>3. CASE b.tariff.unit = "hari"
  <2>1. \A d \in S : DailyAmount(b, m, d) = b.tariff.price /\ f[d] = b.tariff.price
    BY <1>3 DEF DailyAmount
  <2>2. b.tariff.price \in Nat
    BY TariffType
  <2>3. SumFunctionOnSet(f, S) = b.tariff.price * Cardinality(S) /\ SumFunctionOnSet(f, S) \in Nat
    <3>1. \A d \in S : f[d] = b.tariff.price /\ f[d] \in Nat
      BY <2>1, <2>2
    <3> HIDE DEF f, S
    <3> QED
      BY <1>1, <2>2, <3>1, SumConstant, SumInt
  <2> QED
    BY <1>2, <1>3, <2>1, <2>2, <2>3
<1>4. CASE b.tariff.unit = "bulan"
  <2>1. CASE S = {}
    <3>1. SumFunctionOnSet(f, S) = 0
      BY <2>1, SumEmpty
    <3> QED
      BY <1>2, <1>4, <2>1, <3>1
  <2>2. CASE S # {}
    BY <1>4, <2>2, ShareSpread, ShareType DEF MonthGross
  <2> QED
    BY <2>1, <2>2
<1> QED
  BY <1>3, <1>4, TariffType DEF Units

\* A booking costs what its months cost.
LEMMA GrossIs ==
    ASSUME NEW b \in Booking, NEW ms \in SUBSET Months
    PROVE  /\ IsFiniteSet(ms)
           /\ Gross(b, ms) = SumFunctionOnSet([m \in ms |-> MonthGross(b, m)], ms)
           /\ Gross(b, ms) \in Nat
           /\ DaysBooked(b, ms) = SumFunctionOnSet([m \in ms |-> Cardinality(BookedDays(b, m))], ms)
           /\ DaysBooked(b, ms) \in Nat
<1> DEFINE f == [m \in ms |-> MonthGross(b, m)]
           n == [m \in ms |-> Cardinality(BookedDays(b, m))]
<1>1. IsFiniteSet(ms)
  <2>1. IsFiniteSet(Months)
    BY CalendarAssumption, FS_Interval, LenProperties DEF Months
  <2> QED
    BY <2>1, FS_Subset
<1>2. Gross(b, ms) = SumFunctionOnSet(f, ms)
  BY SumIs DEF Gross, MonthGross
<1>3. DaysBooked(b, ms) = SumFunctionOnSet(n, ms)
  BY SumIs DEF DaysBooked
<1>4. \A m \in ms : f[m] \in Nat /\ n[m] \in Nat
  BY MonthGrossIs, BookedDaysFinite, FS_CardinalityType
<1>5. SumFunctionOnSet(f, ms) \in Nat /\ SumFunctionOnSet(n, ms) \in Nat
  <2> HIDE DEF f, n
  <2> QED
    BY <1>1, <1>4, SumInt
<1> QED
  BY <1>1, <1>2, <1>3, <1>5

LEMMA GrossOfMonth ==
    ASSUME NEW b \in Booking, NEW m \in Months
    PROVE  Gross(b, {m}) = MonthGross(b, m) /\ DaysBooked(b, {m}) = Cardinality(BookedDays(b, m))
<1>1. {m} \in SUBSET Months
  OBVIOUS
<1> DEFINE f == [l \in {m} |-> MonthGross(b, l)]
           n == [l \in {m} |-> Cardinality(BookedDays(b, l))]
<1>2. f[m] = MonthGross(b, m) /\ n[m] = Cardinality(BookedDays(b, m)) /\ f[m] \in Int /\ n[m] \in Int
  BY MonthGrossIs, BookedDaysFinite, FS_CardinalityType
<1>3. Gross(b, {m}) = SumFunctionOnSet(f, {m}) /\ DaysBooked(b, {m}) = SumFunctionOnSet(n, {m})
  BY <1>1, GrossIs
<1> HIDE DEF f, n
<1> QED
  BY <1>2, <1>3, SumSingleton

\* The lines of the invoice add up to what the booking costs, day by day.
LEMMA LinesAddUp ==
    ASSUME NEW b \in Booking
    PROVE  SumFunction(RentalLines(b)) = Gross(b, BookedMonths(b))
<1> DEFINE ms == BookedMonths(b)
           f  == [m \in ms |-> MonthGross(b, m)]
           n  == [m \in ms |-> Cardinality(BookedDays(b, m))]
<1>1. ms \in SUBSET Months
  BY DEF BookedMonths
<1>2. IsFiniteSet(ms) /\ Gross(b, ms) = SumFunctionOnSet(f, ms) /\ DaysBooked(b, ms) = SumFunctionOnSet(n, ms)
  BY <1>1, GrossIs
<1>3. CASE b.tariff.unit = "bulan"
  <2> DEFINE s == [m \in ms |-> MonthShare(b, m)]
  <2>1. RentalLines(b) = s
    BY <1>3 DEF RentalLines
  <2>2. SumFunction(s) = SumFunctionOnSet(s, ms)
    BY SumIs
  <2>3. \A m \in ms : s[m] = f[m]
    BY <1>1, <1>3, MonthGrossIs DEF BookedMonths
  <2>4. SumFunctionOnSet(s, ms) = SumFunctionOnSet(f, ms)
    <3> HIDE DEF s, f, ms
    <3> QED
      BY <1>2, <2>3, SumSame
  <2> HIDE DEF s, f
  <2> QED
    BY <1>2, <2>1, <2>2, <2>4
<1>4. CASE b.tariff.unit = "hari"
  <2> DEFINE price == b.tariff.price  first == b.from[1]
             line  == [m \in {first} |-> price * DaysBooked(b, ms)]
  <2>1. RentalLines(b) = line
    BY <1>4 DEF RentalLines
  <2>2. price \in Nat /\ \A m \in ms : n[m] \in Int /\ f[m] = price * n[m]
    BY <1>1, <1>4, TariffType, MonthGrossIs, BookedDaysFinite, FS_CardinalityType
  <2>3. SumFunctionOnSet(f, ms) = price * SumFunctionOnSet(n, ms)
    <3> HIDE DEF f, n, ms, price
    <3> QED
      BY <1>2, <2>2, SumScale
  <2>4. SumFunction(line) = SumFunctionOnSet(line, {first})
    BY SumIs
  <2>5. line[first] = price * DaysBooked(b, ms) /\ line[first] \in Int
    <3>1. DaysBooked(b, ms) \in Nat
      BY <1>1, GrossIs
    <3> HIDE DEF ms, price
    <3> QED
      BY <2>2, <3>1
  <2>6. SumFunctionOnSet(line, {first}) = line[first]
    <3> HIDE DEF line, first
    <3> QED
      BY <2>5, SumSingleton
  <2> HIDE DEF line, first, price, f, n
  <2> QED
    BY <1>2, <2>1, <2>3, <2>4, <2>5, <2>6
<1> QED
  BY <1>3, <1>4, TariffType DEF Units

\* A month booked in full costs the price quoted.
LEMMA FullMonth ==
    ASSUME NEW b \in Booking, NEW m \in Months, b.tariff.unit = "bulan", BookedDays(b, m) = 1..DaysIn[m]
    PROVE  Gross(b, {m}) = b.tariff.price
<1>1. DaysIn[m] \in Nat /\ DaysIn[m] > 0
  BY MonthLength
<1>2. Cardinality(1..DaysIn[m]) = DaysIn[m] /\ BookedDays(b, m) # {}
  <2>1. Cardinality(1..DaysIn[m]) = IF 1 > DaysIn[m] THEN 0 ELSE DaysIn[m] - 1 + 1
    BY <1>1, FS_Interval
  <2>2. 1 \in 1..DaysIn[m]
    BY <1>1
  <2> QED
    BY <1>1, <2>1, <2>2
<1>3. MonthShare(b, m) = b.tariff.price
  BY <1>1, <1>2, RoundWhole, TariffType DEF MonthShare
<1> QED
  BY <1>2, <1>3, MonthGrossIs, GrossOfMonth

\* The invoice, month by month, bills what the recap shows of the whole booking.
LEMMA InvoiceIsRecap ==
    ASSUME NEW b \in Booking
    PROVE  LET item == Present(b, BookedMonths(b))
           IN  Invoice(b) = [subtotal |-> item.omset, ppn |-> item.ppn, total |-> item.billed]
<1>1. Subtotal(b) = Gross(b, BookedMonths(b)) + b.tariff.extra
  BY LinesAddUp DEF Subtotal
<1> QED
  BY <1>1 DEF Invoice, Present

LEMMA DayOmsetType ==
    ASSUME NEW b \in Booking, NEW m \in Months, NEW d \in BookedDays(b, m)
    PROVE  DayOmset(b, m, d) \in Nat
BY MonthGrossIs, TariffType DEF DayOmset

\* What a booking brings in on the days of a month is what it costs, with its extra.
LEMMA OmsetOfMonth ==
    ASSUME NEW b \in Booking, NEW m \in Months, BookedDays(b, m) # {}
    PROVE  /\ SumFunctionOnSet([d \in BookedDays(b, m) |-> DayOmset(b, m, d)], BookedDays(b, m))
                  = Present(b, {m}).omset
           /\ Present(b, {m}).omset \in Nat
           /\ Present(b, {m}).nett \in Int
           /\ Present(b, {m}).cogs \in Int
<1> DEFINE S == BookedDays(b, m)
           f == [d \in S |-> DailyAmount(b, m, d)]
           first == [d \in S |-> IF \A e \in S : d <= e THEN b.tariff.extra ELSE 0]
           h == [d \in S |-> DayOmset(b, m, d)]
<1>1. PICK lo, hi \in 1..DaysIn[m] : lo <= hi /\ S = lo..hi
  BY BookedInterval
<1>2. IsFiniteSet(S) /\ lo \in S /\ lo \in Int /\ hi \in Int
  BY <1>1, BookedDaysFinite, MonthLength
<1>3. \A d \in S : f[d] \in Int /\ first[d] \in Int /\ h[d] = f[d] + first[d]
  BY MonthGrossIs, TariffType DEF DayOmset
<1>4. SumFunctionOnSet(h, S) = SumFunctionOnSet(f, S) + SumFunctionOnSet(first, S)
  <2> HIDE DEF h, f, first, S
  <2> QED
    BY <1>2, <1>3, SumPlus
<1>5. SumFunctionOnSet(first, S) = b.tariff.extra
  <2>1. \A d \in S : (\A e \in S : d <= e) <=> d = lo
    <3> HIDE DEF S
    <3> QED
      BY <1>1, <1>2
  <2>2. first[lo] = b.tariff.extra /\ first[lo] \in Int
    BY <1>2, <2>1, TariffType
  <2>3. \A d \in S \ {lo} : first[d] = 0
    BY <2>1
  <2> HIDE DEF first, S
  <2>4. {lo} \in SUBSET S /\ \A d \in {lo} : first[d] \in Int
    BY <1>2, <2>2
  <2>5. SumFunctionOnSet(first, S) = SumFunctionOnSet(first, {lo})
    BY <1>2, <2>3, <2>4, SumZeros
  <2> QED
    BY <2>2, <2>5, SumSingleton
<1>6. SumFunctionOnSet(f, S) = MonthGross(b, m)
  BY SumIs DEF MonthGross
<1>7. Gross(b, {m}) = MonthGross(b, m) /\ Gross(b, {m}) \in Nat /\ DaysBooked(b, {m}) \in Nat
  BY GrossOfMonth, GrossIs
<1>8. Present(b, {m}).omset = Gross(b, {m}) + b.tariff.extra
  BY DEF Present
<1>9. Present(b, {m}).nett = Gross(b, {m}) - b.tariff.cogs * DaysBooked(b, {m}) - b.tariff.extra
  BY DEF Present
<1>10. Present(b, {m}).cogs = b.tariff.cogs * DaysBooked(b, {m}) /\ b.tariff.cogs * DaysBooked(b, {m}) \in Int
  BY <1>7, TariffType DEF Present
<1>11. SumFunctionOnSet(h, S) = Present(b, {m}).omset
  <2> HIDE DEF h, f, first, S
  <2> QED
    BY <1>4, <1>5, <1>6, <1>7, <1>8
<1>12. Present(b, {m}).omset \in Nat
  BY <1>7, <1>8, TariffType
<1>13. Present(b, {m}).nett \in Int /\ Present(b, {m}).cogs \in Int
  BY <1>7, <1>9, <1>10, TariffType
<1> QED
  BY <1>11, <1>12, <1>13

\* A booking a month's query returns has a day in that month.
LEMMA MonthBookingHasDays ==
    ASSUME NEW m \in Months, NEW i \in MonthBookings(m), rentals[i] \in Booking,
           Upto(rentals[i].from, rentals[i].to)
    PROVE  BookedDays(rentals[i], m) # {}
<1> DEFINE b == rentals[i]
           d == IF b.from[1] = m THEN b.from[2] ELSE 1
<1>1. b.from \in Dates /\ b.to \in Dates
  BY DEF Booking
<1>2. Upto(b.from, <<m, DaysIn[m]>>) /\ Upto(<<m, 1>>, b.to)
  BY DEF MonthBookings, FirstOf, LastOf
<1>3. b.from[1] \in Int /\ b.to[1] \in Int /\ m \in Int /\ DaysIn[m] \in Nat \ {0}
  BY <1>1, DateParts, MonthLength DEF Months
<1>4. d \in 1..DaysIn[m]
  BY <1>1, <1>3, DateParts
<1>5. b.from[2] \in Int /\ b.to[2] \in Int /\ b.to[2] >= 1
  BY <1>1, DateParts, MonthLength
<1>6. b.from[1] < b.to[1] \/ (b.from[1] = b.to[1] /\ b.from[2] <= b.to[2])
  BY DEF Upto
<1>7. b.from[1] < m \/ (b.from[1] = m /\ b.from[2] <= DaysIn[m])
  BY <1>2 DEF Upto
<1>8. m < b.to[1] \/ (m = b.to[1] /\ 1 <= b.to[2])
  BY <1>2 DEF Upto
<1>9. Between(b.from, <<m, d>>, b.to)
  <2>1. CASE b.from[1] = m
    BY <1>3, <1>5, <1>6, <1>8, <2>1 DEF Between, Upto
  <2>2. CASE b.from[1] # m
    BY <1>3, <1>5, <1>7, <1>8, <2>2 DEF Between, Upto
  <2> QED
    BY <2>1, <2>2
<1> QED
  BY <1>4, <1>9 DEF BookedDays

-----------------------------------------------------------------------------
(***************************************************************************)
(* The totals of the rental grid: what the days, the plates and the recap  *)
(* add up to is what the placed bookings bring in (SumInv).                *)
(***************************************************************************)

\* The figures of a recap are integers.
LEMMA RecapType ==
    ASSUME NEW b \in Booking, NEW m \in Months, BookedDays(b, m) # {}
    PROVE  Present(b, {m}).omset \in Int /\ Present(b, {m}).nett \in Int
<1>1. Present(b, {m}).omset \in Nat /\ Present(b, {m}).nett \in Int
  BY OmsetOfMonth
<1> QED
  BY <1>1

Terms(d)    == [i \in RentalIds |-> DayOmset(rentals[i], shown, d)]
OmsetTerms  == [i \in RentalIds |-> Present(rentals[i], {shown}).omset]
NettTerms   == [i \in RentalIds |-> Present(rentals[i], {shown}).nett]
Amounts     == [pd \in DOMAIN days |-> days[pd].amount]
CellsOf(p)  == {pd \in DOMAIN days : pd[1] = p}
PlacedOf(p) == {i \in Placed : rentals[i].plate = p}

Ordered == \A i \in Booked : Upto(rentals[i].from, rentals[i].to)

RowInv(p) ==
    /\ totals[p] \in [omset : Int, cogs : Int, nett : Int, rentedDays : Nat]
    /\ totals[p].omset = SumFunctionOnSet(Amounts, CellsOf(p))
    /\ totals[p].omset = SumFunctionOnSet(OmsetTerms, PlacedOf(p))
    /\ totals[p].nett = SumFunctionOnSet(NettTerms, PlacedOf(p))
    /\ totals[p].rentedDays = Cardinality(CellsOf(p))

\* The money of a grid under construction: a cell is the sum of its bookings, and
\* a row's total the sum of its cells and the sum of its bookings.
SumInv ==
    /\ GridInv
    /\ Ordered
    /\ shown # NoMonth =>
        /\ IsFiniteSet(DOMAIN days)
        /\ \A pd \in DOMAIN days : days[pd].amount \in Int
        /\ \A pd \in DOMAIN days : days[pd].amount = SumFunctionOnSet(Terms(pd[2]), Covering(pd))
        /\ DOMAIN totals = RentalPlates
        /\ \A p \in RentalPlates : RowInv(p)

-----------------------------------------------------------------------------
\* What a booking of the month is.
LEMMA ShownBooking ==
    ASSUME SumInv, shown # NoMonth, NEW i \in MonthBookings(shown)
    PROVE  /\ shown \in Months /\ i \in RentalIds /\ rentals[i] \in Booking
           /\ rentals[i].plate \in RentalPlates
           /\ BookedDays(rentals[i], shown) # {} /\ BookedDays(rentals[i], shown) \subseteq Nat
           /\ \A d \in BookedDays(rentals[i], shown) : DayOmset(rentals[i], shown, d) \in Nat
<1>1. shown \in Months /\ i \in RentalIds /\ rentals[i] \in Booking
  BY DEF SumInv, GridInv, MonthBookings, Booked
<1>2. Upto(rentals[i].from, rentals[i].to)
  BY DEF SumInv, Ordered, MonthBookings
<1>3. rentals[i].plate \in RentalPlates
  BY <1>1 DEF Booking
<1>4. BookedDays(rentals[i], shown) # {}
  BY <1>1, <1>2, MonthBookingHasDays
<1>5. BookedDays(rentals[i], shown) \subseteq Nat
  BY DEF BookedDays
<1> QED
  BY <1>1, <1>3, <1>4, <1>5, DayOmsetType

LEMMA PlacedFinite == ASSUME GridInv, NEW S \in SUBSET Placed PROVE IsFiniteSet(S)
<1>1. Placed \in SUBSET RentalIds
  BY DEF Placed, MonthBookings, Booked
<1> QED
  BY <1>1, RentalAssumption, FS_Subset

LEMMA SumInvNoGrid ==
    ASSUME GridInv', NoGrid, Ordered'
    PROVE  SumInv'
BY DEF SumInv, NoGrid

\* A grid that opens has placed nothing.
LEMMA SumInvOpen ==
    ASSUME SumInv, NEW m \in Months, OpenGrid(m)
    PROVE  SumInv'
<1>1. GridInv'
  BY OpenGridKeeps DEF SumInv
<1>2. /\ shown' = m /\ rentals' = rentals /\ days' = <<>> /\ unread' = MonthBookings(m)
      /\ totals' = [p \in RentalPlates |-> EmptyTotals]
  BY DEF OpenGrid
<1>3. DOMAIN days' = {} /\ Placed' = {}
  BY <1>2, NoCells DEF Placed, MonthBookings, Booked
<1>4. Ordered'
  BY <1>2 DEF SumInv, Ordered, Booked
<1>5. \A p : CellsOf(p)' = {} /\ PlacedOf(p)' = {}
  BY <1>3 DEF CellsOf, PlacedOf
<1>6. ASSUME NEW p \in RentalPlates PROVE RowInv(p)'
  <2>1. totals'[p] = [omset |-> 0, cogs |-> 0, nett |-> 0, rentedDays |-> 0]
    BY <1>2 DEF EmptyTotals
  <2>2. Cardinality(CellsOf(p)') = 0
    BY <1>5, FS_EmptySet
  <2> QED
    BY <1>5, <2>1, <2>2, SumEmpty DEF RowInv
<1> QED
  BY <1>1, <1>2, <1>3, <1>4, <1>6, FS_EmptySet DEF SumInv

\* A booking is placed: what it brings in is added to its cells, to its row, and
\* to the sum over the bookings of the row.
LEMMA SumInvPlace ==
    ASSUME SumInv, NEW i \in RentalIds, PlaceBooking(i)
    PROVE  SumInv'
<1> DEFINE b     == rentals[i]
           S     == BookedDays(b, shown)
           cells == {b.plate} \X S
           item  == Present(b, {shown})
<1>1. /\ i \in unread /\ unread' = unread \ {i}
      /\ days' = [pd \in DOMAIN days \cup cells |-> IF pd \in cells THEN Part(i, pd) ELSE days[pd]]
      /\ totals' = [totals EXCEPT ![b.plate] =
                         [omset |-> @.omset + item.omset,
                          cogs |-> @.cogs + item.cogs,
                          nett |-> @.nett + item.nett,
                          rentedDays |-> @.rentedDays + Cardinality(cells \ DOMAIN days)]]
      /\ rentals' = rentals /\ shown' = shown
  BY DEF PlaceBooking
<1>2. shown # NoMonth /\ shown \in Months /\ i \in MonthBookings(shown) /\ GridInv
  BY <1>1 DEF SumInv, GridInv
<1>3. GridInv'
  BY <1>2, PlaceBookingKeeps
<1>4. Ordered'
  BY <1>1 DEF SumInv, Ordered, Booked
<1>5. /\ b \in Booking /\ b.plate \in RentalPlates /\ S # {} /\ S \subseteq Nat
      /\ \A d \in S : DayOmset(b, shown, d) \in Nat
  BY <1>2, ShownBooking
<1>6. MonthBookings(shown)' = MonthBookings(shown)
  BY <1>1 DEF MonthBookings, Booked
<1>7. Placed' = Placed \cup {i} /\ i \notin Placed
  BY <1>1, <1>2, <1>6 DEF Placed
<1>8. \A pd : Covering(pd)' = Covering(pd) \cup (IF Covers(i, pd) THEN {i} ELSE {})
  <2>1. \A j, pd : Covers(j, pd)' <=> Covers(j, pd)
    BY <1>1 DEF Covers, BookedDays
  <2> QED
    BY <1>7, <2>1 DEF Covering
<1>9. DOMAIN days' = DOMAIN days \cup cells
  BY <1>1
<1>10. DOMAIN days \subseteq RentalPlates \X Nat
  BY <1>2 DEF GridInv
<1>11. \A pd \in RentalPlates \X Nat : pd \in cells <=> Covers(i, pd)
  BY DEF Covers
<1>12. cells \subseteq RentalPlates \X Nat
  BY <1>5
<1>13. IsFiniteSet(S) /\ IsFiniteSet(cells) /\ IsFiniteSet(DOMAIN days')
  <2>1. IsFiniteSet(S)
    BY <1>2, BookedDaysFinite
  <2>2. IsFiniteSet({b.plate})
    BY FS_Singleton
  <2>3. IsFiniteSet(cells)
    BY <2>1, <2>2, FS_Product
  <2>4. IsFiniteSet(DOMAIN days)
    BY <1>2 DEF SumInv
  <2> HIDE DEF cells, S
  <2> QED
    BY <1>9, <2>1, <2>3, <2>4, FS_Union
<1>14. /\ \A d : Terms(d)' = Terms(d)
       /\ OmsetTerms' = OmsetTerms /\ NettTerms' = NettTerms
  <2>1. \A d : Terms(d)' = Terms(d)
    BY <1>1 DEF Terms, DayOmset, DailyAmount, BookedDays, MonthShare
  <2>2. OmsetTerms' = OmsetTerms /\ NettTerms' = NettTerms
    BY <1>1 DEF OmsetTerms, NettTerms
  <2> QED
    BY <2>1, <2>2
<1>15. \A pd \in cells : /\ days'[pd].amount = (IF pd \in DOMAIN days THEN days[pd].amount ELSE 0)
                                                  + DayOmset(b, shown, pd[2])
                         /\ DayOmset(b, shown, pd[2]) \in Nat
  <2>1. SUFFICES ASSUME NEW pd \in cells
                 PROVE  /\ days'[pd].amount = (IF pd \in DOMAIN days THEN days[pd].amount ELSE 0)
                                                  + DayOmset(b, shown, pd[2])
                        /\ DayOmset(b, shown, pd[2]) \in Nat
    OBVIOUS
  <2>2. pd[2] \in S /\ DayOmset(b, shown, pd[2]) \in Nat
    BY <1>5
  <2>3. days'[pd] = Part(i, pd)
    BY <1>1
  <2>4. Part(i, pd).amount = (IF pd \in DOMAIN days THEN days[pd].amount ELSE 0) + DayOmset(b, shown, pd[2])
    BY <2>2 DEF Part
  <2> QED
    BY <2>2, <2>3, <2>4
<1>16. \A pd \in DOMAIN days \ cells : days'[pd] = days[pd]
  BY <1>1
<1>17. \A pd \in DOMAIN days : days[pd].amount \in Int
  BY <1>2 DEF SumInv
<1>18. \A pd \in DOMAIN days' : days'[pd].amount \in Int
  <2> HIDE DEF cells
  <2> QED
    BY <1>9, <1>15, <1>16, <1>17
<1>19. ASSUME NEW pd \in DOMAIN days'
       PROVE  days'[pd].amount = SumFunctionOnSet(Terms(pd[2])', Covering(pd)')
  <2>1. pd \in RentalPlates \X Nat /\ Terms(pd[2])' = Terms(pd[2])
    BY <1>9, <1>10, <1>12, <1>14
  <2>2. IsFiniteSet(Covering(pd)) /\ i \notin Covering(pd)
    BY <1>2, <1>7, PlacedFinite DEF Covering
  <2>3. \A j \in Covering(pd) \cup {i} : pd[2] \in BookedDays(rentals[j], shown) => Terms(pd[2])[j] \in Int
    <3>1. \A j \in Covering(pd) \cup {i} : j \in MonthBookings(shown)
      BY <1>2 DEF Covering, Placed
    <3> QED
      BY <1>2, <3>1, ShownBooking DEF Terms
  <2>4. CASE pd \notin cells
    <3>1. pd \in DOMAIN days /\ days'[pd] = days[pd] /\ Covering(pd)' = Covering(pd)
      BY <1>8, <1>9, <1>11, <1>16, <2>1, <2>4
    <3> QED
      BY <1>2, <2>1, <3>1 DEF SumInv
  <2>5. CASE pd \in cells
    <3>1. Covering(pd)' = Covering(pd) \cup {i} /\ Covers(i, pd)
      BY <1>8, <1>11, <2>1, <2>5
    <3>2. Terms(pd[2])[i] = DayOmset(b, shown, pd[2])
      BY DEF Terms
    <3>3. \A j \in Covering(pd) \cup {i} : Terms(pd[2])[j] \in Int
      BY <2>3, <3>1 DEF Covering, Covers
    <3>4. SumFunctionOnSet(Terms(pd[2]), Covering(pd) \cup {i})
              = SumFunctionOnSet(Terms(pd[2]), Covering(pd)) + Terms(pd[2])[i]
      BY <2>2, <3>3, SumAdd
    <3>5. (IF pd \in DOMAIN days THEN days[pd].amount ELSE 0) = SumFunctionOnSet(Terms(pd[2]), Covering(pd))
      <4>1. CASE pd \in DOMAIN days
        BY <1>2, <4>1 DEF SumInv
      <4>2. CASE pd \notin DOMAIN days
        <5>1. Covering(pd) = {}
          BY <1>2, <2>1, <4>2 DEF GridInv
        <5> QED
          BY <4>2, <5>1, SumEmpty
      <4> QED
        BY <4>1, <4>2
    <3>6. days'[pd].amount = (IF pd \in DOMAIN days THEN days[pd].amount ELSE 0) + DayOmset(b, shown, pd[2])
      BY <1>15, <2>5
    <3> HIDE DEF cells, b
    <3> QED
      BY <2>1, <3>1, <3>2, <3>4, <3>5, <3>6
  <2> QED
    BY <2>4, <2>5
<1>20. DOMAIN totals' = RentalPlates /\ DOMAIN totals = RentalPlates
  BY <1>1, <1>2 DEF SumInv
<1>21. \A p \in RentalPlates : RowInv(p)
  BY <1>2 DEF SumInv
<1>22. ASSUME NEW p \in RentalPlates, p # b.plate PROVE RowInv(p)'
  <2>1. totals'[p] = totals[p]
    BY <1>1, <1>20, <1>22
  <2>2. CellsOf(p)' = CellsOf(p) /\ PlacedOf(p)' = PlacedOf(p)
    <3>1. CellsOf(p)' = CellsOf(p)
      BY <1>9, <1>22 DEF CellsOf
    <3>2. PlacedOf(p)' = PlacedOf(p)
      BY <1>1, <1>7, <1>22 DEF PlacedOf
    <3> QED
      BY <3>1, <3>2
  <2>3. SumFunctionOnSet(Amounts', CellsOf(p)) = SumFunctionOnSet(Amounts, CellsOf(p))
    <3>1. IsFiniteSet(CellsOf(p))
      BY <1>2, FS_Subset DEF CellsOf, SumInv
    <3>2. \A pd \in CellsOf(p) : pd \in DOMAIN days /\ pd \notin cells
      BY <1>22 DEF CellsOf
    <3>3. \A pd \in CellsOf(p) : Amounts'[pd] = Amounts[pd]
      BY <1>9, <1>16, <3>2 DEF Amounts
    <3> QED
      BY <3>1, <3>3, SumSame
  <2> QED
    BY <1>14, <1>21, <2>1, <2>2, <2>3 DEF RowInv
<1>23. ASSUME NEW p \in RentalPlates, p = b.plate PROVE RowInv(p)'
  <2> DEFINE D == CellsOf(p) \cup cells
             old == [pd \in D |-> IF pd \in DOMAIN days THEN days[pd].amount ELSE 0]
             part == [pd \in D |-> IF pd \in cells THEN DayOmset(b, shown, pd[2]) ELSE 0]
             daily == [d \in S |-> DayOmset(b, shown, d)]
  <2>0. p \in RentalPlates /\ RowInv(p)
    BY <1>21
  <2>1. /\ totals'[p].omset = totals[p].omset + item.omset
        /\ totals'[p].nett = totals[p].nett + item.nett
        /\ totals'[p].rentedDays = totals[p].rentedDays + Cardinality(cells \ DOMAIN days)
        /\ totals'[p] = [omset |-> totals[p].omset + item.omset, cogs |-> totals[p].cogs + item.cogs,
                         nett |-> totals[p].nett + item.nett,
                         rentedDays |-> totals[p].rentedDays + Cardinality(cells \ DOMAIN days)]
    BY <1>1, <1>20, <1>23
  <2>2. /\ item.omset \in Nat /\ item.nett \in Int /\ item.cogs \in Int
        /\ SumFunctionOnSet(daily, S) = item.omset
    BY <1>2, <1>5, OmsetOfMonth
  <2>3. CellsOf(p)' = D
    BY <1>9, <1>23 DEF CellsOf
  <2>4. PlacedOf(p)' = PlacedOf(p) \cup {i} /\ i \notin PlacedOf(p)
    BY <1>1, <1>7, <1>23 DEF PlacedOf
  <2>5. IsFiniteSet(CellsOf(p)) /\ IsFiniteSet(D) /\ IsFiniteSet(cells \ DOMAIN days)
    <3>1. IsFiniteSet(CellsOf(p))
      BY <1>2, FS_Subset DEF CellsOf, SumInv
    <3> HIDE DEF cells
    <3> QED
      BY <1>13, <3>1, FS_Union, FS_Subset
  <2>6. SumFunctionOnSet(Amounts', D) = SumFunctionOnSet(old, D) + SumFunctionOnSet(part, D)
    <3>1. \A pd \in D : old[pd] \in Int /\ part[pd] \in Int /\ Amounts'[pd] = old[pd] + part[pd]
      <4>1. SUFFICES ASSUME NEW pd \in D
                     PROVE  old[pd] \in Int /\ part[pd] \in Int /\ Amounts'[pd] = old[pd] + part[pd]
        OBVIOUS
      <4>2. pd \in DOMAIN days' /\ Amounts'[pd] = days'[pd].amount
        BY <1>9 DEF CellsOf, Amounts
      <4>3. old[pd] \in Int
        BY <1>17
      <4>4. CASE pd \in cells
        BY <1>15, <4>2, <4>3, <4>4
      <4>5. CASE pd \notin cells
        <5>1. pd \in DOMAIN days /\ days'[pd] = days[pd]
          BY <1>16, <4>5 DEF CellsOf
        <5> QED
          BY <4>2, <4>3, <4>5, <5>1
      <4> QED
        BY <4>4, <4>5
    <3> HIDE DEF old, part, D
    <3> QED
      BY <2>5, <3>1, SumPlus
  <2>7. SumFunctionOnSet(old, D) = SumFunctionOnSet(Amounts, CellsOf(p))
    <3>1. \A pd \in CellsOf(p) : old[pd] = Amounts[pd] /\ old[pd] \in Int
      BY <1>17 DEF CellsOf, Amounts
    <3>2. \A pd \in D \ CellsOf(p) : old[pd] = 0
      BY <1>23 DEF CellsOf
    <3>3. CellsOf(p) \in SUBSET D
      OBVIOUS
    <3> HIDE DEF old, D
    <3>4. SumFunctionOnSet(old, D) = SumFunctionOnSet(old, CellsOf(p))
      BY <2>5, <3>1, <3>2, <3>3, SumZeros
    <3> QED
      BY <2>5, <3>1, <3>4, SumSame
  <2>8. SumFunctionOnSet(part, D) = item.omset
    <3>1. \A pd \in cells : part[pd] \in Int
      BY <1>15
    <3>2. \A pd \in D \ cells : part[pd] = 0
      OBVIOUS
    <3>3. cells \in SUBSET D
      OBVIOUS
    <3>4. SumFunctionOnSet(part, D) = SumFunctionOnSet(part, cells)
      <4> HIDE DEF part, D, cells
      <4> QED
        BY <2>5, <3>1, <3>2, <3>3, SumZeros
    <3>5. SumFunctionOnSet(part, cells) = SumFunctionOnSet(daily, S)
      <4> DEFINE day == [pd \in cells |-> pd[2]]
      <4>1. \A pd \in cells : day[pd] \in S
        OBVIOUS
      <4>2. \A pd, qd \in cells : day[pd] = day[qd] => pd = qd
        OBVIOUS
      <4>3. \A d \in S : \E pd \in cells : day[pd] = d
        <5>1. SUFFICES ASSUME NEW d \in S PROVE \E pd \in cells : day[pd] = d
          OBVIOUS
        <5>2. <<p, d>> \in cells /\ day[<<p, d>>] = d
          BY <1>23
        <5> QED
          BY <5>2
      <4>4. \A pd \in cells : part[pd] \in Int /\ part[pd] = daily[day[pd]]
        BY <3>1
      <4> HIDE DEF part, cells, day, daily, S
      <4> QED
        BY <1>13, <4>1, <4>2, <4>3, <4>4, SumRenamed
    <3> QED
      BY <2>2, <3>4, <3>5
  <2>9. /\ SumFunctionOnSet(OmsetTerms, PlacedOf(p) \cup {i}) = SumFunctionOnSet(OmsetTerms, PlacedOf(p)) + item.omset
        /\ SumFunctionOnSet(NettTerms, PlacedOf(p) \cup {i}) = SumFunctionOnSet(NettTerms, PlacedOf(p)) + item.nett
    <3>1. IsFiniteSet(PlacedOf(p))
      BY <1>2, PlacedFinite DEF PlacedOf
    <3>2. \A j \in PlacedOf(p) \cup {i} : j \in MonthBookings(shown)
      BY <1>2 DEF PlacedOf, Placed
    <3>3. \A j \in PlacedOf(p) \cup {i} : OmsetTerms[j] \in Int /\ NettTerms[j] \in Int
      <4>1. SUFFICES ASSUME NEW j \in PlacedOf(p) \cup {i} PROVE OmsetTerms[j] \in Int /\ NettTerms[j] \in Int
        OBVIOUS
      <4>2. j \in RentalIds /\ rentals[j] \in Booking /\ BookedDays(rentals[j], shown) # {}
        BY <1>2, <3>2, ShownBooking
      <4>3. Present(rentals[j], {shown}).omset \in Int /\ Present(rentals[j], {shown}).nett \in Int
        BY <1>2, <4>2, RecapType
      <4> QED
        BY <4>2, <4>3 DEF OmsetTerms, NettTerms
    <3>4. OmsetTerms[i] = item.omset /\ NettTerms[i] = item.nett
      BY DEF OmsetTerms, NettTerms
    <3> QED
      <4>1. SumFunctionOnSet(OmsetTerms, PlacedOf(p) \cup {i}) = SumFunctionOnSet(OmsetTerms, PlacedOf(p)) + OmsetTerms[i]
        BY <2>4, <3>1, <3>3, SumAdd
      <4>2. SumFunctionOnSet(NettTerms, PlacedOf(p) \cup {i}) = SumFunctionOnSet(NettTerms, PlacedOf(p)) + NettTerms[i]
        BY <2>4, <3>1, <3>3, SumAdd
      <4> QED
        BY <3>4, <4>1, <4>2
  <2>10. Cardinality(D) = Cardinality(CellsOf(p)) + Cardinality(cells \ DOMAIN days)
    <3>1. D = CellsOf(p) \cup (cells \ DOMAIN days) /\ CellsOf(p) \cap (cells \ DOMAIN days) = {}
      BY <1>23 DEF CellsOf
    <3> HIDE DEF D, cells
    <3>2. Cardinality(D) = Cardinality(CellsOf(p)) + Cardinality(cells \ DOMAIN days) - Cardinality({})
      BY <2>5, <3>1, FS_Union
    <3>3. Cardinality({}) = 0 /\ Cardinality(CellsOf(p)) \in Nat /\ Cardinality(cells \ DOMAIN days) \in Nat
      BY <2>5, FS_EmptySet, FS_CardinalityType
    <3> QED
      BY <3>2, <3>3
  <2>11. totals'[p] \in [omset : Int, cogs : Int, nett : Int, rentedDays : Nat]
    <3>1. totals[p] \in [omset : Int, cogs : Int, nett : Int, rentedDays : Nat]
      BY <2>0 DEF RowInv
    <3>2. Cardinality(cells \ DOMAIN days) \in Nat
      BY <2>5, FS_CardinalityType
    <3> HIDE DEF item, cells
    <3> QED
      BY <2>1, <2>2, <3>1, <3>2
  <2>12. totals'[p].omset = SumFunctionOnSet(Amounts', D)
    <3>1. totals[p].omset = SumFunctionOnSet(Amounts, CellsOf(p))
      BY <2>0 DEF RowInv
    <3> HIDE DEF item, D, old, part, daily, S
    <3> QED
      BY <2>1, <2>6, <2>7, <2>8, <3>1
  <2>13. totals'[p].omset = SumFunctionOnSet(OmsetTerms', PlacedOf(p)')
    BY <1>14, <2>0, <2>1, <2>4, <2>9 DEF RowInv
  <2>14. totals'[p].nett = SumFunctionOnSet(NettTerms', PlacedOf(p)')
    BY <1>14, <2>0, <2>1, <2>4, <2>9 DEF RowInv
  <2>15. totals'[p].rentedDays = Cardinality(CellsOf(p)')
    BY <2>0, <2>1, <2>3, <2>10 DEF RowInv
  <2> QED
    BY <2>3, <2>11, <2>12, <2>13, <2>14, <2>15 DEF RowInv
<1>24. \A p \in RentalPlates : RowInv(p)'
  BY <1>22, <1>23
<1> HIDE DEF b, S, cells, item
<1> QED
  BY <1>3, <1>4, <1>13, <1>18, <1>19, <1>20, <1>24 DEF SumInv

LEMMA SumInvInit == RentalInit => SumInv
<1>1. SUFFICES ASSUME RentalInit PROVE SumInv
  OBVIOUS
<1>2. Ordered
  BY <1>1 DEF RentalInit, Ordered, Booked
<1> QED
  BY <1>1, <1>2, GridInvInit DEF RentalInit, SumInv

\* A write that puts an ordered booking, or none, keeps the bookings ordered.
LEMMA SumInvWrite ==
    ASSUME SumInv, NEW i \in RentalIds, NEW b,
           rentals' = [rentals EXCEPT ![i] = b], NoGrid, GridInv',
           b = NoRental \/ Upto(b.from, b.to)
    PROVE  SumInv'
<1>1. \A j \in RentalIds : rentals'[j] = IF j = i THEN b ELSE rentals[j]
  BY DEF SumInv, GridInv
<1>2. Ordered'
  BY <1>1 DEF SumInv, Ordered, Booked
<1> QED
  BY <1>2, SumInvNoGrid

\* Placing a booking adds its days to the cells, its recap to the totals.
LEMMA SumInvNext == SumInv /\ [RentalNext]_rentalVars => SumInv'
<1> SUFFICES ASSUME SumInv, [RentalNext]_rentalVars PROVE SumInv'
  OBVIOUS
<1>0. GridInv /\ GridInv'
  BY GridInvNext DEF SumInv
<1>1. CASE UNCHANGED rentalVars
  <2>1. /\ rentals' = rentals /\ shown' = shown /\ unread' = unread /\ days' = days /\ totals' = totals
    BY <1>1 DEF rentalVars
  <2>2. MonthBookings(shown)' = MonthBookings(shown) /\ Ordered' = Ordered
    BY <2>1 DEF MonthBookings, Booked, Ordered
  <2>3. \A pd : Covering(pd)' = Covering(pd)
    BY <2>1, <2>2 DEF Covering, Covers, Placed, BookedDays
  <2>4. \A p : CellsOf(p)' = CellsOf(p) /\ PlacedOf(p)' = PlacedOf(p)
    BY <2>1, <2>2 DEF CellsOf, PlacedOf, Placed
  <2>5. /\ \A d : Terms(d)' = Terms(d)
        /\ OmsetTerms' = OmsetTerms /\ NettTerms' = NettTerms /\ Amounts' = Amounts
    BY <2>1 DEF Terms, OmsetTerms, NettTerms, Amounts
  <2>6. \A p : RowInv(p)' = RowInv(p)
    BY <2>1, <2>4, <2>5 DEF RowInv
  <2> QED
    BY <1>0, <2>1, <2>2, <2>3, <2>5, <2>6 DEF SumInv
<1>2. ASSUME NEW i \in RentalIds, NEW b \in Booking, CreateRental(i, b) \/ UpdateRental(i, b)
      PROVE  SumInv'
  BY <1>0, <1>2, SumInvWrite DEF CreateRental, UpdateRental
<1>3. ASSUME NEW i \in RentalIds, NEW paid \in BOOLEAN, UpdatePaymentStatus(i, paid)
      PROVE  SumInv'
  <2>1. rentals[i] \in Booking /\ Upto(rentals[i].from, rentals[i].to)
    BY <1>0, <1>3 DEF UpdatePaymentStatus, Booked, GridInv, SumInv, Ordered
  <2> DEFINE b == [rentals[i] EXCEPT !.paid = paid]
  <2>2. b.from = rentals[i].from /\ b.to = rentals[i].to
    BY <2>1 DEF Booking
  <2>3. rentals' = [rentals EXCEPT ![i] = b]
    BY <1>3 DEF UpdatePaymentStatus
  <2>4. NoGrid /\ Upto(b.from, b.to)
    BY <1>3, <2>1, <2>2 DEF UpdatePaymentStatus
  <2> HIDE DEF b
  <2> QED
    BY <1>0, <2>3, <2>4, SumInvWrite
<1>4. ASSUME NEW i \in RentalIds, RemoveRental(i) PROVE SumInv'
  BY <1>0, <1>4, SumInvWrite DEF RemoveRental
<1>5. ASSUME NEW i \in RentalIds, PlaceBooking(i) PROVE SumInv'
  BY <1>5, SumInvPlace
<1>6. ASSUME NEW m \in Months, OpenGrid(m) PROVE SumInv'
  BY <1>6, SumInvOpen
<1> QED
  BY <1>1, <1>2, <1>3, <1>4, <1>5, <1>6 DEF RentalNext

\* The recap of a set of bookings of the month is the sum of its terms.
LEMMA RecapIs ==
    ASSUME SumInv, shown # NoMonth, NEW S \in SUBSET MonthBookings(shown)
    PROVE  /\ Recap(S, shown, LAMBDA item : item.omset) = SumFunctionOnSet(OmsetTerms, S)
           /\ Recap(S, shown, LAMBDA item : item.nett) = SumFunctionOnSet(NettTerms, S)
<1>1. S \in SUBSET RentalIds /\ IsFiniteSet(S)
  <2>1. S \in SUBSET RentalIds
    BY DEF MonthBookings, Booked
  <2> QED
    BY <2>1, RentalAssumption, FS_Subset
<1> DEFINE f == [i \in S |-> Present(rentals[i], {shown}).omset]
           g == [i \in S |-> Present(rentals[i], {shown}).nett]
<1>2. Recap(S, shown, LAMBDA item : item.omset) = SumFunctionOnSet(f, S)
  BY SumIs DEF Recap
<1>3. Recap(S, shown, LAMBDA item : item.nett) = SumFunctionOnSet(g, S)
  BY SumIs DEF Recap
<1>4. \A i \in S : f[i] = OmsetTerms[i] /\ g[i] = NettTerms[i]
  BY <1>1 DEF OmsetTerms, NettTerms
<1>5. SumFunctionOnSet(f, S) = SumFunctionOnSet(OmsetTerms, S) /\ SumFunctionOnSet(g, S) = SumFunctionOnSet(NettTerms, S)
  <2> HIDE DEF f, g
  <2> QED
    BY <1>1, <1>4, SumSame
<1> QED
  BY <1>2, <1>3, <1>5

\* What some bookings bring in on a day is a sum over them.
LEMMA OmsetOfIs ==
    ASSUME NEW S \in SUBSET RentalIds, NEW d
    PROVE  IsFiniteSet(S) /\ OmsetOf(S, shown, d) = SumFunctionOnSet(Terms(d), S)
<1>1. IsFiniteSet(S)
  BY RentalAssumption, FS_Subset
<1> DEFINE f == [i \in S |-> DayOmset(rentals[i], shown, d)]
<1>2. OmsetOf(S, shown, d) = SumFunctionOnSet(f, S)
  BY SumIs DEF OmsetOf
<1>3. \A i \in S : f[i] = Terms(d)[i]
  BY DEF Terms
<1> HIDE DEF f
<1> QED
  BY <1>1, <1>2, <1>3, SumSame

\* Once every booking is placed, the sums over the placed ones are the screens.
LEMMA FiguresFollow == SumInv => RentalFiguresAgree
<1>1. SUFFICES ASSUME SumInv, shown # NoMonth, unread = {}, NEW p \in RentalPlates
               PROVE  LET cells == {pd \in DOMAIN days : pd[1] = p}
                          mine  == {i \in MonthBookings(shown) : rentals[i].plate = p}
                          daily == DailyIncome(p, shown)
                      IN  /\ totals[p].omset = SumFunction([pd \in cells |-> days[pd].amount])
                          /\ totals[p].omset = Recap(mine, shown, LAMBDA item : item.omset)
                          /\ totals[p].nett = Recap(mine, shown, LAMBDA item : item.nett)
                          /\ totals[p].rentedDays = Cardinality(cells)
                          /\ {<<p, d>> : d \in DOMAIN daily} = cells
                          /\ \A d \in DOMAIN daily :
                                 /\ days[<<p, d>>].amount = daily[d]
                                 /\ daily[d] = OmsetOf(PlateBookings(p, shown, d), shown, d)
  BY DEF RentalFiguresAgree
<1> DEFINE cells == CellsOf(p)
           mine  == PlacedOf(p)
           daily == DailyIncome(p, shown)
<1>2. cells = {pd \in DOMAIN days : pd[1] = p} /\ mine = {i \in MonthBookings(shown) : rentals[i].plate = p}
  BY <1>1 DEF CellsOf, PlacedOf, Placed
<1>3. RowInv(p) /\ GridInv /\ shown \in Months
  BY <1>1 DEF SumInv, GridInv
<1>4. totals[p].omset = SumFunction([pd \in cells |-> days[pd].amount])
  <2> DEFINE f == [pd \in cells |-> days[pd].amount]
  <2>1. SumFunction(f) = SumFunctionOnSet(f, cells)
    BY SumIs
  <2>2. IsFiniteSet(cells) /\ \A pd \in cells : f[pd] = Amounts[pd]
    BY <1>1, FS_Subset DEF CellsOf, Amounts, SumInv
  <2> HIDE DEF f
  <2>3. SumFunctionOnSet(f, cells) = SumFunctionOnSet(Amounts, cells)
    BY <2>2, SumSame
  <2> QED
    BY <1>3, <2>1, <2>3 DEF f, RowInv
<1>5. /\ totals[p].omset = Recap(mine, shown, LAMBDA item : item.omset)
      /\ totals[p].nett = Recap(mine, shown, LAMBDA item : item.nett)
  <2>1. mine \in SUBSET MonthBookings(shown)
    BY <1>2
  <2> HIDE DEF mine
  <2>2. /\ Recap(mine, shown, LAMBDA item : item.omset) = SumFunctionOnSet(OmsetTerms, mine)
        /\ Recap(mine, shown, LAMBDA item : item.nett) = SumFunctionOnSet(NettTerms, mine)
    BY <1>1, <2>1, RecapIs
  <2>3. totals[p].omset = SumFunctionOnSet(OmsetTerms, mine) /\ totals[p].nett = SumFunctionOnSet(NettTerms, mine)
    BY <1>3 DEF RowInv, mine
  <2> QED
    BY <2>2, <2>3
<1>6. totals[p].rentedDays = Cardinality(cells)
  BY <1>3 DEF RowInv
<1>7. \A d : d \in DOMAIN daily <=> \E i \in mine : d \in BookedDays(rentals[i], shown)
  BY <1>2 DEF DailyIncome
<1>8. \A d : Covering(<<p, d>>) = {i \in mine : d \in BookedDays(rentals[i], shown)}
  BY DEF Covering, Covers, PlacedOf
<1>9. \A i \in mine : i \in MonthBookings(shown)
  BY <1>2
<1>10. {<<p, d>> : d \in DOMAIN daily} = cells
  <2>1. \A d \in DOMAIN daily : <<p, d>> \in cells
    <3>1. SUFFICES ASSUME NEW d \in DOMAIN daily PROVE <<p, d>> \in cells
      OBVIOUS
    <3>2. Covering(<<p, d>>) # {} /\ d \in Nat
      BY <1>1, <1>7, <1>8, <1>9, ShownBooking
    <3> QED
      BY <1>1, <1>3, <3>2 DEF GridInv, CellsOf
  <2>2. \A pd \in cells : pd = <<p, pd[2]>> /\ pd[2] \in DOMAIN daily
    <3>1. SUFFICES ASSUME NEW pd \in cells PROVE pd = <<p, pd[2]>> /\ pd[2] \in DOMAIN daily
      OBVIOUS
    <3>2. pd \in RentalPlates \X Nat /\ Covering(pd) # {} /\ pd[1] = p
      BY <1>1, <1>3 DEF GridInv, CellsOf
    <3>3. pd = <<p, pd[2]>>
      BY <3>2
    <3>4. Covering(<<p, pd[2]>>) # {}
      BY <3>2, <3>3
    <3> QED
      BY <1>7, <1>8, <3>3, <3>4
  <2> HIDE DEF daily, cells
  <2> QED
    BY <2>1, <2>2
<1>11. ASSUME NEW d \in DOMAIN daily
       PROVE  /\ days[<<p, d>>].amount = daily[d]
              /\ daily[d] = OmsetOf(PlateBookings(p, shown, d), shown, d)
  <2> DEFINE C == Covering(<<p, d>>)
  <2>1. <<p, d>> \in DOMAIN days
    BY <1>10 DEF CellsOf
  <2>2. C \in SUBSET RentalIds
    BY DEF Covering, Placed, MonthBookings, Booked
  <2>3. daily[d] = OmsetOf(C, shown, d)
    <3>1. daily[d] = OmsetOf({i \in mine : d \in BookedDays(rentals[i], shown)}, shown, d)
      BY <1>2 DEF DailyIncome
    <3> QED
      BY <1>8, <3>1
  <2>4. days[<<p, d>>].amount = SumFunctionOnSet(Terms(d), C)
    <3>1. <<p, d>>[2] = d
      OBVIOUS
    <3>2. days[<<p, d>>].amount = SumFunctionOnSet(Terms(<<p, d>>[2]), Covering(<<p, d>>))
      BY <1>1, <2>1 DEF SumInv
    <3> QED
      BY <3>1, <3>2
  <2>5. IsFiniteSet(C) /\ OmsetOf(C, shown, d) = SumFunctionOnSet(Terms(d), C)
    <3> HIDE DEF C
    <3> QED
      BY <2>2, OmsetOfIs
  <2>6. d \in 1..DaysIn[shown]
    BY <1>7 DEF BookedDays
  <2>7. \A i \in MonthBookings(shown) : d \in BookedDays(rentals[i], shown) <=> Between(rentals[i].from, <<shown, d>>, rentals[i].to)
    BY <2>6 DEF BookedDays
  <2> DEFINE Q == PlateBookings(p, shown, d)
  <2>8. Q = {i \in C : Terms(d)[i] # 0}
    <3>1. \A i \in RentalIds : Terms(d)[i] = DayOmset(rentals[i], shown, d)
      BY DEF Terms
    <3>2. ASSUME NEW i \in Q PROVE i \in C /\ Terms(d)[i] # 0
      <4>1. i \in Booked /\ rentals[i].plate = p /\ Between(rentals[i].from, <<shown, d>>, rentals[i].to)
            /\ DayOmset(rentals[i], shown, d) # 0
        BY DEF PlateBookings, DayBookings
      <4>2. i \in MonthBookings(shown)
        <5>1. rentals[i] \in Booking
          BY <1>3, <4>1 DEF GridInv, Booked
        <5>2. rentals[i].from \in Dates /\ rentals[i].to \in Dates
          BY <5>1 DEF Booking
        <5>3. rentals[i].from[1] \in Int /\ rentals[i].from[2] \in Int /\ rentals[i].to[1] \in Int
              /\ rentals[i].to[2] \in Int /\ d \in Int /\ 1 <= d /\ d <= DaysIn[shown] /\ DaysIn[shown] \in Int /\ shown \in Int
          BY <1>3, <2>6, <5>2, DateParts, MonthLength DEF Months
        <5> QED
          BY <4>1, <5>3 DEF MonthBookings, Between, Upto, FirstOf, LastOf
      <4>3. i \in RentalIds
        BY <4>1 DEF Booked
      <4> QED
        BY <1>2, <1>8, <2>7, <3>1, <4>1, <4>2, <4>3
    <3>3. ASSUME NEW i \in C, Terms(d)[i] # 0 PROVE i \in Q
      <4>1. i \in MonthBookings(shown) /\ rentals[i].plate = p /\ d \in BookedDays(rentals[i], shown)
        BY <1>2, <1>8
      <4>2. i \in Booked /\ i \in RentalIds
        BY <4>1 DEF MonthBookings, Booked
      <4> QED
        BY <2>7, <3>1, <3>3, <4>1, <4>2 DEF PlateBookings, DayBookings
    <3> HIDE DEF Q, C
    <3> QED
      BY <3>2, <3>3
  <2>9. \A i \in C : Terms(d)[i] \in Int
    BY <1>1, <1>8, <1>9, ShownBooking DEF Terms
  <2>10. SumFunctionOnSet(Terms(d), C) = SumFunctionOnSet(Terms(d), Q)
    <3>1. Q \in SUBSET C /\ (\A i \in Q : Terms(d)[i] \in Int) /\ (\A i \in C \ Q : Terms(d)[i] = 0)
      BY <2>8, <2>9
    <3> HIDE DEF Q, C
    <3> QED
      BY <2>5, <3>1, SumZeros
  <2>11. OmsetOf(Q, shown, d) = SumFunctionOnSet(Terms(d), Q)
    <3>1. Q \in SUBSET RentalIds
      BY <2>2, <2>8
    <3> HIDE DEF Q
    <3> QED
      BY <3>1, OmsetOfIs
  <2> HIDE DEF C, daily
  <2> QED
    BY <2>3, <2>4, <2>5, <2>10, <2>11
<1> HIDE DEF cells, mine, daily
<1> QED
  BY <1>2, <1>4, <1>5, <1>6, <1>10, <1>11 DEF daily

\* The rental grid, its totals, the recap, the matrix column and the drill-down of a
\* cell show the same money, for any bookings and whatever order a request places
\* them in (PartnerRentalsService, buildRentalGrid).
THEOREM RentalScreensAgree == RentalSpec => []RentalFiguresAgree
<1> QED
  BY SumInvInit, SumInvNext, FiguresFollow, PTL DEF RentalSpec

\* The invoice of whole months bills what the recap built from single days shows, and
\* a month booked in full costs the price quoted: the shares of its days, spread by
\* largest remainder, add up to it (buildRentalInvoice).
THEOREM InvoicesMatch == RentalSpec => []InvoiceMatchesRecap
<1>1. GridInv => InvoiceMatchesRecap
  <2>1. SUFFICES ASSUME GridInv, NEW i \in Booked
                 PROVE  LET b    == rentals[i]
                            item == Present(b, BookedMonths(b))
                        IN  /\ Invoice(b) = [subtotal |-> item.omset, ppn |-> item.ppn, total |-> item.billed]
                            /\ \A m \in Months :
                                   (b.tariff.unit = "bulan" /\ BookedDays(b, m) = 1..DaysIn[m])
                                       => Gross(b, {m}) = b.tariff.price
    BY DEF InvoiceMatchesRecap
  <2>2. rentals[i] \in Booking
    BY <2>1 DEF Booked, GridInv
  <2> QED
    BY <2>2, InvoiceIsRecap, FullMonth
<1> QED
  BY <1>1, GridInvInit, GridInvNext, PTL DEF RentalSpec

-----------------------------------------------------------------------------
(***************************************************************************)
(* All fleet monitoring: the matrix regroups the rows, the trips and the   *)
(* bookings of a day by plate or by driver, and each is in one group.      *)
(***************************************************************************)

BookingsInv == rentals \in [RentalIds -> Booking \cup {NoRental}]

\* The rows, the trips and the bookings are well formed, and no booking ends before
\* it starts.
MatrixInv == RowsInv /\ TripInv /\ BookingsInv /\ Ordered

LEMMA SubPartner == "partner" \in Scopes /\ "plate" \in Modes /\ "driver" \in Modes
BY DEF Scopes, Modes

\* Gojek: the cells of a subject are its rows of the day.
LEMMA GojekCell ==
    ASSUME NEW mode, NEW m, NEW d, NEW k
    PROVE  CellGojek(mode, m, k, d) = Counted(Group(OnDay(PivotRows(m), d), SubjectOf(mode), k))
<1>1. Group(OnDay(PivotRows(m), d), SubjectOf(mode), k) = OnDay(RowsOf(mode, k, m), d)
  BY ScopedLive DEF RowsOf, Group, SubjectOf, OnDay
<1> QED
  BY <1>1 DEF CellGojek, DailyCounted

\* Grab: the trips of a day by the first part of their row's key.
FirstKey(mode) == [t \in TripIds |-> GrabKey(mode, t)[1]]

\* Grab: the rows of a plate, one for each city, are its trips of the day.
LEMMA GrabCell ==
    ASSUME TripInv, NEW mode, NEW m, NEW d, NEW k
    PROVE  CellGrab(mode, m, k, d) = Earned(Group(WindowTrips("partner", m, {d}), FirstKey(mode), k))
<1> DEFINE K == GrabRowsOf(mode, m, k)
           S == Group(WindowTrips("partner", m, {d}), FirstKey(mode), k)
<1>1. WindowTrips("partner", m, {d}) \subseteq TripIds
  BY SubPartner, ScopeImported, TripsFinite DEF WindowTrips
<1>2. S = {t \in WindowTrips("partner", m, {d}) : GrabKey(mode, t) \in K}
  BY <1>1 DEF Group, FirstKey, GrabRowsOf, PartnerTrips, WindowTrips, GrabKeys
<1>3. K \subseteq GrabKeys("partner", mode, m)
  BY DEF GrabRowsOf, PartnerTrips
<1>4. CellGrab(mode, m, k, d) = SumFunction([key \in K |-> RowEarning("partner", mode, m, key, {d})])
  BY DEF CellGrab, DailyEarning
<1> HIDE DEF K, S
<1>5. Earned(S) = SumFunction([key \in K |-> RowEarning("partner", mode, m, key, {d})])
  BY <1>2, <1>3, SubPartner, RowsShare
<1> QED
  BY <1>4, <1>5 DEF S

\* Rentals: the bookings of a day by the subject their income goes to.
OwnerOf(mode) == [i \in RentalIds |-> IF mode = "plate" THEN rentals[i].plate ELSE NoDriver]

RentalMoney(m, d) == [i \in RentalIds |-> DayOmset(rentals[i], m, d)]

\* What some bookings bring in on a day is a sum over them.
LEMMA OmsetIs ==
    ASSUME BookingsInv, NEW m \in Months, NEW d \in 1..DaysIn[m], NEW S, S \subseteq RentalIds
    PROVE  IsFiniteSet(S) /\ OmsetOf(S, m, d) = SumFunctionOnSet(RentalMoney(m, d), S)
<1>1. IsFiniteSet(S)
  BY RentalAssumption, FS_Subset
<1> DEFINE f == [i \in S |-> DayOmset(rentals[i], m, d)]
<1>2. OmsetOf(S, m, d) = SumFunctionOnSet(f, S)
  BY SumIs DEF OmsetOf
<1>3. \A i \in S : f[i] = RentalMoney(m, d)[i]
  BY DEF RentalMoney
<1> HIDE DEF f
<1> QED
  BY <1>1, <1>2, <1>3, SumSame

\* A booking is of a day when it brings in money on it.
LEMMA DayBooking ==
    ASSUME BookingsInv, NEW m \in Months, NEW d \in 1..DaysIn[m]
    PROVE  /\ DayBookings(m, d) \subseteq RentalIds /\ DayBookings(m, d) \subseteq MonthBookings(m)
           /\ \A i \in Booked : i \in RentalIds /\ rentals[i] \in Booking /\ rentals[i].plate \in RentalPlates
           /\ \A i \in Booked : d \in BookedDays(rentals[i], m) =>
                  /\ i \in MonthBookings(m) /\ RentalMoney(m, d)[i] \in Nat
                  /\ i \in DayBookings(m, d) <=> RentalMoney(m, d)[i] # 0
           /\ \A i \in DayBookings(m, d) : d \in BookedDays(rentals[i], m)
<1>1. \A i \in Booked : i \in RentalIds /\ rentals[i] \in Booking /\ rentals[i].plate \in RentalPlates
  BY DEF BookingsInv, Booked, Booking
<1>2. \A i \in Booked : d \in BookedDays(rentals[i], m) <=> Between(rentals[i].from, <<m, d>>, rentals[i].to)
  BY DEF BookedDays
<1>3. ASSUME NEW i \in Booked, Between(rentals[i].from, <<m, d>>, rentals[i].to) PROVE i \in MonthBookings(m)
  <2> DEFINE b == rentals[i]
  <2>1. b.from \in Dates /\ b.to \in Dates
    BY <1>1 DEF Booking
  <2>2. b.from[1] \in Int /\ b.from[2] \in Int /\ b.to[1] \in Int /\ b.to[2] \in Int /\ m \in Int /\ DaysIn[m] \in Int /\ d \in Int
    BY <2>1, DateParts, MonthsAreInts, MonthLength
  <2>3. Upto(b.from, <<m, DaysIn[m]>>) /\ Upto(<<m, 1>>, b.to)
    BY <1>3, <2>2 DEF Between, Upto
  <2> QED
    BY <2>3 DEF MonthBookings, FirstOf, LastOf
<1>4. ASSUME NEW i \in Booked, d \in BookedDays(rentals[i], m)
      PROVE  RentalMoney(m, d)[i] \in Nat /\ (i \in DayBookings(m, d) <=> RentalMoney(m, d)[i] # 0)
  <2>1. RentalMoney(m, d)[i] = DayOmset(rentals[i], m, d)
    BY <1>1 DEF RentalMoney
  <2>2. DayOmset(rentals[i], m, d) \in Nat
    BY <1>1, <1>4, DayOmsetType
  <2> QED
    BY <1>2, <1>4, <2>1, <2>2 DEF DayBookings
<1>5. \A i \in DayBookings(m, d) : i \in Booked /\ Between(rentals[i].from, <<m, d>>, rentals[i].to)
  BY DEF DayBookings
<1> QED
  BY <1>1, <1>2, <1>3, <1>4, <1>5

\* The column of a plate is what its drill-down lists.
LEMMA RentalOfIs ==
    ASSUME BookingsInv, NEW m \in Months, NEW d \in 1..DaysIn[m], NEW p
    PROVE  RentalOf(p, m, d) = OmsetOf(PlateBookings(p, m, d), m, d)
<1> DEFINE S == {i \in MonthBookings(m) : rentals[i].plate = p}
           C == {i \in S : d \in BookedDays(rentals[i], m)}
           X == PlateBookings(p, m, d)
<1>1. X \subseteq C /\ C \subseteq RentalIds /\ C \subseteq Booked
  BY DayBooking DEF PlateBookings, MonthBookings, Booked
<1>2. \A i \in C : RentalMoney(m, d)[i] \in Nat /\ (i \notin X => RentalMoney(m, d)[i] = 0)
  BY <1>1, DayBooking DEF PlateBookings
<1>3. RentalOf(p, m, d) = IF C # {} THEN OmsetOf(C, m, d) ELSE 0
  <2>1. d \in DOMAIN DailyIncome(p, m) <=> C # {}
    BY DEF DailyIncome
  <2>2. d \in DOMAIN DailyIncome(p, m) => DailyIncome(p, m)[d] = OmsetOf(C, m, d)
    BY DEF DailyIncome
  <2> HIDE DEF C
  <2> QED
    BY <2>1, <2>2 DEF RentalOf
<1> HIDE DEF C, S, X
<1>4. /\ IsFiniteSet(C) /\ IsFiniteSet(X)
      /\ OmsetOf(C, m, d) = SumFunctionOnSet(RentalMoney(m, d), C)
      /\ OmsetOf(X, m, d) = SumFunctionOnSet(RentalMoney(m, d), X)
  BY <1>1, OmsetIs
<1>5. SumFunctionOnSet(RentalMoney(m, d), C) = SumFunctionOnSet(RentalMoney(m, d), X)
  BY <1>1, <1>2, <1>4, SumZeros
<1>6. C = {} => OmsetOf(X, m, d) = 0
  <2>1. C = {} => X = {}
    BY <1>1
  <2> QED
    BY <1>4, <2>1, SumEmpty
<1> QED
  BY <1>3, <1>4, <1>5, <1>6 DEF X

\* Rental: the column of a plate, and all of them in the residual row by driver.
LEMMA RentalCell ==
    ASSUME BookingsInv, NEW mode \in Modes, NEW m \in Months, NEW d \in 1..DaysIn[m], NEW k
    PROVE  /\ CellBookings(mode, m, k, d) = Group(DayBookings(m, d), OwnerOf(mode), k)
           /\ CellRental(mode, m, k, d) = OmsetOf(Group(DayBookings(m, d), OwnerOf(mode), k), m, d)
<1> DEFINE X == DayBookings(m, d)
<1>1. /\ X \subseteq RentalIds
      /\ \A i \in X : rentals[i].plate \in RentalPlates /\ RentalMoney(m, d)[i] \in Int
  <2>1. \A i \in X : i \in Booked
    BY DEF DayBookings
  <2> QED
    BY <2>1, DayBooking
<1>2. CellBookings(mode, m, k, d) = Group(X, OwnerOf(mode), k)
  BY <1>1 DEF CellBookings, PlateBookings, Group, OwnerOf, Modes
<1>3. OmsetOf({}, m, d) = 0
  BY OmsetIs, SumEmpty
<1>4. CASE mode = "plate"
  <2>1. Group(X, OwnerOf(mode), k) = PlateBookings(k, m, d)
    BY <1>2, <1>4 DEF CellBookings
  <2>2. CASE k \in RentalPlates
    <3>1. CellRental(mode, m, k, d) = RentalOf(k, m, d)
      BY <1>4, <2>2 DEF CellRental
    <3>2. RentalOf(k, m, d) = OmsetOf(PlateBookings(k, m, d), m, d)
      BY RentalOfIs
    <3> QED
      BY <1>2, <2>1, <3>1, <3>2
  <2>3. CASE k \notin RentalPlates
    <3>1. Group(X, OwnerOf(mode), k) = {}
      BY <1>1, <2>1, <2>3 DEF PlateBookings
    <3>2. CellRental(mode, m, k, d) = 0
      BY <1>4, <2>3 DEF CellRental
    <3> QED
      BY <1>2, <1>3, <3>1, <3>2
  <2> QED
    BY <2>2, <2>3
<1>5. CASE mode # "plate" /\ k # NoDriver
  <2>1. Group(X, OwnerOf(mode), k) = {}
    BY <1>2, <1>5 DEF CellBookings
  <2> QED
    BY <1>2, <1>3, <1>5, <2>1 DEF CellRental
<1>6. CASE mode # "plate" /\ k = NoDriver
  <2> DEFINE g == [p \in RentalPlates |-> RentalOf(p, m, d)]
  <2>1. Group(X, OwnerOf(mode), k) = X
    BY <1>2, <1>6 DEF CellBookings
  <2>2. CellRental(mode, m, k, d) = SumFunctionOnSet(g, RentalPlates)
    BY <1>6, SumIs DEF CellRental
  <2>3. \A i \in X : OwnerOf("plate")[i] = rentals[i].plate /\ OwnerOf("plate")[i] \in RentalPlates
    BY <1>1 DEF OwnerOf
  <2>4. ASSUME NEW p \in RentalPlates PROVE g[p] = SumFunctionOnSet(RentalMoney(m, d), Group(X, OwnerOf("plate"), p))
    <3>1. Group(X, OwnerOf("plate"), p) = PlateBookings(p, m, d)
      BY <2>3 DEF Group, PlateBookings
    <3>2. PlateBookings(p, m, d) \subseteq RentalIds
      BY <1>1 DEF PlateBookings
    <3> QED
      BY <3>1, <3>2, RentalOfIs, OmsetIs
  <2>5. IsFiniteSet(X) /\ OmsetOf(X, m, d) = SumFunctionOnSet(RentalMoney(m, d), X)
    BY <1>1, OmsetIs
  <2> HIDE DEF g, X
  <2>6. SumFunctionOnSet(RentalMoney(m, d), X) = SumFunctionOnSet(g, RentalPlates)
    BY <1>1, <2>3, <2>4, <2>5, RentalAssumption, SumByGroup
  <2> QED
    BY <1>2, <2>1, <2>2, <2>5, <2>6 DEF X
<1> QED
  BY <1>4, <1>5, <1>6

\* Every row, trip and booking of the month has its subject in the matrix.
LEMMA SubjectsFinite ==
    ASSUME BookingsInv, NEW mode \in Modes, NEW m \in Months
    PROVE  /\ IsFiniteSet(MatrixSubjects(mode, m))
           /\ \A i \in PivotRows(m) : SubjectOf(mode)[i] \in MatrixSubjects(mode, m)
           /\ \A t \in MonthTrips("partner", m) : FirstKey(mode)[t] \in MatrixSubjects(mode, m)
           /\ \A i \in MonthBookings(m) : OwnerOf(mode)[i] \in MatrixSubjects(mode, m)
<1> DEFINE T == {key[1] : key \in PartnerTrips(mode, m)}
           R == {IF mode = "plate" THEN rentals[i].plate ELSE NoDriver : i \in MonthBookings(m)}
<1>1. IsFiniteSet(T)
  <2>1. \A k \in T : \E t \in MonthTrips("partner", m) : FirstKey(mode)[t] = k
    BY SubPartner, ScopeImported, TripsFinite DEF PartnerTrips, GrabKeys, FirstKey
  <2>2. IsFiniteSet(MonthTrips("partner", m))
    BY SubPartner, ScopeImported, TripsFinite
  <2> HIDE DEF T
  <2> QED
    BY <2>1, <2>2, ImageFinite
<1>2. IsFiniteSet(R)
  <2>1. MonthBookings(m) \subseteq RentalIds
    BY DEF MonthBookings, Booked
  <2>2. \A k \in R : \E i \in MonthBookings(m) : OwnerOf(mode)[i] = k
    BY <2>1 DEF OwnerOf
  <2>3. IsFiniteSet(MonthBookings(m))
    BY <2>1, RentalAssumption, FS_Subset
  <2> HIDE DEF R
  <2> QED
    BY <2>2, <2>3, ImageFinite
<1>3. IsFiniteSet(MatrixSubjects(mode, m))
  <2>1. MatrixSubjects(mode, m) = (PivotKeys(mode, m) \cup T) \cup R
    BY DEF MatrixSubjects
  <2> HIDE DEF T, R
  <2>2. IsFiniteSet(PivotKeys(mode, m))
    BY PivotKeysFinite
  <2>3. IsFiniteSet(PivotKeys(mode, m) \cup T)
    BY <1>1, <2>2, FS_Union
  <2> QED
    BY <1>2, <2>1, <2>3, FS_Union
<1>4. \A i \in PivotRows(m) : SubjectOf(mode)[i] \in MatrixSubjects(mode, m)
  BY PivotKeysFinite DEF MatrixSubjects
<1>5. \A t \in MonthTrips("partner", m) : FirstKey(mode)[t] \in MatrixSubjects(mode, m)
  BY SubPartner, ScopeImported, TripsFinite DEF MatrixSubjects, PartnerTrips, GrabKeys, FirstKey
<1>6. \A i \in MonthBookings(m) : OwnerOf(mode)[i] \in MatrixSubjects(mode, m)
  BY DEF MatrixSubjects, MonthBookings, Booked, OwnerOf
<1> QED
  BY <1>3, <1>4, <1>5, <1>6

\* ByGroup, of what is counted alone.
LEMMA CountedByGroup ==
    ASSUME RowsInv, NEW S, S \subseteq Live, NEW K, IsFiniteSet(K),
           NEW key, \A i \in S : key[i] \in K,
           NEW g, \A k \in K : g[k] = Counted(Group(S, key, k))
    PROVE  Counted(S) = SumFunctionOnSet(g, K)
<1> QED
  BY ByGroup

\* Every day's row of totals is what the three sources report.
LEMMA DayAddsUp ==
    ASSUME MatrixInv, NEW mode \in Modes, NEW m \in Months, NEW d \in 1..DaysIn[m]
    PROVE  /\ MatrixDay(mode, m, d)
                  = DailyTotal("plate", m, d) + DailyEarnings("partner", "plate", m, d)
                        + OmsetOf(DayBookings(m, d), m, d)
           /\ \A k : /\ CellGojek(mode, m, k, d) \in Nat
                     /\ CellGrab(mode, m, k, d) \in Nat
                     /\ CellRental(mode, m, k, d) \in Nat
<1> DEFINE K == MatrixSubjects(mode, m)
           P == OnDay(PivotRows(m), d)
           W == WindowTrips("partner", m, {d})
           X == DayBookings(m, d)
           gojek == [k \in K |-> CellGojek(mode, m, k, d)]
           grab == [k \in K |-> CellGrab(mode, m, k, d)]
           rental == [k \in K |-> CellRental(mode, m, k, d)]
           sources == [k \in K |-> CellGojek(mode, m, k, d) + CellGrab(mode, m, k, d)]
           total == [k \in K |-> CellTotal(mode, m, k, d)]
<1>0. RowsInv /\ TripInv /\ BookingsInv /\ IsFiniteSet(K)
  BY SubjectsFinite DEF MatrixInv
<1>1. P \subseteq Live /\ W \subseteq Imported /\ X \subseteq RentalIds
  BY <1>0, ScopedLive, SubPartner, ScopeImported, DayBooking DEF OnDay, WindowTrips
<1>2. ASSUME NEW k PROVE CellGojek(mode, m, k, d) \in Nat
  <2>1. Group(P, SubjectOf(mode), k) \subseteq Live
    BY <1>1 DEF Group
  <2> HIDE DEF P
  <2>2. Counted(Group(P, SubjectOf(mode), k)) \in Nat
    BY <1>0, <2>1, FiguresAre
  <2> QED
    BY <2>2, GojekCell DEF P
<1>3. ASSUME NEW k PROVE CellGrab(mode, m, k, d) \in Nat
  <2> DEFINE G == Group(W, FirstKey(mode), k)
  <2>1. G \subseteq Imported
    BY <1>1 DEF Group
  <2>2. CellGrab(mode, m, k, d) = Earned(G)
    BY <1>0, GrabCell
  <2> HIDE DEF G
  <2>3. IsFiniteSet(G) /\ \A t \in G : Money[t] \in Nat
    <3>1. \A t \in G : t \in TripIds /\ trips[t] \in Trip
      BY <1>0, <2>1, ImportedTrip
    <3>2. \A t \in G : Money[t] \in Nat
      BY <3>1, GrabAssumption DEF Money, Trip
    <3> QED
      BY <2>1, <3>2, TripsFinite
  <2> QED
    BY <1>0, <2>1, <2>2, <2>3, EarnedIs, SumInt
<1>4. \A i \in X : RentalMoney(m, d)[i] \in Nat
  <2>1. \A i \in X : i \in Booked
    BY DEF DayBookings
  <2> QED
    BY <1>0, <2>1, DayBooking
<1>5. ASSUME NEW k PROVE CellRental(mode, m, k, d) \in Nat
  <2> DEFINE G == Group(X, OwnerOf(mode), k)
  <2>1. G \subseteq RentalIds /\ \A i \in G : RentalMoney(m, d)[i] \in Nat
    BY <1>1, <1>4 DEF Group
  <2>2. CellRental(mode, m, k, d) = OmsetOf(G, m, d)
    BY <1>0, RentalCell
  <2> HIDE DEF G
  <2> QED
    BY <1>0, <2>1, <2>2, OmsetIs, SumInt
<1>6. \A k \in K : /\ sources[k] \in Int /\ gojek[k] \in Int /\ grab[k] \in Int /\ rental[k] \in Int
                   /\ sources[k] = gojek[k] + grab[k] /\ total[k] = sources[k] + rental[k]
  BY <1>2, <1>3, <1>5 DEF CellTotal
<1>7. SumFunctionOnSet(gojek, K) = Counted(P)
  <2>1. \A i \in P : SubjectOf(mode)[i] \in K
    BY <1>0, SubjectsFinite DEF OnDay
  <2>2. \A k \in K : gojek[k] = Counted(Group(P, SubjectOf(mode), k))
    BY GojekCell
  <2>3. P \subseteq Live /\ IsFiniteSet(K)
    BY <1>0, <1>1
  <2> DEFINE subject == SubjectOf(mode)
  <2>4. /\ \A i \in P : subject[i] \in K
        /\ \A k \in K : gojek[k] = Counted(Group(P, subject, k))
    BY <2>1, <2>2
  <2> HIDE DEF K, P, gojek, subject
  <2> QED
    BY <1>0, <2>3, <2>4, CountedByGroup
<1>8. SumFunctionOnSet(grab, K) = Earned(W)
  <2>1. \A t \in W : FirstKey(mode)[t] \in K
    BY <1>0, SubjectsFinite DEF WindowTrips
  <2>2. \A k \in K : grab[k] = Earned(Group(W, FirstKey(mode), k))
    BY <1>0, GrabCell
  <2> HIDE DEF K, W, grab
  <2> QED
    BY <1>0, <1>1, <2>1, <2>2, EarnedByGroup
<1>9. SumFunctionOnSet(rental, K) = OmsetOf(X, m, d)
  <2>1. \A i \in X : OwnerOf(mode)[i] \in K
    BY <1>0, SubjectsFinite, DayBooking
  <2>2. ASSUME NEW k \in K PROVE rental[k] = SumFunctionOnSet(RentalMoney(m, d), Group(X, OwnerOf(mode), k))
    <3> DEFINE G == Group(X, OwnerOf(mode), k)
    <3>1. G \subseteq RentalIds
      BY <1>1 DEF Group
    <3>2. rental[k] = OmsetOf(G, m, d)
      BY <1>0, RentalCell
    <3> HIDE DEF G, rental
    <3>3. rental[k] = SumFunctionOnSet(RentalMoney(m, d), G)
      BY <1>0, <3>1, <3>2, OmsetIs
    <3> QED
      BY <3>3 DEF G
  <2>3. IsFiniteSet(X) /\ OmsetOf(X, m, d) = SumFunctionOnSet(RentalMoney(m, d), X)
    BY <1>0, <1>1, OmsetIs
  <2>4. \A i \in X : RentalMoney(m, d)[i] \in Int
    BY <1>4
  <2> HIDE DEF K, X, rental
  <2> QED
    BY <1>0, <2>1, <2>2, <2>3, <2>4, SumByGroup
<1>10. MatrixDay(mode, m, d) = SumFunctionOnSet(total, K)
  BY SumIs DEF MatrixDay
<1>11. DailyTotal("plate", m, d) = Counted(P) /\ DailyEarnings("partner", "plate", m, d) = Earned(W)
  BY <1>0, SubPartner, DailyIs, TotalIs DEF DailyEarnings
<1> HIDE DEF K, P, W, X, gojek, grab, rental, sources, total
<1>12. SumFunctionOnSet(sources, K) = SumFunctionOnSet(gojek, K) + SumFunctionOnSet(grab, K)
  BY <1>0, <1>6, SumPlus
<1>13. SumFunctionOnSet(total, K) = SumFunctionOnSet(sources, K) + SumFunctionOnSet(rental, K)
  BY <1>0, <1>6, SumPlus
<1> QED
  BY <1>2, <1>3, <1>5, <1>7, <1>8, <1>9, <1>10, <1>11, <1>12, <1>13 DEF X

\* A cell is what its drill-down lists, and the trips dated in another month.
LEMMA CellIsExplained ==
    ASSUME MatrixInv, NEW mode \in Modes, NEW m \in Months, NEW d \in 1..DaysIn[m], NEW k
    PROVE  CellExplained(mode, m, k, d) + Earned(CellStrays(mode, m, k, d)) = CellTotal(mode, m, k, d)
<1> DEFINE S == CellTrips(mode, m, k, d)
           T == CellStrays(mode, m, k, d)
           W == WindowTrips("partner", m, {d})
<1>0. RowsInv /\ TripInv /\ BookingsInv
  BY DEF MatrixInv
<1>1. Counted(CellItems(mode, m, k, d)) = CellGojek(mode, m, k, d)
  BY DEF CellItems, CellGojek, DailyCounted, Counted
<1>2. \A t \in MonthTrips("partner", m) : /\ t \in Imported /\ t \in TripIds
                                          /\ trips[t].date = <<m, d>> <=> trips[t].date[1] = m /\ trips[t].date[2] = d
  BY <1>0, SubPartner, ScopeImported, ImportedTrip
<1>3. \A t \in MonthTrips("partner", m) :
          FirstKey(mode)[t] = IF mode = "plate" THEN trips[t].plate ELSE PersonOf[trips[t].driver]
  BY <1>2 DEF FirstKey, GrabKey
<1>4. S = {t \in MonthTrips("partner", m) : trips[t].date = <<m, d>> /\ FirstKey(mode)[t] = k}
  BY <1>3 DEF CellTrips, DayTrips, DayTripsOf
<1>5. T = {t \in MonthTrips("partner", m) :
               trips[t].date[2] = d /\ trips[t].date[1] # m /\ FirstKey(mode)[t] = k}
  BY <1>3 DEF CellStrays, Strays
<1>6. Group(W, FirstKey(mode), k) = S \cup T
  <2> HIDE DEF S, T
  <2> QED
    BY <1>2, <1>4, <1>5 DEF Group, WindowTrips
<1>7. S \cap T = {} /\ S \subseteq Imported /\ T \subseteq Imported
  <2> HIDE DEF S, T
  <2> QED
    BY <1>2, <1>4, <1>5
<1>8. OmsetOf(CellBookings(mode, m, k, d), m, d) = CellRental(mode, m, k, d)
  BY <1>0, RentalCell
<1> HIDE DEF S, T, W
<1>9. CellGrab(mode, m, k, d) = Earned(S) + Earned(T) /\ Earned(S) \in Int /\ Earned(T) \in Int
  <2>1. CellGrab(mode, m, k, d) = Earned(S \cup T)
    BY <1>0, <1>6, GrabCell DEF W
  <2> QED
    BY <1>0, <1>7, <2>1, EarnedInParts
<1>10. CellGojek(mode, m, k, d) \in Int /\ CellRental(mode, m, k, d) \in Int
  <2>1. CellGojek(mode, m, k, d) \in Nat /\ CellRental(mode, m, k, d) \in Nat
    BY DayAddsUp
  <2> QED
    BY <2>1
<1>11. /\ CellExplained(mode, m, k, d) = CellGojek(mode, m, k, d) + Earned(S) + CellRental(mode, m, k, d)
       /\ CellTotal(mode, m, k, d) = CellGojek(mode, m, k, d) + (Earned(S) + Earned(T)) + CellRental(mode, m, k, d)
  BY <1>1, <1>8, <1>9 DEF CellExplained, CellTotal, S
<1> QED
  BY <1>9, <1>10, <1>11 DEF T

-----------------------------------------------------------------------------
(* The month: every source, day by day *)

LEMMA WholeMonthDays ==
    ASSUME NEW m \in Months
    PROVE  KeptDays(m) = WholeMonth(m) /\ IsFiniteSet(WholeMonth(m)) /\ WholeMonth(m) = 1..DaysIn[m]
<1>1. \A d \in WholeMonth(m) : <<m, d>> \in Dates
  BY DEF WholeMonth, Dates
<1>2. \A d \in WholeMonth(m) : \E date \in Dates : date[2] = d
  <2>1. SUFFICES ASSUME NEW d \in WholeMonth(m) PROVE \E date \in Dates : date[2] = d
    OBVIOUS
  <2>2. <<m, d>> \in Dates /\ <<m, d>>[2] = d
    BY <1>1
  <2> QED
    BY <2>2
<1>3. KeptDays(m) = WholeMonth(m)
  BY <1>2 DEF KeptDays, AnyDay
<1>4. IsFiniteSet(1..DaysIn[m])
  BY MonthLength, FS_Interval
<1> QED
  BY <1>3, <1>4 DEF WholeMonth

\* The setoran of the month's days, and of the days it does not have.
LEMMA GojekMonth ==
    ASSUME MatrixInv, NEW m \in Months,
           NEW g, \A d \in WholeMonth(m) : g[d] = DailyTotal("plate", m, d)
    PROVE  /\ SumFunctionOnSet(g, WholeMonth(m)) + Counted(OffMonth(m)) = TableDeduction("plate", m)
           /\ SumFunctionOnSet(g, WholeMonth(m)) \in Int /\ Counted(OffMonth(m)) \in Int
<1> DEFINE R == {i \in PivotRows(m) : details[i].date[2] \in WholeMonth(m)}
<1>0. RowsInv /\ IsFiniteSet(WholeMonth(m))
  BY WholeMonthDays DEF MatrixInv
<1>1. R \subseteq Live /\ R \subseteq Ids /\ OffMonth(m) \subseteq Live
  BY ScopedLive DEF OffMonth
<1>2. \A i \in R : DayDated[i] = details[i].date[2] /\ DayDated[i] \in WholeMonth(m)
  BY <1>1 DEF DayDated
<1>3. ASSUME NEW d \in WholeMonth(m) PROVE g[d] = Counted(Group(R, DayDated, d))
  <2>1. Group(R, DayDated, d) = OnDay(PivotRows(m), d)
    BY <1>1, <1>2, <1>3, ScopedLive DEF Group, OnDay, DayDated
  <2> QED
    BY <1>0, <2>1, SubPartner, DailyIs
<1>4. R = {i \in PivotRows(m) : details[i].date[2] \in WholeMonth(m)}
  OBVIOUS
<1> HIDE DEF R
<1>5. Counted(R) = SumFunctionOnSet(g, WholeMonth(m))
  BY <1>0, <1>1, <1>2, <1>3, CountedByGroup
<1>6. Counted(R) + Counted(OffMonth(m)) = TableDeduction("plate", m)
  BY <1>0, <1>4, WholeRange
<1>7. Counted(R) \in Nat /\ Counted(OffMonth(m)) \in Nat
  BY <1>0, <1>1, FiguresAre
<1> QED
  BY <1>5, <1>6, <1>7

DayDriven == [t \in TripIds |-> trips[t].date[2]]

\* The earnings of the month's days, and of the days it does not have.
LEMMA GrabMonth ==
    ASSUME MatrixInv, NEW m \in Months,
           NEW g, \A d \in WholeMonth(m) : g[d] = DailyEarnings("partner", "plate", m, d)
    PROVE  /\ SumFunctionOnSet(g, WholeMonth(m)) + Earned(Overflow("partner", m))
                  = TotalEarnings("partner", "plate", m, AnyDay)
           /\ SumFunctionOnSet(g, WholeMonth(m)) \in Int /\ Earned(Overflow("partner", m)) \in Int
<1> DEFINE W == WindowTrips("partner", m, WholeMonth(m))
<1>0. TripInv /\ IsFiniteSet(WholeMonth(m))
  BY WholeMonthDays DEF MatrixInv
<1>1. W \subseteq Imported /\ W \subseteq TripIds /\ Overflow("partner", m) \subseteq Imported
  BY SubPartner, ScopeImported, TripsFinite DEF WindowTrips, Overflow
<1>2. \A t \in W : DayDriven[t] = trips[t].date[2] /\ DayDriven[t] \in WholeMonth(m)
  BY <1>1 DEF DayDriven, WindowTrips
<1>3. ASSUME NEW d \in WholeMonth(m) PROVE g[d] = Earned(Group(W, DayDriven, d))
  <2>1. Group(W, DayDriven, d) = WindowTrips("partner", m, {d})
    BY <1>2, <1>3 DEF Group, WindowTrips
  <2> QED
    BY <1>0, <2>1, SubPartner, TotalIs DEF DailyEarnings
<1>4. RangeEarning("partner", FirstOf(m), LastOf(m)) = Earned(W)
      /\ Earned(W) + Earned(Overflow("partner", m)) = TotalEarnings("partner", "plate", m, AnyDay)
  BY <1>0, SubPartner, WholeMonthIs
<1>5. W \cap Overflow("partner", m) = {}
  BY DEF WindowTrips, Overflow
<1> HIDE DEF W
<1>6. Earned(W) \in Int /\ Earned(Overflow("partner", m)) \in Int
  BY <1>0, <1>1, <1>5, EarnedInParts
<1>7. Earned(W) = SumFunctionOnSet(g, WholeMonth(m))
  BY <1>0, <1>1, <1>2, <1>3, EarnedByGroup
<1> QED
  BY <1>4, <1>6, <1>7

\* What a booking brings in on a day of the month, if it is out on it.
MoneyOn(m, i, d) == IF d \in BookedDays(rentals[i], m) THEN DayOmset(rentals[i], m, d) ELSE 0

\* The bookings of the month's days are its recap.
LEMMA RentalMonth ==
    ASSUME MatrixInv, NEW m \in Months,
           NEW g, \A d \in WholeMonth(m) : g[d] = OmsetOf(DayBookings(m, d), m, d)
    PROVE  /\ SumFunctionOnSet(g, WholeMonth(m)) = Recap(MonthBookings(m), m, LAMBDA item : item.omset)
           /\ \A d \in WholeMonth(m) : g[d] \in Int
<1> DEFINE D == WholeMonth(m)
           S == MonthBookings(m)
           rows == [d \in D |-> [i \in S |-> MoneyOn(m, i, d)]]
           columns == [i \in S |-> [d \in D |-> MoneyOn(m, i, d)]]
           h == [i \in S |-> Present(rentals[i], {m}).omset]
<1>0. BookingsInv /\ IsFiniteSet(D) /\ D = 1..DaysIn[m] /\ Ordered
  BY WholeMonthDays DEF MatrixInv
<1>1. S \subseteq RentalIds /\ S \subseteq Booked /\ IsFiniteSet(S)
  <2>1. S \subseteq RentalIds /\ S \subseteq Booked
    BY DEF MonthBookings, Booked
  <2> QED
    BY <2>1, RentalAssumption, FS_Subset
<1>2. \A i \in S : rentals[i] \in Booking /\ Upto(rentals[i].from, rentals[i].to)
  BY <1>0, <1>1 DEF BookingsInv, Booked, Ordered
<1>3. \A d \in D : \A i \in S : MoneyOn(m, i, d) \in Nat
  BY <1>2, DayOmsetType DEF MoneyOn
<1>4. \A d \in D : \A i \in S : rows[d][i] = MoneyOn(m, i, d) /\ columns[i][d] = MoneyOn(m, i, d)
  OBVIOUS
<1> HIDE DEF rows, columns
<1>5. ASSUME NEW d \in D PROVE g[d] = SumFunctionOnSet(rows[d], S) /\ g[d] \in Int
  <2> DEFINE X == DayBookings(m, d)
             q == rows[d]
  <2>1. d \in 1..DaysIn[m] /\ X \in SUBSET S /\ X \subseteq RentalIds
    BY <1>0, DayBooking
  <2>2. IsFiniteSet(X) /\ g[d] = SumFunctionOnSet(RentalMoney(m, d), X)
    BY <1>0, <2>1, OmsetIs
  <2>3. \A i \in S : RentalMoney(m, d)[i] = DayOmset(rentals[i], m, d) /\ q[i] = MoneyOn(m, i, d)
    BY <1>1, <1>4 DEF RentalMoney
  <2>4. \A i \in X : q[i] = RentalMoney(m, d)[i]
    BY <1>0, <2>1, <2>3, DayBooking DEF MoneyOn
  <2>5. \A i \in S \ X : q[i] = 0
    BY <1>0, <1>1, <2>1, <2>3, DayBooking DEF MoneyOn
  <2>6. \A i \in S : q[i] \in Nat
    BY <1>3, <2>3
  <2> HIDE DEF X, q, S, D
  <2>7. \A i \in X : q[i] \in Int
    BY <2>1, <2>6
  <2>8. SumFunctionOnSet(q, S) = SumFunctionOnSet(q, X)
    BY <1>1, <2>1, <2>5, <2>7, SumZeros
  <2>9. SumFunctionOnSet(q, X) = SumFunctionOnSet(RentalMoney(m, d), X)
    BY <2>2, <2>4, SumSame
  <2>10. SumFunctionOnSet(q, S) \in Nat
    BY <1>1, <2>6, SumInt
  <2> QED
    BY <2>2, <2>8, <2>9, <2>10 DEF q
<1>6. ASSUME NEW i \in S PROVE h[i] = SumFunctionOnSet(columns[i], D)
  <2> DEFINE B == BookedDays(rentals[i], m)
             q == columns[i]
             w == [d \in B |-> DayOmset(rentals[i], m, d)]
  <2>1. B # {} /\ rentals[i] \in Booking
    BY <1>2, MonthBookingHasDays
  <2>2. B \in SUBSET D
    BY <1>0 DEF BookedDays
  <2>3. SumFunctionOnSet(w, B) = h[i]
    BY <2>1, OmsetOfMonth
  <2>4. (\A d \in B : q[d] = w[d]) /\ \A d \in D \ B : q[d] = 0
    BY <1>4, <2>2 DEF MoneyOn
  <2>5. \A d \in D : q[d] \in Nat
    BY <1>3, <1>4
  <2> HIDE DEF B, q, w, D, S, h
  <2>6. \A d \in B : q[d] \in Int
    BY <2>2, <2>5
  <2>7. SumFunctionOnSet(q, D) = SumFunctionOnSet(q, B)
    BY <1>0, <2>2, <2>4, <2>6, SumZeros
  <2>8. SumFunctionOnSet(q, B) = SumFunctionOnSet(w, B)
    BY <1>0, <2>2, <2>4, FS_Subset, SumSame
  <2> QED
    BY <2>3, <2>7, <2>8 DEF q
<1>7. Recap(S, m, LAMBDA item : item.omset) = SumFunctionOnSet(h, S)
  BY SumIs DEF Recap
<1> HIDE DEF h, S, D
<1>8. Transposed(D, S, rows, columns) /\ Sums(D, S, rows, g) /\ Sums(S, D, columns, h)
  BY <1>3, <1>4, <1>5, <1>6 DEF Transposed, Sums
<1>9. SumFunctionOnSet(g, D) = SumFunctionOnSet(h, S)
  BY <1>0, <1>1, <1>8, SumSwapped
<1>10. \A d \in D : g[d] \in Int
  BY <1>5
<1> QED
  BY <1>7, <1>9, <1>10 DEF S, D

\* The rows of the matrix add up to its days.
LEMMA RowsAreDays ==
    ASSUME MatrixInv, NEW mode \in Modes, NEW m \in Months,
           NEW g, \A d \in WholeMonth(m) : g[d] = MatrixDay(mode, m, d)
    PROVE  MatrixTotal(mode, m) = SumFunctionOnSet(g, WholeMonth(m))
<1> DEFINE K == MatrixSubjects(mode, m)
           D == WholeMonth(m)
           rows == [k \in K |-> [d \in D |-> CellTotal(mode, m, k, d)]]
           columns == [d \in D |-> [k \in K |-> CellTotal(mode, m, k, d)]]
           r == [k \in K |-> RowTotal(mode, m, k)]
<1>0. BookingsInv /\ KeptDays(m) = D /\ IsFiniteSet(D) /\ D = 1..DaysIn[m]
  BY WholeMonthDays DEF MatrixInv
<1>1. IsFiniteSet(K)
  BY <1>0, SubjectsFinite
<1>2. ASSUME NEW k \in K, NEW d \in D
      PROVE  rows[k][d] = CellTotal(mode, m, k, d) /\ columns[d][k] = CellTotal(mode, m, k, d)
  OBVIOUS
<1>3. ASSUME NEW k \in K, NEW d \in D PROVE CellTotal(mode, m, k, d) \in Int
  <2>1. CellGojek(mode, m, k, d) \in Nat /\ CellGrab(mode, m, k, d) \in Nat /\ CellRental(mode, m, k, d) \in Nat
    BY <1>0, DayAddsUp
  <2> QED
    BY <2>1 DEF CellTotal
<1>4. ASSUME NEW k \in K PROVE r[k] = SumFunctionOnSet(rows[k], D)
  <2>1. r[k] = SumFunction(rows[k])
    BY <1>0 DEF RowTotal
  <2>2. DOMAIN rows[k] = D
    OBVIOUS
  <2> HIDE DEF rows, r
  <2> QED
    BY <2>1, <2>2, SumIs
<1>5. ASSUME NEW d \in D PROVE g[d] = SumFunctionOnSet(columns[d], K)
  <2>1. g[d] = SumFunction(columns[d])
    BY DEF MatrixDay
  <2>2. DOMAIN columns[d] = K
    OBVIOUS
  <2> HIDE DEF columns, K
  <2> QED
    BY <2>1, <2>2, SumIs
<1>6. MatrixTotal(mode, m) = SumFunctionOnSet(r, K)
  BY SumIs DEF MatrixTotal
<1> HIDE DEF rows, columns, r, K, D
<1>7. Transposed(K, D, rows, columns) /\ Sums(K, D, rows, r) /\ Sums(D, K, columns, g)
  BY <1>2, <1>3, <1>4, <1>5 DEF Transposed, Sums
<1>8. SumFunctionOnSet(r, K) = SumFunctionOnSet(g, D)
  BY <1>0, <1>1, <1>7, SumSwapped
<1> QED
  BY <1>6, <1>8 DEF D

\* The matrix of a month is what the three screens show of it.
LEMMA MonthAddsUp ==
    ASSUME MatrixInv, NEW mode \in Modes, NEW m \in Months
    PROVE  MatrixTotal(mode, m) + Counted(OffMonth(m)) + Earned(Overflow("partner", m))
               = TableDeduction("plate", m) + TotalEarnings("partner", "plate", m, AnyDay)
                     + Recap(MonthBookings(m), m, LAMBDA item : item.omset)
<1> DEFINE D == WholeMonth(m)
           gojek == [d \in D |-> DailyTotal("plate", m, d)]
           grab == [d \in D |-> DailyEarnings("partner", "plate", m, d)]
           rental == [d \in D |-> OmsetOf(DayBookings(m, d), m, d)]
           sources == [d \in D |-> gojek[d] + grab[d]]
           total == [d \in D |-> MatrixDay(mode, m, d)]
           recap == Recap(MonthBookings(m), m, LAMBDA item : item.omset)
<1>0. RowsInv /\ TripInv /\ IsFiniteSet(D) /\ D = 1..DaysIn[m]
  BY WholeMonthDays DEF MatrixInv
<1>1. /\ SumFunctionOnSet(gojek, D) + Counted(OffMonth(m)) = TableDeduction("plate", m)
      /\ SumFunctionOnSet(gojek, D) \in Int /\ Counted(OffMonth(m)) \in Int
  <2>1. \A d \in D : gojek[d] = DailyTotal("plate", m, d)
    OBVIOUS
  <2> HIDE DEF gojek
  <2> QED
    BY <2>1, GojekMonth
<1>2. /\ SumFunctionOnSet(grab, D) + Earned(Overflow("partner", m)) = TotalEarnings("partner", "plate", m, AnyDay)
      /\ SumFunctionOnSet(grab, D) \in Int /\ Earned(Overflow("partner", m)) \in Int
  <2>1. \A d \in D : grab[d] = DailyEarnings("partner", "plate", m, d)
    OBVIOUS
  <2> HIDE DEF grab
  <2> QED
    BY <2>1, GrabMonth
<1>3. SumFunctionOnSet(rental, D) = recap /\ \A d \in D : rental[d] \in Int
  <2>1. \A d \in D : rental[d] = OmsetOf(DayBookings(m, d), m, d)
    OBVIOUS
  <2> HIDE DEF rental
  <2> QED
    BY <2>1, RentalMonth
<1>4. SumFunctionOnSet(total, D) = MatrixTotal(mode, m)
  <2>1. \A d \in D : total[d] = MatrixDay(mode, m, d)
    OBVIOUS
  <2> HIDE DEF total
  <2> QED
    BY <2>1, RowsAreDays
<1>5. ASSUME NEW d \in D PROVE gojek[d] \in Int /\ grab[d] \in Int
  <2>1. gojek[d] = Counted(OnDay(PivotRows(m), d)) /\ grab[d] = Earned(WindowTrips("partner", m, {d}))
    BY <1>0, SubPartner, DailyIs, TotalIs DEF DailyEarnings
  <2>2. OnDay(PivotRows(m), d) \subseteq Live
    BY ScopedLive DEF OnDay
  <2>3. WindowTrips("partner", m, {d}) \subseteq Imported
    BY SubPartner, ScopeImported DEF WindowTrips
  <2>4. Counted(OnDay(PivotRows(m), d)) \in Nat
    BY <1>0, <2>2, FiguresAre
  <2>5. Earned(WindowTrips("partner", m, {d})) \in Int
    <3>1. WindowTrips("partner", m, {d}) \cap {} = {} /\ {} \subseteq Imported
      OBVIOUS
    <3> QED
      BY <1>0, <2>3, <3>1, EarnedInParts
  <2> HIDE DEF gojek, grab
  <2> QED
    BY <2>1, <2>4, <2>5
<1>6. \A d \in D : sources[d] = gojek[d] + grab[d] /\ sources[d] \in Int
  <2>1. \A d \in D : sources[d] = gojek[d] + grab[d]
    OBVIOUS
  <2> HIDE DEF sources, gojek, grab
  <2> QED
    BY <1>5, <2>1
<1>7. \A d \in D : total[d] = sources[d] + rental[d]
  BY <1>0, DayAddsUp
<1> HIDE DEF D, gojek, grab, rental, sources, total, recap
<1>8. SumFunctionOnSet(sources, D) = SumFunctionOnSet(gojek, D) + SumFunctionOnSet(grab, D)
  BY <1>0, <1>5, <1>6, SumPlus
<1>9. SumFunctionOnSet(total, D) = SumFunctionOnSet(sources, D) + SumFunctionOnSet(rental, D)
  BY <1>0, <1>3, <1>6, <1>7, SumPlus
<1>10. recap \in Int
  BY <1>0, <1>3, SumInt
<1> QED
  BY <1>1, <1>2, <1>3, <1>4, <1>8, <1>9, <1>10 DEF recap

\* Rows without a registered plate are out of scope.
LEMMA NoNamelessPlate == ASSUME MatrixInv, NEW m PROVE NoPlate \notin MatrixSubjects("plate", m)
<1>0. RowsInv /\ TripInv /\ BookingsInv
  BY DEF MatrixInv
<1>1. NoPlate \notin PivotKeys("plate", m)
  BY <1>0, SubPartner, KeysType DEF PivotKeys, PivotRows
<1>2. NoPlate \notin {key[1] : key \in PartnerTrips("plate", m)}
  <2>1. \A t \in MonthTrips("partner", m) : trips[t].plate # NoPlate
    BY FleetAssumption, MatrixAssumption DEF MonthTrips, InScope
  <2> QED
    BY <2>1 DEF PartnerTrips, GrabKeys, GrabKey
<1>3. NoPlate \notin {rentals[i].plate : i \in MonthBookings(m)}
  <2>1. \A i \in MonthBookings(m) : rentals[i].plate \in RentalPlates
    BY <1>0 DEF MonthBookings, Booked, BookingsInv, Booking
  <2> QED
    BY <2>1, MatrixAssumption
<1> QED
  BY <1>1, <1>2, <1>3 DEF MatrixSubjects

\* A sequence of all the elements of a set, each once, has each of them.
LEMMA SeqsCover ==
    ASSUME NEW S, IsFiniteSet(S), NEW order \in SetToSeqs(S)
    PROVE  /\ DOMAIN order = 1..Cardinality(S) /\ \A n \in DOMAIN order : order[n] \in S
           /\ \A x \in S : \E n \in DOMAIN order : order[n] = x
<1> DEFINE D == 1..Cardinality(S)
<1>1. order \in [D -> S] /\ \A i, j \in D : i # j => order[i] # order[j]
  BY DEF SetToSeqs
<1>2. order \in Injection(D, S)
  BY <1>1 DEF Injection, IsInjective
<1>3. Cardinality(S) \in Nat
  BY FS_CardinalityType
<1>4. Cardinality(D) = Cardinality(S)
  BY <1>3, FS_Interval
<1>5. order \in Surjection(D, S)
  BY <1>2, <1>4, FS_Injection
<1> QED
  BY <1>1, <1>5 DEF Surjection

\* Amounts are never below zero, so an empty cell has nothing in it to hide the mark.
LEMMA EmptyCellsAreMarked ==
    ASSUME MatrixInv, NEW mode \in Modes, NEW m \in Months, NEW d \in 1..DaysIn[m], NEW k,
           CellTotal(mode, m, k, d) = 0,
           d \in GojekSeen(mode, m, k) \/ \E key \in GrabRowsOf(mode, m, k) : d \in GrabSeen(mode, m, key),
           NEW order \in SetToSeqs(GrabRowsOf(mode, m, k))
    PROVE  IsZero(mode, m, k, d, order)
<1> DEFINE K == GrabRowsOf(mode, m, k)
           g == [key \in K |-> DailyEarning("partner", mode, m, key, d)]
<1>0. RowsInv /\ TripInv /\ BookingsInv
  BY DEF MatrixInv
<1>1. CellGojek(mode, m, k, d) = 0 /\ CellGrab(mode, m, k, d) = 0
  <2>1. /\ CellGojek(mode, m, k, d) \in Nat /\ CellGrab(mode, m, k, d) \in Nat /\ CellRental(mode, m, k, d) \in Nat
    BY DayAddsUp
  <2>2. \A a, b, c \in Nat : a + b + c = 0 => a = 0 /\ b = 0
    OBVIOUS
  <2> QED
    BY <2>1, <2>2 DEF CellTotal
<1>2. CASE d \in GojekSeen(mode, m, k)
  BY <1>1, <1>2 DEF IsZero, ZeroAfterGojek
<1>3. ASSUME NEW key \in K, d \in GrabSeen(mode, m, key) PROVE IsZero(mode, m, k, d, order)
  <2>1. IsFiniteSet(K)
    <3>1. K \in SUBSET GrabKeys("partner", mode, m)
      BY DEF GrabRowsOf, PartnerTrips
    <3> QED
      BY <3>1, SubPartner, KeysFinite, FS_Subset
  <2>2. ASSUME NEW x \in K PROVE g[x] \in Nat
    <3> DEFINE R == Windowed("partner", mode, m, x, {d})
    <3>1. R \subseteq Imported
      BY SubPartner, ScopeImported DEF Windowed, GrabRow
    <3>2. g[x] = Earned(R)
      BY DEF DailyEarning, RowEarning
    <3> HIDE DEF R, g
    <3>3. \A t \in R : Money[t] \in Nat
      <4>1. \A t \in R : t \in TripIds /\ trips[t] \in Trip
        BY <1>0, <3>1, ImportedTrip
      <4> QED
        BY <4>1, GrabAssumption DEF Money, Trip
    <3> QED
      BY <1>0, <3>1, <3>2, <3>3, TripsFinite, EarnedIs, SumInt
  <2>3. CellGrab(mode, m, k, d) = SumFunctionOnSet(g, K)
    BY SumIs DEF CellGrab
  <2>4. \A x \in K : g[x] = DailyEarning("partner", mode, m, x, d)
    OBVIOUS
  <2> HIDE DEF g, K
  <2>5. \A x \in K : g[x] = 0
    BY <1>1, <2>1, <2>2, <2>3, SumIsZero
  <2>6. PICK n \in DOMAIN order : order[n] = key
    BY <2>1, <1>3, SeqsCover DEF K
  <2>7. DOMAIN order = 1..Cardinality(K) /\ Cardinality(K) \in Nat /\ \A j \in DOMAIN order : order[j] \in K
    BY <2>1, SeqsCover, FS_CardinalityType DEF K
  <2>8. \A j \in 1..n : j \in DOMAIN order
    BY <2>7
  <2>9. \A j \in 1..n : DailyEarning("partner", mode, m, order[j], d) = 0
    BY <2>4, <2>5, <2>7, <2>8
  <2> QED
    BY <1>1, <1>3, <2>6, <2>9 DEF IsZero, MarkedByGrab
<1> QED
  BY <1>2, <1>3

LEMMA MatrixOfInv == MatrixInv => MatrixAgrees
<1> SUFFICES ASSUME MatrixInv, NEW mode \in Modes, NEW m \in Months
             PROVE  /\ MatrixTotal(mode, m) + Counted(OffMonth(m)) + Earned(Overflow("partner", m))
                           = TableDeduction("plate", m) + TotalEarnings("partner", "plate", m, AnyDay)
                                 + Recap(MonthBookings(m), m, LAMBDA item : item.omset)
                    /\ NoPlate \notin MatrixSubjects("plate", m)
                    /\ \A d \in WholeMonth(m) :
                          /\ MatrixDay(mode, m, d)
                                 = DailyTotal("plate", m, d) + DailyEarnings("partner", "plate", m, d)
                                       + OmsetOf(DayBookings(m, d), m, d)
                          /\ \A k \in MatrixSubjects(mode, m) :
                                 /\ CellExplained(mode, m, k, d) + Earned(CellStrays(mode, m, k, d))
                                        = CellTotal(mode, m, k, d)
                                 /\ (/\ CellTotal(mode, m, k, d) = 0
                                     /\ \/ d \in GojekSeen(mode, m, k)
                                        \/ \E key \in GrabRowsOf(mode, m, k) : d \in GrabSeen(mode, m, key))
                                    => \A order \in SetToSeqs(GrabRowsOf(mode, m, k)) :
                                           IsZero(mode, m, k, d, order)
  BY DEF MatrixAgrees
<1>1. WholeMonth(m) = 1..DaysIn[m]
  BY WholeMonthDays
<1> QED
  BY <1>1, MonthAddsUp, DayAddsUp, NoNamelessPlate, CellIsExplained, EmptyCellsAreMarked

LEMMA MatrixInvInit == MatrixInit => MatrixInv
<1>1. FleetInit => RowsInv
  BY RowsInvInit
<1>2. GrabInit => TripInv
  BY DEF GrabInit, TripInv
<1>3. RentalInit => BookingsInv
  BY DEF RentalInit, BookingsInv
<1>4. RentalInit => Ordered
  BY DEF RentalInit, Ordered, Booked
<1> QED
  BY <1>1, <1>2, <1>3, <1>4 DEF MatrixInit, MatrixInv

\* An import or edit keeps rows rows, trips trips and bookings bookings.
LEMMA MatrixInvNext == MatrixInv /\ [MatrixNext]_matrixVars => MatrixInv'
<1> SUFFICES ASSUME MatrixInv, [MatrixNext]_matrixVars PROVE MatrixInv'
  OBVIOUS
<1>1. RowsInv'
  <2>1. ASSUME NEW i \in Ids, NEW r \in Importable, ImportRow(i, r) PROVE RowsInv'
    BY <2>1, ImportKeeps DEF MatrixInv
  <2>2. \/ \E i \in Ids, r \in Importable : ImportRow(i, r)
        \/ [FleetNext]_fleetVars
    BY DEF MatrixNext, matrixVars, FleetStep, FleetNext
  <2> QED
    BY <2>1, <2>2, RowsInvNext DEF MatrixInv
<1>2. TripInv'
  <2>1. CASE trips' = trips
    BY <2>1 DEF MatrixInv, TripInv
  <2>2. CASE GrabStep
    BY <2>2 DEF MatrixInv, TripInv, GrabStep, ImportTrip
  <2> QED
    BY <2>1, <2>2 DEF MatrixNext, matrixVars
<1>3. BookingsInv'
  <2>1. CASE rentals' = rentals
    BY <2>1 DEF MatrixInv, BookingsInv
  <2>2. CASE RentalStep
    BY <2>2 DEF MatrixInv, BookingsInv, RentalStep, CreateRental, RemoveRental
  <2> QED
    BY <2>1, <2>2 DEF MatrixNext, matrixVars, rentalVars
<1>4. Ordered'
  <2>1. CASE rentals' = rentals
    BY <2>1 DEF MatrixInv, Ordered, Booked
  <2>2. CASE RentalStep
    BY <2>2 DEF MatrixInv, Ordered, Booked, BookingsInv, RentalStep, CreateRental, RemoveRental
  <2> QED
    BY <2>1, <2>2 DEF MatrixNext, matrixVars, rentalVars
<1> QED
  BY <1>1, <1>2, <1>3, <1>4 DEF MatrixInv

\* For any rows, trips and bookings, also of files uploaded for another month, the
\* matrix by plate and by driver shows on every day what the three sources report and
\* over the month what their screens do but for the days the month does not have, a
\* cell is what its drill-down lists but for Grab trips dated in another month, no
\* plate is nameless and a cell with data but no money is marked, in whatever order
\* the Grab rows are absorbed (buildAllFleetMatrix, PortalAllFleetService.cell).
THEOREM MatrixScreensAgree == MatrixSpec => []MatrixAgrees
BY MatrixInvInit, MatrixInvNext, MatrixOfInv, PTL DEF MatrixSpec
=============================================================================
