---------------------------- MODULE FleetProofs -----------------------------
(***************************************************************************)
(* The figures of the monitoring screens of Gojek and Grab agree, for any  *)
(* number of rows and trips and whatever order they arrive in.             *)
(***************************************************************************)
EXTENDS FleetGrid, GrabGrid, SetoranColumn, SumTheorems, SequenceTheorems, TLAPS

-----------------------------------------------------------------------------
(***************************************************************************)
(* Days, months and ranges of days.                                        *)
(***************************************************************************)

\* Months have days.
LEMMA MonthLength == \A m \in Months : DaysIn[m] \in Nat \ {0}
BY CalendarAssumption DEF Months

\* A date is a day of one of the months.
LEMMA DateParts == \A x \in Dates : x[1] \in Months /\ x[2] \in 1..DaysIn[x[1]] /\ x = <<x[1], x[2]>>
BY DEF Dates

LEMMA MonthsAreInts == Months \subseteq Int /\ \A x \in Dates : x[1] \in Int /\ x[2] \in Int
BY MonthLength, DateParts, CalendarAssumption DEF Months

\* The months of a range, and the days of each.
LEMMA RangeByMonth ==
    ASSUME NEW from \in Dates, NEW to \in Dates
    PROVE  /\ IsFiniteSet(MonthsOf(from, to)) /\ MonthsOf(from, to) \subseteq Months
           /\ \A m \in MonthsOf(from, to) : WindowOf(from, to, m) \subseteq 1..DaysIn[m]
           /\ \A x \in Dates : Between(from, x, to) <=>
                  x[1] \in MonthsOf(from, to) /\ x[2] \in WindowOf(from, to, x[1])
<1>1. /\ from[1] \in Months /\ to[1] \in Months /\ from[1] \in Int /\ to[1] \in Int
      /\ from[2] \in 1..DaysIn[from[1]] /\ to[2] \in 1..DaysIn[to[1]] /\ from[2] \in Int /\ to[2] \in Int
  BY DateParts, MonthsAreInts
<1>2. IsFiniteSet(MonthsOf(from, to))
  BY <1>1, FS_Interval DEF MonthsOf
<1>3. MonthsOf(from, to) \subseteq Months
  BY <1>1, CalendarAssumption DEF MonthsOf, Months
<1>4. ASSUME NEW m \in MonthsOf(from, to) PROVE WindowOf(from, to, m) \subseteq 1..DaysIn[m]
  <2>1. DaysIn[m] \in Nat
    BY <1>3, MonthLength
  <2>2. FromDay(from, m) \in Int /\ FromDay(from, m) >= 1
    BY <1>1, MonthLength DEF FromDay
  <2>3. ToDay(to, m) \in Int /\ ToDay(to, m) <= DaysIn[m]
    BY <1>1, <2>1, MonthLength DEF ToDay
  <2> QED
    BY <2>1, <2>2, <2>3 DEF WindowOf
<1>5. ASSUME NEW x \in Dates
      PROVE  Between(from, x, to) <=> x[1] \in MonthsOf(from, to) /\ x[2] \in WindowOf(from, to, x[1])
  <2>1. x[1] \in Int /\ x[2] \in Int /\ DaysIn[x[1]] \in Int /\ 1 <= x[2] /\ x[2] <= DaysIn[x[1]]
    BY DateParts, MonthsAreInts, MonthLength
  <2> QED
    BY <1>1, <2>1 DEF Between, Upto, MonthsOf, WindowOf, FromDay, ToDay
<1> QED
  BY <1>2, <1>3, <1>4, <1>5

LEMMA DatesFinite == IsFiniteSet(Dates)
<1> DEFINE DaysOf == [m \in Months |-> {m} \X (1..DaysIn[m])]
           All == {{m} \X (1..DaysIn[m]) : m \in Months}
<1>1. IsFiniteSet(Months)
  BY CalendarAssumption, LenProperties, FS_Interval DEF Months
<1>2. \A D \in All : \E m \in Months : DaysOf[m] = D
  OBVIOUS
<1>3. IsFiniteSet(All)
  <2> HIDE DEF All, DaysOf
  <2> QED
    BY <1>1, <1>2, ImageFinite
<1>4. ASSUME NEW m \in Months PROVE IsFiniteSet({m} \X (1..DaysIn[m]))
  <2>1. IsFiniteSet({m}) /\ IsFiniteSet(1..DaysIn[m])
    <3>1. DaysIn[m] \in Int
      BY MonthLength
    <3>2. IsFiniteSet(1..DaysIn[m])
      BY <3>1, FS_Interval
    <3> QED
      BY <3>2, FS_Singleton
  <2> QED
    BY <2>1, FS_Product
<1>5. \A D \in All : IsFiniteSet(D)
  BY <1>4
<1>6. Dates = UNION All
  BY DEF Dates
<1> HIDE DEF All
<1> QED
  BY <1>3, <1>5, <1>6, FS_UNION

\* A range of one day is that day.
LEMMA OneDay == \A d, x \in Dates : Between(d, x, d) <=> x = d
<1>1. SUFFICES ASSUME NEW d \in Dates, NEW x \in Dates PROVE Between(d, x, d) <=> x = d
  OBVIOUS
<1>2. d[1] \in Int /\ d[2] \in Int /\ x[1] \in Int /\ x[2] \in Int /\ d = <<d[1], d[2]>> /\ x = <<x[1], x[2]>>
  BY DateParts, MonthsAreInts
<1>3. Between(d, x, d) <=> x[1] = d[1] /\ x[2] = d[2]
  BY <1>2 DEF Between, Upto
<1> QED
  BY <1>2, <1>3

\* Dates are in a line.
LEMMA UptoDates ==
    /\ \A a, b, c \in Dates : Before(a, b) /\ Upto(b, c) => Before(a, c)
    /\ \A a, b \in Dates : Upto(a, b) /\ ~Before(a, b) => a = b
    /\ \A a, b \in Dates : Upto(a, b) => a[1] <= b[1]
<1>1. ASSUME NEW a \in Dates, NEW b \in Dates
      PROVE  /\ a[1] \in Int /\ a[2] \in Int /\ a = b <=> a[1] = b[1] /\ a[2] = b[2]
  BY DateParts, MonthsAreInts
<1> QED
  BY <1>1 DEF Before, Upto

-----------------------------------------------------------------------------
(***************************************************************************)
(* The setoran column of a driver in the monthly table: whatever was       *)
(* billed on the days of the month, the segments it is stored as decode to *)
(* it.  The walk keeps what the segments say of the days already walked    *)
(* (ColumnInv).                                                            *)
(***************************************************************************)

Walked == 1..Len(dailyDue)

\* Segments are spans of walked days, one after the other, whose ends were billed
\* with their amount; neighbours differ, and a billed day is in one of its amount.
SegmentsInv ==
    /\ segments \in Seq([amount : Nat, fromDay : Nat, toDay : Nat])
    /\ \A n \in 1..Len(segments) :
           /\ segments[n].fromDay \in Walked /\ segments[n].toDay \in Walked
           /\ segments[n].fromDay <= segments[n].toDay
           /\ dailyDue[segments[n].fromDay] = segments[n].amount
           /\ dailyDue[segments[n].toDay] = segments[n].amount
           /\ n > 1 => segments[n].amount # segments[n - 1].amount
    /\ \A n, k \in 1..Len(segments) : n < k => segments[n].toDay < segments[k].fromDay
    /\ \A d \in Walked : dailyDue[d] > 0 =>
           \E n \in 1..Len(segments) :
               d \in segments[n].fromDay..segments[n].toDay /\ segments[n].amount = dailyDue[d]

\* The rate knows how often and when last its amount was billed, and no amount
\* was billed more often, or as often and later.
RateInv ==
    /\ rate \in [amount : Nat, count : Nat, day : Int]
    /\ rate.amount = 0 => rate.count = 0 /\ \A a \in Nat \ {0} : DaysAt(a) = {}
    /\ rate.amount # 0 =>
           /\ rate.day \in DaysAt(rate.amount) /\ rate.count = Cardinality(DaysAt(rate.amount))
           /\ \A d \in DaysAt(rate.amount) : d <= rate.day
    /\ rate.day <= Len(dailyDue)
    /\ \A a \in Nat \ {0} :
           \/ Cardinality(DaysAt(a)) < rate.count
           \/ Cardinality(DaysAt(a)) = rate.count /\ \A e \in DaysAt(a) : e <= rate.day

ColumnInv == dailyDue \in Seq(Nat) /\ SegmentsInv /\ RateInv

-----------------------------------------------------------------------------
\* The days of an amount are among those walked.
LEMMA DaysFinite ==
    ASSUME dailyDue \in Seq(Nat), NEW a
    PROVE  /\ IsFiniteSet(DaysAt(a)) /\ Cardinality(DaysAt(a)) \in Nat
           /\ DaysAt(a) \subseteq Walked /\ Walked \subseteq Nat \ {0}
<1>1. Len(dailyDue) \in Nat
  BY LenProperties
<1>2. IsFiniteSet(Walked)
  BY <1>1, FS_Interval DEF Walked
<1>3. DaysAt(a) \in SUBSET Walked
  BY DEF DaysAt, Walked
<1> QED
  BY <1>1, <1>2, <1>3, FS_Subset, FS_CardinalityType DEF Walked

\* One more day.
LEMMA DayAppended ==
    ASSUME dailyDue \in Seq(Nat), NEW amount \in Nat, dailyDue' = Append(dailyDue, amount)
    PROVE  /\ dailyDue' \in Seq(Nat)
           /\ Today \in Nat \ {0} /\ Len(dailyDue)' = Today /\ Today \notin Walked
           /\ Len(dailyDue) \in Nat /\ Today = Len(dailyDue) + 1
           /\ Walked' = Walked \cup {Today}
           /\ \A d \in Walked : dailyDue'[d] = dailyDue[d] /\ d <= Len(dailyDue) /\ d \in Nat \ {0}
           /\ dailyDue'[Today] = amount
           /\ \A a : DaysAt(a)' = DaysAt(a) \cup (IF a = amount THEN {Today} ELSE {})
           /\ \A a : Cardinality(DaysAt(a))' = Cardinality(DaysAt(a)) + (IF a = amount THEN 1 ELSE 0)
<1>1. /\ dailyDue' \in Seq(Nat) /\ Len(dailyDue') = Len(dailyDue) + 1 /\ Len(dailyDue) \in Nat
      /\ \A d \in 1..Len(dailyDue) : dailyDue'[d] = dailyDue[d]
      /\ dailyDue'[Len(dailyDue) + 1] = amount
  BY AppendProperties, LenProperties
<1>2. /\ Today \in Nat \ {0} /\ Len(dailyDue') = Today /\ Today \notin Walked /\ Today = Len(dailyDue) + 1
      /\ Walked' = Walked \cup {Today}
      /\ \A d \in Walked : d <= Len(dailyDue) /\ d \in Nat \ {0}
  BY <1>1 DEF Walked, Today
<1>3. ASSUME NEW a PROVE DaysAt(a)' = DaysAt(a) \cup (IF a = amount THEN {Today} ELSE {})
  <2>1. DaysAt(a)' = {d \in Walked \cup {Today} : dailyDue'[d] = a}
    BY <1>2 DEF DaysAt, Walked
  <2>2. DaysAt(a) = {d \in Walked : dailyDue[d] = a}
    BY DEF DaysAt, Walked
  <2>3. \A d \in Walked : dailyDue'[d] = dailyDue[d]
    BY <1>1 DEF Walked
  <2>4. dailyDue'[Today] = amount
    BY <1>1 DEF Today
  <2> QED
    BY <2>1, <2>2, <2>3, <2>4
<1>4. ASSUME NEW a PROVE Cardinality(DaysAt(a))' = Cardinality(DaysAt(a)) + (IF a = amount THEN 1 ELSE 0)
  <2>1. IsFiniteSet(DaysAt(a)) /\ Cardinality(DaysAt(a)) \in Nat /\ Today \notin DaysAt(a)
    BY <1>2, DaysFinite
  <2>2. CASE a = amount
    <3>1. Cardinality(DaysAt(a) \cup {Today}) = Cardinality(DaysAt(a)) + 1
      BY <2>1, FS_AddElement
    <3> QED
      BY <1>3, <2>2, <3>1
  <2>3. CASE a # amount
    <3>1. DaysAt(a)' = DaysAt(a)
      BY <1>3, <2>3
    <3> QED
      BY <2>1, <2>3, <3>1
  <2> QED
    BY <2>2, <2>3
<1>5. /\ \A d \in Walked : dailyDue'[d] = dailyDue[d]
      /\ dailyDue'[Today] = amount
  BY <1>1 DEF Walked, Today
<1> QED
  BY <1>1, <1>2, <1>3, <1>4, <1>5

LEMMA ColumnInvInit == ColumnInit => ColumnInv
<1> SUFFICES ASSUME ColumnInit PROVE ColumnInv
  OBVIOUS
<1>1. dailyDue = <<>> /\ segments = <<>> /\ dailyDue \in Seq(Nat) /\ Len(dailyDue) = 0 /\ Len(segments) = 0
  BY DEF ColumnInit
<1>2. Walked = {} /\ 1..Len(segments) = {}
  BY <1>1 DEF Walked
<1>3. SegmentsInv
  BY <1>1, <1>2 DEF SegmentsInv
<1>4. RateInv
  <2>1. rate = [amount |-> 0, count |-> 0, day |-> -1]
    BY DEF ColumnInit
  <2>2. \A a : DaysAt(a) = {}
    BY <1>1 DEF DaysAt
  <2>3. \A a : Cardinality(DaysAt(a)) = 0
    BY <2>2, FS_EmptySet
  <2> QED
    BY <1>1, <2>1, <2>2, <2>3 DEF RateInv
<1> QED
  BY <1>1, <1>3, <1>4 DEF ColumnInv

\* A day without a bill ends no segment and changes no rate.
LEMMA UnbilledKeeps == ASSUME ColumnInv, UnbilledDay PROVE ColumnInv'
<1>1. dailyDue \in Seq(Nat) /\ dailyDue' = Append(dailyDue, 0) /\ segments' = segments /\ rate' = rate
  BY DEF ColumnInv, UnbilledDay
<1>2. /\ dailyDue' \in Seq(Nat)
      /\ Today \in Nat \ {0} /\ Len(dailyDue)' = Today /\ Today \notin Walked
      /\ Len(dailyDue) \in Nat /\ Today = Len(dailyDue) + 1
      /\ Walked' = Walked \cup {Today}
      /\ \A d \in Walked : dailyDue'[d] = dailyDue[d] /\ d <= Len(dailyDue) /\ d \in Nat \ {0}
      /\ dailyDue'[Today] = 0
      /\ \A a : DaysAt(a)' = DaysAt(a) \cup (IF a = 0 THEN {Today} ELSE {})
      /\ \A a : Cardinality(DaysAt(a))' = Cardinality(DaysAt(a)) + (IF a = 0 THEN 1 ELSE 0)
  BY <1>1, DayAppended
<1>3. SegmentsInv'
  <2>1. /\ segments \in Seq([amount : Nat, fromDay : Nat, toDay : Nat])
        /\ \A n, k \in 1..Len(segments) : n < k => segments[n].toDay < segments[k].fromDay
    BY DEF ColumnInv, SegmentsInv
  <2>2. ASSUME NEW n \in 1..Len(segments)
        PROVE  /\ segments[n].fromDay \in Walked' /\ segments[n].toDay \in Walked'
               /\ segments[n].fromDay <= segments[n].toDay
               /\ dailyDue'[segments[n].fromDay] = segments[n].amount
               /\ dailyDue'[segments[n].toDay] = segments[n].amount
               /\ n > 1 => segments[n].amount # segments[n - 1].amount
    BY <1>2 DEF ColumnInv, SegmentsInv
  <2>3. ASSUME NEW d \in Walked', dailyDue'[d] > 0
        PROVE  \E n \in 1..Len(segments) :
                   d \in segments[n].fromDay..segments[n].toDay /\ segments[n].amount = dailyDue'[d]
    <3>1. d \in Walked /\ dailyDue'[d] = dailyDue[d] /\ dailyDue[d] > 0
      BY <1>2, <2>3
    <3> QED
      BY <3>1 DEF ColumnInv, SegmentsInv
  <2> QED
    BY <1>1, <2>1, <2>2, <2>3 DEF SegmentsInv
<1>4. \A a : a # 0 => DaysAt(a)' = DaysAt(a) /\ Cardinality(DaysAt(a))' = Cardinality(DaysAt(a)) + 0
  BY <1>2
<1>5. \A a : a # 0 => DaysAt(a)' = DaysAt(a) /\ Cardinality(DaysAt(a))' = Cardinality(DaysAt(a))
  BY <1>1, <1>4, DaysFinite
<1>6. RateInv'
  <2>1. rate \in [amount : Nat, count : Nat, day : Int] /\ rate.day <= Len(dailyDue)
    BY DEF ColumnInv, RateInv
  <2>2. rate.amount = 0 => rate.count = 0 /\ \A a \in Nat \ {0} : DaysAt(a)' = {}
    BY <1>5 DEF ColumnInv, RateInv
  <2>3. rate.amount # 0 =>
           /\ rate.day \in DaysAt(rate.amount)' /\ rate.count = Cardinality(DaysAt(rate.amount))'
           /\ \A d \in DaysAt(rate.amount)' : d <= rate.day
    BY <1>1, <1>5 DEF ColumnInv, RateInv
  <2>4. rate.day <= Len(dailyDue)'
    BY <1>2, <2>1
  <2>5. ASSUME NEW a \in Nat \ {0}
        PROVE  \/ Cardinality(DaysAt(a))' < rate.count
               \/ Cardinality(DaysAt(a))' = rate.count /\ \A e \in DaysAt(a)' : e <= rate.day
    BY <1>5 DEF ColumnInv, RateInv
  <2> QED
    BY <1>1, <2>1, <2>2, <2>3, <2>4, <2>5 DEF RateInv
<1> QED
  BY <1>2, <1>3, <1>6 DEF ColumnInv

\* A billed day extends the last segment or starts one of its own.
LEMMA EncodeKeeps ==
    ASSUME ColumnInv, NEW amount \in Nat, amount > 0, BilledDay(amount)
    PROVE  SegmentsInv'
<1> DEFINE n == Len(segments)
           Seg == [amount : Nat, fromDay : Nat, toDay : Nat]
<1>1. dailyDue \in Seq(Nat) /\ dailyDue' = Append(dailyDue, amount) /\ segments' = Encode(amount)
  BY DEF ColumnInv, BilledDay
<1>2. /\ Today \in Nat \ {0} /\ Today \notin Walked
      /\ Len(dailyDue) \in Nat /\ Today = Len(dailyDue) + 1
      /\ Walked' = Walked \cup {Today}
      /\ \A d \in Walked : dailyDue'[d] = dailyDue[d] /\ d <= Len(dailyDue) /\ d \in Nat \ {0}
      /\ dailyDue'[Today] = amount
  BY <1>1, DayAppended
<1>3. segments \in Seq(Seg) /\ n \in Nat
  BY LenProperties DEF ColumnInv, SegmentsInv
<1>4. \A k \in 1..n : segments[k] \in Seg
  BY <1>3, ElementOfSeq
<1>5. CASE n > 0 /\ segments[n].amount = amount
  <2>1. segments' = [segments EXCEPT ![n].toDay = Today]
    BY <1>1, <1>5 DEF Encode
  <2>2. n \in 1..n /\ DOMAIN segments = 1..n
    BY <1>3, <1>5, LenProperties
  <2>3. segments' = [segments EXCEPT ![n] = [segments[n] EXCEPT !.toDay = Today]]
    BY <2>1, <2>2
  <2>4. [segments[n] EXCEPT !.toDay = Today] \in Seg
    BY <1>2, <1>4, <2>2
  <2>5. segments' \in Seq(Seg) /\ Len(segments') = n
    BY <1>3, <2>2, <2>3, <2>4, ExceptSeq
  <2>6. /\ \A k \in 1..n : k # n => segments'[k] = segments[k]
        /\ segments'[n].amount = amount /\ segments'[n].fromDay = segments[n].fromDay /\ segments'[n].toDay = Today
    BY <1>4, <1>5, <2>2, <2>3
  <2>7. \A k \in 1..n : segments'[k].amount = segments[k].amount /\ segments'[k].fromDay = segments[k].fromDay
    BY <1>5, <2>6
  <2>8. ASSUME NEW k \in 1..n
        PROVE  /\ segments'[k].fromDay \in Walked' /\ segments'[k].toDay \in Walked'
               /\ segments'[k].fromDay <= segments'[k].toDay
               /\ dailyDue'[segments'[k].fromDay] = segments'[k].amount
               /\ dailyDue'[segments'[k].toDay] = segments'[k].amount
    <3>1. /\ segments[k].fromDay \in Walked /\ segments[k].toDay \in Walked
          /\ segments[k].fromDay <= segments[k].toDay
          /\ dailyDue[segments[k].fromDay] = segments[k].amount
          /\ dailyDue[segments[k].toDay] = segments[k].amount
      BY DEF ColumnInv, SegmentsInv
    <3>2. /\ dailyDue'[segments[k].fromDay] = segments[k].amount
          /\ dailyDue'[segments[k].toDay] = segments[k].amount
          /\ segments[k].fromDay <= Today
      BY <1>2, <3>1
    <3>3. CASE k = n
      BY <1>2, <2>6, <2>7, <3>1, <3>2, <3>3
    <3>4. CASE k # n
      BY <1>2, <2>6, <2>7, <3>1, <3>2, <3>4
    <3> QED
      BY <3>3, <3>4
  <2>9. \A k \in 1..n : k > 1 => segments'[k].amount # segments'[k - 1].amount
    <3>1. \A k \in 1..n : k > 1 => k - 1 \in 1..n
      BY <1>3
    <3> QED
      BY <2>7, <3>1 DEF ColumnInv, SegmentsInv
  <2>10. \A j, k \in 1..n : j < k => segments'[j].toDay < segments'[k].fromDay
    <3>1. \A j, k \in 1..n : j < k => j # n
      BY <1>3
    <3> QED
      BY <2>6, <2>7, <3>1 DEF ColumnInv, SegmentsInv
  <2>11. ASSUME NEW d \in Walked', dailyDue'[d] > 0
         PROVE  \E k \in 1..n : d \in segments'[k].fromDay..segments'[k].toDay /\ segments'[k].amount = dailyDue'[d]
    <3>1. CASE d = Today
      <4>1. segments[n].fromDay \in Nat /\ segments[n].fromDay <= Today
        BY <1>2, <2>2 DEF ColumnInv, SegmentsInv
      <4> QED
        <5>1. Today \in segments[n].fromDay..Today
          BY <1>2, <4>1
        <5>2. Today \in segments'[n].fromDay..segments'[n].toDay /\ segments'[n].amount = dailyDue'[Today]
          BY <1>2, <2>6, <5>1
        <5> QED
          BY <2>2, <3>1, <5>2
    <3>2. CASE d \in Walked
      <4>1. PICK k \in 1..n : d \in segments[k].fromDay..segments[k].toDay /\ segments[k].amount = dailyDue[d]
        BY <1>2, <2>11, <3>2 DEF ColumnInv, SegmentsInv
      <4>2. segments[k].fromDay \in Nat /\ segments[k].toDay \in Nat /\ d <= Today
        BY <1>2, <1>4, <3>2
      <4>3. d \in segments'[k].fromDay..segments'[k].toDay
        BY <1>2, <2>6, <2>7, <4>1, <4>2
      <4> QED
        BY <1>2, <2>7, <3>2, <4>1, <4>3
    <3> QED
      BY <1>2, <2>11, <3>1, <3>2
  <2> QED
    BY <2>5, <2>8, <2>9, <2>10, <2>11 DEF SegmentsInv
<1>6. CASE ~(n > 0 /\ segments[n].amount = amount)
  <2> DEFINE new == [amount |-> amount, fromDay |-> Today, toDay |-> Today]
  <2>1. segments' = Append(segments, new) /\ new \in Seg
    BY <1>1, <1>2, <1>6 DEF Encode
  <2>2. /\ segments' \in Seq(Seg) /\ Len(segments') = n + 1
        /\ \A k \in 1..n : segments'[k] = segments[k]
        /\ segments'[n + 1] = new
    BY <1>3, <2>1, AppendProperties
  <2>3. 1..(n + 1) = (1..n) \cup {n + 1} /\ n + 1 \notin 1..n
    BY <1>3
  <2>4. new.amount = amount /\ new.fromDay = Today /\ new.toDay = Today
    OBVIOUS
  <2> HIDE DEF new
  <2>5. ASSUME NEW k \in 1..(n + 1)
        PROVE  /\ segments'[k].fromDay \in Walked' /\ segments'[k].toDay \in Walked'
               /\ segments'[k].fromDay <= segments'[k].toDay
               /\ dailyDue'[segments'[k].fromDay] = segments'[k].amount
               /\ dailyDue'[segments'[k].toDay] = segments'[k].amount
    <3>1. CASE k = n + 1
      BY <1>2, <2>2, <2>4, <3>1
    <3>2. CASE k \in 1..n
      <4>1. /\ segments[k].fromDay \in Walked /\ segments[k].toDay \in Walked
            /\ segments[k].fromDay <= segments[k].toDay
            /\ dailyDue[segments[k].fromDay] = segments[k].amount
            /\ dailyDue[segments[k].toDay] = segments[k].amount
        BY <3>2 DEF ColumnInv, SegmentsInv
      <4>2. segments'[k] = segments[k]
        BY <2>2, <3>2
      <4> QED
        BY <1>2, <4>1, <4>2
    <3> QED
      BY <2>3, <3>1, <3>2
  <2>6. ASSUME NEW k \in 1..(n + 1), k > 1 PROVE segments'[k].amount # segments'[k - 1].amount
    <3>1. CASE k = n + 1
      <4>1. k - 1 = n /\ n \in 1..n /\ n > 0
        BY <1>3, <2>6, <3>1
      <4> QED
        BY <1>6, <2>2, <2>4, <3>1, <4>1
    <3>2. CASE k \in 1..n
      <4>1. k - 1 \in 1..n
        BY <1>3, <2>6, <3>2
      <4> QED
        BY <2>2, <2>6, <3>2, <4>1 DEF ColumnInv, SegmentsInv
    <3> QED
      BY <2>3, <3>1, <3>2
  <2>7. ASSUME NEW j \in 1..(n + 1), NEW k \in 1..(n + 1), j < k
        PROVE  segments'[j].toDay < segments'[k].fromDay
    <3>1. j \in 1..n
      BY <1>3, <2>7
    <3>2. CASE k = n + 1
      <4>1. segments[j].toDay \in Walked
        BY <3>1 DEF ColumnInv, SegmentsInv
      <4> QED
        <5>1. segments'[j].toDay = segments[j].toDay /\ segments'[k].fromDay = Today
          BY <2>2, <2>4, <3>1, <3>2
        <5>2. segments[j].toDay <= Len(dailyDue) /\ segments[j].toDay \in Nat
          BY <1>2, <4>1
        <5> QED
          BY <1>2, <5>1, <5>2
    <3>3. CASE k \in 1..n
      BY <2>2, <2>7, <3>1, <3>3 DEF ColumnInv, SegmentsInv
    <3> QED
      BY <2>3, <3>2, <3>3
  <2>8. ASSUME NEW d \in Walked', dailyDue'[d] > 0
        PROVE  \E k \in 1..(n + 1) : d \in segments'[k].fromDay..segments'[k].toDay /\ segments'[k].amount = dailyDue'[d]
    <3>1. CASE d = Today
      <4>1. n + 1 \in 1..(n + 1) /\ Today \in Today..Today
        BY <1>2, <1>3
      <4> QED
        <5>1. Today \in segments'[n + 1].fromDay..segments'[n + 1].toDay /\ segments'[n + 1].amount = dailyDue'[Today]
          BY <1>2, <2>2, <2>4, <4>1
        <5> QED
          BY <3>1, <4>1, <5>1
    <3>2. CASE d \in Walked
      <4>1. PICK k \in 1..n : d \in segments[k].fromDay..segments[k].toDay /\ segments[k].amount = dailyDue[d]
        BY <1>2, <2>8, <3>2 DEF ColumnInv, SegmentsInv
      <4> QED
        BY <1>2, <2>2, <2>3, <3>2, <4>1
    <3> QED
      BY <1>2, <2>8, <3>1, <3>2
  <2> QED
    BY <2>2, <2>5, <2>6, <2>7, <2>8 DEF SegmentsInv
<1> QED
  BY <1>5, <1>6

\* The rate stays the most billed amount, the newest of those billed as often.
LEMMA PreferKeeps ==
    ASSUME ColumnInv, NEW amount \in Nat, amount > 0, BilledDay(amount)
    PROVE  RateInv'
<1> DEFINE C(a) == Cardinality(DaysAt(a))
           count == C(amount) + 1
<1>1. dailyDue \in Seq(Nat) /\ dailyDue' = Append(dailyDue, amount) /\ rate' = Prefer(amount)
  BY DEF ColumnInv, BilledDay
<1>2. /\ Today \in Nat \ {0} /\ Len(dailyDue)' = Today /\ Today \notin Walked
      /\ Len(dailyDue) \in Nat /\ Today = Len(dailyDue) + 1
      /\ Walked' = Walked \cup {Today}
      /\ \A d \in Walked : dailyDue'[d] = dailyDue[d] /\ d <= Len(dailyDue) /\ d \in Nat \ {0}
      /\ dailyDue'[Today] = amount
      /\ \A a : DaysAt(a)' = DaysAt(a) \cup (IF a = amount THEN {Today} ELSE {})
      /\ \A a : Cardinality(DaysAt(a))' = Cardinality(DaysAt(a)) + (IF a = amount THEN 1 ELSE 0)
  BY <1>1, DayAppended
<1>3. rate \in [amount : Nat, count : Nat, day : Int] /\ rate.day <= Len(dailyDue) /\ rate.day < Today
  BY <1>2 DEF ColumnInv, RateInv
<1>4. \A a : C(a) \in Nat /\ DaysAt(a) \subseteq Walked
  BY <1>1, DaysFinite
<1>5. /\ \A a : a # amount => DaysAt(a)' = DaysAt(a) /\ C(a)' = C(a)
      /\ C(amount)' = count /\ DaysAt(amount)' = DaysAt(amount) \cup {Today} /\ count \in Nat /\ count > 0
  <2>1. \A a : a # amount => C(a)' = C(a) + 0
    BY <1>2
  <2> QED
    BY <1>2, <1>4, <2>1
<1>6. \A a \in Nat \ {0} : C(a) < rate.count \/ (C(a) = rate.count /\ \A e \in DaysAt(a) : e <= rate.day)
  BY DEF ColumnInv, RateInv
<1>7. rate.amount # 0 =>
           /\ rate.day \in DaysAt(rate.amount) /\ rate.count = C(rate.amount)
           /\ \A d \in DaysAt(rate.amount) : d <= rate.day
  BY DEF ColumnInv, RateInv
<1>8. rate.amount = 0 => rate.count = 0
  BY DEF ColumnInv, RateInv
<1> HIDE DEF C, count
<1>10. CASE count > rate.count \/ (count = rate.count /\ Today > rate.day)
  <2>1. rate' = [amount |-> amount, count |-> count, day |-> Today]
    BY <1>1, <1>10 DEF Prefer, count, C
  <2>2. rate'.amount = amount /\ rate'.count = count /\ rate'.day = Today
        /\ rate' \in [amount : Nat, count : Nat, day : Int]
    BY <1>2, <1>5, <2>1
  <2>3. Today \in DaysAt(amount)' /\ \A a : \A d \in DaysAt(a)' : d <= Today
    BY <1>2, <1>4, <1>5
  <2>4. rate.count <= count
    BY <1>3, <1>5, <1>10
  <2>5. ASSUME NEW a \in Nat \ {0} PROVE C(a)' < count \/ C(a)' = count
    <3>1. CASE a = amount
      BY <1>5, <3>1
    <3>2. CASE a # amount
      BY <1>3, <1>4, <1>5, <1>6, <2>4, <3>2
    <3> QED
      BY <3>1, <3>2
  <2>6. \A a \in Nat \ {0} : C(a)' < count \/ (C(a)' = count /\ \A e \in DaysAt(a)' : e <= Today)
    BY <2>3, <2>5
  <2>7. Cardinality(DaysAt(rate.amount))' = count
    BY <1>5, <2>2 DEF C
  <2>8. rate'.amount # 0 /\ rate.day' = Today /\ Len(dailyDue') = Today /\ Today <= Today
    BY <1>2, <2>2
  <2> QED
    BY <1>2, <2>2, <2>3, <2>6, <2>7, <2>8 DEF RateInv, C
<1>11. CASE ~(count > rate.count \/ (count = rate.count /\ Today > rate.day))
  <2>1. rate' = rate
    BY <1>1, <1>11 DEF Prefer, count, C
  <2>2. count < rate.count
    BY <1>3, <1>5, <1>11, <1>2
  <2>3. rate.amount # 0
    BY <1>3, <1>5, <1>8, <2>2
  <2>4. rate.amount # amount
    BY <1>4, <1>7, <2>2, <2>3 DEF count
  <2>5. /\ rate.day \in DaysAt(rate.amount)' /\ rate.count = C(rate.amount)'
        /\ \A d \in DaysAt(rate.amount)' : d <= rate.day
    BY <1>5, <1>7, <2>1, <2>3, <2>4
  <2>6. ASSUME NEW a \in Nat \ {0}
        PROVE  C(a)' < rate.count \/ (C(a)' = rate.count /\ \A e \in DaysAt(a)' : e <= rate.day)
    <3>1. CASE a = amount
      BY <1>5, <2>2, <3>1
    <3>2. CASE a # amount
      BY <1>5, <1>6, <3>2
    <3> QED
      BY <3>1, <3>2
  <2>7. rate.day <= Len(dailyDue')
    BY <1>2, <1>3
  <2> QED
    BY <1>3, <2>1, <2>3, <2>5, <2>6, <2>7 DEF RateInv, C
<1> QED
  BY <1>10, <1>11

LEMMA ColumnInvNext == ColumnInv /\ [ColumnNext]_columnVars => ColumnInv'
<1> SUFFICES ASSUME ColumnInv, [ColumnNext]_columnVars PROVE ColumnInv'
  OBVIOUS
<1>1. CASE UNCHANGED columnVars
  <2>1. dailyDue' = dailyDue /\ segments' = segments /\ rate' = rate /\ Walked' = Walked
    BY <1>1 DEF columnVars, Walked
  <2>2. \A a : DaysAt(a)' = DaysAt(a)
    BY <2>1 DEF DaysAt
  <2>3. SegmentsInv'
    BY <2>1 DEF ColumnInv, SegmentsInv
  <2>4. RateInv'
    BY <2>1, <2>2 DEF ColumnInv, RateInv
  <2> QED
    BY <2>1, <2>3, <2>4 DEF ColumnInv
<1>2. CASE UnbilledDay
  BY <1>2, UnbilledKeeps
<1>3. ASSUME NEW amount \in Dues, BilledDay(amount) PROVE ColumnInv'
  <2>1. amount \in Nat /\ amount > 0
    BY <1>3, ColumnAssumption DEF BilledDay
  <2>2. dailyDue' \in Seq(Nat)
    BY <1>3, <2>1, DayAppended DEF BilledDay, ColumnInv
  <2> QED
    BY <1>3, <2>1, <2>2, EncodeKeeps, PreferKeeps DEF ColumnInv
<1> QED
  BY <1>1, <1>2, <1>3 DEF ColumnNext

\* The segments decode to the days walked.
LEMMA DecodeOfInv == ColumnInv => SegmentsDecode
<1> SUFFICES ASSUME ColumnInv PROVE SegmentsDecode
  OBVIOUS
<1> DEFINE At(d) == {n \in 1..Len(segments) : d \in segments[n].fromDay..segments[n].toDay}
<1>1. Len(segments) \in Nat /\ \A n \in 1..Len(segments) :
          segments[n].fromDay \in Nat /\ segments[n].toDay \in Nat
  BY LenProperties, ElementOfSeq, DaysFinite DEF ColumnInv, SegmentsInv
<1>2. \A d \in Nat : \A n, k \in At(d) : n = k
  <2>1. SUFFICES ASSUME NEW d \in Nat, NEW n \in At(d), NEW k \in At(d) PROVE ~(n < k)
    <3>1. \A n, k \in 1..Len(segments) : ~(n < k) /\ ~(k < n) => n = k
      BY <1>1
    <3> QED
      BY <3>1
  <2>2. n < k => segments[n].toDay < segments[k].fromDay
    BY DEF ColumnInv, SegmentsInv
  <2> QED
    BY <1>1, <2>2
<1>3. ASSUME NEW d \in Walked, dailyDue[d] > 0
      PROVE  \E n \in At(d) : At(d) = {n} /\ segments[n].amount = dailyDue[d]
  <2>1. PICK n \in 1..Len(segments) : d \in segments[n].fromDay..segments[n].toDay /\ segments[n].amount = dailyDue[d]
    BY <1>3 DEF ColumnInv, SegmentsInv
  <2>2. n \in At(d) /\ d \in Nat
    BY <1>1, <2>1
  <2> HIDE DEF At
  <2> QED
    BY <1>2, <2>1, <2>2
<1> QED
  BY <1>3 DEF SegmentsDecode, Walked, ColumnInv, SegmentsInv

\* The rate is the mode of what was billed.
LEMMA ModeOfInv == ColumnInv => RateIsMode
<1> SUFFICES ASSUME ColumnInv PROVE RateIsMode
  OBVIOUS
<1> DEFINE NewestAt(amount) == CHOOSE d \in DaysAt(amount) : \A e \in DaysAt(amount) : e <= d
           billed == {d \in 1..Len(dailyDue) : dailyDue[d] > 0}
<1>1. dailyDue \in Seq(Nat)
  BY DEF ColumnInv
<1>2. \A a : IsFiniteSet(DaysAt(a)) /\ Cardinality(DaysAt(a)) \in Nat /\ DaysAt(a) \subseteq Walked /\ DaysAt(a) \subseteq Int
  BY <1>1, DaysFinite
<1>3. ASSUME NEW a, DaysAt(a) # {}
      PROVE  NewestAt(a) \in DaysAt(a) /\ \A e \in DaysAt(a) : e <= NewestAt(a)
  <2>1. \E d \in DaysAt(a) : \A e \in DaysAt(a) : e <= d
    BY <1>2, <1>3, GreatestExists
  <2> QED
    BY <2>1
<1>4. rate.amount # 0 => NewestAt(rate.amount) = rate.day
  <2>1. SUFFICES ASSUME rate.amount # 0 PROVE NewestAt(rate.amount) = rate.day
    OBVIOUS
  <2>2. rate.day \in DaysAt(rate.amount) /\ \A d \in DaysAt(rate.amount) : d <= rate.day
    BY <2>1 DEF ColumnInv, RateInv
  <2>3. NewestAt(rate.amount) \in DaysAt(rate.amount) /\ \A e \in DaysAt(rate.amount) : e <= NewestAt(rate.amount)
    BY <1>3, <2>2
  <2> HIDE DEF NewestAt
  <2> QED
    BY <1>2, <2>2, <2>3
<1>5. billed = {} <=> rate.amount = 0
  <2>1. rate.amount # 0 => billed # {}
    <3>1. SUFFICES ASSUME rate.amount # 0 PROVE rate.day \in billed
      OBVIOUS
    <3>2. rate.day \in DaysAt(rate.amount) /\ rate.amount \in Nat
      BY <3>1 DEF ColumnInv, RateInv
    <3> QED
      BY <3>1, <3>2 DEF DaysAt
  <2>2. rate.amount = 0 => billed = {}
    <3>1. SUFFICES ASSUME rate.amount = 0, NEW d \in billed PROVE FALSE
      OBVIOUS
    <3>2. dailyDue[d] \in Nat /\ dailyDue[d] > 0 /\ d \in DaysAt(dailyDue[d])
      BY <1>1, ElementOfSeq DEF DaysAt
    <3>3. dailyDue[d] \in Nat \ {0}
      BY <3>2
    <3> QED
      BY <3>1, <3>2, <3>3 DEF ColumnInv, RateInv
  <2> QED
    BY <2>1, <2>2
<1>6. ASSUME NEW d \in billed
      PROVE  \/ Cardinality(DaysAt(dailyDue[d])) < Cardinality(DaysAt(rate.amount))
             \/ /\ Cardinality(DaysAt(dailyDue[d])) = Cardinality(DaysAt(rate.amount))
                /\ NewestAt(dailyDue[d]) <= NewestAt(rate.amount)
  <2>1. d \in DaysAt(dailyDue[d]) /\ dailyDue[d] \in Nat \ {0}
    <3>1. dailyDue[d] \in Nat
      BY <1>1, ElementOfSeq
    <3> QED
      BY <3>1 DEF DaysAt
  <2>2. rate.amount # 0
    BY <1>5
  <2>3. rate.count = Cardinality(DaysAt(rate.amount)) /\ NewestAt(rate.amount) = rate.day
    BY <1>4, <2>2 DEF ColumnInv, RateInv
  <2>4. NewestAt(dailyDue[d]) \in DaysAt(dailyDue[d])
    BY <1>3, <2>1
  <2> HIDE DEF NewestAt
  <2> QED
    BY <2>1, <2>3, <2>4 DEF ColumnInv, RateInv
<1> QED
  BY <1>5, <1>6 DEF RateIsMode

\* Whatever is billed on the days of the month, and on however many, the Setoran
\* column reads back to it: its segments are those days and its rate is the amount
\* billed most often, the newest of several (encodeDueSegments, dailyTargetFrom).
THEOREM ColumnReadsBack == ColumnSpec => []ColumnFaithful
<1>1. ColumnInv => ColumnFaithful
  BY DecodeOfInv, ModeOfInv DEF ColumnFaithful
<1> QED
  BY ColumnInvInit, ColumnInvNext, <1>1, PTL DEF ColumnSpec

-----------------------------------------------------------------------------
(***************************************************************************)
(* The Grab grids, for any number of trips, plates, cities and people:     *)
(* every figure is a sum of earnings over the trips of some keys and some  *)
(* days, so figures agree because the keys and the days part those trips.  *)
(***************************************************************************)

TripInv == trips \in [TripIds -> Trip \cup {NoTrip}]

Money == [t \in TripIds |-> trips[t].earning]

\* What an imported trip is.
LEMMA ImportedTrip ==
    ASSUME TripInv, NEW t \in Imported
    PROVE  /\ t \in TripIds /\ trips[t] \in Trip /\ Money[t] \in Int
           /\ trips[t].date \in Dates /\ trips[t].plate \in GrabPlates \cup {NoGrabPlate}
           /\ trips[t].driver \in Spellings /\ trips[t].period \in Months
           /\ trips[t].date = <<trips[t].date[1], trips[t].date[2]>>
           /\ trips[t].date[2] \in AnyDay
<1>1. trips[t] \in Trip
  BY DEF TripInv, Imported
<1>2. trips[t].earning \in Nat
  BY <1>1, GrabAssumption DEF Trip
<1>3. trips[t].date \in Dates
  BY <1>1 DEF Trip
<1>4. trips[t].date[2] \in AnyDay
  BY <1>3 DEF AnyDay
<1> QED
  BY <1>1, <1>2, <1>3, <1>4, DateParts DEF Imported, Trip, Money

LEMMA TripsFinite ==
    ASSUME NEW S, S \subseteq Imported
    PROVE  IsFiniteSet(S) /\ S \subseteq TripIds
<1>1. S \in SUBSET TripIds
  BY DEF Imported
<1> QED
  BY <1>1, GrabAssumption, FS_Subset

\* Earnings are a sum over trips.
LEMMA EarnedIs ==
    ASSUME TripInv, NEW S, S \subseteq Imported
    PROVE  Earned(S) = SumFunctionOnSet(Money, S)
<1> DEFINE f == [t \in S |-> trips[t].earning]
<1>1. Earned(S) = SumFunctionOnSet(f, S)
  BY SumIs DEF Earned
<1>2. \A t \in S : f[t] = Money[t]
  BY TripsFinite DEF Money
<1> HIDE DEF f
<1> QED
  BY <1>1, <1>2, TripsFinite, SumSame

\* The money of a set of trips, group by group.
LEMMA EarnedByGroup ==
    ASSUME TripInv, NEW S, S \subseteq Imported, NEW K, IsFiniteSet(K),
           NEW key, \A t \in S : key[t] \in K,
           NEW g, \A k \in K : g[k] = Earned(Group(S, key, k))
    PROVE  Earned(S) = SumFunctionOnSet(g, K)
<1>1. \A k \in K : g[k] = SumFunctionOnSet(Money, Group(S, key, k))
  BY EarnedIs DEF Group
<1>2. \A t \in S : Money[t] \in Int
  BY ImportedTrip
<1>3. SumFunctionOnSet(Money, S) = SumFunctionOnSet(g, K)
  BY <1>1, <1>2, TripsFinite, SumByGroup
<1> QED
  BY <1>3, EarnedIs

\* The money of trips in two parts.
LEMMA EarnedInParts ==
    ASSUME TripInv, NEW S, S \subseteq Imported, NEW T, T \subseteq Imported, S \cap T = {}
    PROVE  /\ Earned(S \cup T) = Earned(S) + Earned(T)
           /\ Earned(S) \in Int /\ Earned(T) \in Int
<1>1. IsFiniteSet(S) /\ IsFiniteSet(T)
  BY TripsFinite
<1>2. \A t \in S \cup T : Money[t] \in Int
  BY ImportedTrip
<1>3. SumFunctionOnSet(Money, S) \in Int /\ SumFunctionOnSet(Money, T) \in Int
  BY <1>1, <1>2, SumInt
<1>4. SumFunctionOnSet(Money, S \cup T) = SumFunctionOnSet(Money, S) + SumFunctionOnSet(Money, T)
  BY <1>1, <1>2, SumUnion
<1>5. S \cup T \subseteq Imported
  OBVIOUS
<1> QED
  BY <1>3, <1>4, <1>5, EarnedIs

LEMMA ScopeImported ==
    ASSUME NEW scope \in Scopes, NEW m
    PROVE  InScope(scope) \subseteq Imported /\ MonthTrips(scope, m) \subseteq Imported
BY DEF InScope, MonthTrips

KeyOf(mode) == [t \in TripIds |-> GrabKey(mode, t)]

LEMMA KeysFinite ==
    ASSUME NEW scope \in Scopes, NEW mode, NEW m
    PROVE  IsFiniteSet(GrabKeys(scope, mode, m))
<1>1. IsFiniteSet(MonthTrips(scope, m)) /\ MonthTrips(scope, m) \subseteq TripIds
  BY ScopeImported, TripsFinite
<1>2. \A k \in GrabKeys(scope, mode, m) : \E t \in MonthTrips(scope, m) : KeyOf(mode)[t] = k
  BY <1>1 DEF GrabKeys, KeyOf
<1> QED
  BY <1>1, <1>2, ImageFinite

WindowTrips(scope, m, window) == {t \in MonthTrips(scope, m) : trips[t].date[2] \in window}

\* The rows some keys name share out the trips they stand for.
LEMMA RowsShare ==
    ASSUME TripInv, NEW scope \in Scopes, NEW mode, NEW m, NEW window,
           NEW K, K \subseteq GrabKeys(scope, mode, m),
           NEW S, S = {t \in WindowTrips(scope, m, window) : GrabKey(mode, t) \in K}
    PROVE  Earned(S) = SumFunction([key \in K |-> RowEarning(scope, mode, m, key, window)])
<1> DEFINE g == [key \in K |-> RowEarning(scope, mode, m, key, window)]
<1>1. IsFiniteSet(K)
  BY KeysFinite, FS_Subset
<1>2. S \subseteq Imported /\ S \subseteq TripIds
  BY ScopeImported, TripsFinite DEF WindowTrips
<1>3. \A t \in S : KeyOf(mode)[t] = GrabKey(mode, t) /\ KeyOf(mode)[t] \in K
  BY <1>2 DEF KeyOf
<1>4. ASSUME NEW k \in K PROVE g[k] = Earned(Group(S, KeyOf(mode), k))
  <2>1. Group(S, KeyOf(mode), k) = Windowed(scope, mode, m, k, window)
    BY <1>3 DEF Group, Windowed, GrabRow, WindowTrips
  <2> QED
    BY <2>1 DEF RowEarning
<1>5. SumFunction(g) = SumFunctionOnSet(g, K)
  BY SumIs
<1> HIDE DEF g
<1>6. Earned(S) = SumFunctionOnSet(g, K)
  BY <1>1, <1>2, <1>3, <1>4, EarnedByGroup
<1> QED
  BY <1>5, <1>6 DEF g

\* A table, whichever way it is grouped, totals the trips of its days.
LEMMA TotalIs ==
    ASSUME TripInv, NEW scope \in Scopes, NEW mode, NEW m, NEW window
    PROVE  TotalEarnings(scope, mode, m, window) = Earned(WindowTrips(scope, m, window))
<1>1. WindowTrips(scope, m, window) =
          {t \in WindowTrips(scope, m, window) : GrabKey(mode, t) \in GrabKeys(scope, mode, m)}
  BY DEF WindowTrips, GrabKeys
<1> QED
  BY <1>1, RowsShare DEF TotalEarnings

\* A cell by plate is what its drill-down lists and the trips dated in another
\* month, whatever cities it was driven in.
LEMMA CellIsDrillDown ==
    ASSUME TripInv, NEW scope \in Scopes, NEW m, NEW d, NEW p
    PROVE  Earned(DayTrips(scope, m, d, p)) + Earned({t \in Strays(scope, m, d) : trips[t].plate = p})
               = SumFunction([key \in {k \in GrabKeys(scope, "plate", m) : k[1] = p} |->
                                  DailyEarning(scope, "plate", m, key, d)])
<1> DEFINE K == {k \in GrabKeys(scope, "plate", m) : k[1] = p}
           S == DayTrips(scope, m, d, p)
           T == {t \in Strays(scope, m, d) : trips[t].plate = p}
<1>0. \A t \in MonthTrips(scope, m) : trips[t].date = <<m, d>> <=> trips[t].date[1] = m /\ trips[t].date[2] = d
  BY ScopeImported, ImportedTrip
<1>1. S \cup T = {t \in WindowTrips(scope, m, {d}) : GrabKey("plate", t) \in K}
  BY <1>0 DEF DayTrips, WindowTrips, GrabKeys, GrabKey, Strays
<1>2. [key \in K |-> DailyEarning(scope, "plate", m, key, d)]
          = [key \in K |-> RowEarning(scope, "plate", m, key, {d})]
  BY DEF DailyEarning
<1>3. K \subseteq GrabKeys(scope, "plate", m)
  OBVIOUS
<1>4. S \subseteq Imported /\ T \subseteq Imported /\ S \cap T = {}
  BY <1>0, ScopeImported DEF DayTrips, Strays
<1> HIDE DEF K, S, T
<1>5. Earned(S \cup T) = SumFunction([key \in K |-> RowEarning(scope, "plate", m, key, {d})])
  BY <1>1, <1>3, RowsShare
<1>6. Earned(S \cup T) = Earned(S) + Earned(T)
  BY <1>4, EarnedInParts
<1> QED
  BY <1>2, <1>5, <1>6 DEF K, S, T

LEMMA PersonCell ==
    ASSUME TripInv, NEW scope \in Scopes, NEW m, NEW d, NEW person
    PROVE  Earned(DayTripsOf(scope, m, d, person))
             + Earned({t \in Strays(scope, m, d) : PersonOf[trips[t].driver] = person})
               = DailyEarning(scope, "driver", m, <<person>>, d)
<1> DEFINE S == DayTripsOf(scope, m, d, person)
           T == {t \in Strays(scope, m, d) : PersonOf[trips[t].driver] = person}
<1>0. \A t \in MonthTrips(scope, m) : trips[t].date = <<m, d>> <=> trips[t].date[1] = m /\ trips[t].date[2] = d
  BY ScopeImported, ImportedTrip
<1>1. S \cup T = Windowed(scope, "driver", m, <<person>>, {d})
  BY <1>0 DEF DayTripsOf, Windowed, GrabRow, GrabKey, Strays
<1>2. S \subseteq Imported /\ T \subseteq Imported /\ S \cap T = {}
  BY <1>0, ScopeImported DEF DayTripsOf, Strays
<1> HIDE DEF S, T
<1>3. Earned(S \cup T) = Earned(S) + Earned(T)
  BY <1>2, EarnedInParts
<1> QED
  BY <1>1, <1>3 DEF DailyEarning, RowEarning, S, T

-----------------------------------------------------------------------------
Inside(scope, from, to) ==
    {t \in InScope(scope) : FiledDay(t) \in Dates /\ Between(from, FiledDay(t), to)}

MonthOf == [t \in TripIds |-> trips[t].period]

\* The trips of a range that are filed in the month m are those of its window.
LEMMA InsideByMonth ==
    ASSUME TripInv, NEW scope \in Scopes, NEW from \in Dates, NEW to \in Dates
    PROVE  /\ \A t \in Inside(scope, from, to) : MonthOf[t] = trips[t].period /\ MonthOf[t] \in MonthsOf(from, to)
           /\ \A m \in MonthsOf(from, to) :
                  Group(Inside(scope, from, to), MonthOf, m) = WindowTrips(scope, m, WindowOf(from, to, m))
<1>1. \A t \in InScope(scope) : t \in TripIds /\ trips[t].period \in Months
  BY ScopeImported, ImportedTrip
<1>2. ASSUME NEW t \in InScope(scope)
      PROVE  MonthOf[t] = trips[t].period /\
             (t \in Inside(scope, from, to) <=>
                 /\ trips[t].period \in MonthsOf(from, to)
                 /\ trips[t].date[2] \in WindowOf(from, to, trips[t].period))
  <2> DEFINE p == trips[t].period
             d == trips[t].date[2]
             f == <<p, d>>
  <2>1. FiledDay(t) = f /\ f[1] = p /\ f[2] = d
    BY DEF FiledDay
  <2>2. p \in MonthsOf(from, to) /\ d \in WindowOf(from, to, p) => f \in Dates
    <3>1. SUFFICES ASSUME p \in MonthsOf(from, to), d \in WindowOf(from, to, p) PROVE f \in Dates
      OBVIOUS
    <3>2. p \in Months /\ d \in 1..DaysIn[p]
      BY <3>1, RangeByMonth
    <3> QED
      BY <3>2 DEF Dates
  <2> HIDE DEF f, p, d
  <2>3. f \in Dates => (Between(from, f, to) <=> p \in MonthsOf(from, to) /\ d \in WindowOf(from, to, p))
    BY <2>1, RangeByMonth
  <2>4. t \in Inside(scope, from, to) <=> p \in MonthsOf(from, to) /\ d \in WindowOf(from, to, p)
    BY <2>1, <2>2, <2>3 DEF Inside
  <2> QED
    BY <1>1, <2>4 DEF MonthOf, p, d
<1>3. ASSUME NEW m \in MonthsOf(from, to)
      PROVE  Group(Inside(scope, from, to), MonthOf, m) = WindowTrips(scope, m, WindowOf(from, to, m))
  <2>1. Inside(scope, from, to) \subseteq InScope(scope)
    BY DEF Inside
  <2> QED
    BY <1>2, <2>1 DEF Group, WindowTrips, MonthTrips
<1> QED
  BY <1>2, <1>3 DEF Inside

\* A range, added up month by month, is the trips shown in it.
LEMMA RangeIsDays ==
    ASSUME TripInv, NEW scope \in Scopes, NEW from \in Dates, NEW to \in Dates
    PROVE  RangeEarning(scope, from, to) = Earned(Inside(scope, from, to))
<1> DEFINE M == MonthsOf(from, to)
           g == [m \in M |-> TotalEarnings(scope, "plate", m, WindowOf(from, to, m))]
<1>1. IsFiniteSet(M)
  BY RangeByMonth
<1>2. Inside(scope, from, to) \subseteq Imported
  BY ScopeImported DEF Inside
<1>3. \A t \in Inside(scope, from, to) : MonthOf[t] \in M
  BY InsideByMonth
<1>4. \A m \in M : g[m] = Earned(Group(Inside(scope, from, to), MonthOf, m))
  BY InsideByMonth, TotalIs
<1>5. RangeEarning(scope, from, to) = SumFunctionOnSet(g, M)
  BY SumIs DEF RangeEarning
<1> HIDE DEF M, g
<1> QED
  BY <1>1, <1>2, <1>3, <1>4, <1>5, EarnedByGroup

PartnerTrip == [t \in TripIds |-> PartnerOf[trips[t].plate]]

\* A partner has the trips of its plates: of a month, and of a range.
LEMMA PartnerMonth ==
    ASSUME TripInv, NEW scope \in Scopes, NEW m, NEW window, NEW q
    PROVE  ByPartner(scope, m, window, q) = Earned(Group(WindowTrips(scope, m, window), PartnerTrip, q))
<1> DEFINE K == {k \in GrabKeys(scope, "plate", m) : PartnerOf[k[1]] = q}
<1>1. WindowTrips(scope, m, window) \subseteq TripIds
  BY ScopeImported, TripsFinite DEF WindowTrips
<1>2. Group(WindowTrips(scope, m, window), PartnerTrip, q)
          = {t \in WindowTrips(scope, m, window) : GrabKey("plate", t) \in K}
  BY <1>1 DEF Group, WindowTrips, GrabKeys, GrabKey, PartnerTrip
<1>3. K \subseteq GrabKeys(scope, "plate", m)
  OBVIOUS
<1>4. ByPartner(scope, m, window, q) = SumFunction([key \in K |-> RowEarning(scope, "plate", m, key, window)])
  BY DEF ByPartner
<1> HIDE DEF K
<1> QED
  BY <1>2, <1>3, <1>4, RowsShare

LEMMA PartnerRange ==
    ASSUME TripInv, NEW scope \in Scopes, NEW from \in Dates, NEW to \in Dates, NEW q
    PROVE  RangePartner(scope, from, to, q) = Earned(Group(Inside(scope, from, to), PartnerTrip, q))
<1> DEFINE M == MonthsOf(from, to)
           S == Group(Inside(scope, from, to), PartnerTrip, q)
           g == [m \in M |-> ByPartner(scope, m, WindowOf(from, to, m), q)]
<1>1. IsFiniteSet(M)
  BY RangeByMonth
<1>2. S \subseteq Imported
  BY ScopeImported DEF Inside, Group
<1>3. \A t \in S : MonthOf[t] \in M
  BY InsideByMonth DEF Group
<1>4. ASSUME NEW m \in M PROVE g[m] = Earned(Group(S, MonthOf, m))
  <2>1. Group(S, MonthOf, m) = Group(Group(Inside(scope, from, to), MonthOf, m), PartnerTrip, q)
    BY DEF Group
  <2>2. Group(Inside(scope, from, to), MonthOf, m) = WindowTrips(scope, m, WindowOf(from, to, m))
    BY InsideByMonth
  <2> QED
    BY <2>1, <2>2, PartnerMonth
<1>5. RangePartner(scope, from, to, q) = SumFunctionOnSet(g, M)
  BY SumIs DEF RangePartner
<1> HIDE DEF M, g, S
<1>6. Earned(S) = SumFunctionOnSet(g, M)
  BY <1>1, <1>2, <1>3, <1>4, EarnedByGroup
<1> QED
  BY <1>5, <1>6 DEF S

\* Every plate has a partner, the nameless one included.
LEMMA PartnersShare ==
    ASSUME TripInv, NEW scope \in Scopes, NEW from \in Dates, NEW to \in Dates
    PROVE  SumFunction([q \in {PartnerOf[p] : p \in DOMAIN PartnerOf} |->
                            RangePartner(scope, from, to, q)])
               = Earned(Inside(scope, from, to))
<1> DEFINE Q == {PartnerOf[p] : p \in DOMAIN PartnerOf}
           g == [q \in Q |-> RangePartner(scope, from, to, q)]
<1>1. IsFiniteSet(Q)
  <2>1. IsFiniteSet({NoGrabPlate}) /\ IsFiniteSet(GrabPlates)
    BY GrabAssumption, FS_Singleton
  <2>2. IsFiniteSet(DOMAIN PartnerOf)
    BY <2>1, GrabAssumption, FS_Union
  <2> QED
    BY <2>2, ImageFinite
<1>2. Inside(scope, from, to) \subseteq Imported
  BY ScopeImported DEF Inside
<1>3. \A t \in Inside(scope, from, to) : PartnerTrip[t] \in Q
  BY <1>2, ImportedTrip, GrabAssumption DEF PartnerTrip
<1>4. \A q \in Q : g[q] = Earned(Group(Inside(scope, from, to), PartnerTrip, q))
  BY PartnerRange
<1>5. SumFunction(g) = SumFunctionOnSet(g, Q)
  BY SumIs
<1> HIDE DEF Q, g
<1>6. Earned(Inside(scope, from, to)) = SumFunctionOnSet(g, Q)
  BY <1>1, <1>2, <1>3, <1>4, EarnedByGroup
<1> QED
  BY <1>5, <1>6 DEF Q, g

\* A vehicle is active when a trip of the range is its.
LEMMA ActiveAreInside ==
    ASSUME TripInv, NEW scope \in Scopes, NEW from \in Dates, NEW to \in Dates
    PROVE  ActiveVehicles(scope, from, to) = {GrabKey("plate", t) : t \in Inside(scope, from, to)}
<1> DEFINE Seen(m) == {key \in GrabKeys(scope, "plate", m) :
                           Windowed(scope, "plate", m, key, WindowOf(from, to, m)) # {}}
<1>1. ASSUME NEW m PROVE Seen(m) = {GrabKey("plate", t) : t \in WindowTrips(scope, m, WindowOf(from, to, m))}
  BY DEF GrabKeys, Windowed, GrabRow, WindowTrips
<1>2. \A t : t \in Inside(scope, from, to) <=>
          \E m \in MonthsOf(from, to) : t \in WindowTrips(scope, m, WindowOf(from, to, m))
  BY InsideByMonth DEF Group
<1>3. ActiveVehicles(scope, from, to) = UNION {Seen(m) : m \in MonthsOf(from, to)}
  BY DEF ActiveVehicles
<1> HIDE DEF Seen
<1>4. \A k : k \in ActiveVehicles(scope, from, to) <=> \E m \in MonthsOf(from, to) : k \in Seen(m)
  BY <1>3
<1>5. \A k : k \in ActiveVehicles(scope, from, to) <=>
          \E m \in MonthsOf(from, to) : \E t \in WindowTrips(scope, m, WindowOf(from, to, m)) : k = GrabKey("plate", t)
  BY <1>1, <1>4
<1> QED
  BY <1>2, <1>5

\* The whole month is all the trips filed in it, but for the days it does not have.
LEMMA WholeMonthIs ==
    ASSUME TripInv, NEW scope \in Scopes, NEW mode, NEW m \in Months
    PROVE  /\ RangeEarning(scope, FirstOf(m), LastOf(m)) = Earned(WindowTrips(scope, m, WholeMonth(m)))
           /\ RangeEarning(scope, FirstOf(m), LastOf(m)) + Earned(Overflow(scope, m))
                  = TotalEarnings(scope, mode, m, AnyDay)
<1>1. m \in Int /\ DaysIn[m] \in Nat \ {0} /\ FirstOf(m) \in Dates /\ LastOf(m) \in Dates
  BY MonthsAreInts, MonthLength DEF FirstOf, LastOf, Dates
<1>2. m \in MonthsOf(FirstOf(m), LastOf(m)) /\ \A n \in MonthsOf(FirstOf(m), LastOf(m)) : n = m
  BY <1>1 DEF MonthsOf, FirstOf, LastOf
<1>3. WindowOf(FirstOf(m), LastOf(m), m) = WholeMonth(m)
  BY <1>1 DEF WindowOf, FromDay, ToDay, FirstOf, LastOf, WholeMonth
<1>4. Inside(scope, FirstOf(m), LastOf(m)) = Group(Inside(scope, FirstOf(m), LastOf(m)), MonthOf, m)
  BY <1>1, <1>2, InsideByMonth DEF Group
<1>5. Inside(scope, FirstOf(m), LastOf(m)) = WindowTrips(scope, m, WholeMonth(m))
  BY <1>1, <1>2, <1>3, <1>4, InsideByMonth
<1>6. RangeEarning(scope, FirstOf(m), LastOf(m)) = Earned(WindowTrips(scope, m, WholeMonth(m)))
  BY <1>1, <1>5, RangeIsDays
<1>7. \A t \in MonthTrips(scope, m) : trips[t].date[2] \in AnyDay
  BY ScopeImported, ImportedTrip
<1>8. /\ WindowTrips(scope, m, AnyDay) = WindowTrips(scope, m, WholeMonth(m)) \cup Overflow(scope, m)
      /\ WindowTrips(scope, m, WholeMonth(m)) \cap Overflow(scope, m) = {}
      /\ WindowTrips(scope, m, WholeMonth(m)) \subseteq Imported /\ Overflow(scope, m) \subseteq Imported
  BY <1>7, ScopeImported DEF WindowTrips, Overflow
<1>9. TotalEarnings(scope, mode, m, AnyDay) = Earned(WindowTrips(scope, m, AnyDay))
  BY TotalIs
<1> QED
  BY <1>6, <1>8, <1>9, EarnedInParts

\* The figures agree in every state of well-formed trips.
LEMMA GrabFigures == TripInv => GrabFiguresAgree
<1> SUFFICES ASSUME TripInv, NEW scope \in Scopes
             PROVE  /\ \A m \in Months :
                          /\ \A d \in AnyDay :
                                /\ DailyEarnings(scope, "plate", m, d) = DailyEarnings(scope, "driver", m, d)
                                /\ \A p \in {trips[t].plate : t \in MonthTrips(scope, m)} :
                                       Earned(DayTrips(scope, m, d, p))
                                         + Earned({t \in Strays(scope, m, d) : trips[t].plate = p})
                                           = SumFunction([key \in {k \in GrabKeys(scope, "plate", m) : k[1] = p} |->
                                                              DailyEarning(scope, "plate", m, key, d)])
                                /\ \A person \in {PersonOf[trips[t].driver] : t \in MonthTrips(scope, m)} :
                                       Earned(DayTripsOf(scope, m, d, person))
                                         + Earned({t \in Strays(scope, m, d) : PersonOf[trips[t].driver] = person})
                                           = DailyEarning(scope, "driver", m, <<person>>, d)
                          /\ \A mode \in {"plate", "driver"} :
                                RangeEarning(scope, FirstOf(m), LastOf(m)) + Earned(Overflow(scope, m))
                                    = TotalEarnings(scope, mode, m, AnyDay)
                    /\ \A from, to \in Dates :
                          /\ RangeEarning(scope, from, to) = Earned(Inside(scope, from, to))
                          /\ SumFunction([q \in {PartnerOf[p] : p \in DOMAIN PartnerOf} |->
                                              RangePartner(scope, from, to, q)])
                                 = Earned(Inside(scope, from, to))
                          /\ ActiveVehicles(scope, from, to) = {GrabKey("plate", t) : t \in Inside(scope, from, to)}
  BY DEF GrabFiguresAgree, Inside
<1>1. \A m, d : DailyEarnings(scope, "plate", m, d) = DailyEarnings(scope, "driver", m, d)
  BY TotalIs DEF DailyEarnings
<1> QED
  BY <1>1, CellIsDrillDown, PersonCell, WholeMonthIs, RangeIsDays, PartnersShare, ActiveAreInside

\* Grab money is never lost or counted twice, however it is grouped, for any number
\* of trips, plates, spellings and months, also of files uploaded for another month:
\* by plate and by person, by cell and in its drill-down, by day, month and range, by
\* partner (GrabGridService, combineGrabRange, toGrabSummary).
THEOREM GrabScreensAgree == GrabSpec => []GrabFiguresAgree
<1>1. GrabInit => TripInv
  BY DEF GrabInit, TripInv
<1>2. TripInv /\ [GrabNext]_trips => TripInv'
  BY DEF TripInv, GrabNext, ImportTrip, RollBackTrip
<1> QED
  BY <1>1, <1>2, GrabFigures, PTL DEF GrabSpec

-----------------------------------------------------------------------------
(***************************************************************************)
(* The Gojek grids, for any number of rows, plates, drivers, exceptions    *)
(* and days.  What is due, what is counted and what is still open are sums *)
(* over the rows of a group (FiguresAre) and a table is the sum of its     *)
(* groups (ByGroup).  Nothing ties the month a row is filed under to its   *)
(* date: setoran goes by the first, what is due by the second.             *)
(***************************************************************************)

RowsInv == details \in [Ids -> Row \cup {NoRow}]

DueOf     == [i \in Ids |-> IF details[i].type = "due" THEN details[i].amount ELSE 0]
PaidOf    == [i \in Ids |-> IF details[i].type \in PaidTypes THEN details[i].amount ELSE 0]
CountedOf == [i \in Ids |-> IF details[i].type \in PaidTypes /\ details[i].counted THEN details[i].amount ELSE 0]
BalanceOf == [i \in Ids |-> DueOf[i] - PaidOf[i]]

\* What a row on record is.
LEMMA LiveRow ==
    ASSUME RowsInv, NEW i \in Live
    PROVE  /\ i \in Ids /\ details[i] \in Row /\ details[i].amount \in Nat \ {0}
           /\ details[i].date \in Dates /\ details[i].date[1] \in Months /\ details[i].date[1] \in Int
           /\ details[i].date[2] \in 1..DaysIn[details[i].date[1]] /\ details[i].date[2] \in Int
           /\ details[i].plate \in Plates \cup {NoPlate} /\ details[i].driver \in Drivers \cup {NoDriver}
           /\ DueOf[i] \in Nat /\ PaidOf[i] \in Nat /\ CountedOf[i] \in Nat /\ BalanceOf[i] \in Int
           /\ BalanceOf[i] = DueOf[i] - PaidOf[i] /\ details[i].period \in Months
           /\ details[i].date = <<details[i].date[1], details[i].date[2]>>
<1>1. i \in Ids /\ details[i] \in Row
  BY DEF RowsInv, Live
<1>2. details[i].amount \in Nat \ {0}
  BY <1>1, FleetAssumption DEF Row
<1>3. details[i].date \in Dates
  BY <1>1 DEF Row
<1>4. DueOf[i] \in Nat /\ PaidOf[i] \in Nat /\ CountedOf[i] \in Nat
  BY <1>1, <1>2 DEF DueOf, PaidOf, CountedOf
<1>5. BalanceOf[i] = DueOf[i] - PaidOf[i] /\ BalanceOf[i] \in Int
  BY <1>1, <1>4 DEF BalanceOf
<1> QED
  BY <1>1, <1>2, <1>3, <1>4, <1>5, DateParts, MonthsAreInts DEF Row

LEMMA RowsFinite == ASSUME NEW S, S \subseteq Live PROVE IsFiniteSet(S) /\ S \subseteq Ids
<1>1. S \in SUBSET Ids
  BY DEF Live
<1> QED
  BY <1>1, FleetAssumption, FS_Subset

\* A sum over the rows of a kind is one over all rows that counts the others zero.
LEMMA SumOfKind ==
    ASSUME RowsInv, NEW S, S \subseteq Live, NEW T, T \subseteq S, NEW f,
           \A i \in T : f[i] = details[i].amount, \A i \in S \ T : f[i] = 0
    PROVE  Sum(T) = SumFunctionOnSet(f, S)
<1> DEFINE g == [i \in T |-> details[i].amount]
<1>1. Sum(T) = SumFunctionOnSet(g, T)
  BY SumIs DEF Sum
<1>2. IsFiniteSet(S) /\ IsFiniteSet(T)
  BY RowsFinite
<1>3. \A i \in T : g[i] = f[i] /\ f[i] \in Int
  BY LiveRow
<1> HIDE DEF g
<1>4. SumFunctionOnSet(g, T) = SumFunctionOnSet(f, T)
  BY <1>2, <1>3, SumSame
<1>5. SumFunctionOnSet(f, S) = SumFunctionOnSet(f, T)
  BY <1>2, <1>3, SumZeros
<1> QED
  BY <1>1, <1>4, <1>5

\* What is due, counted and open of some rows are sums over them.
LEMMA FiguresAre ==
    ASSUME RowsInv, NEW S, S \subseteq Live
    PROVE  /\ Due(S) = SumFunctionOnSet(DueOf, S) /\ Due(S) \in Nat
           /\ Counted(S) = SumFunctionOnSet(CountedOf, S) /\ Counted(S) \in Nat
           /\ Balance(S) = SumFunctionOnSet(BalanceOf, S) /\ Balance(S) \in Int
<1>0. IsFiniteSet(S) /\ S \subseteq Ids
  BY RowsFinite
<1> DEFINE D == {i \in S : details[i].type = "due"}
           P == {i \in S : details[i].type \in PaidTypes}
           C == {i \in S : details[i].type \in PaidTypes /\ details[i].counted}
<1>1. Sum(D) = SumFunctionOnSet(DueOf, S)
  <2>1. D \subseteq S /\ (\A i \in D : DueOf[i] = details[i].amount) /\ (\A i \in S \ D : DueOf[i] = 0)
    BY <1>0 DEF DueOf
  <2> HIDE DEF D
  <2> QED
    BY <2>1, SumOfKind
<1>2. Sum(P) = SumFunctionOnSet(PaidOf, S)
  <2>1. P \subseteq S /\ (\A i \in P : PaidOf[i] = details[i].amount) /\ (\A i \in S \ P : PaidOf[i] = 0)
    BY <1>0 DEF PaidOf
  <2> HIDE DEF P
  <2> QED
    BY <2>1, SumOfKind
<1>3. Sum(C) = SumFunctionOnSet(CountedOf, S)
  <2>1. C \subseteq S /\ (\A i \in C : CountedOf[i] = details[i].amount) /\ (\A i \in S \ C : CountedOf[i] = 0)
    BY <1>0 DEF CountedOf
  <2> HIDE DEF C
  <2> QED
    BY <2>1, SumOfKind
<1>4. \A i \in S : DueOf[i] \in Nat /\ PaidOf[i] \in Nat /\ CountedOf[i] \in Nat
  BY LiveRow
<1>5. /\ SumFunctionOnSet(DueOf, S) \in Nat /\ SumFunctionOnSet(PaidOf, S) \in Nat
      /\ SumFunctionOnSet(CountedOf, S) \in Nat
  BY <1>0, <1>4, SumInt
<1>6. SumFunctionOnSet(DueOf, S) = SumFunctionOnSet(BalanceOf, S) + SumFunctionOnSet(PaidOf, S)
      /\ SumFunctionOnSet(BalanceOf, S) \in Int
  <2>1. \A i \in S : BalanceOf[i] \in Int /\ PaidOf[i] \in Int /\ DueOf[i] = BalanceOf[i] + PaidOf[i]
    BY LiveRow
  <2> QED
    BY <1>0, <2>1, SumPlus, SumInt
<1>7. Due(S) = Sum(D) /\ Paid(S) = Sum(P) /\ Counted(S) = Sum(C)
  BY DEF Due, Paid, Counted
<1> HIDE DEF D, P, C
<1>8. Balance(S) = SumFunctionOnSet(BalanceOf, S)
  BY <1>1, <1>2, <1>5, <1>6, <1>7 DEF Balance
<1> QED
  BY <1>1, <1>3, <1>5, <1>6, <1>7, <1>8

\* The figures of rows in two parts.
LEMMA FiguresInParts ==
    ASSUME RowsInv, NEW S, S \subseteq Live, NEW T, T \subseteq Live, S \cap T = {}
    PROVE  Due(S \cup T) = Due(S) + Due(T) /\ Counted(S \cup T) = Counted(S) + Counted(T)
<1>1. IsFiniteSet(S) /\ IsFiniteSet(T) /\ S \cup T \subseteq Live
  BY RowsFinite
<1>2. \A i \in S \cup T : DueOf[i] \in Int /\ CountedOf[i] \in Int
  BY LiveRow
<1>3. /\ SumFunctionOnSet(DueOf, S \cup T) = SumFunctionOnSet(DueOf, S) + SumFunctionOnSet(DueOf, T)
      /\ SumFunctionOnSet(CountedOf, S \cup T) = SumFunctionOnSet(CountedOf, S) + SumFunctionOnSet(CountedOf, T)
  BY <1>1, <1>2, SumUnion
<1> QED
  BY <1>1, <1>3, FiguresAre

\* Rows of other kinds have no part in what is due or open.
LEMMA MoneyOnly ==
    ASSUME NEW S, NEW T, {i \in S : details[i].type \in MoneyTypes} = {i \in T : details[i].type \in MoneyTypes}
    PROVE  Due(S) = Due(T) /\ Balance(S) = Balance(T)
<1>1. \A i : i \in S /\ details[i].type \in MoneyTypes <=> i \in T /\ details[i].type \in MoneyTypes
  OBVIOUS
<1>2. {i \in S : details[i].type = "due"} = {i \in T : details[i].type = "due"}
  BY <1>1 DEF MoneyTypes
<1>3. {i \in S : details[i].type \in PaidTypes} = {i \in T : details[i].type \in PaidTypes}
  BY <1>1 DEF MoneyTypes
<1> QED
  BY <1>2, <1>3 DEF Due, Paid, Balance

\* The same, group by group.
LEMMA ByGroup ==
    ASSUME RowsInv, NEW S, S \subseteq Live, NEW K, IsFiniteSet(K),
           NEW key, \A i \in S : key[i] \in K, NEW g
    PROVE  /\ (\A k \in K : g[k] = Due(Group(S, key, k))) => Due(S) = SumFunctionOnSet(g, K)
           /\ (\A k \in K : g[k] = Counted(Group(S, key, k))) => Counted(S) = SumFunctionOnSet(g, K)
           /\ (\A k \in K : g[k] = Balance(Group(S, key, k))) => Balance(S) = SumFunctionOnSet(g, K)
<1>0. IsFiniteSet(S) /\ \A k \in K : Group(S, key, k) \subseteq Live
  BY RowsFinite DEF Group
<1>1. \A i \in S : DueOf[i] \in Int /\ CountedOf[i] \in Int /\ BalanceOf[i] \in Int
  BY LiveRow
<1>2. ASSUME \A k \in K : g[k] = Due(Group(S, key, k)) PROVE Due(S) = SumFunctionOnSet(g, K)
  <2>1. \A k \in K : g[k] = SumFunctionOnSet(DueOf, Group(S, key, k))
    BY <1>0, <1>2, FiguresAre
  <2>2. SumFunctionOnSet(DueOf, S) = SumFunctionOnSet(g, K)
    BY <1>0, <1>1, <2>1, SumByGroup
  <2> QED
    BY <2>2, FiguresAre
<1>3. ASSUME \A k \in K : g[k] = Counted(Group(S, key, k)) PROVE Counted(S) = SumFunctionOnSet(g, K)
  <2>1. \A k \in K : g[k] = SumFunctionOnSet(CountedOf, Group(S, key, k))
    BY <1>0, <1>3, FiguresAre
  <2>2. SumFunctionOnSet(CountedOf, S) = SumFunctionOnSet(g, K)
    BY <1>0, <1>1, <2>1, SumByGroup
  <2> QED
    BY <2>2, FiguresAre
<1>4. ASSUME \A k \in K : g[k] = Balance(Group(S, key, k)) PROVE Balance(S) = SumFunctionOnSet(g, K)
  <2>1. \A k \in K : g[k] = SumFunctionOnSet(BalanceOf, Group(S, key, k))
    BY <1>0, <1>4, FiguresAre
  <2>2. SumFunctionOnSet(BalanceOf, S) = SumFunctionOnSet(g, K)
    BY <1>0, <1>1, <2>1, SumByGroup
  <2> QED
    BY <2>2, FiguresAre
<1> QED
  BY <1>2, <1>3, <1>4

-----------------------------------------------------------------------------
SubjectOf(mode) == [i \in Ids |-> Key(mode, i)]

LEMMA ScopedLive == Scoped \subseteq Live /\ \A m : PivotRows(m) \subseteq Live /\ PivotRows(m) \subseteq Ids
BY DEF Scoped, PivotRows, Live

LEMMA KeysType ==
    ASSUME RowsInv, NEW mode \in Modes, NEW i \in Scoped
    PROVE  Key(mode, i) # NoPlate
<1>1. details[i].plate \in Plates /\ details[i].driver \in Drivers \cup {NoDriver}
  BY ScopedLive, LiveRow DEF Scoped
<1> QED
  BY <1>1, FleetAssumption DEF Key

\* The rows of a month are those of its subjects.
LEMMA PivotKeysFinite ==
    ASSUME NEW mode, NEW m
    PROVE  IsFiniteSet(PivotKeys(mode, m)) /\ \A i \in PivotRows(m) : SubjectOf(mode)[i] \in PivotKeys(mode, m)
<1>1. IsFiniteSet(PivotRows(m)) /\ PivotRows(m) \subseteq Ids
  BY ScopedLive, RowsFinite
<1>2. \A k \in PivotKeys(mode, m) : \E i \in PivotRows(m) : SubjectOf(mode)[i] = k
  BY <1>1 DEF PivotKeys, SubjectOf
<1>3. IsFiniteSet(PivotKeys(mode, m))
  BY <1>1, <1>2, ImageFinite
<1> QED
  BY <1>1, <1>3 DEF PivotKeys, SubjectOf

\* A subject of the table is one the statistics are asked for.
LEMMA AskedKeys ==
    ASSUME RowsInv, NEW mode \in Modes, NEW m, NEW k \in PivotKeys(mode, m), NEW value
    PROVE  Stat(mode, k, m, value) = value
<1>1. k # NoPlate
  BY KeysType DEF PivotKeys, PivotRows
<1> QED
  BY <1>1 DEF Stat, StatsKeys

\* The setoran of a table is what was counted of its rows, on the month or a day.
LEMMA DeductionIs ==
    ASSUME RowsInv, NEW mode \in Modes, NEW m
    PROVE  TableDeduction(mode, m) = Counted(PivotRows(m))
<1> DEFINE K == PivotKeys(mode, m)
           g == [k \in K |-> TotalDeduction(mode, k, m)]
<1>1. TableDeduction(mode, m) = SumFunction(g)
  BY DEF TableDeduction, OverRows
<1>2. \A k \in K : g[k] = Counted(Group(PivotRows(m), SubjectOf(mode), k))
  BY ScopedLive DEF TotalDeduction, RowsOf, Group, SubjectOf
<1>3. SumFunction(g) = SumFunctionOnSet(g, K)
  BY SumIs
<1> HIDE DEF K, g
<1> QED
  BY <1>1, <1>2, <1>3, PivotKeysFinite, ScopedLive, ByGroup DEF K

LEMMA DailyIs ==
    ASSUME RowsInv, NEW mode \in Modes, NEW m, NEW d
    PROVE  DailyTotal(mode, m, d) = Counted(OnDay(PivotRows(m), d))
<1> DEFINE K == PivotKeys(mode, m)
           S == OnDay(PivotRows(m), d)
           g == [k \in K |-> DailyCounted(mode, k, m, d)]
<1>1. DailyTotal(mode, m, d) = SumFunction(g)
  BY DEF DailyTotal, OverRows
<1>2. \A k \in K : g[k] = Counted(Group(S, SubjectOf(mode), k))
  <2>1. \A k : Group(S, SubjectOf(mode), k) = OnDay(RowsOf(mode, k, m), d)
    BY ScopedLive DEF RowsOf, Group, SubjectOf, OnDay
  <2> QED
    BY <2>1 DEF DailyCounted
<1>3. SumFunction(g) = SumFunctionOnSet(g, K)
  BY SumIs
<1>4. S \subseteq Live /\ \A i \in S : SubjectOf(mode)[i] \in K
  BY ScopedLive, PivotKeysFinite DEF OnDay
<1>5. IsFiniteSet(K)
  BY PivotKeysFinite
<1> HIDE DEF K, g, S
<1>6. Counted(S) = SumFunctionOnSet(g, K)
  BY <1>2, <1>4, <1>5, ByGroup
<1> QED
  BY <1>1, <1>3, <1>6 DEF S

\* What is billed in a month and not waived, between two days of it; and the part
\* of it whose subject the table of the month lists.
Billed(m, from, to) ==
    {i \in Scoped : /\ ~Waived(i) /\ details[i].type \in MoneyTypes
                    /\ details[i].date[1] = m /\ details[i].date[2] \in from..to}
Listed(mode, m, from, to) == {i \in Billed(m, from, to) : Key(mode, i) \in PivotKeys(mode, m)}

\* What a subject of the table was billed in a window, waived days left out.
LEMMA SliceIs ==
    ASSUME RowsInv, NEW mode \in Modes, NEW m \in Months, NEW k \in PivotKeys(mode, m), NEW from, NEW to
    PROVE  Slice(mode, k, m, from, to) = Group(Listed(mode, m, from, to), SubjectOf(mode), k)
<1>1. m <= m
  BY MonthsAreInts
<1> QED
  BY <1>1, ScopedLive DEF Slice, History, Group, Listed, Billed, SubjectOf, Live

\* The rows of a table owe what was billed to them.
LEMMA DueIs ==
    ASSUME RowsInv, NEW mode \in Modes, NEW m \in Months, NEW from, NEW to
    PROVE  OverRows(mode, m, LAMBDA k : WindowTarget(mode, k, m, from, to)) = Due(Listed(mode, m, from, to))
<1> DEFINE K == PivotKeys(mode, m)
           S == Listed(mode, m, from, to)
           g == [k \in K |-> WindowTarget(mode, k, m, from, to)]
<1>1. OverRows(mode, m, LAMBDA k : WindowTarget(mode, k, m, from, to)) = SumFunction(g)
  BY DEF OverRows
<1>2. ASSUME NEW k \in K PROVE g[k] = Due(Group(S, SubjectOf(mode), k))
  BY AskedKeys, SliceIs DEF WindowTarget
<1>3. SumFunction(g) = SumFunctionOnSet(g, K)
  BY SumIs
<1>4. S \subseteq Live
  BY ScopedLive DEF Listed, Billed
<1>5. IsFiniteSet(K) /\ \A i \in S : SubjectOf(mode)[i] \in K
  BY ScopedLive, PivotKeysFinite DEF Listed, Billed, SubjectOf, Live
<1> HIDE DEF K, g, S
<1>6. Due(S) = SumFunctionOnSet(g, K)
  BY <1>2, <1>4, <1>5, ByGroup
<1> QED
  BY <1>1, <1>3, <1>6 DEF S

LEMMA TableDueIs ==
    ASSUME RowsInv, NEW mode \in Modes, NEW m \in Months
    PROVE  TableDue(mode, m) = Due(Listed(mode, m, 1, DaysIn[m]))
<1>1. \A k : CalculatedTarget(mode, k, m) = WindowTarget(mode, k, m, 1, DaysIn[m])
  BY DEF CalculatedTarget, WindowTarget, MonthSlice
<1>2. TableDue(mode, m) = SumFunction([k \in PivotKeys(mode, m) |-> CalculatedTarget(mode, k, m)])
  BY DEF TableDue, OverRows
<1>3. OverRows(mode, m, LAMBDA k : WindowTarget(mode, k, m, 1, DaysIn[m]))
          = SumFunction([k \in PivotKeys(mode, m) |-> WindowTarget(mode, k, m, 1, DaysIn[m])])
  BY DEF OverRows
<1>4. OverRows(mode, m, LAMBDA k : WindowTarget(mode, k, m, 1, DaysIn[m])) = Due(Listed(mode, m, 1, DaysIn[m]))
  BY DueIs
<1> QED
  BY <1>1, <1>2, <1>3, <1>4

\* What a month was billed is in its table, or to a subject the table misses.
LEMMA DueAndMissed ==
    ASSUME RowsInv, NEW mode \in Modes, NEW m \in Months
    PROVE  /\ TableDue(mode, m) + Due(Missed(mode, m)) = Due(Billed(m, 1, DaysIn[m]))
           /\ TableDue(mode, m) \in Int /\ Due(Missed(mode, m)) \in Int
<1> DEFINE S == Listed(mode, m, 1, DaysIn[m])
           T == {i \in Missed(mode, m) : details[i].type \in MoneyTypes}
<1>1. \A i \in Scoped : i \in Live /\ (details[i].date[1] = m => details[i].date[2] \in 1..DaysIn[m])
  BY ScopedLive, LiveRow
<1>2. Billed(m, 1, DaysIn[m]) = S \cup T /\ S \cap T = {}
  BY <1>1 DEF Listed, Billed, Missed
<1>3. S \subseteq Live /\ T \subseteq Live /\ Missed(mode, m) \subseteq Live
  BY <1>1 DEF Listed, Billed, Missed
<1>4. {i \in T : details[i].type \in MoneyTypes} = {i \in Missed(mode, m) : details[i].type \in MoneyTypes}
  OBVIOUS
<1>5. TableDue(mode, m) = Due(S)
  BY TableDueIs
<1> HIDE DEF S, T
<1>6. Due(T) = Due(Missed(mode, m))
  BY <1>4, MoneyOnly
<1> QED
  BY <1>2, <1>3, <1>5, <1>6, FiguresInParts, FiguresAre

\* The shortfall is the sum of those of the subjects, each due less setoran.
LEMMA ShortfallIs ==
    ASSUME RowsInv, NEW mode \in Modes, NEW m \in Months
    PROVE  TableShortfall(mode, m) = TableDue(mode, m) - TableDeduction(mode, m)
<1> DEFINE K == PivotKeys(mode, m)
           s == [k \in K |-> OutstandingMonth(mode, k, m)]
           t == [k \in K |-> CalculatedTarget(mode, k, m)]
           p == [k \in K |-> TotalDeduction(mode, k, m)]
<1>1. /\ TableShortfall(mode, m) = SumFunctionOnSet(s, K) /\ TableDue(mode, m) = SumFunctionOnSet(t, K)
      /\ TableDeduction(mode, m) = SumFunctionOnSet(p, K)
  <2>1. TableShortfall(mode, m) = SumFunction(s) /\ TableDue(mode, m) = SumFunction(t) /\ TableDeduction(mode, m) = SumFunction(p)
    BY DEF TableShortfall, TableDue, TableDeduction, OverRows
  <2>2. DOMAIN s = K /\ DOMAIN t = K /\ DOMAIN p = K
    OBVIOUS
  <2> HIDE DEF s, t, p, K
  <2> QED
    BY <2>1, <2>2, SumIs
<1>2. ASSUME NEW k \in K PROVE s[k] \in Int /\ p[k] \in Int /\ t[k] = s[k] + p[k]
  <2>1. MonthSlice(mode, k, m) \subseteq Live /\ RowsOf(mode, k, m) \subseteq Live
    BY ScopedLive DEF MonthSlice, Slice, History, RowsOf
  <2>2. TotalDeduction(mode, k, m) \in Nat /\ CalculatedTarget(mode, k, m) \in Nat
    BY <2>1, FiguresAre, AskedKeys DEF TotalDeduction, CalculatedTarget
  <2> QED
    BY <2>2 DEF OutstandingMonth
<1>3. IsFiniteSet(K)
  BY PivotKeysFinite
<1> HIDE DEF s, t, p, K
<1>4. SumFunctionOnSet(t, K) = SumFunctionOnSet(s, K) + SumFunctionOnSet(p, K)
      /\ SumFunctionOnSet(s, K) \in Int /\ SumFunctionOnSet(p, K) \in Int
  BY <1>2, <1>3, SumPlus, SumInt
<1> QED
  BY <1>1, <1>4

\* Both modes group the same rows.
LEMMA SameTotals == RowsInv => TotalsSameInBothModes
<1> SUFFICES ASSUME RowsInv PROVE TotalsSameInBothModes
  OBVIOUS
<1>1. "plate" \in Modes /\ "driver" \in Modes
  BY DEF Modes
<1>2. ASSUME NEW mode \in Modes, NEW m \in Months
      PROVE  /\ TableDeduction(mode, m) = Counted(PivotRows(m)) /\ Counted(PivotRows(m)) \in Int
             /\ TableDue(mode, m) + Due(Missed(mode, m)) = Due(Billed(m, 1, DaysIn[m]))
             /\ TableShortfall(mode, m) + Due(Missed(mode, m)) = Due(Billed(m, 1, DaysIn[m])) - Counted(PivotRows(m))
  <2>1. TableDeduction(mode, m) = Counted(PivotRows(m)) /\ Counted(PivotRows(m)) \in Int
    BY DeductionIs, ScopedLive, FiguresAre
  <2>2. TableShortfall(mode, m) = TableDue(mode, m) - TableDeduction(mode, m)
    BY ShortfallIs
  <2> QED
    BY <2>1, <2>2, DueAndMissed
<1>3. \A m, d : DailyTotal("plate", m, d) = DailyTotal("driver", m, d)
  BY <1>1, DailyIs
<1> QED
  BY <1>1, <1>2, <1>3 DEF TotalsSameInBothModes

-----------------------------------------------------------------------------
(* The breakdown *)

ContributorOf(mode) == [i \in Ids |-> PartKey(mode, i)]
MonthDated          == [i \in Ids |-> details[i].date[1]]

\* A balance is the sum of its contributors, and of its months.
LEMMA BreakdownAddsUp == RowsInv => BreakdownMatchesBalance
<1> SUFFICES ASSUME RowsInv, NEW mode \in Modes, NEW m \in Months, NEW k \in PivotKeys(mode, m)
             PROVE  /\ SumFunction([p \in Contributors(mode, k, m) |-> PartDelta(mode, k, m, p)])
                           = Outstanding(mode, k, m)
                    /\ RunningBalance(mode, k, m, m) = Outstanding(mode, k, m)
                    /\ \A ym \in 1..m : k \in PivotKeys(mode, ym) =>
                           RunningBalance(mode, k, m, ym) = Outstanding(mode, k, ym)
  BY DEF BreakdownMatchesBalance
<1> DEFINE H == History(mode, k, m)
<1>1. H \subseteq Live /\ H \subseteq Ids /\ IsFiniteSet(H)
  BY ScopedLive, RowsFinite DEF History
<1>2. SumFunction([p \in Contributors(mode, k, m) |-> PartDelta(mode, k, m, p)]) = Balance(H)
  <2> DEFINE K == Contributors(mode, k, m)
             g == [p \in K |-> PartDelta(mode, k, m, p)]
  <2>1. \A p \in K : \E i \in H : ContributorOf(mode)[i] = p
    BY <1>1 DEF Contributors, ContributorOf
  <2>2. IsFiniteSet(K)
    BY <1>1, <2>1, ImageFinite
  <2>3. \A i \in H : ContributorOf(mode)[i] \in K
    BY <1>1 DEF Contributors, ContributorOf
  <2>4. ASSUME NEW p \in K PROVE g[p] = Balance(Group(H, ContributorOf(mode), p))
    <3>1. Group(H, ContributorOf(mode), p) = {i \in H : PartKey(mode, i) = p}
      BY <1>1 DEF Group, ContributorOf
    <3> QED
      BY <3>1 DEF PartDelta
  <2>5. SumFunction(g) = SumFunctionOnSet(g, K)
    BY SumIs
  <2> HIDE DEF K, g, H
  <2>6. Balance(H) = SumFunctionOnSet(g, K)
    BY <1>1, <2>2, <2>3, <2>4, ByGroup
  <2> QED
    BY <2>5, <2>6 DEF K, g
<1>3. ASSUME NEW ym \in 1..m PROVE RunningBalance(mode, k, m, ym) = Balance(History(mode, k, ym))
  <2> DEFINE K == {l \in MovedMonths(mode, k, m) : l <= ym}
             g == [n \in K |-> Delta(mode, k, m, n)]
             S == History(mode, k, ym)
  <2>1. ym \in Int /\ m \in Int /\ ym <= m
    BY MonthsAreInts
  <2>2. \A i \in H : details[i].date[1] \in Int
    BY <1>1, LiveRow
  <2>3. S = {i \in H : details[i].date[1] <= ym} /\ S \subseteq Live /\ S \subseteq Ids /\ S \subseteq H
    <3>1. \A i \in Scoped : details[i].date[1] \in Int
      BY ScopedLive, LiveRow
    <3>2. \A i \in Scoped : details[i].date[1] <= ym => details[i].date[1] <= m
      BY <2>1, <3>1
    <3>3. S = {i \in H : details[i].date[1] <= ym}
      BY <3>2 DEF History
    <3> QED
      BY <1>1, <3>3
  <2>4. \A n \in K : \E i \in H : MonthDated[i] = n
    BY <1>1 DEF MovedMonths, MonthDated
  <2>5. IsFiniteSet(K)
    BY <1>1, <2>4, ImageFinite
  <2>6. \A i \in S : MonthDated[i] \in K
    BY <1>1, <2>3 DEF MovedMonths, MonthDated
  <2>7. ASSUME NEW n \in K PROVE g[n] = Balance(Group(S, MonthDated, n))
    <3>1. Group(S, MonthDated, n) = {i \in H : details[i].date[1] = n}
      BY <1>1, <2>3 DEF Group, MonthDated
    <3> QED
      BY <3>1 DEF Delta
  <2>8. RunningBalance(mode, k, m, ym) = SumFunctionOnSet(g, K)
    BY SumIs DEF RunningBalance
  <2> HIDE DEF K, g, S
  <2>9. Balance(S) = SumFunctionOnSet(g, K)
    BY <2>3, <2>5, <2>6, <2>7, ByGroup
  <2> QED
    BY <2>8, <2>9 DEF S
<1>4. m \in 1..m /\ 1..m \subseteq Months
  BY CalendarAssumption DEF Months
<1>5. ASSUME NEW ym \in Months, k \in PivotKeys(mode, ym)
      PROVE  Outstanding(mode, k, ym) = Balance(History(mode, k, ym))
  BY <1>5, AskedKeys DEF Outstanding
<1> QED
  BY <1>2, <1>3, <1>4, <1>5

-----------------------------------------------------------------------------
(***************************************************************************)
(* What a range shows, what its caption says, and who is still owed: the   *)
(* rows of those who left are set apart from the others, and none is in    *)
(* neither.                                                                *)
(***************************************************************************)

(* A range *)

DayDated  == [i \in Ids |-> details[i].date[2]]
DateOf    == [i \in Ids |-> details[i].date]

\* A row counts as setoran on its day of the month, in the month it is filed in,
\* and is due on its date.
FiledOn   == [i \in Ids |-> <<details[i].period, details[i].date[2]>>]
PeriodOf  == [i \in Ids |-> details[i].period]

Filed(from, to) ==
    {i \in Scoped : /\ details[i].type \in MoneyTypes
                    /\ FiledOn[i] \in Dates /\ Between(from, FiledOn[i], to)}
Dated(from, to) == {i \in Scoped : Between(from, details[i].date, to)}
BilledIn(from, to) ==
    {i \in Dated(from, to) : /\ ~Waived(i) /\ details[i].type \in MoneyTypes
                             /\ Key("plate", i) \in PivotKeys("plate", details[i].date[1])}

\* A row is in a range when its day is in the window of its month.
LEMMA DatedRow ==
    ASSUME RowsInv, NEW from \in Dates, NEW to \in Dates, NEW i \in Scoped
    PROVE  /\ i \in Live /\ i \in Ids /\ MonthDated[i] = details[i].date[1] /\ DayDated[i] = details[i].date[2]
           /\ i \in Dated(from, to) <=>
                  details[i].date[1] \in MonthsOf(from, to) /\ details[i].date[2] \in WindowOf(from, to, details[i].date[1])
<1>1. i \in Live /\ i \in Ids /\ details[i].date \in Dates
  BY ScopedLive, LiveRow
<1> QED
  BY <1>1, RangeByMonth DEF Dated, MonthDated, DayDated

\* The same of the day it is filed on.
LEMMA FiledRow ==
    ASSUME RowsInv, NEW from \in Dates, NEW to \in Dates, NEW i \in Scoped
    PROVE  /\ i \in Live /\ i \in Ids /\ PeriodOf[i] = details[i].period
           /\ i \in Filed(from, to) <=>
                  /\ details[i].type \in MoneyTypes
                  /\ details[i].period \in MonthsOf(from, to)
                  /\ details[i].date[2] \in WindowOf(from, to, details[i].period)
<1> DEFINE p == details[i].period
           d == details[i].date[2]
           f == <<p, d>>
<1>1. i \in Live /\ i \in Ids /\ PeriodOf[i] = p /\ FiledOn[i] = f /\ f[1] = p /\ f[2] = d
  BY ScopedLive, LiveRow DEF PeriodOf, FiledOn
<1>2. p \in MonthsOf(from, to) /\ d \in WindowOf(from, to, p) => f \in Dates
  <2>1. SUFFICES ASSUME p \in MonthsOf(from, to), d \in WindowOf(from, to, p) PROVE f \in Dates
    OBVIOUS
  <2>2. p \in Months /\ d \in 1..DaysIn[p]
    BY <2>1, RangeByMonth
  <2> QED
    BY <2>2 DEF Dates
<1> HIDE DEF f, p, d
<1>3. f \in Dates => (Between(from, f, to) <=> p \in MonthsOf(from, to) /\ d \in WindowOf(from, to, p))
  BY <1>1, RangeByMonth
<1>4. i \in Filed(from, to) <=> details[i].type \in MoneyTypes /\ p \in MonthsOf(from, to) /\ d \in WindowOf(from, to, p)
  BY <1>1, <1>2, <1>3 DEF Filed
<1> QED
  BY <1>1, <1>4 DEF p, d

\* A range, added up month by month, is the rows filed in it.
LEMMA RangeDeductionIs ==
    ASSUME RowsInv, NEW from \in Dates, NEW to \in Dates
    PROVE  RangeDeduction(from, to) = Counted(Filed(from, to))
<1> DEFINE M == MonthsOf(from, to)
           S == Filed(from, to)
           W(m) == WindowOf(from, to, m)
           days(m) == [d \in W(m) |-> DailyTotal("plate", m, d)]
           g == [m \in M |-> SumFunction(days(m))]
<1>1. IsFiniteSet(M) /\ M \subseteq Months /\ "plate" \in Modes
  BY RangeByMonth DEF Modes
<1>2. S \subseteq Live /\ \A i \in S : PeriodOf[i] \in M
  <2>1. S \subseteq Scoped
    BY DEF Filed
  <2> QED
    BY <2>1, FiledRow
<1>3. ASSUME NEW m \in M PROVE g[m] = Counted(Group(S, PeriodOf, m))
  <2> DEFINE R == {i \in PivotRows(m) : details[i].date[2] \in W(m)}
  <2>1. Group(S, PeriodOf, m) = R
    <3>1. \A i \in Scoped : i \in S /\ PeriodOf[i] = m <=>
              details[i].type \in MoneyTypes /\ details[i].period = m /\ details[i].date[2] \in W(m)
      BY FiledRow
    <3>2. S \subseteq Scoped
      BY DEF Filed
    <3> HIDE DEF S, W
    <3> QED
      BY <3>1, <3>2 DEF Group, PivotRows
  <2>2. R \subseteq Live /\ R \subseteq Ids /\ \A i \in R : DayDated[i] = details[i].date[2] /\ DayDated[i] \in W(m)
    BY ScopedLive DEF DayDated
  <2>3. ASSUME NEW d \in W(m) PROVE days(m)[d] = Counted(Group(R, DayDated, d))
    <3>1. Group(R, DayDated, d) = OnDay(PivotRows(m), d)
      BY <2>2, ScopedLive DEF Group, OnDay, DayDated
    <3> QED
      BY <1>1, <3>1, DailyIs
  <2>4. IsFiniteSet(W(m))
    <3>1. W(m) \in SUBSET (1..DaysIn[m]) /\ IsFiniteSet(1..DaysIn[m])
      BY <1>1, RangeByMonth, MonthLength, FS_Interval
    <3> QED
      BY <3>1, FS_Subset
  <2>5. SumFunction(days(m)) = SumFunctionOnSet(days(m), W(m))
    BY SumIs
  <2>6. g[m] = SumFunction(days(m))
    OBVIOUS
  <2> HIDE DEF g, days, W, R
  <2>7. Counted(R) = SumFunctionOnSet(days(m), W(m))
    BY <2>2, <2>3, <2>4, ByGroup
  <2> QED
    BY <2>1, <2>5, <2>6, <2>7
<1>4. RangeDeduction(from, to) = SumFunctionOnSet(g, M)
  BY SumIs DEF RangeDeduction
<1> HIDE DEF M, S, g
<1>5. Counted(S) = SumFunctionOnSet(g, M)
  BY <1>1, <1>2, <1>3, ByGroup
<1> QED
  BY <1>4, <1>5 DEF S

LEMMA RangeDueIs ==
    ASSUME RowsInv, NEW from \in Dates, NEW to \in Dates
    PROVE  RangeDue(from, to) = Due(BilledIn(from, to))
<1> DEFINE M == MonthsOf(from, to)
           S == BilledIn(from, to)
           g == [m \in M |-> OverRows("plate", m,
                                 LAMBDA k : WindowTarget("plate", k, m, FromDay(from, m), ToDay(to, m)))]
<1>1. IsFiniteSet(M) /\ M \subseteq Months /\ "plate" \in Modes
  BY RangeByMonth DEF Modes
<1>2. S \subseteq Live /\ \A i \in S : MonthDated[i] \in M
  BY DatedRow DEF Dated, BilledIn
<1>3. ASSUME NEW m \in M PROVE g[m] = Due(Group(S, MonthDated, m))
  <2>1. Group(S, MonthDated, m) = Listed("plate", m, FromDay(from, m), ToDay(to, m))
    <3>1. \A i \in Scoped : i \in S /\ MonthDated[i] = m <=>
              /\ ~Waived(i) /\ details[i].type \in MoneyTypes
              /\ details[i].date[1] = m /\ details[i].date[2] \in FromDay(from, m)..ToDay(to, m)
              /\ Key("plate", i) \in PivotKeys("plate", m)
      BY DatedRow DEF BilledIn, WindowOf
    <3>2. S \subseteq Scoped
      BY DEF Dated, BilledIn
    <3> HIDE DEF S
    <3> QED
      BY <3>1, <3>2 DEF Group, Listed, Billed
  <2>2. g[m] = Due(Listed("plate", m, FromDay(from, m), ToDay(to, m)))
    BY <1>1, DueIs
  <2> QED
    BY <2>1, <2>2
<1>4. RangeDue(from, to) = SumFunctionOnSet(g, M)
  BY SumIs DEF RangeDue
<1> HIDE DEF M, S, g
<1>5. Due(S) = SumFunctionOnSet(g, M)
  BY <1>1, <1>2, <1>3, ByGroup
<1> QED
  BY <1>4, <1>5 DEF S

\* Day by day.
LEMMA RangeOfDays ==
    ASSUME RowsInv, NEW from \in Dates, NEW to \in Dates,
           NEW days, days = {d \in Dates : Between(from, d, to)}
    PROVE  /\ RangeDeduction(from, to) = SumFunction([d \in days |-> RangeDeduction(d, d)])
           /\ RangeDue(from, to) = SumFunction([d \in days |-> RangeDue(d, d)])
<1> DEFINE c == [d \in days |-> RangeDeduction(d, d)]
           b == [d \in days |-> RangeDue(d, d)]
<1>1. IsFiniteSet(days) /\ days \subseteq Dates
  <2>1. days \in SUBSET Dates
    OBVIOUS
  <2> QED
    BY <2>1, DatesFinite, FS_Subset
<1>2. \A i \in Scoped : i \in Live /\ i \in Ids /\ details[i].date \in Dates /\ DateOf[i] = details[i].date
  BY ScopedLive, LiveRow DEF DateOf
<1>3. /\ Filed(from, to) \subseteq Live /\ BilledIn(from, to) \subseteq Live
      /\ \A i \in Filed(from, to) : FiledOn[i] \in days
      /\ \A i \in BilledIn(from, to) : DateOf[i] \in days
  BY <1>2 DEF Filed, Dated, BilledIn
<1>4. ASSUME NEW d \in days
      PROVE  Group(Filed(from, to), FiledOn, d) = Filed(d, d) /\ Group(BilledIn(from, to), DateOf, d) = BilledIn(d, d)
  <2>1. \A i \in Scoped : Between(d, details[i].date, d) <=> details[i].date = d
    BY <1>1, <1>2, OneDay
  <2>2. \A i \in Scoped : details[i].date = d => Between(from, details[i].date, to)
    OBVIOUS
  <2>3. \A i \in Scoped : FiledOn[i] \in Dates => (Between(d, FiledOn[i], d) <=> FiledOn[i] = d)
    BY <1>1, OneDay
  <2>4. \A i \in Scoped : FiledOn[i] = d => FiledOn[i] \in Dates /\ Between(from, FiledOn[i], to)
    BY <1>1
  <2>5. Group(Filed(from, to), FiledOn, d) = Filed(d, d)
    BY <2>3, <2>4 DEF Group, Filed
  <2>6. Group(BilledIn(from, to), DateOf, d) = BilledIn(d, d)
    BY <1>2, <2>1, <2>2 DEF Group, BilledIn, Dated
  <2> QED
    BY <2>5, <2>6
<1>5. \A d \in days : c[d] = Counted(Group(Filed(from, to), FiledOn, d))
  BY <1>1, <1>4, RangeDeductionIs
<1>6. \A d \in days : b[d] = Due(Group(BilledIn(from, to), DateOf, d))
  BY <1>1, <1>4, RangeDueIs
<1>7. SumFunction(c) = SumFunctionOnSet(c, days) /\ SumFunction(b) = SumFunctionOnSet(b, days)
  BY SumIs
<1> HIDE DEF c, b
<1>8. Counted(Filed(from, to)) = SumFunctionOnSet(c, days)
  BY <1>1, <1>3, <1>5, ByGroup
<1>9. Due(BilledIn(from, to)) = SumFunctionOnSet(b, days)
  BY <1>1, <1>3, <1>6, ByGroup
<1>10. RangeDeduction(from, to) = SumFunction(c) /\ RangeDue(from, to) = SumFunction(b)
  BY <1>7, <1>8, <1>9, RangeDeductionIs, RangeDueIs
<1> QED
  BY <1>10 DEF c, b

\* The last day of a month closes it.
LEMMA MonthEnds ==
    ASSUME RowsInv, NEW mode \in Modes, NEW m \in Months
    PROVE  OutstandingToDay(mode, m, DaysIn[m]) = TableOutstanding(mode, m)
<1> DEFINE K == {s \in PivotKeys(mode, m) : ~Exited(mode, s)}
           f == [k \in K |-> Outstanding(mode, k, m) - MonthBalanceDelta(mode, k, m) + DeltaToDay(mode, k, m, DaysIn[m])]
           g == [k \in K |-> Outstanding(mode, k, m)]
<1>1. OutstandingToDay(mode, m, DaysIn[m]) = SumFunction(f) /\ TableOutstanding(mode, m) = SumFunction(g)
  BY DEF OutstandingToDay, TableOutstanding, OverActive
<1>2. ASSUME NEW k \in K PROVE f[k] = g[k]
  <2>1. DeltaToDay(mode, k, m, DaysIn[m]) = MonthBalanceDelta(mode, k, m)
    BY DEF DeltaToDay, MonthBalanceDelta, MonthSlice
  <2>2. MonthSlice(mode, k, m) \subseteq Live /\ History(mode, k, m) \subseteq Live
    BY ScopedLive DEF MonthSlice, Slice, History
  <2>3. MonthBalanceDelta(mode, k, m) \in Int /\ Outstanding(mode, k, m) \in Int
    BY <2>2, FiguresAre, AskedKeys DEF MonthBalanceDelta, Outstanding
  <2>4. \A p, q \in Int : p - q + q = p
    OBVIOUS
  <2> QED
    BY <2>1, <2>3, <2>4
<1>3. f = g
  BY <1>2
<1> HIDE DEF f, g
<1> QED
  BY <1>1, <1>3

\* A range of one whole month is that month, but for the days it does not have.
LEMMA WholeRange ==
    ASSUME RowsInv, NEW m \in Months
    PROVE  /\ RangeDeduction(<<m, 1>>, <<m, DaysIn[m]>>) + Counted(OffMonth(m)) = TableDeduction("plate", m)
           /\ RangeDeduction(<<m, 1>>, <<m, DaysIn[m]>>) = Counted({i \in PivotRows(m) : details[i].date[2] \in WholeMonth(m)})
           /\ RangeDue(<<m, 1>>, <<m, DaysIn[m]>>) = TableDue("plate", m)
           /\ RangeAsOf(<<m, DaysIn[m]>>) = TableOutstanding("plate", m)
<1> DEFINE first == <<m, 1>>
           last == <<m, DaysIn[m]>>
           R == {i \in PivotRows(m) : details[i].date[2] \in WholeMonth(m)}
<1>1. m \in Int /\ DaysIn[m] \in Nat \ {0} /\ first \in Dates /\ last \in Dates
  BY MonthsAreInts, MonthLength DEF Dates
<1>2. \A n : n \in MonthsOf(first, last) <=> n = m
  BY <1>1 DEF MonthsOf
<1>3. WindowOf(first, last, m) = 1..DaysIn[m]
  BY <1>1 DEF WindowOf, FromDay, ToDay
<1>4. "plate" \in Modes
  BY DEF Modes
<1>5. RangeAsOf(last) = TableOutstanding("plate", m)
  BY <1>4, MonthEnds DEF RangeAsOf, last
<1> HIDE DEF first, last
<1>6. Filed(first, last) = R
  <2>1. \A i \in Scoped : i \in Filed(first, last) <=>
            details[i].type \in MoneyTypes /\ details[i].period = m /\ details[i].date[2] \in WholeMonth(m)
    BY <1>1, <1>2, <1>3, FiledRow DEF WholeMonth
  <2>2. Filed(first, last) \subseteq Scoped
    BY DEF Filed
  <2> QED
    BY <2>1, <2>2 DEF PivotRows
<1>7. PivotRows(m) = R \cup OffMonth(m) /\ R \cap OffMonth(m) = {} /\ R \subseteq Live /\ OffMonth(m) \subseteq Live
  BY ScopedLive DEF OffMonth
<1>8. BilledIn(first, last) = Listed("plate", m, 1, DaysIn[m])
  <2>1. \A i \in Scoped : i \in Dated(first, last) <=>
            details[i].date[1] = m /\ details[i].date[2] \in 1..DaysIn[m]
    BY <1>1, <1>2, <1>3, DatedRow
  <2>2. Dated(first, last) \subseteq Scoped
    BY DEF Dated
  <2> QED
    BY <2>1, <2>2 DEF BilledIn, Listed, Billed
<1>9. RangeDeduction(first, last) = Counted(R)
  BY <1>1, <1>6, RangeDeductionIs
<1>10. TableDeduction("plate", m) = Counted(PivotRows(m))
  BY <1>4, DeductionIs
<1> HIDE DEF R
<1>11. Counted(PivotRows(m)) = Counted(R) + Counted(OffMonth(m))
  BY <1>7, FiguresInParts
<1>12. RangeDue(first, last) = TableDue("plate", m)
  BY <1>1, <1>4, <1>8, RangeDueIs, TableDueIs
<1> QED
  BY <1>5, <1>9, <1>10, <1>11, <1>12 DEF first, last, R

\* Adjacent ranges part the rows of the whole.
LEMMA RangesOfInv == RowsInv => RangesAddUp
<1> SUFFICES ASSUME RowsInv PROVE RangesAddUp
  OBVIOUS
<1>1. ASSUME NEW from \in Dates, NEW to \in Dates
      PROVE  LET days == {d \in Dates : Upto(from, d) /\ Upto(d, to)}
             IN  /\ RangeDeduction(from, to) = SumFunction([d \in days |-> RangeDeduction(d, d)])
                 /\ RangeDue(from, to) = SumFunction([d \in days |-> RangeDue(d, d)])
  <2>1. {d \in Dates : Upto(from, d) /\ Upto(d, to)} = {d \in Dates : Between(from, d, to)}
    BY DEF Between
  <2> DEFINE days == {d \in Dates : Upto(from, d) /\ Upto(d, to)}
  <2>2. days = {d \in Dates : Between(from, d, to)}
    BY <2>1
  <2> HIDE DEF days
  <2>3. /\ RangeDeduction(from, to) = SumFunction([d \in days |-> RangeDeduction(d, d)])
        /\ RangeDue(from, to) = SumFunction([d \in days |-> RangeDue(d, d)])
    BY <2>2, RangeOfDays
  <2> QED
    BY <2>3 DEF days
<1> QED
  BY <1>1, WholeRange DEF RangesAddUp


-----------------------------------------------------------------------------
(* The caption *)

\* Amounts are above zero: something is due of some rows when one of them bills.
LEMMA DueMeansBilled ==
    ASSUME RowsInv, NEW S, S \subseteq Live
    PROVE  Due(S) > 0 <=> \E i \in S : details[i].type = "due"
<1>1. IsFiniteSet(S) /\ S \subseteq Ids /\ \A i \in S : DueOf[i] \in Nat
  BY RowsFinite, LiveRow
<1>2. Due(S) = SumFunctionOnSet(DueOf, S) /\ Due(S) \in Nat
  BY FiguresAre
<1>3. Due(S) = 0 <=> \A i \in S : DueOf[i] = 0
  BY <1>1, <1>2, SumIsZero
<1>4. \A i \in S : DueOf[i] = 0 <=> details[i].type # "due"
  BY <1>1, LiveRow DEF DueOf
<1> QED
  BY <1>2, <1>3, <1>4

\* The days a caption names are those with a bill in the window.
LEMMA CaptionOfInv == RowsInv => CaptionMatchesAmount
<1> SUFFICES ASSUME RowsInv, NEW mode \in Modes, NEW m \in Months, NEW k \in PivotKeys(mode, m),
                    {i \in RowsOf(mode, k, m) : details[i].type = "due"}
                        = {i \in SubjectRows(mode, k) : details[i].date[1] = m /\ details[i].type = "due"}
             PROVE  /\ BilledDays(mode, k, m) =
                           {details[i].date[2] : i \in {j \in MonthSlice(mode, k, m) : details[j].type = "due"}}
                    /\ (CalculatedTarget(mode, k, m) > 0) <=> (BilledDays(mode, k, m) # {})
  BY DEF CaptionMatchesAmount
<1> DEFINE S == MonthSlice(mode, k, m)
           T == {i \in S : details[i].type = "due"}
<1>1. \A i \in Scoped : /\ i \in Live /\ details[i].date[2] \in 1..DaysIn[details[i].date[1]]
                        /\ details[i].date = <<details[i].date[1], details[i].date[2]>>
  BY ScopedLive, LiveRow
<1>2. m <= m /\ "due" \in MoneyTypes
  BY MonthsAreInts DEF MoneyTypes
<1>3. S \subseteq Scoped /\ RowsOf(mode, k, m) \subseteq Scoped
  BY DEF MonthSlice, Slice, History, RowsOf, PivotRows
<1>4. \A i \in Scoped : i \in RowsOf(mode, k, m) /\ details[i].type = "due"
                            <=> Key(mode, i) = k /\ details[i].date[1] = m /\ details[i].type = "due"
  BY DEF SubjectRows
<1>5. \A i \in Scoped : i \in T <=>
          Key(mode, i) = k /\ details[i].date[1] = m /\ details[i].type = "due" /\ ~Waived(i)
  BY <1>1, <1>2 DEF MonthSlice, Slice, History
<1>6. ASSUME NEW d \in 1..DaysIn[m]
      PROVE  d \in BilledDays(mode, k, m) <=> \E i \in T : details[i].date[2] = d
  <2> DEFINE R == OnDay(RowsOf(mode, k, m), d)
  <2>1. R \subseteq Live /\ R \subseteq Scoped
    BY <1>1, <1>3 DEF OnDay
  <2>2. DailyDue(mode, k, m, d) > 0 <=> \E i \in R : details[i].type = "due"
    BY <2>1, DueMeansBilled DEF DailyDue
  <2>3. \A i \in R : details[i].type = "due" => details[i].date = <<m, d>>
    BY <1>1, <1>3, <1>4 DEF OnDay
  <2>4. AllPlatesWaived(mode, k, m, d) <=> \A i \in R : details[i].type = "due" => Waived(i)
    BY <2>3 DEF AllPlatesWaived, BilledPlates, Waived
  <2>5. d \in BilledDays(mode, k, m) <=> \E i \in R : details[i].type = "due" /\ ~Waived(i)
    BY <2>2, <2>4 DEF BilledDays
  <2>6. \A i \in Scoped : i \in R /\ details[i].type = "due" /\ ~Waived(i) <=> i \in T /\ details[i].date[2] = d
    BY <1>4, <1>5 DEF OnDay
  <2>7. T \subseteq Scoped
    BY <1>3
  <2> HIDE DEF R, S, T
  <2> QED
    BY <2>1, <2>5, <2>6, <2>7
<1>7. BilledDays(mode, k, m) \subseteq 1..DaysIn[m]
  BY DEF BilledDays
<1>8. \A i \in T : details[i].date[2] \in 1..DaysIn[m]
  BY DEF MonthSlice, Slice
<1> HIDE DEF S
<1>9. BilledDays(mode, k, m) = {details[i].date[2] : i \in T}
  BY <1>6, <1>7, <1>8
<1>10. CalculatedTarget(mode, k, m) > 0 <=> T # {}
  <2>1. S \subseteq Live
    BY <1>1, <1>3
  <2>2. CalculatedTarget(mode, k, m) = Due(S)
    BY AskedKeys DEF CalculatedTarget, S
  <2> QED
    BY <2>1, <2>2, DueMeansBilled
<1>11. T # {} <=> BilledDays(mode, k, m) # {}
  BY <1>9
<1> HIDE DEF T
<1> QED
  BY <1>9, <1>10, <1>11 DEF S, T

-----------------------------------------------------------------------------
(* Those who left, and those who did not *)

\* A subject has a row in the table, or has left, or is one the table misses, and
\* only one of the three.
LEMMA NothingLostOfInv == RowsInv => NothingLost
<1> SUFFICES ASSUME RowsInv, NEW mode \in Modes, NEW j \in Live, bookings = {},
                    \A i \in Live : Upto(details[i].date, details[j].date),
                    NEW m, m = details[j].date[1]
             PROVE  TableOutstanding(mode, m) + OutstandingDriverKeluar(mode)
                        = Balance({i \in Scoped : /\ ~Excused(details[i].plate, details[i].date)
                                                  /\ Key(mode, i) \notin Unlisted(mode, m)})
  BY DEF NothingLost
<1> DEFINE All == {i \in Scoped : /\ ~Excused(details[i].plate, details[i].date)
                                   /\ Key(mode, i) \notin Unlisted(mode, m)}
           Subj == Subjects(mode) \ Unlisted(mode, m)
           Left == {s \in Subjects(mode) : Exited(mode, s)}
           Here == {s \in PivotKeys(mode, m) : ~Exited(mode, s)}
           bal == [k \in Subj |-> Balance(Group(All, SubjectOf(mode), k))]
           gone == [k \in Left |-> ExitBalance(mode, k)]
           here == [k \in Here |-> Outstanding(mode, k, m)]
<1>1. \A i \in Live : i \in Ids /\ details[i].date \in Dates /\ SubjectOf(mode)[i] = Key(mode, i)
  BY LiveRow DEF SubjectOf
<1>2. m \in Months
  BY <1>1, DateParts
<1>3. \A i \in Scoped : ~Waived(i) <=> ~Excused(details[i].plate, details[i].date)
  BY DEF Waived, WaivedDay, RentedOut
<1>4. Left \cup Here = Subj /\ Left \cap Here = {}
  <2>1. PivotKeys(mode, m) \subseteq Subjects(mode)
    BY DEF PivotKeys, PivotRows, Subjects
  <2> QED
    BY <2>1 DEF Unlisted
<1>5. ASSUME NEW k \in Subj PROVE Balance(History(mode, k, m)) = Balance(Group(All, SubjectOf(mode), k))
  <2>1. \A i \in Scoped : i \in Live /\ details[i].date[1] <= m
    BY <1>1, ScopedLive, UptoDates
  <2>2. \A i : i \in History(mode, k, m) <=> i \in Group(All, SubjectOf(mode), k) /\ details[i].type \in MoneyTypes
    BY <1>1, <1>3, <2>1 DEF History, Group
  <2> HIDE DEF All
  <2>3. {i \in History(mode, k, m) : details[i].type \in MoneyTypes}
            = {i \in Group(All, SubjectOf(mode), k) : details[i].type \in MoneyTypes}
    BY <2>2
  <2> QED
    BY <2>3, MoneyOnly
<1>6. ASSUME NEW k \in Subj PROVE ExitBalance(mode, k) = Balance(Group(All, SubjectOf(mode), k))
  <2>1. {i \in SubjectRows(mode, k) : ~Excused(details[i].plate, details[i].date)} = Group(All, SubjectOf(mode), k)
    BY <1>1, ScopedLive DEF SubjectRows, Group
  <2> QED
    BY <2>1 DEF ExitBalance
<1>7. IsFiniteSet(Subj) /\ IsFiniteSet(Left) /\ IsFiniteSet(Here)
  <2>1. IsFiniteSet(Scoped)
    BY ScopedLive, RowsFinite
  <2>2. \A k \in Subj : \E i \in Scoped : SubjectOf(mode)[i] = k
    BY <1>1, ScopedLive DEF Subjects
  <2>3. IsFiniteSet(Subj)
    BY <2>1, <2>2, ImageFinite
  <2>4. Left \in SUBSET Subj /\ Here \in SUBSET Subj
    BY <1>4
  <2> HIDE DEF Subj, Left, Here
  <2> QED
    BY <2>3, <2>4, FS_Subset
<1>8. All \subseteq Live /\ \A i \in All : SubjectOf(mode)[i] \in Subj
  BY <1>1, ScopedLive DEF Subjects
<1>9. TableOutstanding(mode, m) = SumFunctionOnSet(here, Here)
  BY SumIs DEF TableOutstanding, OverActive
<1>10. OutstandingDriverKeluar(mode) = SumFunctionOnSet(gone, Left)
  BY SumIs DEF OutstandingDriverKeluar
<1>11. \A k \in Left : gone[k] = bal[k]
  BY <1>4, <1>6
<1>12. \A k \in Here : here[k] = bal[k]
  <2>1. ASSUME NEW k \in Here PROVE here[k] = bal[k]
    <3>1. k \in Subj /\ k \in PivotKeys(mode, m)
      BY <1>4
    <3>2. here[k] = Balance(History(mode, k, m))
      BY <3>1, AskedKeys DEF Outstanding
    <3> QED
      BY <1>5, <3>1, <3>2
  <2> QED
    BY <2>1
<1>13. \A k \in Subj : bal[k] \in Int
  <2>1. \A k : Group(All, SubjectOf(mode), k) \subseteq Live
    BY <1>8 DEF Group
  <2> QED
    BY <2>1, FiguresAre
<1>14. \A k \in Subj : bal[k] = Balance(Group(All, SubjectOf(mode), k))
  OBVIOUS
<1> HIDE DEF bal, gone, here, Subj, Left, Here, All
<1>15. Balance(All) = SumFunctionOnSet(bal, Subj)
  BY <1>7, <1>8, <1>14, ByGroup
<1>16. SumFunctionOnSet(gone, Left) = SumFunctionOnSet(bal, Left) /\ SumFunctionOnSet(here, Here) = SumFunctionOnSet(bal, Here)
  BY <1>7, <1>11, <1>12, SumSame
<1>17. SumFunctionOnSet(bal, Left \cup Here) = SumFunctionOnSet(bal, Left) + SumFunctionOnSet(bal, Here)
  BY <1>4, <1>7, <1>13, SumUnion
<1>18. SumFunctionOnSet(bal, Left) \in Int /\ SumFunctionOnSet(bal, Here) \in Int
  BY <1>4, <1>7, <1>13, SumInt
<1>19. TableOutstanding(mode, m) + OutstandingDriverKeluar(mode) = Balance(All)
  <2>1. TableOutstanding(mode, m) = SumFunctionOnSet(bal, Here) /\ OutstandingDriverKeluar(mode) = SumFunctionOnSet(bal, Left)
    BY <1>9, <1>10, <1>16
  <2>2. Balance(All) = SumFunctionOnSet(bal, Left) + SumFunctionOnSet(bal, Here)
    BY <1>4, <1>15, <1>17
  <2> QED
    BY <1>18, <2>1, <2>2
<1> QED
  BY <1>19 DEF All

-----------------------------------------------------------------------------
LEMMA RowsInvInit == FleetInit => RowsInv
BY DEF FleetInit, RowsInv, Live

LEMMA ImportKeeps ==
    ASSUME RowsInv, NEW i \in Ids, NEW r \in Importable, ImportRow(i, r)
    PROVE  RowsInv'
BY FleetAssumption DEF RowsInv, Live, ImportRow, Importable

\* An import stores a row, and an edit leaves one.
LEMMA RowsInvNext == RowsInv /\ [FleetNext]_fleetVars => RowsInv'
<1> SUFFICES ASSUME RowsInv, [FleetNext]_fleetVars PROVE RowsInv'
  OBVIOUS
<1>0. NoRow \notin Row
  BY FleetAssumption
<1>1. ASSUME details' = details PROVE RowsInv'
  BY <1>1 DEF RowsInv, Live
<1>2. ASSUME NEW i \in Ids, NEW r \in Importable, ImportRow(i, r) PROVE RowsInv'
  BY <1>2, ImportKeeps
<1>3. ASSUME NEW i \in Live, RollBackRow(i) PROVE RowsInv'
  BY <1>0, <1>3 DEF RowsInv, Live, RollBackRow
<1>4. ASSUME NEW i \in Live, NEW p \in Plates \cup {NoPlate}, NEW n \in Drivers \cup {NoDriver}, NEW c \in BOOLEAN,
             EditDetail(i, p, n, c)
      PROVE  RowsInv'
  <2> DEFINE new == [details[i] EXCEPT !.plate = p, !.driver = n,
                                       !.counted = IF details[i].type = "manual" THEN c ELSE @]
  <2>1. i \in Ids /\ details[i] \in Row /\ details' = [details EXCEPT ![i] = new]
    <3>1. i \in Ids /\ details[i] \in Row
      BY LiveRow
    <3>2. details' = [details EXCEPT ![i] = new]
      BY <1>4 DEF EditDetail
    <3> QED
      BY <3>1, <3>2
  <2>2. new \in Row
    BY <2>1 DEF Row
  <2> HIDE DEF new
  <2> QED
    BY <1>0, <2>1, <2>2 DEF RowsInv, Live
<1>5. ASSUME NEW i \in Live, NEW q \in Plates \cup {NoPlate, Keep}, NEW n \in Drivers \cup {NoDriver, Keep},
             EditPlate(details[i].plate, details[i].period, q, n)
      PROVE  RowsInv'
  <2> DEFINE new(l) == [details[l] EXCEPT !.plate = IF q = Keep THEN @ ELSE q, !.driver = IF n = Keep THEN @ ELSE n]
             hit(l) == l \in Live /\ details[l].plate = details[i].plate /\ details[l].period = details[i].period
  <2>1. details' = [l \in Ids |-> IF hit(l) THEN new(l) ELSE details[l]]
    BY <1>5 DEF EditPlate
  <2>2. ASSUME NEW l \in Live PROVE new(l) \in Row
    BY LiveRow DEF Row
  <2>3. \A l \in Ids : details'[l] \in Row \cup {NoRow}
    BY <2>1, <2>2 DEF RowsInv
  <2>4. details' = [l \in Ids |-> details'[l]]
    BY <2>1
  <2> HIDE DEF new, hit
  <2> QED
    BY <2>3, <2>4 DEF RowsInv
<1>6. CASE UNCHANGED fleetVars
  BY <1>1, <1>6 DEF fleetVars
<1>7. ASSUME NEW e, CreateException(e) \/ RemoveException(e) \/ AddBooking(e) \/ RemoveBooking(e) PROVE RowsInv'
  BY <1>1, <1>7 DEF CreateException, RemoveException, AddBooking, RemoveBooking
<1> QED
  BY <1>2, <1>3, <1>4, <1>5, <1>6, <1>7 DEF FleetNext

\* Whatever files are imported and however their rows are edited, what is on record
\* is rows (ImportProcessor.parseGojek, DetailsService.editDriver).
THEOREM FleetFilesRows == FleetSpec => []RowsInv
BY RowsInvInit, RowsInvNext, PTL DEF FleetSpec

\* The breakdown explains the balance it opens from, whatever was imported, edited
\* and waived (buildOutstandingBreakdown, historyRows).
THEOREM BreakdownExplains == FleetSpec => []BreakdownMatchesBalance
BY RowsInvInit, RowsInvNext, BreakdownAddsUp, PTL DEF FleetSpec

\* The table by plate and the table by driver have the same setoran and daily totals,
\* and but for what was billed to subjects a table misses the same due and shortfall,
\* for any rows, exceptions and bookings (monitoring-mode.ts).
THEOREM RegroupingMovesNoMoney == FleetSpec => []TotalsSameInBothModes
BY RowsInvInit, RowsInvNext, SameTotals, PTL DEF FleetSpec

\* A range is the sum of its days, adjacent ranges add up and a whole month is the
\* grid of that month but for days it does not have, across any number of months
\* (combineGojekRange).
THEOREM RangesAreSums == FleetSpec => []RangesAddUp
BY RowsInvInit, RowsInvNext, RangesOfInv, PTL DEF FleetSpec

\* The caption of a row whose bills of the month are those filed in it, read from the
\* pivot, names exactly the days its amount was summed over (billedWindow,
\* fetchCumulativeStats).
THEOREM CaptionsAreRight == FleetSpec => []CaptionMatchesAmount
BY RowsInvInit, RowsInvNext, CaptionOfInv, PTL DEF FleetSpec

\* The balances of the active rows and the card of those who left share out everything
\* billed and paid while no booking is on record, but for what an active subject the
\* table does not list owes (fetchLifecycle).
THEOREM NoMoneyLost == FleetSpec => []NothingLost
BY RowsInvInit, RowsInvNext, NothingLostOfInv, PTL DEF FleetSpec
=============================================================================
