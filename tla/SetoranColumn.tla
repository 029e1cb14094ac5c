--------------------------- MODULE SetoranColumn ---------------------------
(***************************************************************************)
(* The Setoran column of a plate in the fleet grid: from what it was       *)
(* billed on each day of the month, the segments of equal dues and the     *)
(* daily rate that is shown.  The code walks the billed days in order; a   *)
(* step of this module is one day of that walk.                            *)
(***************************************************************************)
EXTENDS Integers, Sequences, FiniteSets

CONSTANTS
    Dues,               \* what a plate may be billed in a day; 0 is a day without a due row
    LastDay             \* the last day of the month

ASSUME ColumnAssumption == Dues \subseteq Nat /\ LastDay \in Nat

VARIABLES
    dailyDue,           \* the days walked, with their dues
    segments,           \* the segments so far
    rate                \* the most frequent due so far, its count and its last day

columnVars == <<dailyDue, segments, rate>>

Today == Len(dailyDue) + 1

\* The days billed with an amount, up to now.
DaysAt(amount) == {d \in 1..Len(dailyDue) : dailyDue[d] = amount}

-----------------------------------------------------------------------------

\* Mutant: whatever the amount, the day extends the last segment.
ExtendAlways(amount) ==
    LET n == Len(segments)
    IN  IF n > 0 THEN [segments EXCEPT ![n].toDay = Today]
        ELSE << [amount |-> amount, fromDay |-> Today, toDay |-> Today] >>

\* A day of the same amount extends the last segment, over a gap too.
Encode(amount) ==
    LET n == Len(segments)
    IN  IF n > 0 /\ segments[n].amount = amount THEN [segments EXCEPT ![n].toDay = Today]
        ELSE Append(segments, [amount |-> amount, fromDay |-> Today, toDay |-> Today])

\* The more frequent amount wins; of two equally frequent ones, the later.
Prefer(amount) ==
    LET count == Cardinality(DaysAt(amount)) + 1
    IN  IF count > rate.count \/ (count = rate.count /\ Today > rate.day)
        THEN [amount |-> amount, count |-> count, day |-> Today]
        ELSE rate

BilledDay(amount) ==
    /\ Today <= LastDay
    /\ amount > 0
    /\ dailyDue' = Append(dailyDue, amount)
    /\ segments' = Encode(amount)
    /\ rate' = Prefer(amount)

UnbilledDay ==
    /\ Today <= LastDay
    /\ dailyDue' = Append(dailyDue, 0)
    /\ UNCHANGED <<segments, rate>>

ColumnInit ==
    /\ dailyDue = << >>
    /\ segments = << >>
    /\ rate = [amount |-> 0, count |-> 0, day |-> -1]

ColumnNext == UnbilledDay \/ \E amount \in Dues : BilledDay(amount)

ColumnSpec == ColumnInit /\ [][ColumnNext]_columnVars

-----------------------------------------------------------------------------
(* Properties *)

\* The segments can be read back: every billed day lies in exactly one segment,
\* of its amount, whose ends are billed days; neighbours differ, so no run is
\* cut in two (encodeDueSegments).
SegmentsDecode ==
    LET At(d) == {n \in 1..Len(segments) : d \in segments[n].fromDay..segments[n].toDay}
    IN  /\ \A d \in 1..Len(dailyDue) : dailyDue[d] > 0 =>
               \E n \in At(d) : At(d) = {n} /\ segments[n].amount = dailyDue[d]
        /\ \A n \in 1..Len(segments) :
               /\ dailyDue[segments[n].fromDay] = segments[n].amount
               /\ dailyDue[segments[n].toDay] = segments[n].amount
               /\ n > 1 => segments[n].amount # segments[n - 1].amount

\* The rate shown is an amount billed on most days, and of those the one in
\* force last; one day at another rate never replaces it (dailyTargetFrom).
RateIsMode ==
    LET LastOf(amount) == CHOOSE d \in DaysAt(amount) : \A e \in DaysAt(amount) : e <= d
        billed == {d \in 1..Len(dailyDue) : dailyDue[d] > 0}
    IN  /\ billed = {} <=> rate.amount = 0
        /\ \A d \in billed :
               LET ours == Cardinality(DaysAt(rate.amount))  theirs == Cardinality(DaysAt(dailyDue[d]))
               IN  \/ theirs < ours
                   \/ theirs = ours /\ LastOf(dailyDue[d]) <= LastOf(rate.amount)

\* What the Setoran column shows can be read back into what was billed.
ColumnFaithful == SegmentsDecode /\ RateIsMode
=============================================================================
