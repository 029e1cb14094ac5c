--------------------------- MODULE DepositLedger ---------------------------
(***************************************************************************)
(* Cicilan deposit: the ledger computeInstallments derives from a driver's *)
(* active days, one step per day.  The mandatory daily setoran comes       *)
(* first, with what is still owed from earlier days (the arrears); only    *)
(* the surplus above it pays the installment, until the total is reached.  *)
(***************************************************************************)
EXTENDS Integers

CONSTANTS
    Rules,              \* the rules of the partner's drivers
    Setorans,           \* what a driver may pay in a day
    MaxDays             \* how many active days there are at most

\* CreateInstallmentDto: amounts and counts from 1, a mandatory setoran from 0
\* or none at all.
RuleType == [amount : Nat \ {0}, count : Nat \ {0}, surplusMode : BOOLEAN, minDailySetoran : Nat]

ASSUME RulesAssumption ==
    /\ Rules \subseteq RuleType
    /\ Setorans \subseteq Nat
    /\ MaxDays \in Nat

VARIABLES
    rule,               \* the rule whose ledger it is
    paid,               \* the installment paid so far
    arrears,            \* mandatory setoran owed so far
    days,               \* the number of entries
    net,                \* history: what was paid above (below) the mandatory, summed
    peak                \* history: the highest net so far

ledgerVars == <<rule, paid, arrears, days, net, peak>>

-----------------------------------------------------------------------------

LesserOf(a, b)  == IF a <= b THEN a ELSE b
GreaterOf(a, b) == IF a >= b THEN a ELSE b

TotalTarget == rule.amount * rule.count
Lunas       == paid >= TotalTarget
Obligation  == rule.minDailySetoran + arrears

\* What a day adds to the history.
Remember(setoran) ==
    /\ net' = net + setoran - rule.minDailySetoran
    /\ peak' = GreaterOf(peak, net')

\* The loop goes on until the total is reached.
NextDay ==
    /\ ~Lunas
    /\ days < MaxDays
    /\ days' = days + 1
    /\ UNCHANGED rule

\* No mandatory setoran: one full installment per active day.
FixedDay(setoran) ==
    /\ NextDay
    /\ ~rule.surplusMode
    /\ paid' = paid + LesserOf(rule.amount, TotalTarget - paid)
    /\ UNCHANGED <<arrears, net, peak>>

\* The day does not cover what is owed.
ShortDay(setoran) ==
    /\ NextDay
    /\ rule.surplusMode
    /\ setoran < Obligation
    /\ arrears' = Obligation - setoran
    /\ Remember(setoran)
    /\ UNCHANGED paid

\* Mutant: the surplus is taken above the day's setoran only.
ForgetArrears(setoran) ==
    /\ NextDay
    /\ rule.surplusMode
    /\ setoran >= Obligation
    /\ arrears' = 0
    /\ paid' = paid + LesserOf(setoran - rule.minDailySetoran, TotalTarget - paid)
    /\ Remember(setoran)

\* The day covers it, and what is left pays the installment.
SurplusDay(setoran) ==
    /\ NextDay
    /\ rule.surplusMode
    /\ setoran >= Obligation
    /\ arrears' = 0
    /\ paid' = paid + LesserOf(setoran - Obligation, TotalTarget - paid)
    /\ Remember(setoran)

LedgerInit ==
    /\ rule \in Rules
    /\ paid = 0
    /\ arrears = 0
    /\ days = 0
    /\ net = 0
    /\ peak = 0

LedgerNext ==
    \E setoran \in Setorans : FixedDay(setoran) \/ ShortDay(setoran) \/ SurplusDay(setoran)

LedgerSpec == LedgerInit /\ [][LedgerNext]_ledgerVars

-----------------------------------------------------------------------------
(* Properties *)

\* The day-by-day rule has a closed form: what has been paid is the highest
\* surplus over the mandatory setoran the driver ever reached, up to the total,
\* and the arrears are how far he is below it now; in fixed mode it is one
\* installment per day, up to the total (computeInstallments).
PaidIsPeakSurplus ==
    IF rule.surplusMode
    THEN paid = LesserOf(TotalTarget, peak) /\ arrears = peak - net
    ELSE paid = LesserOf(TotalTarget, rule.amount * days) /\ arrears = 0

\* A rule that is lunas leaves no arrears behind: the last day of the ledger has
\* covered everything owed (computeInstallments, presentRule).
LunasOwesNothing == Lunas => paid = TotalTarget /\ arrears = 0
=============================================================================
