--------------------------- MODULE OscarCalendar ---------------------------
(***************************************************************************)
(* The periods an OSCAR build can be asked for and the calendar months     *)
(* _month_ranges cuts them into.  Days are counted up; ISO dates compare   *)
(* as the days they name.                                                  *)
(***************************************************************************)
EXTENDS Integers

CONSTANTS
    Months,      \* number of calendar months
    MonthFirst,  \* MonthFirst[m]: the first day of month m, days counted up
    Periods,     \* the (start, end) pairs a build can be asked for
    Start, End,  \* Start[p], End[p]: first and last day of period p
    Granules,    \* the source's files, each a set of days
    NoPeriod     \* nothing has been folded yet

ASSUME MonthsAssumption ==
    /\ Months \in Nat
    /\ MonthFirst \in [1..(Months + 1) -> Int]
    /\ \A m, n \in 1..(Months + 1) : m < n => MonthFirst[m] < MonthFirst[n]

ASSUME PeriodsAssumption ==
    /\ Start \in [Periods -> Int]
    /\ End \in [Periods -> Int]
    /\ \A p \in Periods :
        /\ Start[p] <= End[p]
        /\ MonthFirst[1] <= Start[p]
        /\ End[p] < MonthFirst[Months + 1]
    /\ NoPeriod \notin Periods

Days == MonthFirst[1] .. (MonthFirst[Months + 1] - 1)

\* No completion date ("") sorts before every date.
BeforeAll == MonthFirst[1] - 1

\* The archive publishes a day at most once; a file may hold several days.
ASSUME GranulesAssumption ==
    /\ Granules \in SUBSET (SUBSET Days)
    /\ \A g, h \in Granules : g # h => g \cap h = {}

Covered == UNION Granules

\* _month_ranges: the part of month m inside the period, and its last day,
\* whose ISO date is the key written as "completed_through".
RangeFirst(p, m) == IF Start[p] > MonthFirst[m] THEN Start[p] ELSE MonthFirst[m]
Key(p, m) == IF End[p] < MonthFirst[m + 1] - 1 THEN End[p] ELSE MonthFirst[m + 1] - 1
Range(p, m) == RangeFirst(p, m) .. Key(p, m)

InPeriod(p, m) == MonthFirst[m] <= End[p] /\ Start[p] < MonthFirst[m + 1]
FirstMonth(p, m) == MonthFirst[m] <= Start[p] /\ Start[p] < MonthFirst[m + 1]

\* The samples of a pass over period p up to day t: each covered day once.
SamplesTo(p, t) == [d \in Days |-> IF d \in Start[p]..t /\ d \in Covered THEN 1 ELSE 0]
=============================================================================
