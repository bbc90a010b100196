---------------------------- MODULE CycloneWindow ----------------------------
(***************************************************************************)
(* The date window of CycloneTrackCrossings.  A query for a date and a     *)
(* width in days scans month buckets of the cache, from the bucket of the  *)
(* first day of the window to the bucket of the last, around the turn of   *)
(* the year, and of what it finds there keeps the segments at most half    *)
(* the width away on the calendar's circle.  Dates become day numbers by   *)
(* month*365/12 + day - 1 in integers, and day numbers become months by    *)
(* day*12/365; the two are not inverse of each other.                      *)
(***************************************************************************)
EXTENDS Integers

CONSTANTS
    MonthDays,  \* MonthDays[m]: the days of month m, in a leap year
    DayRanges   \* the widths consumers ask for; 0 is a probe

ASSUME WindowAssumption ==
    /\ MonthDays \in [0..11 -> 28..31]
    /\ DayRanges \subseteq Nat \ {0}

VARIABLES
    date,      \* the date of the query: [month, day]
    dayrange,
    monthi,    \* the bucket the loop is at
    scanned,   \* the buckets it has looked into
    done

windowVars == <<date, dayrange, monthi, scanned, done>>

Dates == UNION {[month : {m}, day : 1..MonthDays[m]] : m \in 0..11}

\* The day number of a date, of the query and of a segment alike.
DayNumber(d) == (d.month * 365) \div 12 + d.day - 1

Abs(n) == IF n < 0 THEN -n ELSE n

CircularDayDistance_Linear(first, second, days) ==
    Abs(first - second) % days

CircularDayDistance(first, second, days) ==
    LET difference == Abs(first - second) % days IN
    IF difference < days - difference THEN difference ELSE days - difference

HalfRange == IF dayrange \div 2 < 182 THEN dayrange \div 2 ELSE 182
MonthOf(n) == (n * 12) \div 365
Day1 == (DayNumber(date) - HalfRange + 365) % 365
Day2 == (DayNumber(date) + HalfRange) % 365
MonthStart_Next == IF dayrange >= 365 THEN 0 ELSE MonthOf(Day1 + 1)
MonthStart == IF dayrange >= 365 THEN 0 ELSE MonthOf(Day1)
MonthEnd == IF dayrange >= 365 THEN 11 ELSE MonthOf(Day2)

\* The test each segment found in a bucket must pass.
InWindow(d) == CircularDayDistance(DayNumber(d), DayNumber(date), 365) <= HalfRange

-----------------------------------------------------------------------------
WindowInit ==
    /\ date \in Dates
    /\ dayrange \in DayRanges
    /\ monthi = MonthStart
    /\ scanned = {}
    /\ done = FALSE

\* One turn of the loop: the bucket, then the test, then the next month.
Scan ==
    /\ ~done
    /\ scanned' = scanned \cup {monthi}
    /\ done' = (monthi = MonthEnd)
    /\ monthi' = IF done' THEN monthi ELSE (monthi + 1) % 12
    /\ UNCHANGED <<date, dayrange>>

WindowNext == Scan

WindowSpec == WindowInit /\ [][WindowNext]_windowVars

-----------------------------------------------------------------------------
\* The dates whose segments the query has seen.
Seen(d) == d.month \in scanned /\ InWindow(d)

\* How far a date lies after (or before) the query's, going round the year.
After(d) == (DayNumber(d) - DayNumber(date) + 365) % 365
Before(d) == (DayNumber(date) - DayNumber(d) + 365) % 365

\* The window is the days that can be reached by walking half the width
\* forwards or backwards through the turn of the year, and no others.
WindowIsCircular ==
    \A d \in Dates : InWindow(d) <=> After(d) <= HalfRange \/ Before(d) <= HalfRange

\* The width above which both ends of a window can fall into one month.
OneMonthFree == 365 - 31

\* A year or more looks at every segment.  Below eleven months, all a query can
\* miss of its window is the segments of the last day of the window, and only
\* if that is the first of a month: the start of the window and everything in
\* between are complete, also across December.
MissesOnlyTheLastDay ==
    done =>
        \A d \in Dates :
            /\ dayrange >= 365 => Seen(d)
            /\ (dayrange < OneMonthFree /\ InWindow(d) /\ ~Seen(d))
                    => d.day = 1 /\ After(d) = HalfRange

\* D014: "Calendar interpolation and cyclone windows are circular ... explicit
\* circular day/month arithmetic": a query sees every segment of its window.
WindowComplete == done => \A d \in Dates : InWindow(d) => Seen(d)
=============================================================================
