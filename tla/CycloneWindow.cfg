\* Every date with every width.
CONSTANTS
    MonthDays <- MCMonthDays
    DayRanges <- MCDayRanges
SPECIFICATION WindowSpec
INVARIANTS
    WindowIsCircular
    MissesOnlyTheLastDay
CHECK_DEADLOCK FALSE
