\* Is every month of a window scanned?
CONSTANTS
    MonthDays <- MCMonthDays
    DayRanges <- MCDayRanges
SPECIFICATION WindowSpec
INVARIANTS
    WindowComplete
CHECK_DEADLOCK FALSE
