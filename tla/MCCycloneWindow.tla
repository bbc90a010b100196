--------------------------- MODULE MCCycloneWindow ---------------------------
(* Every date of a leap year, and widths at both ends of each range.        *)
EXTENDS CycloneWindow

MCMonthDays == [m \in 0..11 |->
    CASE m = 1 -> 29 [] m \in {3, 5, 8, 10} -> 30 [] OTHER -> 31]
MCDayRanges == {1, 2, 30, 40, 61, 182, 333, 334, 350, 364, 365, 400}
=============================================================================
