--------------------------- MODULE MCOscarAcquire ---------------------------
(* Five short months.  Periods cut months at both ends; one ends and one    *)
(* starts elsewhere, and the archive has nothing for the last month of one; *)
(* a granule straddles a month boundary.                                    *)
EXTENDS OscarAcquire, TLC

CONSTANTS b1, b2, b3, long, short, late, holed

MCMonthFirst == (1 :> 1) @@ (2 :> 3) @@ (3 :> 6) @@ (4 :> 8) @@ (5 :> 10) @@ (6 :> 13)
MCStart == [p \in Periods |-> CASE p = late -> 4 [] p = holed -> 8 [] OTHER -> 2]
MCEnd == [p \in Periods |-> CASE p = short -> 5 [] p = long -> 11 [] p = holed -> 10 [] OTHER -> 8]
MCGranules == {{1, 2, 3}, {4}, {6, 7}, {8}, {9}, {11, 12}}
=============================================================================
