----------------------------- MODULE SerialPass -----------------------------
(***************************************************************************)
(* What the OSCAR checkpoint promises: the days of one build period are    *)
(* folded into the running sums month by month, in calendar order, every   *)
(* covered day once, and a build of another period is never mixed in.      *)
(* OscarAcquire is shown to implement this module.                         *)
(***************************************************************************)
EXTENDS OscarCalendar

VARIABLES total, period, through

Init ==
    /\ total = [d \in Days |-> 0]
    /\ period = NoPeriod
    /\ through = BeforeAll

Fold(p, m) ==
    /\ period \in {NoPeriod, p}
    /\ InPeriod(p, m)
    /\ through = IF FirstMonth(p, m) THEN BeforeAll ELSE Key(p, m - 1)
    /\ total' = [d \in Days |->
                    total[d] + (IF d \in Range(p, m) \cap Covered THEN 1 ELSE 0)]
    /\ period' = p
    /\ through' = Key(p, m)

Next == \E p \in Periods, m \in 1..Months : Fold(p, m)

Spec == Init /\ [][Next]_<<total, period, through>>
=============================================================================
