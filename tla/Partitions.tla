----------------------------- MODULE Partitions -----------------------------
(***************************************************************************)
(* The check both mergers make before they add checkpoints: the intervals  *)
(* the checkpoints say they hold, sorted, must follow each other without   *)
(* overlap or gap.  A part is a record [start, end, path].                 *)
(***************************************************************************)
EXTENDS Integers, Sequences

\* The key of the sort; the path comes last in it and is left out, for parts that
\* tie are rejected whatever their order.
Earlier(a, b) == a.start < b.start \/ (a.start = b.start /\ a.end < b.end)
Sorted(parts) == \A i, j \in DOMAIN parts : i < j => ~Earlier(parts[j], parts[i])

Orders(n) == {order \in [1..n -> 1..n] : \A i, j \in 1..n : i # j => order[i] # order[j]}

\* The parts in an order that is sorted.
Sortings(parts) ==
    {sorted \in {[i \in 1..Len(parts) |-> parts[order[i]]] : order \in Orders(Len(parts))} :
        Sorted(sorted)}

Contiguous_NoOverlapTest(parts) ==
    \A i \in 1..(Len(parts) - 1) : parts[i + 1].start <= parts[i].end + 1

\* Of neighbours, one begins where the other ends.
Contiguous(parts) ==
    \A i \in 1..(Len(parts) - 1) : parts[i + 1].start = parts[i].end + 1

\* What is meant: every time unit from the first to the last is owned by
\* exactly one part.
Owners(parts, t) == {i \in DOMAIN parts : t \in parts[i].start .. parts[i].end}
Tiles(parts) ==
    \E first, last \in UNION {{parts[i].start, parts[i].end} : i \in DOMAIN parts} :
        /\ \A i \in DOMAIN parts : first <= parts[i].start /\ parts[i].end <= last
        /\ \A t \in first..last : \E i \in DOMAIN parts : Owners(parts, t) = {i}

\* Sums are functions from time units to how often each was added.
Plus(a, b) == [t \in DOMAIN a |-> a[t] + b[t]]
=============================================================================
