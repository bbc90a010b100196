------------------------- MODULE MCCheckpointMerge -------------------------
(* Currents: three builds, two that tile four days and one that overlaps    *)
(* them; the merged checkpoint may be merged again.  Winds: two builds, of  *)
(* which the first was asked for a year the second has too, so that they    *)
(* tile only while the first is partial.                                    *)
EXTENDS CheckpointMerge, TLC

CONSTANTS a, b, c, m

MCUnits == 1..4
MCBuilt == [current |-> {a, b, c}, wind |-> {c, b}]
MCStart == (a :> 1) @@ (b :> 3) @@ (c :> 2)
MCEnd == (a :> 2) @@ (b :> 4) @@ (c :> 3)
=============================================================================
