--------------------------- MODULE MCCycloneCache ---------------------------
(* A small instance of CycloneCache: two segments, one of them filed in two *)
(* buckets, and settings that keep both, one and none of them.              *)
EXTENDS CycloneCache, TLC

CONSTANTS r1, r2, b1, b2, t1, t2, f1, f2, f3, l1, l2

MCCovers == (t1 :> {b1}) @@ (t2 :> {b1, b2})
MCKept == (f1 :> {t1, t2}) @@ (f2 :> {t1}) @@ (f3 :> {})
MCPasses == [f \in Filters |-> MCKept[f]]
MCLegBuckets == (l1 :> {b1, b2}) @@ (l2 :> {b2})
MCLegCrosses == (l1 :> {t1}) @@ (l2 :> {t2})
=============================================================================
