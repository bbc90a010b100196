----------------------------- MODULE MCIsoBars -----------------------------
(* Two settings with isobars; a third object, so that a new one need not    *)
(* take the address of the old.                                             *)
EXTENDS IsoBars

CONSTANTS jan, fine, coarse, p1, p2, p3
=============================================================================
