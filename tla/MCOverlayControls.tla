-------------------------- MODULE MCOverlayControls --------------------------
(* Three of the ten data types: the wind, and two that can rival it.        *)
EXTENDS OverlayControls

CONSTANTS sst, cloud
=============================================================================
