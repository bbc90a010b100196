-------------------------- MODULE MCPluginLifecycle --------------------------
(* Two months of wind with their average, one scalar field and two theatres,  *)
(* in the order of LoadInternal.                                              *)
EXTENDS PluginLifecycle, TLC

CONSTANTS jan, feb, year, slp, epa, wpa

MCOrder == <<jan, feb, year, slp, epa, wpa, ElNino>>

MCAverageOf == year :> {jan, feb}
=============================================================================
