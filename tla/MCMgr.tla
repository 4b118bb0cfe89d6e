------------------------------- MODULE MCMgr -------------------------------
(* Small instance of Mgr: one region, counters that wrap after 2 or 3.     *)
EXTENDS Mgr

MCRegions == {"AK"}
============================================================================
