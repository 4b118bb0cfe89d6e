------------------------------ MODULE MCScience ------------------------------
(* Watchpoints and sequences of the science mission for TLC. *)
EXTENDS ScienceMission

Watchpoints == {"WP24", "WP25", "WP26", "WP27", "WP28", "WP29", "WP30"}
Nothing     == {}
Changeovers == {26, 27, 28, 29, 30, 33}
==============================================================================
