-------------------------- MODULE MCTableServices --------------------------
(* A small instance of TableServices.                                      *)
EXTENDS TableServices, TLC
CONSTANTS s1, d, b1, v1, v2
MCLayouts == {{}, {d}}
Symmetry == Permutations(Slots)
=============================================================================
