--------------------------- MODULE MCCostmap2DROS ---------------------------
(* Costmap2DROS with a loop of 5 Hz, and without one.  The other variables   *)
(* have a few values each: nothing else is bounded.                          *)
EXTENDS Costmap2DROS

MCFrequencies == {0, 5}
Loop          == {5}
=============================================================================
