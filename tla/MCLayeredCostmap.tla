-------------------------- MODULE MCLayeredCostmap --------------------------
(* LayeredCostmap with a map of two cells and one of three, each with an    *)
(* obstacle at an edge, and updates that put one next to it and take it     *)
(* away again.                                                              *)
EXTENDS LayeredCostmap, TLC

Map2 == (0 :> LETHAL_OBSTACLE) @@ (1 :> FREE_SPACE)
Map3 == (0 :> NO_INFORMATION) @@ (1 :> FREE_SPACE) @@ (2 :> LETHAL_OBSTACLE)

MCMaps == {Map2, Map3}
MCRadii == {1, 2}
MCUpdates == {[cell |-> 1, cost |-> FREE_SPACE], [cell |-> 1, cost |-> LETHAL_OBSTACLE]}
=============================================================================
