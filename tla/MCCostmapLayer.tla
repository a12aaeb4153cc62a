--------------------------- MODULE MCCostmapLayer ---------------------------
(* CostmapLayer with maps of 5 x 4 and 3 x 5 cells of two units.  The polygons *)
(* have edges of all slopes up to 4 : 1 and corners outside of the map; one *)
(* is an arrow, which is not convex.                                        *)
EXTENDS CostmapLayer

MCSizes   == {<<5, 4>>, <<3, 5>>}
MCCorners == {<<0, 0>>, <<-3, 1>>}
MCMoves   == {<<2, 0>>, <<-3, 2>>, <<-1, -4>>, <<5, 7>>, <<-20, 3>>}
MCMarks   == {[index |-> 6, cost |-> LETHAL_OBSTACLE], [index |-> 8, cost |-> NO_INFORMATION]}
MCAreas   == {[x0 |-> 1, y0 |-> 1, xn |-> 3, yn |-> 4], [x0 |-> 0, y0 |-> 2, xn |-> 3, yn |-> 3]}
MCPolygons ==
  {<< <<1, 1>>, p, q>> : p \in {<<9, 3>>, <<3, 7>>, <<10, 4>>}, q \in {<<7, 7>>, <<5, 1>>, <<3, 7>>}}
    \cup {<< <<1, 1>>, <<9, 3>>, <<7, 7>>, <<3, 5>> >>, << <<1, 7>>, <<5, 3>>, <<9, 7>>, <<5, 1>> >>}
MCFillCosts == {FREE_SPACE, LETHAL_OBSTACLE}
MCPoints    == {<<4, 3>>, <<-1, 2>>}
MCPositions == {<<5, 4>>, <<1, 3>>}
MCDistances == {4, 8}
=============================================================================
