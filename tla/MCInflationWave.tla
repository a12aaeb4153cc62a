--------------------------- MODULE MCInflationWave ---------------------------
(* InflationWave on a grid of 4 x 4 cells with up to three obstacles, the    *)
(* whole grid or a corner of it to be updated.                               *)
EXTENDS InflationWave

MCObstacleSets == {{a, b, c} : a \in GridCells, b \in GridCells, c \in GridCells} \cup {{}}
MCWindows == {[min_i |-> 0, min_j |-> 0, max_i |-> 4, max_j |-> 4],
              [min_i |-> 2, min_j |-> 3, max_i |-> 4, max_j |-> 4]}
=============================================================================
