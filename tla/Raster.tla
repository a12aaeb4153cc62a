------------------------------- MODULE Raster -------------------------------
(***************************************************************************)
(* Which cells a line, the outline and the area of a polygon go through:   *)
(* Costmap2D::raytraceLine(), polygonOutlineCells() and convexFillCells(), *)
(* and my_nav2::util::LineIterator, which the footprint checker uses.      *)
(*                                                                         *)
(* A cell is the pair of its coordinates; width is size_x_ of the map.     *)
(***************************************************************************)
EXTENDS Integers, Sequences, SequencesExt

AbsDiff(a, b) == IF a < b THEN b - a ELSE a - b
MaxOf(a, b) == IF a < b THEN b ELSE a
Sign(a) == IF a > 0 THEN 1 ELSE -1

indexToCells(i, width) == <<i % width, i \div width>>
CellIndex(c, width) == c[2] * width + c[1]

\* Broken variant: the error does not begin at half a cell.
StartError_Zero(da) == 0

StartError(da) == da \div 2

(* bresenham2D(): the offsets from start on, da steps of offset_a with db  *)
(* steps of offset_b spread among them.                                    *)
bresenham2D(da, db, offset_a, offset_b, start) ==
  LET at[i \in 0 .. da] ==
        IF i = 0
        THEN [offset |-> start, error |-> StartError(da)]
        ELSE LET prev  == at[i - 1]
                 error == prev.error + db
             IN  IF error >= da
                 THEN [offset |-> prev.offset + offset_a + offset_b, error |-> error - da]
                 ELSE [offset |-> prev.offset + offset_a, error |-> error]
  IN  {at[i].offset : i \in 0 .. da}

(* raytraceLine() from p to q, with no limit to the length.                *)
raytraceLine(p, q, width) ==
  LET dx == AbsDiff(p[1], q[1])
      dy == AbsDiff(p[2], q[2])
      offset_dx == Sign(q[1] - p[1])
      offset_dy == Sign(q[2] - p[2]) * width
      offsets ==
        IF dx >= dy
        THEN bresenham2D(dx, dy, offset_dx, offset_dy, CellIndex(p, width))
        ELSE bresenham2D(dy, dx, offset_dy, offset_dx, CellIndex(p, width))
  IN  {indexToCells(i, width) : i \in offsets}

(* The cells that a LineIterator from p to q visits.                       *)
LineIterator(p, q) ==
  LET deltax == AbsDiff(p[1], q[1])
      deltay == AbsDiff(p[2], q[2])
      xstep  == <<IF q[1] >= p[1] THEN 1 ELSE -1, 0>>
      ystep  == <<0, IF q[2] >= p[2] THEN 1 ELSE -1>>
      along  == IF deltax >= deltay THEN xstep ELSE ystep
      across == IF deltax >= deltay THEN ystep ELSE xstep
      den    == MaxOf(deltax, deltay)
      numadd == deltax + deltay - den
      Plus(c, step) == <<c[1] + step[1], c[2] + step[2]>>
      at[i \in 0 .. den] ==
        IF i = 0
        THEN [cell |-> p, num |-> den \div 2]
        ELSE LET prev == at[i - 1]
                 num  == prev.num + numadd
             IN  IF num >= den
                 THEN [cell |-> Plus(Plus(prev.cell, across), along), num |-> num - den]
                 ELSE [cell |-> Plus(prev.cell, along), num |-> num]
  IN  {at[i].cell : i \in 0 .. den}

-----------------------------------------------------------------------------
(* A polygon is a sequence of cells.                                       *)

\* The last edge closes the polygon.
Edges(polygon) ==
  [i \in DOMAIN polygon |-> <<polygon[i], polygon[(i % Len(polygon)) + 1]>>]

polygonOutlineCells(polygon, width) ==
  UNION {raytraceLine(e[1], e[2], width) : e \in Range(Edges(polygon))}

(* The outline has at least two cells in every column, since every corner  *)
(* ends two lines: between the lowest and the highest the column is full.  *)
convexFillCells(polygon, width) ==
  IF Len(polygon) < 3
  THEN {}
  ELSE LET outline == polygonOutlineCells(polygon, width)
           pairs   == {e \in outline \X outline : e[1][1] = e[2][1]}
       IN  UNION {{<<e[1][1], y>> : y \in e[1][2] .. e[2][2]} : e \in pairs}
=============================================================================
