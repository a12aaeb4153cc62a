------------------------------ MODULE Costmap2D ------------------------------
(***************************************************************************)
(* my_nav2::costmap_2d::Costmap2D: the grid of costs, and what is done to  *)
(* one in this package: resizing, moving with the rolling window, writing, *)
(* resetting, filling polygons, and finding the cost of a footprint.       *)
(*                                                                         *)
(* Coordinates of the world are whole numbers of a unit of length, of      *)
(* which resolution_ makes a cell.  The costs are kept as in the code, by  *)
(* index, row after row; a write outside of the array is one that TypeOK   *)
(* shows.  Every call is one step: its caller holds the mutex.             *)
(***************************************************************************)
EXTENDS CostValues, Raster

CONSTANTS
  resolution,       \* resolution_
  default_value,    \* default_value_
  Sizes, Corners,   \* <<size_x, size_y>> and origins that a resize may ask for
  Moves,            \* how far updateOrigin() may be asked to move the origin
  Marks,            \* the indices and costs of setCost(): [index, cost]
  Areas,            \* what resetMap() may be asked for: [x0, y0, xn, yn]
  Polygons,         \* sequences of points of the world
  FillCosts,        \* what setConvexPolygonCost() may be asked to write
  Points,           \* points of the world whose cost may be asked for
  MaxCalls          \* bound: the number of calls

\* The areas that resetMap() is given begin before they end.
ASSUME Costmap2DAssumption ==
  /\ resolution \in Nat \ {0} /\ default_value \in Cost
  /\ \A s \in Sizes : s[1] \in Nat \ {0} /\ s[2] \in Nat \ {0}
  /\ Corners \subseteq Int \X Int /\ Moves \subseteq Int \X Int /\ Points \subseteq Int \X Int
  /\ Marks \subseteq [index : Nat, cost : Cost] /\ FillCosts \subseteq Cost
  /\ Areas \subseteq [x0 : Nat, y0 : Nat, xn : Nat, yn : Nat]
  /\ \A a \in Areas : a.x0 <= a.xn /\ a.y0 <= a.yn
  /\ Polygons \subseteq Seq(Int \X Int) /\ \A p \in Polygons : Len(p) >= 2
  /\ MaxCalls \in Nat

VARIABLES
  size_x, size_y,   \* size_x_, size_y_
  origin,           \* <<origin_x_, origin_y_>>
  costmap,          \* costmap_, by index
  call,             \* history: the last call, with its result
  calls             \* history: how many there were

vars == <<size_x, size_y, origin, costmap, call, calls>>

Indices == 0 .. size_x * size_y - 1

MapCells == (0 .. size_x - 1) \X (0 .. size_y - 1)

getIndex(c) == CellIndex(c, size_x)

TypeOK ==
  /\ size_x \in Nat \ {0} /\ size_y \in Nat \ {0}
  /\ origin \in Int \X Int
  /\ costmap \in [Indices -> Cost]
  /\ calls \in 0 .. MaxCalls

resetMaps(n) == [i \in 0 .. n - 1 |-> default_value]

Init ==
  /\ \E s \in Sizes : size_x = s[1] /\ size_y = s[2]
  /\ origin \in Corners
  /\ costmap = resetMaps(size_x * size_y)
  /\ call = [op |-> "Costmap2D"]
  /\ calls = 0

Called(record) ==
  /\ calls < MaxCalls
  /\ calls' = calls + 1
  /\ call' = record

-----------------------------------------------------------------------------
(* Conversions *)

InMap(w) ==
  /\ origin[1] <= w[1] /\ w[1] < origin[1] + size_x * resolution
  /\ origin[2] <= w[2] /\ w[2] < origin[2] + size_y * resolution

worldToMap(w) ==
  <<(w[1] - origin[1]) \div resolution, (w[2] - origin[2]) \div resolution>>

\* for one axis: n cells from o on
worldToMapEnforceBounds(w, o, n) ==
  CASE w < o                  -> 0
    [] w > o + n * resolution -> n - 1
    [] OTHER                  -> (w - o) \div resolution

\* a cast to int: the fraction is cut off
CellsMoved(by) ==
  IF by < 0 THEN -((-by) \div resolution) ELSE by \div resolution

-----------------------------------------------------------------------------
(* Costmap2D *)

Written(map, indices, value) ==
  [i \in DOMAIN map \cup indices |-> IF i \in indices THEN value ELSE map[i]]

resizeMap(s, o) ==
  /\ size_x' = s[1] /\ size_y' = s[2]
  /\ origin' = o
  /\ costmap' = resetMaps(s[1] * s[2])
  /\ Called([op |-> "resizeMap"])

\* copies: pairs of an index and what is written there
Copied(dest, copies) ==
  LET written == {p[1] : p \in copies}
  IN  [i \in DOMAIN dest \cup written |->
         IF i \in written THEN (CHOOSE p \in copies : p[1] = i)[2] ELSE dest[i]]

(* copyMapRegion(): nx * ny cells from the cell s of a map of width sw to  *)
(* the cell d of dest, of width dw.                                        *)
copyMapRegion(source, s, sw, dest, d, dw, nx, ny) ==
  Copied(dest, {<<CellIndex(d, dw) + CellIndex(c, dw),
                  source[CellIndex(s, sw) + CellIndex(c, sw)]>> :
                    c \in (0 .. nx - 1) \X (0 .. ny - 1)})

Clamp(a, n) == IF a < 0 THEN 0 ELSE IF a > n THEN n ELSE a

updateOrigin(by) ==
  LET ox == CellsMoved(by[1])
      oy == CellsMoved(by[2])
      lower_left  == <<Clamp(ox, size_x), Clamp(oy, size_y)>>
      cell_size_x == Clamp(ox + size_x, size_x) - lower_left[1]
      cell_size_y == Clamp(oy + size_y, size_y) - lower_left[2]
      local_map   == copyMapRegion(costmap, lower_left, size_x, << >>, <<0, 0>>,
                                   cell_size_x, cell_size_x, cell_size_y)
      start       == <<lower_left[1] - ox, lower_left[2] - oy>>
  IN  /\ origin' = <<origin[1] + ox * resolution, origin[2] + oy * resolution>>
      /\ costmap' = copyMapRegion(local_map, <<0, 0>>, cell_size_x,
                                  resetMaps(size_x * size_y), start, size_x,
                                  cell_size_x, cell_size_y)
      /\ UNCHANGED <<size_x, size_y>>
      /\ Called([op |-> "updateOrigin", by |-> by])

setCost(index, cost) ==
  /\ index \in Indices
  /\ costmap' = [costmap EXCEPT ![index] = cost]
  /\ UNCHANGED <<size_x, size_y, origin>>
  /\ Called([op |-> "setCost", cells |-> {indexToCells(index, size_x)}, value |-> cost])

\* Broken variant: every row is reset from its beginning.
RowStarts_FromZero(a) == {y * size_x : y \in a.y0 .. a.yn - 1}

\* of the rows y0 .. yn - 1, in the array
RowStarts(a) == {y * size_x + a.x0 : y \in a.y0 .. a.yn - 1}

resetMap(a) ==
  /\ a.xn <= size_x /\ a.yn <= size_y
  /\ costmap' = Written(costmap, UNION {y .. y + (a.xn - a.x0) - 1 : y \in RowStarts(a)},
                        default_value)
  /\ UNCHANGED <<size_x, size_y, origin>>
  /\ Called([op |-> "resetMap", value |-> default_value,
             cells |-> (a.x0 .. a.xn - 1) \X (a.y0 .. a.yn - 1)])

\* Broken variant: points outside of the map are not refused.
Refused_Never(polygon) == FALSE

Refused(polygon) == \E p \in Range(polygon) : ~InMap(p)

CellsOf(polygon) == [i \in DOMAIN polygon |-> worldToMap(polygon[i])]

setConvexPolygonCost(polygon, cost) ==
  LET cells == IF Refused(polygon) THEN {} ELSE convexFillCells(CellsOf(polygon), size_x)
  IN  /\ costmap' = Written(costmap, {getIndex(c) : c \in cells}, cost)
      /\ UNCHANGED <<size_x, size_y, origin>>
      /\ Called([op |-> "setConvexPolygonCost", polygon |-> polygon,
                 cells |-> cells, value |-> cost])

-----------------------------------------------------------------------------
(* FootprintCollisionChecker *)

(* One lethal cell makes the line lethal, though unknown ones are above.   *)
lineCost(p, q) ==
  LET costs == {costmap[getIndex(c)] : c \in LineIterator(p, q)}
  IN  IF LETHAL_OBSTACLE \in costs THEN LETHAL_OBSTACLE ELSE Max(costs)

(* The lines walked.  The one that closes the polygon starts at the first  *)
(* corner, where polygonOutlineCells() ends there.                         *)
FootprintLines(cells) ==
  [i \in DOMAIN cells |->
     IF i < Len(cells) THEN <<cells[i], cells[i + 1]>> ELSE <<cells[1], cells[i]>>]

\* Broken variant: the cost of the last line replaces the others.
FootprintCost_LastLine(polygon) ==
  IF Refused(polygon)
  THEN LETHAL_OBSTACLE
  ELSE lineCost(CellsOf(polygon)[1], CellsOf(polygon)[Len(polygon)])

FootprintCost(polygon) ==
  IF Refused(polygon)
  THEN LETHAL_OBSTACLE
  ELSE LET lines == FootprintLines(CellsOf(polygon))
           cost[i \in 0 .. Len(polygon)] ==   \* of the first i lines
             IF i = 0 THEN 0
             ELSE IF cost[i - 1] = LETHAL_OBSTACLE THEN LETHAL_OBSTACLE
             ELSE MaxOf(lineCost(lines[i][1], lines[i][2]), cost[i - 1])
       IN  cost[Len(polygon)]

footprintCost(polygon) ==
  /\ UNCHANGED <<size_x, size_y, origin, costmap>>
  /\ Called([op |-> "footprintCost", polygon |-> polygon, result |-> FootprintCost(polygon)])

-----------------------------------------------------------------------------
(* The get_cost service of Costmap2DROS, at a point.  With use_footprint   *)
(* its answer is that of footprintCost().                                  *)
getCost(w) == IF InMap(w) THEN costmap[getIndex(worldToMap(w))] ELSE -1

getCostCallback(w) ==
  /\ UNCHANGED <<size_x, size_y, origin, costmap>>
  /\ Called([op |-> "getCost", at |-> w, answer |-> getCost(w)])

-----------------------------------------------------------------------------
Next ==
  \/ \E s \in Sizes, o \in Corners : resizeMap(s, o)
  \/ \E by \in Moves : updateOrigin(by)
  \/ \E m \in Marks : setCost(m.index, m.cost)
  \/ \E a \in Areas : resetMap(a)
  \/ \E p \in Polygons, cost \in FillCosts : setConvexPolygonCost(p, cost)
  \/ \E p \in Polygons : footprintCost(p)
  \/ \E w \in Points : getCostCallback(w)

Spec == Init /\ [][Next]_vars

-----------------------------------------------------------------------------
(* In coordinates of the world *)

WorldOf(c) == <<origin[1] + c[1] * resolution, origin[2] + c[2] * resolution>>

WorldCost == [w \in {WorldOf(c) : c \in MapCells} |-> costmap[getIndex(worldToMap(w))]]

Request ==
  CASE call.op \in {"Costmap2D", "resizeMap"} -> [do |-> "replace"]
    [] call.op = "updateOrigin"               -> [do |-> "move", by |-> call.by]
    [] call.op \in {"footprintCost", "useExtraBounds", "clearRegion"} -> [do |-> "look"]
    [] call.op = "getCost"                    -> [do |-> "ask", at |-> call.at, answer |-> call.answer]
    [] OTHER -> [do |-> "write", value |-> call.value, cells |-> {WorldOf(c) : c \in call.cells}]

World == INSTANCE WorldGrid
  WITH CellSize <- resolution, Blank <- default_value, cost <- WorldCost, request <- Request

(* Through the arithmetic of indices, widths and overlaps, over any        *)
(* sequence of calls: a write changes the cells it is for and no other, a  *)
(* move of the origin leaves every cost where it is in the world.          *)
ImplementsWorldGrid == World!Spec

-----------------------------------------------------------------------------
(* Geometry *)

Cross(p, q, c) == (q[1] - p[1]) * (c[2] - p[2]) - (q[2] - p[2]) * (c[1] - p[1])

InBox(cells, c) ==
  /\ \E p, q \in Range(cells) : p[1] <= c[1] /\ c[1] <= q[1]
  /\ \E p, q \in Range(cells) : p[2] <= c[2] /\ c[2] <= q[2]

(* c lies in the convex polygon, or outside of it by slack halves of a     *)
(* cell at most, measured along the axis that a line of the outline is     *)
(* rounded in.                                                             *)
InPolygon(cells, c, slack) ==
  /\ InBox(cells, c)
  /\ \E side \in {1, -1} : \A e \in Range(Edges(cells)) :
       2 * side * Cross(e[1], e[2], c)
         >= -slack * MaxOf(AbsDiff(e[1][1], e[2][1]), AbsDiff(e[1][2], e[2][2]))

(* The corners lie on one side of every edge.  Those of the cells may not, *)
(* though the polygon is convex.                                           *)
Convex(cells) ==
  \E side \in {1, -1} : \A p \in Range(cells), e \in Range(Edges(cells)) :
    side * Cross(e[1], e[2], p) >= 0

(* The outline runs through the column of c, there at c or below it for    *)
(* the side 1, at c or above it for -1.                                    *)
Passes(cells, c, side) ==
  \E e \in Range(Edges(cells)) : \E p, q \in {e[1], e[2]} :
    /\ p[1] <= c[1] /\ c[1] <= q[1]
    /\ side * (IF p[1] = q[1] THEN c[2] - p[2] ELSE Cross(p, q, c)) >= 0

(* So it is of every cell that lies in a polygon, convex or not.           *)
Enclosed(cells, c) == Passes(cells, c, 1) /\ Passes(cells, c, -1)

(* The area filled has every cell that the polygon of its corners' cells,  *)
(* of any shape and slopes, has around it in its column and so every cell  *)
(* in it; when that is convex, it has none further than half a cell from   *)
(* it.                                                                     *)
PolygonFilled ==
  call.op = "setConvexPolygonCost" /\ call.cells # {} =>
    LET corners == CellsOf(call.polygon)
    IN  \A c \in MapCells :
          /\ Enclosed(corners, c) => c \in call.cells
          /\ Convex(corners) /\ c \in call.cells => InPolygon(corners, c, 1)

(* c lies on the line e of the grid, or less than half a cell from it.     *)
NearLine(e, c) ==
  /\ InBox(e, c)
  /\ LET cross == AbsDiff(Cross(e[1], e[2], c), 0)
     IN  \/ cross = 0
         \/ 2 * cross < MaxOf(AbsDiff(e[1][1], e[2][1]), AbsDiff(e[1][2], e[2][2]))

(* The cost of a footprint is that of a cell on its outline, or half a     *)
(* cell from it, and no cell nearer has a known cost that is higher:       *)
(* whichever way the lines are walked and their order, an obstacle that    *)
(* the footprint touches shows, or is hidden by an unknown cell at most.   *)
FootprintCostIsWorst ==
  call.op = "footprintCost" =>
    IF Refused(call.polygon)
    THEN call.result = LETHAL_OBSTACLE
    ELSE LET cells  == CellsOf(call.polygon)
             edges  == Range(Edges(cells))
             touched == {c \in MapCells : \E e \in edges : NearLine(e, c)}
             about   == UNION {LineIterator(e[1], e[2]) \cup LineIterator(e[2], e[1]) : e \in edges}
         IN  /\ \E c \in about : costmap[getIndex(c)] = call.result
             /\ \A c \in touched : LET cost == costmap[getIndex(c)]
                                   IN  cost <= call.result \/ cost = NO_INFORMATION
==============================================================================
