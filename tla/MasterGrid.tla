----------------------------- MODULE MasterGrid -----------------------------
(***************************************************************************)
(* What LayeredCostmap shares with its layers: the costs, the combined     *)
(* costmap_ (master), and the bounds of the update that is under way.      *)
(*                                                                         *)
(* The grid is one row of cells.  The code treats y as it treats x; the    *)
(* origin, which is 0, and the resolution do not change.  Coordinates of   *)
(* the world and radii are in a unit of which Resolution make a cell, so   *)
(* that a radius need not be a whole number of cells.                      *)
(***************************************************************************)
EXTENDS CostValues, FiniteSetsExt

CONSTANTS
  DefaultCost,   \* FREE_SPACE, or NO_INFORMATION to track unknown space
  Resolution     \* resolution_, in units of length

ASSUME DefaultCostAssumption == DefaultCost \in {FREE_SPACE, NO_INFORMATION}
ASSUME ResolutionAssumption == Resolution \in Nat \ {0}

VARIABLES
  size,      \* getSizeInCellsX() of master and, with it, of every layer
  master,    \* the combined costmap
  bounds     \* minx_, maxx_: what the layers want updated; not kept after it

Cells(n) == 0 .. (n - 1)

Blank(n) == [c \in Cells(n) |-> DefaultCost]

-----------------------------------------------------------------------------
(* Bounds, in coordinates of the world.  They are empty at the beginning   *)
(* of an update.                                                           *)

MaxCells == 1000   \* bound: no map has more cells

\* Stands for numeric_limits<double>::max(), -Far for lowest(): it lies
\* beyond every map.
Far == (MaxCells + 1) * Resolution

NoBounds  == [min |-> Far, max |-> -Far]
AllBounds == [min |-> -Far, max |-> Far]

Union(b, c) == [min |-> Min({b.min, c.min}), max |-> Max({b.max, c.max})]

Grow(b, r) == [min |-> b.min - r, max |-> b.max + r]

Touch(b, points) ==
  IF points = {} THEN b ELSE Union(b, [min |-> Min(points), max |-> Max(points)])

\* the middle of a cell
mapToWorld(c) == c * Resolution + Resolution \div 2

worldToMapEnforceBounds(x, n) ==
  IF x < 0 THEN 0
  ELSE IF x > Resolution * n THEN n - 1
  ELSE x \div Resolution

\* x0 and xn
First(b, n) == worldToMapEnforceBounds(b.min, n)
End(b, n)   == Min({n, worldToMapEnforceBounds(b.max, n) + 1})

(* The cells to update.                                                    *)
Window(b, n) == First(b, n) .. (End(b, n) - 1)

\* An empty window is skipped, unless it is empty by one cell.
WindowSkipped(b, n) == End(b, n) < First(b, n)

\* the radius of so many units in cells, rounded up
cellDistance(r) == (r + Resolution - 1) \div Resolution
=============================================================================
