---------------------------- MODULE CostmapLayer ----------------------------
(***************************************************************************)
(* my_nav2::costmap_2d::CostmapLayer: a Costmap2D of a layer's own, which  *)
(* ClearCostmapService can clear around the robot or a pose, or all but    *)
(* that.  What was cleared is remembered as extra bounds for the layer's   *)
(* next updateBounds(), before which the rolling window may move.          *)
(*                                                                         *)
(* The layers of this package are not clearable; the one modelled is of    *)
(* another package and calls useExtraBounds() as StaticLayer does.         *)
(***************************************************************************)
EXTENDS Costmap2D

CONSTANTS
  Positions,    \* of the world, where the robot or a pose to clear around may be
  NoPosition,   \* of a robot or a pose that tf has no transform for
  Distances     \* reset_distance

ASSUME CostmapLayerAssumption ==
  /\ Positions \subseteq Int \X Int /\ NoPosition \notin Positions
  /\ \A d \in Distances : d \in Nat /\ d % 2 = 0
  /\ resolution % 2 = 0   \* half a cell is a whole number

VARIABLES
  extra_bounds,       \* extra_min_x_, .. as [min, max], two points of the world
  has_extra_bounds,   \* has_extra_bounds_
  current,            \* current_
  pending             \* history: what was cleared since the last updateBounds(),
                      \* as cells of the world

layer_vars == <<extra_bounds, has_extra_bounds, current, pending>>

Far == 1000000

NoExtraBounds == [min |-> <<Far, Far>>, max |-> <<-Far, -Far>>]

LayerTypeOK ==
  /\ TypeOK
  /\ extra_bounds \in [min : Int \X Int, max : Int \X Int]
  /\ has_extra_bounds \in BOOLEAN /\ current \in BOOLEAN
  /\ has_extra_bounds <=> extra_bounds # NoExtraBounds

LayerInit ==
  /\ Init
  /\ extra_bounds = NoExtraBounds
  /\ has_extra_bounds = FALSE
  /\ current = FALSE
  /\ pending = {}

-----------------------------------------------------------------------------
\* Broken variant: the cells that hold the edges of the area are cleared too.
ClearedCells_Inclusive(start, end, invert) ==
  {c \in MapCells : (/\ start[1] <= c[1] /\ c[1] <= end[1]
                     /\ start[2] <= c[2] /\ c[2] <= end[2]) # invert}

(* clearArea(): what is between start and end or, with invert, what is not *)
ClearedCells(start, end, invert) ==
  {c \in MapCells : (/\ start[1] < c[1] /\ c[1] < end[1]
                     /\ start[2] < c[2] /\ c[2] < end[2]) # invert}

EnforcedCell(w) ==
  <<worldToMapEnforceBounds(w[1], origin[1], size_x),
    worldToMapEnforceBounds(w[2], origin[2], size_y)>>

Lower(p, q) == <<IF p[1] < q[1] THEN p[1] ELSE q[1], IF p[2] < q[2] THEN p[2] ELSE q[2]>>
Upper(p, q) == <<MaxOf(p[1], q[1]), MaxOf(p[2], q[2])>>

\* Broken variant: the upper corner is taken with std::min, as the lower is.
addExtraBounds_MinTwice(p, q) ==
  /\ extra_bounds' = [min |-> Lower(p, extra_bounds.min), max |-> Lower(q, extra_bounds.max)]
  /\ has_extra_bounds' = TRUE

addExtraBounds(p, q) ==
  /\ extra_bounds' = [min |-> Lower(p, extra_bounds.min), max |-> Upper(q, extra_bounds.max)]
  /\ has_extra_bounds' = TRUE

\* getSizeInMetersX(), getSizeInMetersY(): to the middle of the last cell
SizeInMeters == <<((2 * size_x - 1) * resolution) \div 2, ((2 * size_y - 1) * resolution) \div 2>>

clearLayerRegion(position, reset_distance, invert) ==
  LET start == <<position[1] - reset_distance \div 2, position[2] - reset_distance \div 2>>
      end   == <<start[1] + reset_distance, start[2] + reset_distance>>
      cells == ClearedCells(EnforcedCell(start), EnforcedCell(end), invert)
  IN  /\ costmap' = Written(costmap, {getIndex(c) : c \in cells}, NO_INFORMATION)
      /\ current' = FALSE
      /\ addExtraBounds(origin, <<origin[1] + SizeInMeters[1], origin[2] + SizeInMeters[2]>>)
      /\ pending' = pending \cup {WorldOf(c) : c \in cells}
      /\ UNCHANGED <<size_x, size_y, origin>>
      /\ Called([op |-> "clearLayerRegion", start |-> start, end |-> end,
                 invert |-> invert, cells |-> cells, value |-> NO_INFORMATION])

-----------------------------------------------------------------------------
(* The services of ClearCostmapService.  The position is read without the  *)
(* mutex of the layer, and may be of any time before.                      *)

(* getPosition(), with getRobotPose(): where tf says that the robot is.    *)
GetPosition == Positions \cup {NoPosition}

clearRegion(position, reset_distance, invert) ==
  \/ /\ position = NoPosition
     /\ UNCHANGED <<size_x, size_y, origin, costmap, layer_vars>>
     /\ Called([op |-> "clearRegion"])
  \/ /\ position # NoPosition
     /\ clearLayerRegion(position, reset_distance, invert)

clearExceptRegionCallback(reset_distance) ==
  \E position \in GetPosition : clearRegion(position, reset_distance, TRUE)

clearAroundRobotCallback(reset_distance) ==
  \E position \in GetPosition : clearRegion(position, reset_distance, FALSE)

(* clearAroundPose(): where the pose is in the global frame, if there is a *)
(* transform to it.                                                        *)
clearAroundPose(reset_distance) ==
  \E position \in GetPosition : clearRegion(position, reset_distance, FALSE)

(* An update of the layer: updateBounds() hands out the extra bounds, and  *)
(* updateCosts() makes the layer current.                                  *)
useExtraBounds ==
  /\ extra_bounds' = NoExtraBounds
  /\ has_extra_bounds' = FALSE
  /\ current' = TRUE
  /\ pending' = {}
  /\ UNCHANGED <<size_x, size_y, origin, costmap>>
  /\ Called([op |-> "useExtraBounds"])

-----------------------------------------------------------------------------
GridCall ==
  /\ Next
  /\ pending' = IF call'.op = "resizeMap" THEN {} ELSE pending
  /\ UNCHANGED <<extra_bounds, has_extra_bounds, current>>

LayerNext ==
  \/ GridCall
  \/ \E d \in Distances : \/ clearExceptRegionCallback(d)
                          \/ clearAroundRobotCallback(d)
                          \/ clearAroundPose(d)
  \/ useExtraBounds

LayerSpec == LayerInit /\ [][LayerNext]_<<vars, layer_vars>>

-----------------------------------------------------------------------------
(* Whether c lies in the square from start to end, margin away from it.    *)
InSquare(c, start, end, margin) ==
  \A i \in {1, 2} : /\ start[i] + margin <= WorldOf(c)[i]
                    /\ WorldOf(c)[i] + resolution <= end[i] - margin

OnEdgeOfMap(c) == c[1] \in {0, size_x - 1} \/ c[2] \in {0, size_y - 1}

(* Clearing around a place clears no cell that is not within the square    *)
(* asked for, and all that are by a cell; clearing all but it spares the   *)
(* same ones.  Cells at the edge of the map never count as within.         *)
ClearedRegion ==
  call.op = "clearLayerRegion" =>
    \A c \in MapCells :
      LET within == (c \in call.cells) # call.invert
      IN  /\ within => InSquare(c, call.start, call.end, 0)
          /\ InSquare(c, call.start, call.end, resolution) /\ ~OnEdgeOfMap(c) => within

(* Whatever was cleared will be in the bounds of the layer's next update,  *)
(* though the map may have moved between, and been cleared more than once. *)
ClearedWillBeUpdated ==
  \A c \in MapCells : WorldOf(c) \in pending =>
    /\ has_extra_bounds
    /\ \A i \in {1, 2} : EnforcedCell(extra_bounds.min)[i] <= c[i]
                         /\ c[i] <= EnforcedCell(extra_bounds.max)[i]
=============================================================================
