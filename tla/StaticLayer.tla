---------------------------- MODULE StaticLayer -----------------------------
(***************************************************************************)
(* my_nav2::costmap_2d::StaticLayer: the map that map_server publishes.    *)
(* The global frame is the map frame, the costmap does not roll with the   *)
(* robot and the footprint is not cleared.                                 *)
(*                                                                         *)
(* The executor thread receives maps and updates of maps; the update       *)
(* thread calls updateBounds() and, later, updateCosts().  All of them     *)
(* hold the layer's mutex, but the processing of the first map, which      *)
(* map_received_ guards.                                                   *)
(***************************************************************************)
EXTENDS MasterGrid

CONSTANTS
  Maps,         \* what may be received, interpreted: [0 .. width - 1 -> Cost]
  NoMap,        \* no map
  UseMaximum    \* use_maximum_

MapSize(m) == Cardinality(DOMAIN m)

ASSUME StaticLayerAssumption ==
  /\ \A m \in Maps : MapSize(m) \in 1 .. MaxCells /\ m \in [Cells(MapSize(m)) -> Cost]
  /\ NoMap \notin Maps
  /\ UseMaximum \in BOOLEAN

VARIABLES
  costmap,             \* costmap_, of the size of master
  static_enabled,      \* enabled_
  static_current,      \* current_
  has_updated_data,    \* has_updated_data_
  map_received,        \* map_received_
  in_update_bounds,    \* map_received_in_update_bounds_
  map_buffer,          \* map_buffer_
  loading              \* where the executor is in incomingMap() of the first
                       \* map, which is in loading.map

static_vars == <<costmap, static_enabled, static_current, has_updated_data,
                 map_received, in_update_bounds, map_buffer, loading>>

NotLoading == [at |-> "no", map |-> NoMap]

(* The first map: resizeMap() under the mutex of the master, then the      *)
(* cells under the layer's own, then map_received_ under none.             *)
incomingMap_load ==
  /\ loading.at = "resized"
  /\ costmap' = loading.map
  /\ has_updated_data' = TRUE
  /\ static_current' = TRUE
  /\ loading' = [loading EXCEPT !.at = "loaded"]
  /\ UNCHANGED <<static_enabled, map_received, in_update_bounds, map_buffer>>

incomingMap_received ==
  /\ loading.at = "loaded"
  /\ map_received' = TRUE
  /\ loading' = NotLoading
  /\ UNCHANGED <<costmap, static_enabled, static_current, has_updated_data,
                 in_update_bounds, map_buffer>>

(* A later map waits for the next update, or for the map that replaces it. *)
incomingMap_buffer(m) ==
  /\ loading = NotLoading
  /\ map_received
  /\ map_buffer' = m
  /\ UNCHANGED <<costmap, static_enabled, static_current, has_updated_data,
                 map_received, in_update_bounds, loading>>

(* An update of one cell; one that reaches over the edge, or comes before  *)
(* there is a map, is ignored.                                             *)
incomingUpdate(c, value) ==
  /\ loading = NotLoading
  /\ map_received
  /\ c \in DOMAIN costmap
  /\ costmap' = [costmap EXCEPT ![c] = value]
  /\ has_updated_data' = TRUE
  /\ UNCHANGED <<static_enabled, static_current, map_received, in_update_bounds,
                 map_buffer, loading>>

static_setEnabled ==
  /\ loading = NotLoading
  /\ static_enabled' = ~static_enabled
  /\ has_updated_data' = TRUE
  /\ static_current' = FALSE
  /\ UNCHANGED <<costmap, map_received, in_update_bounds, map_buffer, loading>>

\* Broken variant: the layer stays current over a reset().
CurrentAfterReset_Kept == static_current

CurrentAfterReset == FALSE

static_reset ==
  /\ has_updated_data' = TRUE
  /\ static_current' = CurrentAfterReset
  /\ UNCHANGED <<costmap, static_enabled, map_received, in_update_bounds,
                 map_buffer, loading>>

(* updateBounds(), its resizeMap() apart: n is the size after it.  The     *)
(* buffered map is processed here, on the update thread.                   *)
static_updateBounds(n) ==
  /\ in_update_bounds' = map_received
  /\ IF map_received
     THEN /\ bounds' = IF map_buffer # NoMap \/ has_updated_data
                       THEN Union(NoBounds, [min |-> mapToWorld(0), max |-> mapToWorld(n)])
                       ELSE NoBounds
          /\ has_updated_data' = FALSE
          /\ map_buffer' = NoMap
          /\ IF map_buffer # NoMap
             THEN costmap' = map_buffer /\ static_current' = TRUE
             ELSE UNCHANGED <<costmap, static_current>>
     ELSE /\ bounds' = NoBounds
          /\ UNCHANGED <<costmap, static_current, has_updated_data, map_buffer>>
  /\ UNCHANGED <<static_enabled, map_received, loading>>

\* Broken variant: updateCosts() takes the request for an update back.
UpdatedAfterCosts_Cleared == FALSE

UpdatedAfterCosts == has_updated_data

\* Broken variant: an update does not make the layer current again.
CurrentAfterCosts_Kept == static_current

CurrentAfterCosts ==
  IF static_enabled /\ in_update_bounds THEN TRUE ELSE static_current

\* updateWithMax() or updateWithTrueOverwrite() of the cost of one cell
Combined(cost, old) ==
  IF UseMaximum
  THEN IF cost = NO_INFORMATION \/ (old # NO_INFORMATION /\ old >= cost)
       THEN old ELSE cost
  ELSE cost

StaticCost(c, old) ==
  IF static_enabled /\ in_update_bounds THEN Combined(costmap[c], old) ELSE old

static_updateCosts ==
  /\ has_updated_data' = UpdatedAfterCosts
  /\ static_current' = CurrentAfterCosts
  /\ UNCHANGED <<costmap, static_enabled, map_received, in_update_bounds,
                 map_buffer, loading>>
=============================================================================
