--------------------------- MODULE LayeredCostmap ---------------------------
(***************************************************************************)
(* my_nav2::costmap_2d::LayeredCostmap with a StaticLayer, a layer of      *)
(* another package that marks obstacles, and an InflationLayer.            *)
(*                                                                         *)
(* The update thread runs updateMap(): a step for every layer's            *)
(* updateBounds() and updateCosts(), for which the layer holds its own     *)
(* mutex.  It holds the mutex of the combined costmap all the time, so     *)
(* resizing and clearing wait for the end of an update, while messages,    *)
(* parameters and footprints come in between any two steps.  There are no  *)
(* costmap filters.                                                        *)
(***************************************************************************)
EXTENDS StaticLayer, InflationLayer

CONSTANTS
  StartSize,   \* size of the costmap before there is a map
  Updates,     \* what incomingUpdate() may receive: [cell : Nat, cost : Cost]
  MaxMarks     \* bound: how many cells the marking layer marks at a time

ASSUME LayeredCostmapAssumption ==
  /\ StartSize \in 1 .. MaxCells
  /\ Updates \subseteq [cell : Nat, cost : Cost]
  /\ MaxMarks \in Nat

VARIABLES
  updater,   \* the next call of updateMap(); "idle" between updates
  marks,     \* the cells that the marking layer writes as obstacles
  cleared    \* history: "cleared" when master was cleared entirely and no update
             \* ended since, "loaded" once such an update has loaded a map

grid_vars == <<size, master, bounds>>
vars == <<static_vars, inflation_vars, grid_vars, updater, marks, cleared>>

UpdaterPC == {"idle", "inflation_bounds", "static_costs", "inflation_costs"}

Bounds == [min : Int, max : Int]

TypeOK ==
  /\ size \in 1 .. MaxCells
  /\ master \in [Cells(size) -> Cost]
  /\ bounds \in Bounds /\ last \in Bounds
  /\ costmap \in [Cells(size) -> Cost]
  /\ map_buffer \in Maps \cup {NoMap}
  /\ loading \in [at : {"no", "resized", "loaded"}, map : Maps \cup {NoMap}]
  /\ inflation_radius \in Radii /\ inscribed_radius \in Radii
  /\ updater \in UpdaterPC
  /\ cleared \in {"no", "cleared", "loaded"}
  /\ marks \subseteq Cells(size)
  /\ \A b \in {static_enabled, static_current, has_updated_data, map_received,
               in_update_bounds, inflation_enabled, inflation_current,
               need_reinflation} : b \in BOOLEAN

Init ==
  /\ size = StartSize
  /\ master = Blank(StartSize)
  /\ bounds = NoBounds
  /\ costmap = Blank(StartSize)
  /\ static_enabled = TRUE
  /\ static_current = FALSE
  /\ has_updated_data = FALSE
  /\ map_received = FALSE
  /\ in_update_bounds = FALSE
  /\ map_buffer = NoMap
  /\ loading = NotLoading
  /\ inflation_enabled = TRUE
  /\ inflation_current = TRUE
  /\ inflation_radius \in Radii
  /\ inscribed_radius \in Radii
  /\ need_reinflation = TRUE      \* setFootprint() at the end of on_configure
  /\ last = AllBounds
  /\ updater = "idle"
  /\ marks = {}
  /\ cleared = "no"

-----------------------------------------------------------------------------
(* The update thread *)

(* resizeMap(): master and the layers get the size n and are blank.        *)
resizeMap(n) ==
  /\ size' = n
  /\ master' = Blank(n)
  /\ marks' = {}

NextSize == IF map_received /\ map_buffer # NoMap THEN MapSize(map_buffer) ELSE size

updateMap_static_bounds ==
  /\ updater = "idle"
  /\ static_updateBounds(NextSize)
  /\ IF NextSize # size THEN resizeMap(NextSize) ELSE UNCHANGED <<size, master, marks>>
  /\ updater' = "inflation_bounds"
  /\ cleared' = IF cleared = "cleared" /\ map_received /\ map_buffer # NoMap
                THEN "loaded" ELSE cleared
  /\ UNCHANGED inflation_vars

(* The marking layer touches every cell that it has changed, somewhere.    *)
marking_updateBounds(new, changed) ==
  /\ marks' = new
  /\ \E at \in [changed -> Cells(Resolution)] :
       inflation_updateBounds(Touch(bounds, {c * Resolution + at[c] : c \in changed}))

updateMap_inflation_bounds ==
  /\ updater = "inflation_bounds"
  /\ \E new \in SUBSET Cells(size) :
       /\ Cardinality(new) <= MaxMarks
       /\ marking_updateBounds(new, (marks \ new) \cup (new \ marks))
  /\ updater' = "static_costs"
  /\ UNCHANGED <<static_vars, size, master, cleared>>

\* master with its window reset and written by the layers below the inflation
Base(window) ==
  [c \in Cells(size) |->
     IF c \in window
     THEN LET cost == StaticCost(c, DefaultCost)
          IN  IF c \in marks THEN LETHAL_OBSTACLE ELSE cost
     ELSE master[c]]

updateMap_static_costs ==
  /\ updater = "static_costs"
  /\ IF WindowSkipped(bounds, size)
     THEN updater' = "idle" /\ bounds' = NoBounds /\ UNCHANGED <<static_vars, master>>
     ELSE /\ updater' = "inflation_costs"
          /\ master' = Base(Window(bounds, size))
          /\ static_updateCosts
          /\ UNCHANGED bounds
  /\ UNCHANGED <<inflation_vars, size, marks, cleared>>

updateMap_inflation_costs ==
  /\ updater = "inflation_costs"
  /\ updater' = "idle"
  /\ master' = Inflated(master, Window(bounds, size))
  /\ inflation_updateCosts
  /\ bounds' = NoBounds
  /\ cleared' = "no"
  /\ UNCHANGED <<static_vars, size, marks>>

-----------------------------------------------------------------------------
(* The executor thread *)

incomingMap_resize(m) ==
  /\ loading = NotLoading
  /\ ~map_received
  /\ updater = "idle"
  /\ resizeMap(MapSize(m))
  /\ costmap' = Blank(MapSize(m))
  /\ loading' = [at |-> "resized", map |-> m]
  /\ UNCHANGED <<static_enabled, static_current, has_updated_data, map_received,
                 in_update_bounds, map_buffer, inflation_vars, bounds, updater, cleared>>

(* clear_entirely: resetLayers() under the mutex of the combined costmap.  *)
clearEntirely ==
  /\ loading = NotLoading
  /\ updater = "idle"
  /\ master' = Blank(size)
  /\ marks' = {}
  /\ static_reset
  /\ inflation_reset
  /\ cleared' = IF map_received THEN "cleared" ELSE "no"
  /\ UNCHANGED <<size, bounds, updater>>

isCurrent ==
  /\ static_current \/ ~static_enabled
  /\ inflation_current \/ ~inflation_enabled

Receive ==
  /\ \/ \E m \in Maps : incomingMap_buffer(m)
     \/ incomingMap_load
     \/ incomingMap_received
     \/ \E u \in Updates : incomingUpdate(u.cell, u.cost)
     \/ static_setEnabled
  /\ UNCHANGED <<inflation_vars, grid_vars, updater, marks, cleared>>

SetInflation ==
  /\ loading = NotLoading
  /\ \/ \E r \in Radii : setInflationRadius(r) \/ onFootprintChanged(r)
     \/ inflation_setEnabled
  /\ UNCHANGED <<static_vars, grid_vars, updater, marks, cleared>>

UpdateMap ==
  \/ updateMap_static_bounds
  \/ updateMap_inflation_bounds
  \/ updateMap_static_costs
  \/ updateMap_inflation_costs

Next ==
  \/ UpdateMap
  \/ \E m \in Maps : incomingMap_resize(m)
  \/ Receive
  \/ SetInflation
  \/ clearEntirely

Spec == Init /\ [][Next]_vars

-----------------------------------------------------------------------------
(* No message, change of a parameter or of the footprint, whenever it      *)
(* comes between the steps of an update, is forgotten: when no flag asks   *)
(* for anything more, the windows updated one by one have left in master   *)
(* what a computation of the whole map from the layers' data would.  For a *)
(* radius that is no whole number of cells, and is inflated as if it were  *)
(* the next, a window may miss the cells that are exactly that far from    *)
(* what changed: such a cell, with no obstacle nearer, may have the cost   *)
(* of an obstacle at that distance that is gone, or lack the cost of one   *)
(* that is there.                                                          *)
Settled ==
  /\ updater = "idle" /\ loading = NotLoading
  /\ map_received /\ map_buffer = NoMap
  /\ ~has_updated_data /\ ~need_reinflation

Full == Inflated(Base(Cells(size)), Cells(size))

Outermost(c) ==
  LET whole == Base(Cells(size))
  IN  /\ Inflates /\ inflation_radius % Resolution # 0
      /\ \A s \in Cells(size) :
           Distance(c, s) < cell_inflation_radius => whole[s] # LETHAL_OBSTACLE
      /\ master[c] \in {whole[c], InflatedCost(whole[c], computeCost(cell_inflation_radius))}

Right(c) == master[c] = Full[c] \/ Outermost(c)

NothingLost == Settled => \A c \in Cells(size) : Right(c)

(* After clear_entirely isCurrent(), which takes no lock, stays false      *)
(* until an update has ended, whatever arrives or changes meanwhile, while *)
(* inflation is enabled.  Without it, it may be true during that update,   *)
(* and is before the static layer has written its costs only when the      *)
(* layer is disabled or the update has loaded a map from the buffer.       *)
ClearedNotCurrent ==
  cleared # "no" /\ isCurrent =>
    /\ ~inflation_enabled
    /\ ~static_enabled \/ updater = "inflation_costs" \/ cleared = "loaded"

(* The costmap is not left waiting to become current: when no flag asks    *)
(* for anything more, every layer that is enabled is current, however the  *)
(* updates, resets and changes that set and clear current_ interleaved.    *)
(* An inflation layer without a radius is left out: it never says so.      *)
SettledIsCurrent == Settled /\ (inflation_enabled => inflation_radius # 0) => isCurrent

-----------------------------------------------------------------------------
(* Claim of the source that its code does not keep *)

(* incomingUpdate() "update[s] the costmap's map [...] with an update in a *)
(* particular area of the map": of the newest map, not of one that the     *)
(* buffered map is about to replace, and the update with it.               *)
UpdateNotReplaced ==
  [][map_buffer # NoMap /\ map_buffer' = map_buffer => costmap' = costmap]_vars

-----------------------------------------------------------------------------
(* What makes the invariants inductive *)

LoadingFollows ==
  /\ loading.at = "no" <=> loading = NotLoading
  /\ loading.at # "no" => ~map_received /\ loading.map \in Maps
  /\ loading.at = "resized" => MapSize(loading.map) = size
  /\ loading.at = "loaded" => has_updated_data /\ static_current
  /\ map_received => has_updated_data \/ in_update_bounds

WholeMap == bounds.min < Resolution /\ bounds.max >= Resolution * (size - 1)

\* Something is still asked for: the next update, if not this one, does it.
Asked == ~map_received \/ has_updated_data \/ need_reinflation

(* When nothing more is asked for, the cells outside the window of the     *)
(* update under way are right already, and those in it are on the way.     *)
MasterFollows ==
  ~Asked =>
    /\ updater = "idle" => \A c \in Cells(size) : Right(c)
    /\ updater = "inflation_bounds" => WholeMap \/ \A c \in Cells(size) : Right(c)
    /\ updater \in {"static_costs", "inflation_costs"} =>
         \A c \in Cells(size) \ Window(bounds, size) : Right(c)
    /\ updater = "inflation_costs" =>
         \A c \in Cells(size) \cap Window(bounds, size) : master[c] = Base(Cells(size))[c]

(* A layer that is not current has asked for an update, or is in one.      *)
StaticAsks ==
  map_received /\ static_enabled /\ ~static_current =>
    \/ has_updated_data
    \/ updater \in {"inflation_bounds", "static_costs"} /\ in_update_bounds /\ WholeMap

InflationAsks ==
  inflation_enabled /\ inflation_radius # 0 /\ ~inflation_current =>
    \/ need_reinflation
    \/ updater = "static_costs" /\ bounds = AllBounds
    \/ updater = "inflation_costs"

ClearedAsks ==
  cleared # "no" =>
    /\ map_received /\ ~inflation_current
    /\ static_current => updater = "inflation_costs" \/ cleared = "loaded"
    /\ cleared = "loaded" => updater # "idle"
    /\ updater \in {"idle", "inflation_bounds"} => need_reinflation
    /\ updater = "static_costs" => bounds = AllBounds

IInv ==
  TypeOK /\ LoadingFollows /\ MasterFollows /\ StaticAsks /\ InflationAsks /\ ClearedAsks
=============================================================================
