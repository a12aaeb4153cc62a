--------------------------- MODULE InflationLayer ---------------------------
(***************************************************************************)
(* my_nav2::costmap_2d::InflationLayer: spreads costs from lethal          *)
(* obstacles over the cells within the inflation radius.                   *)
(*                                                                         *)
(* Parameters and footprint change on the executor thread; the update      *)
(* thread calls updateBounds() and, later, updateCosts().  All of them     *)
(* hold the layer's mutex.                                                 *)
(***************************************************************************)
EXTENDS MasterGrid

CONSTANTS
  Radii,            \* inflation radii and inscribed radii, in units of length
  InflateUnknown    \* inflate_unknown_

ASSUME InflationLayerAssumption ==
  Radii # {} /\ Radii \subseteq Nat /\ InflateUnknown \in BOOLEAN

VARIABLES
  inflation_enabled,    \* enabled_
  inflation_current,    \* current_
  inflation_radius,     \* inflation_radius_
  inscribed_radius,     \* inscribed_radius_
  need_reinflation,     \* need_reinflation_
  last                  \* last_min_x_, last_max_x_

inflation_vars == <<inflation_enabled, inflation_current, inflation_radius,
                    inscribed_radius, need_reinflation, last>>

\* Computed anew whenever the radius or the grid changes.
cell_inflation_radius == cellDistance(inflation_radius)

(* computeCost() of a distance in cells.  Beyond the inscribed radius any  *)
(* fall-off that tells the distances apart will do.                        *)
computeCost(d) ==
  IF d = 0 THEN LETHAL_OBSTACLE
  ELSE IF d * Resolution <= inscribed_radius THEN INSCRIBED_INFLATED_OBSTACLE
  ELSE MAX_NON_OBSTACLE \div (d + 1)

Distance(c, d) == IF c < d THEN d - c ELSE c - d

setInflationRadius(r) ==
  /\ r # inflation_radius
  /\ inflation_radius' = r
  /\ need_reinflation' = TRUE
  /\ UNCHANGED <<inflation_enabled, inflation_current, inscribed_radius, last>>

inflation_setEnabled ==
  /\ inflation_enabled' = ~inflation_enabled
  /\ need_reinflation' = TRUE
  /\ inflation_current' = FALSE
  /\ UNCHANGED <<inflation_radius, inscribed_radius, last>>

onFootprintChanged(r) ==
  /\ inscribed_radius' = r
  /\ need_reinflation' = TRUE
  /\ UNCHANGED <<inflation_enabled, inflation_current, inflation_radius, last>>

inflation_reset ==
  /\ inflation_current' = FALSE
  /\ need_reinflation' = TRUE
  /\ UNCHANGED <<inflation_enabled, inflation_radius, inscribed_radius, last>>

(* b are the bounds of the layers before.  This update reaches as far as   *)
(* they do, and as the update before did, and the inflation radius         *)
(* further, in metres: it may fall short of the cells inflated by up to    *)
(* one.  A reinflation reaches everywhere and is not done twice.           *)
inflation_updateBounds(b) ==
  /\ need_reinflation' = FALSE
  /\ IF need_reinflation
     THEN last' = NoBounds /\ bounds' = AllBounds
     ELSE last' = b /\ bounds' = Grow(Union(last, b), inflation_radius)
  /\ UNCHANGED <<inflation_enabled, inflation_current, inflation_radius, inscribed_radius>>

Inflates == inflation_enabled /\ cell_inflation_radius # 0

(* The obstacles that can influence the window.                            *)
Sources(grid, window) ==
  {c \in DOMAIN grid : /\ grid[c] = LETHAL_OBSTACLE
                       /\ \E d \in window : Distance(c, d) <= cell_inflation_radius}

\* Broken variant: the costs are added up, in a byte that cannot hold the sum.
InflatedCost_Added(old, cost) == old + cost

InflatedCost(old, cost) ==
  IF /\ old = NO_INFORMATION
     /\ IF InflateUnknown THEN cost > FREE_SPACE ELSE cost >= INSCRIBED_INFLATED_OBSTACLE
  THEN cost
  ELSE Max({old, cost})

(* The grid after updateCosts(): in the window every cell has the cost of  *)
(* the nearest obstacle, if one is within the inflation radius.            *)
Inflated(grid, window) ==
  LET sources == Sources(grid, window)
      near(c) == {d \in 0 .. cell_inflation_radius : \E s \in sources : Distance(c, s) = d}
  IN  [c \in DOMAIN grid |->
         IF Inflates /\ c \in window /\ near(c) # {}
         THEN InflatedCost(grid[c], computeCost(Min(near(c))))
         ELSE grid[c]]

inflation_updateCosts ==
  /\ inflation_current' = (Inflates \/ inflation_current)
  /\ UNCHANGED <<inflation_enabled, inflation_radius, inscribed_radius,
                 need_reinflation, last>>
=============================================================================
