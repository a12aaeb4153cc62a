-------------------------- MODULE CostmapPublisher --------------------------
(***************************************************************************)
(* my_nav2::costmap_2d::Costmap2DPublisher: full grids and updates of a    *)
(* costmap, and the copies that subscribers put together from them.        *)
(*                                                                         *)
(* publishCostmap() runs on the map update thread, after every update or   *)
(* after several.  It compares and stores the size and the origin of the   *)
(* costmap without its mutex, and locks the mutex anew for every message;  *)
(* the first static map resizes the costmap on the executor thread,        *)
(* between any two of these steps.  The publish frequency and the size are *)
(* parameters, which the executor thread may change between two updates:   *)
(* it and mapUpdateLoop() hold the same mutex.                             *)
(*                                                                         *)
(* The costmap is one row of cells, as in MasterGrid; the resolution does  *)
(* not change.  A subscriber to "grid" gets OccupancyGrid messages, one to *)
(* "raw" gets Costmap messages; each takes every message, in order.  What  *)
(* the middleware keeps for late subscribers is left out: before a full    *)
(* grid has been sent to it, a subscriber has no copy.                     *)
(***************************************************************************)
EXTENDS Integers

CONSTANTS
  Sizes,        \* sizes the costmap may have, in cells
  Origins,      \* origins it may have, in cells of the world
  Costs,        \* costs the layers write
  DefaultCost,  \* what a resized or uncovered cell holds
  Rolling,      \* values of rolling_window: the costmap moves with the robot
  AlwaysFull    \* always_send_full_costmap_

ASSUME SizesAssumption   == Sizes # {} /\ Sizes \subseteq Nat \ {0}
ASSUME OriginsAssumption == Origins # {} /\ Origins \subseteq Int
ASSUME CostsAssumption   == Costs \subseteq 0 .. 255 /\ DefaultCost \in Costs
ASSUME ModeAssumption    == Rolling \subseteq BOOLEAN /\ AlwaysFull \in BOOLEAN

VARIABLES
  costmap,     \* what costmap_ points to: origin, size and cells
  rolling,     \* isRolling()
  first_map,   \* the static layer still waits for its first map
  redraw,      \* has_updated_data_ of the static layer: the next update
               \* takes in every cell
  publishing,  \* publish_cycle_ > 0
  moved,       \* history: it has moved since the last full grid
  skipped,     \* history: it has changed in an update that the publisher was
               \* not told of, since the last full grid
  torn,        \* history: its shape changed inside the last full grid
  pc,          \* where the update thread is in publishCostmap()
  x0, xn,      \* the changed rectangle
  saved,       \* saved_origin_x_ and grid_width_
  once,        \* costmap_published_once_
  listening,   \* the kinds of messages that are subscribed to
  mirror       \* the copy a subscriber to that kind has, or NoMap

map   == <<costmap, rolling, first_map, redraw, publishing, moved, skipped, torn>>
rect  == <<x0, xn>>
reads == <<listening, mirror>>
vars  == <<map, pc, rect, saved, once, reads>>

Kinds == {"grid", "raw"}
Steps == {"idle", "check", "params", "grid", "raw", "updates", "done"}

Cells(n) == 0 .. (n - 1)

NoMap == [origin |-> 0, cells |-> <<>>]

Shape(m) == [origin |-> m.origin, size |-> m.size]

Blank(o, n) == [origin |-> o, size |-> n, cells |-> [c \in Cells(n) |-> DefaultCost]]

-----------------------------------------------------------------------------
(* The translation of costs to values of an occupancy grid *)

\* Broken variant: 97 steps for 252 costs, and the last one reaches 99.
scaled_Overlapping(c) == 1 + (98 * c) \div 252

\* "regular cost values scale the range 1 to 252 (inclusive) to fit
\* into 1 to 98 (inclusive)"
scaled(c) == 1 + (97 * (c - 1)) \div 251

cost_translation_table ==
  [c \in 0 .. 255 |-> CASE c = 0   -> 0
                        [] c = 253 -> 99
                        [] c = 254 -> 100
                        [] c = 255 -> -1
                        [] OTHER   -> scaled(c)]

Value(k, cost) == IF k = "grid" THEN cost_translation_table[cost] ELSE cost

(* What a message of kind k says of cell c.  A cell past the end of the    *)
(* array is whatever lies there, junk.                                     *)
Read(k, c, junk) ==
  Value(k, IF c < costmap.size THEN costmap.cells[c] ELSE junk)

-----------------------------------------------------------------------------
Init ==
  /\ \E o \in Origins, n \in Sizes : costmap = Blank(o, n)
  /\ rolling \in Rolling
  /\ first_map = ~rolling
  /\ publishing \in BOOLEAN
  /\ moved = FALSE /\ skipped = FALSE /\ torn = FALSE
  /\ redraw = FALSE
  /\ pc = "idle"
  /\ xn = 0 /\ x0 = costmap.size
  /\ saved = [origin |-> 0, size |-> 0]
  /\ once = FALSE
  /\ listening = {}
  /\ mirror = [k \in Kinds |-> NoMap]

-----------------------------------------------------------------------------
(* The costmap *)

\* The first map resizes the costmap on the executor thread.
incomingMap(o, n) ==
  /\ first_map
  /\ first_map' = FALSE
  /\ costmap' = Blank(o, n)
  /\ redraw' = TRUE
  /\ torn' = (torn \/ (pc \in {"grid", "raw"} /\ Shape(costmap') # Shape(costmap)))
  /\ UNCHANGED <<rolling, publishing, moved, skipped, pc, rect, saved, once, reads>>

(* A costmap whose origin becomes o: what leaves the window is dropped.    *)
Moved(m, o) ==
  [origin |-> o, size |-> m.size,
   cells  |-> [c \in Cells(m.size) |->
                LET d == c + o - m.origin
                IN  IF d \in Cells(m.size) THEN m.cells[d] ELSE DefaultCost]]

Painted(m, lo, hi, cost) ==
  [origin |-> m.origin, size |-> m.size,
   cells  |-> [c \in Cells(m.size) |->
                 IF lo <= c /\ c < hi THEN cost ELSE m.cells[c]]]

updateBounds(lo, hi) ==
  /\ x0' = IF lo < x0 THEN lo ELSE x0
  /\ xn' = IF hi > xn THEN hi ELSE xn

(* One round of mapUpdateLoop() up to publishCostmap(): before is the      *)
(* costmap with which the layers begin, [lo, hi) what they update, or,     *)
(* when they update nothing, the bounds that getBounds() still has.  At a  *)
(* publish frequency of 0 the publisher hears of nothing.  With that of a  *)
(* layer that is disabled, publishCostmap() returns at once, as if it was  *)
(* not due.                                                                *)
Updated(before, lo, hi, cost, due) ==
  /\ pc = "idle"
  /\ costmap' \in {before, Painted(before, lo, hi, cost)}
  /\ moved' = (moved \/ (rolling /\ before.origin # costmap.origin))
  /\ redraw' = FALSE
  /\ IF publishing
     THEN /\ updateBounds(lo, hi)
          /\ pc' = IF due THEN "check" ELSE "idle"
          /\ UNCHANGED skipped
     ELSE /\ skipped' = (skipped \/ redraw \/ costmap' # costmap)
          /\ UNCHANGED <<pc, rect>>
  /\ UNCHANGED <<rolling, first_map, publishing, torn, saved, once, reads>>

updateMap(lo, hi, cost, due) ==
  /\ redraw => lo = 0 /\ hi = costmap.size
  /\ Updated(costmap, lo, hi, cost, due)

updateMap_rolling(o, lo, hi, cost, due) ==
  /\ rolling
  /\ Updated(Moved(costmap, o), lo, hi, cost, due)

\* Every map but the first is buffered, and resizes the costmap in an update.
updateMap_buffered(o, n, cost, due) ==
  /\ ~rolling /\ ~first_map
  /\ Updated(Blank(o, n), 0, n, cost, due)

\* Only between two rounds of mapUpdateLoop().
setPublishFrequency ==
  /\ pc = "idle"
  /\ publishing' = ~publishing
  /\ UNCHANGED <<costmap, rolling, first_map, redraw, moved, skipped, torn, pc, rect,
                 saved, once, reads>>

(* New values for the size, unless the static map has fixed it: the map is *)
(* resized and updated, and the publisher hears of neither.                *)
setSize(o, n, lo, hi, cost) ==
  /\ pc = "idle"
  /\ rolling \/ first_map
  /\ costmap' \in {Blank(o, n), Painted(Blank(o, n), lo, hi, cost)}
  /\ skipped' = TRUE
  /\ UNCHANGED <<rolling, first_map, redraw, publishing, moved, torn, pc, rect,
                 saved, once, reads>>

-----------------------------------------------------------------------------
(* publishCostmap() *)

\* Broken variant: a grid of another size is taken for the one published.
FullNeeded_Origin ==
  AlwaysFull \/ ~once \/ saved.origin # costmap.origin

FullNeeded == AlwaysFull \/ ~once \/ saved # Shape(costmap)

publishCostmap ==
  /\ pc = "check"
  /\ pc' = IF FullNeeded THEN "params" ELSE IF x0 < xn THEN "updates" ELSE "done"
  /\ UNCHANGED <<map, rect, saved, once, reads>>

updateGridParams ==
  /\ pc = "params"
  /\ pc' = "grid"
  /\ saved' = Shape(costmap)
  /\ torn' = FALSE
  /\ UNCHANGED <<costmap, rolling, first_map, redraw, publishing, moved, skipped, rect,
                 once, reads>>

\* A full grid of n cells for the subscriber to k.
FullGrid(k, n, junk) ==
  [origin |-> costmap.origin, cells |-> [c \in Cells(n) |-> Read(k, c, junk)]]

\* Broken variant: it is sent without looking for subscribers.
Send_Always(k, message) == mirror' = [mirror EXCEPT ![k] = message]

Send(k, message) ==
  mirror' = IF k \in listening THEN [mirror EXCEPT ![k] = message] ELSE mirror

\* The width is the one stored before the mutex was locked.
prepareGrid(junk) ==
  /\ pc = "grid"
  /\ pc' = "raw"
  /\ Send("grid", FullGrid("grid", saved.size, junk))
  /\ UNCHANGED <<map, rect, saved, once, listening>>

prepareCostmap ==
  /\ pc = "raw"
  /\ pc' = "done"
  /\ Send("raw", FullGrid("raw", costmap.size, DefaultCost))
  /\ once' = TRUE
  /\ moved' = FALSE /\ skipped' = FALSE
  /\ UNCHANGED <<costmap, rolling, first_map, redraw, publishing, torn, rect, saved,
                 listening>>

\* What a copy becomes when its holder applies an update to it.
WithUpdate(k, copy, junk) ==
  [origin |-> copy.origin,
   cells  |-> [c \in DOMAIN copy.cells |->
                 IF x0 <= c /\ c < xn THEN Read(k, c, junk) ELSE copy.cells[c]]]

\* Both messages are made under one lock of the mutex.
createUpdateMsgs(junk) ==
  /\ pc = "updates"
  /\ pc' = "done"
  /\ mirror' = [k \in Kinds |-> IF k \in listening
                               THEN WithUpdate(k, mirror[k], junk) ELSE mirror[k]]
  /\ UNCHANGED <<map, rect, saved, once, listening>>

publishCostmap_end ==
  /\ pc = "done"
  /\ pc' = "idle"
  /\ xn' = 0 /\ x0' = costmap.size
  /\ UNCHANGED <<map, saved, once, reads>>

-----------------------------------------------------------------------------
(* Subscribers come and go *)

Subscribe(k) ==
  /\ k \notin listening
  /\ listening' = listening \union {k}
  /\ UNCHANGED <<map, pc, rect, saved, once, mirror>>

Unsubscribe(k) ==
  /\ k \in listening
  /\ listening' = listening \ {k}
  /\ mirror' = [mirror EXCEPT ![k] = NoMap]
  /\ UNCHANGED <<map, pc, rect, saved, once>>

-----------------------------------------------------------------------------
Update ==
  \E cost \in Costs, due \in BOOLEAN :
    \/ \E lo, hi \in 0 .. costmap.size :
         /\ lo < hi
         /\ \/ updateMap(lo, hi, cost, due)
            \/ \E o \in Origins : updateMap_rolling(o, lo, hi, cost, due)
    \/ \E o \in Origins, n \in Sizes : updateMap_buffered(o, n, cost, due)

SetParameters ==
  \/ setPublishFrequency
  \/ \E o \in Origins, n \in Sizes, cost \in Costs : \E lo, hi \in 0 .. n :
       lo < hi /\ setSize(o, n, lo, hi, cost)

Publish ==
  \/ publishCostmap \/ updateGridParams \/ prepareCostmap \/ publishCostmap_end
  \/ \E junk \in Costs : prepareGrid(junk) \/ createUpdateMsgs(junk)

Next ==
  \/ \E o \in Origins, n \in Sizes : incomingMap(o, n)
  \/ Update
  \/ SetParameters
  \/ Publish
  \/ \E k \in Kinds : Subscribe(k) \/ Unsubscribe(k)

Spec == Init /\ [][Next]_vars

-----------------------------------------------------------------------------
Shapes == [origin : Origins, size : Sizes]

TypeOK ==
  /\ Shape(costmap) \in Shapes
  /\ costmap.cells \in [Cells(costmap.size) -> Costs]
  /\ rolling \in BOOLEAN /\ first_map \in BOOLEAN
  /\ redraw \in BOOLEAN /\ publishing \in BOOLEAN /\ once \in BOOLEAN
  /\ moved \in BOOLEAN /\ skipped \in BOOLEAN /\ torn \in BOOLEAN
  /\ pc \in Steps
  /\ x0 \in Nat /\ xn \in Nat
  /\ once \/ pc \in {"grid", "raw"} => saved \in Shapes
  /\ listening \subseteq Kinds
  /\ DOMAIN mirror = Kinds
  /\ \A k \in Kinds : k \notin listening => mirror[k] = NoMap

HasCopy(k) == DOMAIN mirror[k].cells # {}

\* The copy of kind k has the shape s.
ShapedAs(k, s) ==
  mirror[k].origin = s.origin /\ DOMAIN mirror[k].cells = Cells(s.size)

\* It says of cell c what the costmap says.
Agrees(k, c) == mirror[k].cells[c] = Value(k, costmap.cells[c])

(* Nothing is left to be published.  Four things publishCostmap() does not *)
(* notice, until it sends a full grid for another reason: a costmap that   *)
(* has moved away and back between two publications; a map that came       *)
(* between the two messages of a full grid, when the next one is back in   *)
(* the shape that was stored; updates at a publish frequency of 0, and the *)
(* update after a change of size that is none.                             *)
Settled ==
  /\ pc = "idle" /\ once /\ xn <= x0
  /\ ~redraw /\ ~moved /\ ~skipped /\ ~torn

(* What a subscriber has put together is the costmap, in shape and in      *)
(* every cell, whenever everything has been published and none of these    *)
(* four has happened: full grids and accumulated updates add up, wherever  *)
(* a resize by the first map fell between the steps of publishCostmap(),   *)
(* and after a full grid even if one of them had happened before.          *)
CopiesAddUp ==
  Settled => \A k \in Kinds : HasCopy(k) =>
    /\ ShapedAs(k, costmap)
    /\ \A c \in Cells(costmap.size) : Agrees(k, c)

(* What a viewer of the occupancy grid draws is in the order of the costs, *)
(* and the values it takes for free, inscribed, lethal and unknown cells   *)
(* are those of such cells and of no other.                                *)
ViewKeepsOrder ==
  Settled /\ HasCopy("grid") =>
    LET view == mirror["grid"].cells
        cost == costmap.cells
    IN  /\ \A c, d \in Cells(costmap.size) :
             cost[c] <= cost[d] /\ cost[d] # 255 => view[c] <= view[d]
        /\ \A c \in Cells(costmap.size) : /\ view[c] = -1  <=> cost[c] = 255
                                          /\ view[c] = 0   <=> cost[c] = 0
                                          /\ view[c] = 99  <=> cost[c] = 253
                                          /\ view[c] = 100 <=> cost[c] = 254

-----------------------------------------------------------------------------
(* What makes CopiesAddUp inductive *)

\* A costmap that moves with the robot waits for no map.
RollingIsFixedSize == rolling => ~first_map /\ ~redraw

(* A shape that has not been stored comes with cells to be published.      *)
ShapeIsSeen ==
  /\ \/ pc \in {"grid", "raw", "updates", "done"}
     \/ pc = "idle" /\ once /\ xn <= x0 /\ ~skipped
  /\ ~redraw
  => saved = Shape(costmap)

\* The copies have the shape that was stored.
CopiesAreShaped ==
  ~torn =>
    /\ pc \in {"grid", "raw"} => saved = Shape(costmap)
    /\ pc = "raw" /\ HasCopy("grid") => ShapedAs("grid", saved)
    /\ pc \in {"idle", "check", "updates", "done"} =>
         \A k \in Kinds : HasCopy(k) => ShapedAs(k, saved)

Steady == ~redraw /\ ~moved /\ ~skipped /\ ~torn /\ saved = Shape(costmap)

(* Between publications the copies are right outside the changed           *)
(* rectangle.                                                              *)
RightOutsideRectangle ==
  /\ pc \in {"idle", "check", "updates"} /\ Steady =>
       \A k \in Kinds : HasCopy(k) =>
         \A c \in Cells(costmap.size) : c < x0 \/ xn <= c => Agrees(k, c)
  /\ pc = "raw" /\ ~torn /\ ~redraw /\ HasCopy("grid") =>
       \A c \in Cells(costmap.size) : Agrees("grid", c)
  /\ pc = "done" /\ Steady =>
       \A k \in Kinds : HasCopy(k) => \A c \in Cells(costmap.size) : Agrees(k, c)

IInv ==
  /\ TypeOK
  /\ RollingIsFixedSize
  /\ ShapeIsSeen
  /\ CopiesAreShaped
  /\ RightOutsideRectangle

=============================================================================
