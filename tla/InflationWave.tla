--------------------------- MODULE InflationWave ---------------------------
(***************************************************************************)
(* The wave with which InflationLayer::updateCosts() finds for every cell  *)
(* the obstacle that its cost comes from, over a grid of two dimensions.   *)
(*                                                                         *)
(* It starts at the lethal obstacles and takes the cells of the list       *)
(* bin by bin, a bin for every distance there is within the inflation      *)
(* radius; what a cell adds to the list goes to the bin of its distance.   *)
(* InflationLayer.tla has the result for one row of cells.                 *)
(*                                                                         *)
(* A cell is the pair of its coordinates.  A distance is kept squared, in  *)
(* cells, which the code's lookups of distance and cost depend on alone.   *)
(* The names are those of no other module of the costmap's layers.         *)
(***************************************************************************)
EXTENDS Integers, SequencesExt

CONSTANTS
  SizeX, SizeY,     \* of the master grid, in cells
  Radius,           \* cell_inflation_radius_
  ObstacleSets,     \* sets of cells that may be lethal obstacles together
  Windows           \* windows of updates: [min_i, min_j, max_i, max_j]

GridCells == (0 .. SizeX - 1) \X (0 .. SizeY - 1)

ASSUME InflationWaveAssumption ==
  /\ {SizeX, SizeY, Radius} \subseteq Nat \ {0}
  /\ ObstacleSets \subseteq SUBSET GridCells
  /\ \A w \in Windows : /\ {w.min_i, w.min_j} \subseteq Nat
                        /\ w.max_i \in 0 .. SizeX /\ w.max_j \in 0 .. SizeY

VARIABLES
  obstacles,         \* the cells of cost LETHAL_OBSTACLE
  window,            \* the cells that the update is for
  level,             \* index of the bin that is taken from; Idle between updates
  inflation_cells,   \* for every level a bin: a sequence of [cell, src]
  seen,              \* seen_: the cells taken from the list, each with the
                     \* obstacle it was reached from, which is history
  reached            \* where a cell of the window got its cost from: the
                     \* distance, or Unreached

wave_vars == <<obstacles, window, level, inflation_cells, seen, reached>>

SquaredDistance(c, d) == (c[1] - d[1]) * (c[1] - d[1]) + (c[2] - d[2]) * (c[2] - d[2])

cache_length == Radius + 2

(* generateIntegerDistances(): the distances of cells not further away     *)
(* than cache_length, and the level of each among them.                    *)
IntegerDistances ==
  {x * x + y * y : x \in 0 .. cache_length, y \in 0 .. cache_length}
    \cap 0 .. (cache_length * cache_length)

LevelOf == [d \in IntegerDistances |-> Cardinality({e \in IntegerDistances : e < d})]

Levels == 0 .. (Cardinality(IntegerDistances) - 1)

Idle == Cardinality(IntegerDistances)

Unreached == -1

(* The i-th cell, row by row.                                              *)
RowMajor(i) == <<(i - 1) % SizeX, (i - 1) \div SizeX>>

\* Broken variant: only obstacles within the window are inflated.
SourceCells_WindowOnly(w) ==
  {c \in GridCells : /\ w.min_i <= c[1] /\ c[1] < w.max_i
                 /\ w.min_j <= c[2] /\ c[2] < w.max_j}

(* The cells looked through for obstacles: those of the window, and the    *)
(* inflation radius beyond.                                                *)
SourceCells(w) ==
  {c \in GridCells : /\ w.min_i - Radius <= c[1] /\ c[1] < w.max_i + Radius
                 /\ w.min_j - Radius <= c[2] /\ c[2] < w.max_j + Radius}

InWindow(c) == /\ window.min_i <= c[1] /\ c[1] < window.max_i
               /\ window.min_j <= c[2] /\ c[2] < window.max_j

Neighbours(c, d) == SquaredDistance(c, d) = 1

(* "The inflation list must be empty at the beginning of inflation", which *)
(* updateCosts() asserts: no cell is ever put into a bin that was left, to *)
(* remain there, whichever obstacles' waves meet.                          *)
ListEmptied == \A l \in Levels : l < level => inflation_cells[l] = <<>>

\* The types, and that every entry of the list comes from an obstacle and
\* is in a bin still to come.
WaveTypeOK ==
  /\ obstacles \subseteq GridCells
  /\ window \in Windows
  /\ level \in Levels \cup {Idle}
  /\ inflation_cells \in [Levels -> Seq([cell : GridCells, src : obstacles])]
  /\ DOMAIN seen \subseteq GridCells
  /\ seen \in [DOMAIN seen -> obstacles]
  /\ reached \in [GridCells -> IntegerDistances \cup {Unreached}]
  /\ ListEmptied

WaveInit ==
  /\ obstacles = {}
  /\ window \in Windows
  /\ level = Idle
  /\ inflation_cells = [l \in Levels |-> <<>>]
  /\ seen = <<>>
  /\ reached = [c \in GridCells |-> Unreached]

-----------------------------------------------------------------------------
(* The first bin with the cells of S added, in the order of the rows.      *)
WithObstacles(bin, S) ==
  LET added[i \in 0 .. SizeX * SizeY] ==
        IF i = 0 THEN bin
        ELSE IF RowMajor(i) \in S
             THEN Append(added[i - 1], [cell |-> RowMajor(i), src |-> RowMajor(i)])
             ELSE added[i - 1]
  IN  added[SizeX * SizeY]

(* An update of window w begins: the layers before have set the cells of   *)
(* obs to LETHAL_OBSTACLE.                                                 *)
updateCosts_begin(obs, w) ==
  /\ level = Idle
  /\ obstacles' = obs
  /\ window' = w
  /\ seen' = <<>>
  /\ inflation_cells' = [inflation_cells EXCEPT ![0] = WithObstacles(@, obs \cap SourceCells(w))]
  /\ level' = 0
  /\ reached' = [c \in GridCells |-> Unreached]

\* Broken variant: a cell adds its neighbours for the cost it has, at once.
BinOf_Current(d) == level

BinOf(d) == LevelOf[d]

\* Broken variant: cells that were taken before are put on the list again.
Enqueued_Seen(n, src) == n \in GridCells /\ SquaredDistance(n, src) <= Radius * Radius

Enqueued(n, src) ==
  /\ n \in GridCells
  /\ n \notin DOMAIN seen'
  /\ SquaredDistance(n, src) <= Radius * Radius

(* enqueue(): the neighbour n of a cell whose cost comes from src, when it *)
(* is on the grid.                                                         *)
enqueue(bins, n, src) ==
  IF Enqueued(n, src)
  THEN [bins EXCEPT ![BinOf(SquaredDistance(n, src))] = Append(@, [cell |-> n, src |-> src])]
  ELSE bins

(* The neighbours in the order of the code.                                *)
enqueueNeighbours(bins, c, src) ==
  LET left  == enqueue(bins, <<c[1] - 1, c[2]>>, src)
      below == enqueue(left, <<c[1], c[2] - 1>>, src)
      right == enqueue(below, <<c[1] + 1, c[2]>>, src)
  IN  enqueue(right, <<c[1], c[2] + 1>>, src)

(* The next cell of the bin.  One taken before is ignored.                 *)
updateCosts_cell ==
  /\ level # Idle
  /\ inflation_cells[level] # <<>>
  /\ LET e    == Head(inflation_cells[level])
         rest == [inflation_cells EXCEPT ![level] = Tail(@)]
     IN  IF e.cell \in DOMAIN seen
         THEN inflation_cells' = rest /\ UNCHANGED <<seen, reached>>
         ELSE /\ seen' = [c \in DOMAIN seen \cup {e.cell} |-> IF c = e.cell THEN e.src ELSE seen[c]]
              /\ reached' = IF InWindow(e.cell)
                            THEN [reached EXCEPT ![e.cell] = SquaredDistance(e.cell, e.src)]
                            ELSE reached
              /\ inflation_cells' = enqueueNeighbours(rest, e.cell, e.src)
  /\ UNCHANGED <<obstacles, window, level>>

updateCosts_level ==
  /\ level # Idle
  /\ inflation_cells[level] = <<>>
  /\ level' = level + 1
  /\ UNCHANGED <<obstacles, window, inflation_cells, seen, reached>>

WaveNext ==
  \/ \E obs \in ObstacleSets, w \in Windows : updateCosts_begin(obs, w)
  \/ updateCosts_cell
  \/ updateCosts_level

WaveSpec == WaveInit /\ [][WaveNext]_wave_vars

-----------------------------------------------------------------------------
Within(c, r) == {SquaredDistance(c, o) : o \in obstacles} \cap 0 .. (r * r)

(* No obstacle this near is missed.  With a greater radius the waves of    *)
(* others may fence off a cell that is only just within it: of radius 5    *)
(* <<6, 2>>, with obstacles at <<9, 6>>, the only one that near, <<5, 7>>  *)
(* and <<11, 4>>.                                                          *)
SureRadius == IF Radius < 5 THEN Radius ELSE Radius - 1

(* A cell of the window that is inflated has an obstacle within the        *)
(* inflation radius, in the window or not, and one that has an obstacle    *)
(* within it, less the cell that waves may cut off, is inflated, though    *)
(* the wave goes over neighbours only, each of which it gives to one       *)
(* obstacle only.  As far as waves cannot cut one another off, up to two   *)
(* cells and their diagonal, the cost comes from the nearest obstacle.     *)
CoversRadius ==
  level = Idle =>
    \A c \in {d \in GridCells : InWindow(d)} :
      LET near == Within(c, Radius)
      IN  /\ reached[c] # Unreached => near # {}
          /\ Within(c, SureRadius) # {} => reached[c] # Unreached
          /\ near # {} /\ Min(near) < 8 => reached[c] = Min(near)

-----------------------------------------------------------------------------
(* What the type invariant needs to be inductive.                          *)

(* The distance from which a cell taken got its cost.                      *)
TakenAt(c) == SquaredDistance(c, seen[c])

(* Cells are taken nearest first.                                          *)
TakenInOrder ==
  \A c \in DOMAIN seen : /\ TakenAt(c) <= Radius * Radius
                         /\ LevelOf[TakenAt(c)] <= level

(* A cell comes from its obstacle through a neighbour nearer to it.        *)
ComesFrom(c, s) ==
  \/ c = s
  \/ \E p \in DOMAIN seen : /\ Neighbours(p, c) /\ seen[p] = s
                            /\ SquaredDistance(p, s) < SquaredDistance(c, s)

ComesNearer == \A c \in DOMAIN seen : ComesFrom(c, seen[c])

EntriesComeNearer ==
  \A l \in Levels : \A e \in Range(inflation_cells[l]) :
    /\ SquaredDistance(e.cell, e.src) <= Radius * Radius
    /\ LevelOf[SquaredDistance(e.cell, e.src)] = l
    /\ ComesFrom(e.cell, e.src)

(* What a cell taken can give to a neighbour, the neighbour has, or better *)
(* or it is on the list.                                                   *)
NeighboursReached ==
  \A p \in DOMAIN seen, n \in GridCells :
    LET d == SquaredDistance(n, seen[p])
    IN  Neighbours(p, n) /\ d <= Radius * Radius =>
          \/ n \in DOMAIN seen /\ TakenAt(n) <= d
          \/ [cell |-> n, src |-> seen[p]] \in Range(inflation_cells[LevelOf[d]])

(* No obstacle that was looked for is forgotten.                           *)
SourcesReached ==
  \A o \in obstacles \cap SourceCells(window) :
    \/ o \in DOMAIN seen /\ TakenAt(o) = 0
    \/ [cell |-> o, src |-> o] \in Range(inflation_cells[0])

(* The window has the distances of the cells taken.                        *)
ReachedFollows ==
  \A c \in GridCells :
    reached[c] = IF c \in DOMAIN seen /\ InWindow(c) THEN TakenAt(c) ELSE Unreached

WaveIInv ==
  /\ WaveTypeOK
  /\ TakenInOrder
  /\ ComesNearer
  /\ EntriesComeNearer
  /\ NeighboursReached
  /\ SourcesReached
  /\ ReachedFollows

-----------------------------------------------------------------------------
(* What of CoversRadius holds of every grid and radius.                    *)

(* At any time the cells inflated are in the window and have the distance  *)
(* of an obstacle within the inflation radius.                             *)
InflatesWithinRadius ==
  \A c \in GridCells : reached[c] # Unreached => InWindow(c) /\ reached[c] \in Within(c, Radius)

(* In the end every obstacle of the window and every cell of it beside     *)
(* one, wherever that is, is inflated as that.                             *)
ObstaclesInflated ==
  level = Idle =>
    \A c \in {d \in GridCells : InWindow(d)} :
      /\ c \in obstacles => reached[c] = 0
      /\ c \notin obstacles /\ (\E o \in obstacles : Neighbours(o, c)) => reached[c] = 1

(* In the end no neighbour of a cell taken is further from its obstacle    *)
(* than from that cell's, if this is within the inflation radius: the wave *)
(* stops nowhere before the radius, and no cell is given what a neighbour  *)
(* knows to be worse.                                                      *)
NeighboursAgree ==
  level = Idle =>
    \A p \in DOMAIN seen, n \in GridCells :
      Neighbours(p, n) /\ SquaredDistance(n, seen[p]) <= Radius * Radius =>
        n \in DOMAIN seen /\ TakenAt(n) <= SquaredDistance(n, seen[p])
=============================================================================
