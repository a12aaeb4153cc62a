----------------------- MODULE CostmapPublisherProofs -----------------------
(***************************************************************************)
(* Proofs about CostmapPublisher, for costmaps of every size, at every     *)
(* origin, with any costs.                                                 *)
(*                                                                         *)
(* CopiesAddUp is not inductive: it says nothing between publications.     *)
(* IInv adds what the copies are worth in every step of publishCostmap():  *)
(* of the shape that was stored, and right outside the changed rectangle.  *)
(***************************************************************************)
EXTENDS CostmapPublisher, TLAPS

USE SizesAssumption, OriginsAssumption, CostsAssumption, ModeAssumption

MapOK(m) == Shape(m) \in Shapes /\ m.cells \in [Cells(m.size) -> Costs]

-----------------------------------------------------------------------------
(* What the operators on costmaps return *)

LEMMA BlankIsMap ==
  ASSUME NEW o \in Origins, NEW n \in Sizes
  PROVE  /\ MapOK(Blank(o, n))
         /\ Shape(Blank(o, n)) = [origin |-> o, size |-> n]
BY DEF MapOK, Blank, Shape, Shapes, Cells

LEMMA MovedIsMap ==
  ASSUME NEW m, MapOK(m), NEW o \in Origins
  PROVE  /\ MapOK(Moved(m, o))
         /\ Moved(m, o).origin = o /\ Moved(m, o).size = m.size
         /\ o = m.origin => Moved(m, o).cells = m.cells
<1> DEFINE cells == [c \in Cells(m.size) |->
                      LET d == c + o - m.origin
                      IN  IF d \in Cells(m.size) THEN m.cells[d] ELSE DefaultCost]
<1>1. m.size \in Sizes /\ m.origin \in Origins /\ m.cells \in [Cells(m.size) -> Costs]
  BY DEF MapOK, Shape, Shapes
<1>2. Moved(m, o).origin = o /\ Moved(m, o).size = m.size /\ Moved(m, o).cells = cells
  BY DEF Moved
<1>3. cells \in [Cells(m.size) -> Costs]
  BY <1>1
<1>4. ASSUME o = m.origin
      PROVE  cells = m.cells
  <2>. o \in Int /\ Cells(m.size) \subseteq Int
    BY DEF Cells
  <2>1. \A c \in Cells(m.size) : c + o - m.origin = c
    BY <1>4
  <2>2. \A c \in Cells(m.size) : cells[c] = m.cells[c]
    BY <2>1
  <2> QED BY <1>1, <2>2
<1> HIDE DEF cells
<1> QED BY <1>1, <1>2, <1>3, <1>4 DEF MapOK, Shape, Shapes

LEMMA PaintedIsMap ==
  ASSUME NEW m, MapOK(m), NEW lo \in Nat, NEW hi \in Nat, NEW cost \in Costs
  PROVE  /\ MapOK(Painted(m, lo, hi, cost))
         /\ Shape(Painted(m, lo, hi, cost)) = Shape(m)
         /\ \A c \in Cells(m.size) :
              c < lo \/ hi <= c => Painted(m, lo, hi, cost).cells[c] = m.cells[c]
<1> DEFINE cells == [c \in Cells(m.size) |->
                      IF lo <= c /\ c < hi THEN cost ELSE m.cells[c]]
<1>1. m.size \in Sizes /\ m.origin \in Origins /\ m.cells \in [Cells(m.size) -> Costs]
  BY DEF MapOK, Shape, Shapes
<1>2. /\ Painted(m, lo, hi, cost).origin = m.origin
      /\ Painted(m, lo, hi, cost).size = m.size
      /\ Painted(m, lo, hi, cost).cells = cells
  BY DEF Painted
<1>3. cells \in [Cells(m.size) -> Costs]
  BY <1>1
<1>4. \A c \in Cells(m.size) : c < lo \/ hi <= c => cells[c] = m.cells[c]
  BY DEF Cells
<1> HIDE DEF cells
<1> QED BY <1>1, <1>2, <1>3, <1>4 DEF MapOK, Shape, Shapes

-----------------------------------------------------------------------------
(* The updates of the map, in one form *)

Before(before, lo, hi) ==
  /\ MapOK(before) /\ lo \in Nat /\ hi \in Nat /\ lo < hi
  /\ Shape(before) \in Shapes
  /\ \/ lo = 0 /\ hi = before.size
     \/ /\ ~redraw
        /\ ~rolling \/ before.origin = costmap.origin => before.cells = costmap.cells
        /\ before.size = costmap.size
        /\ ~rolling => before.origin = costmap.origin

\* Each of the three kinds of update redraws every cell, or begins with the
\* costmap of before.
LEMMA UpdateCases ==
  ASSUME IInv, Update
  PROVE  \E before, lo, hi, cost, due :
           /\ cost \in Costs /\ due \in BOOLEAN
           /\ Before(before, lo, hi)
           /\ Updated(before, lo, hi, cost, due)
<1>1. PICK cost \in Costs, due \in BOOLEAN :
        \/ \E lo, hi \in 0 .. costmap.size :
             /\ lo < hi
             /\ \/ updateMap(lo, hi, cost, due)
                \/ \E o \in Origins : updateMap_rolling(o, lo, hi, cost, due)
        \/ \E o \in Origins, n \in Sizes : updateMap_buffered(o, n, cost, due)
  BY DEF Update
<1>2. MapOK(costmap) /\ costmap.size \in Nat
  BY DEF IInv, TypeOK, MapOK, Shape, Shapes
<1>3. CASE \E lo, hi \in 0 .. costmap.size : lo < hi /\ updateMap(lo, hi, cost, due)
  <2>1. PICK lo \in 0 .. costmap.size, hi \in 0 .. costmap.size :
          lo < hi /\ updateMap(lo, hi, cost, due)
    BY <1>3
  <2>2. Before(costmap, lo, hi) /\ Updated(costmap, lo, hi, cost, due)
    BY <1>2, <2>1 DEF updateMap, Before, MapOK
  <2> QED BY <2>2
<1>4. CASE \E lo, hi \in 0 .. costmap.size : \E o \in Origins :
             lo < hi /\ updateMap_rolling(o, lo, hi, cost, due)
  <2>1. PICK lo \in 0 .. costmap.size, hi \in 0 .. costmap.size, o \in Origins :
          lo < hi /\ updateMap_rolling(o, lo, hi, cost, due)
    BY <1>4
  <2>2. MapOK(Moved(costmap, o)) /\ Moved(costmap, o).size = costmap.size
        /\ (Moved(costmap, o).origin = costmap.origin
              => Moved(costmap, o).cells = costmap.cells)
    BY <1>2, MovedIsMap
  <2>3. rolling /\ ~redraw
    BY <2>1 DEF IInv, RollingIsFixedSize, updateMap_rolling
  <2>4. Before(Moved(costmap, o), lo, hi)
    BY <1>2, <2>1, <2>2, <2>3 DEF Before, MapOK
  <2> QED BY <2>1, <2>4 DEF updateMap_rolling
<1>5. CASE \E o \in Origins, n \in Sizes : updateMap_buffered(o, n, cost, due)
  <2>1. PICK o \in Origins, n \in Sizes : updateMap_buffered(o, n, cost, due)
    BY <1>5
  <2>2. MapOK(Blank(o, n)) /\ Blank(o, n).size = n
    BY BlankIsMap DEF Blank
  <2>3. n \in Nat /\ 0 < n
    OBVIOUS
  <2>4. Before(Blank(o, n), 0, n)
    BY <2>2, <2>3 DEF Before, MapOK, Blank
  <2> QED BY <2>1, <2>4 DEF updateMap_buffered
<1> QED BY <1>1, <1>3, <1>4, <1>5

\* The changed rectangle only grows, and takes in what is updated.
LEMMA RectangleGrows ==
  ASSUME TypeOK, NEW lo \in Nat, NEW hi \in Nat, lo < hi, updateBounds(lo, hi)
  PROVE  /\ x0' \in Nat /\ xn' \in Nat /\ x0' < xn'
         /\ \A c \in Nat : c < x0' \/ xn' <= c =>
              (c < lo \/ hi <= c) /\ (c < x0 \/ xn <= c)
BY DEF TypeOK, updateBounds

-----------------------------------------------------------------------------
(* Types *)

LEMMA InitTypeOK ==
  ASSUME Init
  PROVE  TypeOK
<1>1. PICK o \in Origins, n \in Sizes : costmap = Blank(o, n)
  BY DEF Init
<1>2. MapOK(costmap) /\ costmap.size \in Nat
  BY <1>1, BlankIsMap DEF Blank
<1> QED BY <1>1, <1>2 DEF Init, TypeOK, MapOK, Steps, Kinds

\* A change of the size is as good as a first map, but for what is skipped.
LEMMA SetSizeIsMap ==
  ASSUME NEW o \in Origins, NEW n \in Sizes, NEW lo \in 0 .. n, NEW hi \in 0 .. n,
         NEW cost \in Costs, setSize(o, n, lo, hi, cost)
  PROVE  MapOK(costmap)'
<1>1. MapOK(Blank(o, n)) /\ lo \in Nat /\ hi \in Nat
  BY BlankIsMap
<1>2. MapOK(Painted(Blank(o, n), lo, hi, cost))
  BY <1>1, PaintedIsMap
<1> QED BY <1>1, <1>2 DEF setSize, MapOK

LEMMA UpdateTypeOK ==
  ASSUME IInv, Update
  PROVE  TypeOK'
<1>1. PICK before, lo, hi, cost, due :
        /\ cost \in Costs /\ due \in BOOLEAN
        /\ Before(before, lo, hi)
        /\ Updated(before, lo, hi, cost, due)
  BY UpdateCases
<1>2. MapOK(costmap)'
  BY <1>1, PaintedIsMap DEF Before, Updated, MapOK
<1>3. x0' \in Nat /\ xn' \in Nat
  <2>1. CASE publishing
    BY <1>1, <2>1, RectangleGrows DEF Before, Updated, IInv
  <2>2. CASE ~publishing
    BY <1>1, <2>2 DEF Updated, rect, IInv, TypeOK
  <2> QED BY <2>1, <2>2
<1>4. pc = "idle" /\ pc' \in {"check", "idle"}
  BY <1>1 DEF Updated
<1>5. moved' \in BOOLEAN /\ redraw' \in BOOLEAN /\ skipped' \in BOOLEAN
  BY <1>1 DEF Updated, IInv, TypeOK
<1>6. UNCHANGED <<rolling, first_map, publishing, torn, saved, once, listening, mirror>>
  BY <1>1 DEF Updated, reads
<1> QED BY <1>2, <1>3, <1>4, <1>5, <1>6 DEF IInv, TypeOK, MapOK, Steps

LEMMA NextTypeOK ==
  ASSUME IInv, [Next]_vars
  PROVE  TypeOK'
<1> USE DEF IInv, TypeOK, Steps
<1>1. CASE \E o \in Origins, n \in Sizes : incomingMap(o, n)
  <2>1. PICK o \in Origins, n \in Sizes : incomingMap(o, n)
    BY <1>1
  <2>2. MapOK(costmap)'
    BY <2>1, BlankIsMap DEF incomingMap
  <2> QED BY <2>1, <2>2 DEF incomingMap, rect, reads, MapOK
<1>2. CASE Update
  BY <1>2, UpdateTypeOK
<1>3. CASE publishCostmap
  BY <1>3 DEF publishCostmap, FullNeeded, map, rect, reads
<1>4. CASE updateGridParams
  BY <1>4 DEF updateGridParams, map, rect, reads
<1>5. CASE prepareCostmap
  BY <1>5 DEF prepareCostmap, Send, rect
<1>6. CASE publishCostmap_end
  BY <1>6 DEF publishCostmap_end, map, reads, Shape, Shapes
<1>7. CASE \E junk \in Costs : prepareGrid(junk)
  BY <1>7 DEF prepareGrid, Send, map, rect
<1>8. CASE \E junk \in Costs : createUpdateMsgs(junk)
  BY <1>8 DEF createUpdateMsgs, map, rect
<1>9. CASE \E k \in Kinds : Subscribe(k)
  BY <1>9 DEF Subscribe, map, rect
<1>10. CASE \E k \in Kinds : Unsubscribe(k)
  BY <1>10 DEF Unsubscribe, map, rect
<1>11. CASE setPublishFrequency
  BY <1>11 DEF setPublishFrequency, rect, reads
<1>12. ASSUME NEW o \in Origins, NEW n \in Sizes, NEW cost \in Costs,
             NEW lo \in 0 .. n, NEW hi \in 0 .. n, setSize(o, n, lo, hi, cost)
      PROVE  TypeOK'
  <2>1. MapOK(costmap)'
    BY <1>12, SetSizeIsMap
  <2> QED BY <1>12, <2>1 DEF setSize, rect, reads, MapOK
<1>13. CASE UNCHANGED vars
  BY <1>13 DEF vars, map, rect, reads
<1> QED BY <1>1, <1>2, <1>3, <1>4, <1>5, <1>6, <1>7, <1>8, <1>9, <1>10, <1>11, <1>12, <1>13
       DEF Next, Publish, SetParameters

LEMMA NextFixedSize ==
  ASSUME IInv, [Next]_vars
  PROVE  RollingIsFixedSize'
<1> USE DEF IInv, RollingIsFixedSize
<1>1. CASE \E o \in Origins, n \in Sizes : incomingMap(o, n)
  BY <1>1 DEF incomingMap
<1>2. CASE Update
  BY <1>2, UpdateCases DEF Updated
<1>3. CASE Publish
  BY <1>3 DEF Publish, publishCostmap, updateGridParams, prepareCostmap,
     publishCostmap_end, prepareGrid, createUpdateMsgs, map
<1>4. CASE \E k \in Kinds : Subscribe(k) \/ Unsubscribe(k)
  BY <1>4 DEF Subscribe, Unsubscribe, map
<1>5. CASE SetParameters
  BY <1>5 DEF SetParameters, setPublishFrequency, setSize
<1>6. CASE UNCHANGED vars
  BY <1>6 DEF vars, map
<1> QED BY <1>1, <1>2, <1>3, <1>4, <1>5, <1>6 DEF Next

-----------------------------------------------------------------------------
(* The stored shape and the shapes of the copies *)

LEMMA NextShapeIsSeen ==
  ASSUME IInv, [Next]_vars
  PROVE  ShapeIsSeen'
<1> USE DEF IInv, ShapeIsSeen
<1>1. CASE \E o \in Origins, n \in Sizes : incomingMap(o, n)
  BY <1>1 DEF incomingMap
<1>2. CASE Update
  <2>1. PICK before, lo, hi, cost, due :
          /\ Before(before, lo, hi)
          /\ Updated(before, lo, hi, cost, due)
    BY <1>2, UpdateCases
  <2>2. pc = "idle" /\ pc' \in {"idle", "check"} /\ saved' = saved /\ once' = once
    BY <2>1 DEF Updated
  <2>3. CASE publishing
    <3>1. x0' < xn' /\ x0' \in Nat /\ xn' \in Nat
      BY <2>1, <2>3, RectangleGrows DEF Before, Updated
    <3> QED BY <2>2, <3>1
  <2>4. CASE ~publishing
    <3>1. /\ skipped' = (skipped \/ redraw \/ costmap' # costmap)
          /\ pc' = "idle" /\ x0' = x0 /\ xn' = xn
      BY <2>1, <2>2, <2>4 DEF Updated, rect
    <3> QED BY <2>2, <3>1
  <2> QED BY <2>3, <2>4
<1>3. CASE publishCostmap
  BY <1>3 DEF publishCostmap, FullNeeded, map, rect, Shape
<1>4. CASE updateGridParams
  BY <1>4 DEF updateGridParams, Shape
<1>5. CASE prepareCostmap
  BY <1>5 DEF prepareCostmap, Shape
<1>6. CASE publishCostmap_end
  BY <1>6 DEF publishCostmap_end, map, Shape
<1>7. CASE \E junk \in Costs : prepareGrid(junk) \/ createUpdateMsgs(junk)
  BY <1>7 DEF prepareGrid, createUpdateMsgs, map, Shape
<1>8. CASE \E k \in Kinds : Subscribe(k) \/ Unsubscribe(k)
  BY <1>8 DEF Subscribe, Unsubscribe, map, rect, Shape
<1>9. CASE SetParameters
  BY <1>9 DEF SetParameters, setPublishFrequency, setSize, rect, Shape
<1>10. CASE UNCHANGED vars
  BY <1>10 DEF vars, map, rect, Shape
<1> QED BY <1>1, <1>2, <1>3, <1>4, <1>5, <1>6, <1>7, <1>8, <1>9, <1>10 DEF Next, Publish

\* Only a subscriber has a copy.
LEMMA OnlySubscribersHave ==
  ASSUME TypeOK, NEW k \in Kinds, HasCopy(k)
  PROVE  k \in listening
BY DEF TypeOK, HasCopy, NoMap

\* What was sent as a full grid is the only copy of its kind.
LEMMA FullGridIsShaped ==
  ASSUME TypeOK, NEW k \in Kinds, NEW junk, NEW s, s.origin = costmap.origin,
         Send(k, FullGrid(k, s.size, junk)), UNCHANGED listening, HasCopy(k)'
  PROVE  mirror'[k] = FullGrid(k, s.size, junk) /\ ShapedAs(k, s)'
<1>1. k \in listening
  BY OnlySubscribersHave DEF Send, HasCopy
<1>2. mirror'[k] = FullGrid(k, s.size, junk)
  BY <1>1 DEF Send, TypeOK
<1> QED BY <1>2 DEF ShapedAs, FullGrid

\* Sending one kind of message leaves the copies of the other kind alone.
LEMMA SendOnlyOneKind ==
  ASSUME TypeOK, NEW k \in Kinds, NEW message, Send(k, message), NEW j \in Kinds \ {k}
  PROVE  mirror'[j] = mirror[j]
BY DEF Send, TypeOK

LEMMA NextCopiesAreShaped ==
  ASSUME IInv, [Next]_vars
  PROVE  CopiesAreShaped'
<1> USE DEF IInv
<1>1. CASE \E o \in Origins, n \in Sizes : incomingMap(o, n)
  BY <1>1, ZenonT(60) DEF incomingMap, CopiesAreShaped, ShapedAs, HasCopy, reads
<1>2. CASE Update
  <2>1. /\ pc = "idle" /\ pc' \in {"idle", "check"}
        /\ UNCHANGED <<torn, saved, reads>>
    BY <1>2, UpdateCases DEF Updated
  <2> QED BY <2>1 DEF CopiesAreShaped, ShapedAs, HasCopy, reads
<1>3. CASE publishCostmap
  <2>1. pc = "check" /\ pc' \in {"params", "updates", "done"}
    BY <1>3 DEF publishCostmap
  <2> QED BY <1>3, <2>1 DEF publishCostmap, CopiesAreShaped, ShapedAs, HasCopy, map, reads
<1>4. CASE updateGridParams
  BY <1>4 DEF updateGridParams, CopiesAreShaped, Shape
<1>5. CASE prepareCostmap
  <2>1. /\ pc = "raw" /\ pc' = "done"
        /\ Send("raw", FullGrid("raw", costmap.size, DefaultCost))
        /\ UNCHANGED <<costmap, torn, saved, listening>>
    BY <1>5 DEF prepareCostmap
  <2> SUFFICES ASSUME ~torn, NEW k \in Kinds, HasCopy(k)'
               PROVE  ShapedAs(k, saved)'
    BY <2>1 DEF CopiesAreShaped
  <2>2. saved = Shape(costmap)
    BY <2>1 DEF CopiesAreShaped
  <2>3. CASE k = "raw"
    <3>1. ShapedAs("raw", costmap)'
      BY <2>1, <2>3, FullGridIsShaped
    <3> QED BY <2>1, <2>2, <2>3, <3>1 DEF ShapedAs, Shape
  <2>4. CASE k = "grid"
    <3>1. mirror'["grid"] = mirror["grid"]
      BY <2>1, SendOnlyOneKind DEF Kinds
    <3> QED BY <2>1, <2>4, <3>1 DEF CopiesAreShaped, ShapedAs, HasCopy
  <2> QED BY <2>3, <2>4 DEF Kinds
<1>6. CASE publishCostmap_end
  BY <1>6 DEF publishCostmap_end, CopiesAreShaped, ShapedAs, HasCopy, map, reads
<1>7. ASSUME NEW junk \in Costs, prepareGrid(junk)
      PROVE  CopiesAreShaped'
  <2>1. /\ pc = "grid" /\ pc' = "raw"
        /\ Send("grid", FullGrid("grid", saved.size, junk))
        /\ UNCHANGED <<map, saved, listening>>
    BY <1>7 DEF prepareGrid
  <2> SUFFICES ASSUME ~torn
               PROVE  /\ saved = Shape(costmap)
                      /\ HasCopy("grid")' => ShapedAs("grid", saved)'
    BY <2>1 DEF CopiesAreShaped, map, Shape
  <2>2. saved = Shape(costmap)
    BY <2>1 DEF CopiesAreShaped
  <2>3. saved.origin = costmap.origin
    BY <2>2 DEF Shape
  <2> QED BY <2>1, <2>2, <2>3, FullGridIsShaped DEF Kinds, ShapedAs, HasCopy
<1>8. ASSUME NEW junk \in Costs, createUpdateMsgs(junk)
      PROVE  CopiesAreShaped'
  <2>1. /\ pc = "updates" /\ pc' = "done" /\ UNCHANGED <<map, saved>>
        /\ mirror' = [k \in Kinds |-> IF k \in listening
                                      THEN WithUpdate(k, mirror[k], junk) ELSE mirror[k]]
    BY <1>8 DEF createUpdateMsgs
  <2>2. \A k \in Kinds : /\ mirror'[k].origin = mirror[k].origin
                         /\ DOMAIN mirror'[k].cells = DOMAIN mirror[k].cells
    BY <2>1 DEF WithUpdate
  <2> QED BY <2>1, <2>2 DEF CopiesAreShaped, ShapedAs, HasCopy, map
<1>9. CASE \E k \in Kinds : Subscribe(k)
  BY <1>9 DEF Subscribe, CopiesAreShaped, ShapedAs, HasCopy, map, Shape
<1>10. ASSUME NEW k \in Kinds, Unsubscribe(k)
       PROVE  CopiesAreShaped'
  <2>1. /\ mirror' = [mirror EXCEPT ![k] = NoMap]
        /\ UNCHANGED <<map, pc, saved>>
    BY <1>10 DEF Unsubscribe
  <2>2. \A j \in Kinds : HasCopy(j)' => mirror'[j] = mirror[j]
    BY <2>1 DEF TypeOK, HasCopy, NoMap
  <2> QED BY <2>1, <2>2 DEF CopiesAreShaped, ShapedAs, HasCopy, map, Shape, Kinds
<1>11. CASE SetParameters
  <2>1. pc = "idle" /\ UNCHANGED <<pc, torn, saved, mirror>>
    BY <1>11 DEF SetParameters, setPublishFrequency, setSize, reads
  <2> QED BY <2>1 DEF CopiesAreShaped, ShapedAs, HasCopy
<1>12. CASE UNCHANGED vars
  BY <1>12 DEF vars, map, reads, CopiesAreShaped, ShapedAs, HasCopy, Shape
<1> QED BY <1>1, <1>2, <1>3, <1>4, <1>5, <1>6, <1>7, <1>8, <1>9, <1>10, <1>11, <1>12
       DEF Next, Publish

-----------------------------------------------------------------------------
(* What the copies say *)

LEMMA SizeIsNatural ==
  ASSUME IInv
  PROVE  costmap.size \in Nat
BY DEF IInv, TypeOK, Shape, Shapes

LEMMA UpdateKeepsCopies ==
  ASSUME IInv, Update
  PROVE  RightOutsideRectangle'
<1>1. PICK before, lo, hi, cost, due :
        /\ cost \in Costs /\ due \in BOOLEAN
        /\ Before(before, lo, hi)
        /\ Updated(before, lo, hi, cost, due)
  BY UpdateCases
<1>2. pc = "idle" /\ pc' \in {"check", "idle"}
  BY <1>1 DEF Updated
<1> SUFFICES ASSUME Steady', NEW k \in Kinds, HasCopy(k)',
                    NEW c \in Cells(costmap'.size), c < x0' \/ xn' <= c
             PROVE  Agrees(k, c)'
  BY <1>2 DEF RightOutsideRectangle
<1>3. /\ mirror' = mirror /\ ~moved /\ ~skipped /\ ~torn /\ saved' = saved
      /\ rolling => before.origin = costmap.origin
      /\ ~publishing => ~redraw /\ costmap' = costmap /\ UNCHANGED <<pc, rect>>
  BY <1>1 DEF Updated, reads, Steady
<1> CASE ~publishing
  BY <1>2, <1>3 DEF Steady, HasCopy, Agrees, rect, IInv, RightOutsideRectangle
<1> SUFFICES ASSUME publishing PROVE Agrees(k, c)'
  OBVIOUS
<1>4. /\ Shape(costmap') = Shape(before)
      /\ \A d \in Cells(before.size) :
           d < lo \/ hi <= d => costmap'.cells[d] = before.cells[d]
  BY <1>1, PaintedIsMap DEF Updated, Before
<1>5. c \in Cells(before.size) /\ c \in Nat
  BY <1>4 DEF Shape, Cells
<1>6. (c < lo \/ hi <= c) /\ (c < x0 \/ xn <= c)
  BY <1>1, <1>5, RectangleGrows DEF Before, Updated, IInv
<1>7. /\ ~redraw /\ before.cells = costmap.cells
      /\ before.size = costmap.size /\ before.origin = costmap.origin
  <2>1. ~(lo = 0 /\ hi = before.size)
    BY <1>1, <1>5, <1>6 DEF Cells, Before, MapOK, Shape, Shapes
  <2> QED BY <1>1, <1>3, <2>1 DEF Before
<1>8. Shape(costmap') = Shape(costmap)
  BY <1>4, <1>7 DEF Shape
<1>9. Steady /\ HasCopy(k)
  BY <1>3, <1>7, <1>8 DEF Steady, HasCopy
<1>10. Agrees(k, c)
  BY <1>2, <1>5, <1>6, <1>7, <1>9 DEF IInv, RightOutsideRectangle
<1> QED BY <1>3, <1>4, <1>5, <1>6, <1>7, <1>10 DEF Agrees

\* An update of the copies inside the rectangle makes them right everywhere.
LEMMA UpdateMessagesAddUp ==
  ASSUME IInv, NEW junk \in Costs, createUpdateMsgs(junk)
  PROVE  RightOutsideRectangle'
<1>1. /\ pc = "updates" /\ pc' = "done"
      /\ UNCHANGED <<costmap, moved, skipped, torn, redraw, saved, listening>>
      /\ mirror' = [k \in Kinds |-> IF k \in listening
                                    THEN WithUpdate(k, mirror[k], junk) ELSE mirror[k]]
  BY DEF createUpdateMsgs, map
<1> SUFFICES ASSUME Steady, NEW k \in Kinds, HasCopy(k)',
                    NEW c \in Cells(costmap.size)
             PROVE  Agrees(k, c)'
  BY <1>1 DEF RightOutsideRectangle, Steady, Shape
<1>2. HasCopy(k)
  BY <1>1 DEF HasCopy, WithUpdate
<1>3. mirror'[k] = WithUpdate(k, mirror[k], junk)
  BY <1>1, <1>2, OnlySubscribersHave DEF IInv
<1>4. c \in DOMAIN mirror[k].cells
  BY <1>1, <1>2 DEF IInv, CopiesAreShaped, ShapedAs, Steady, Shape
<1>5. c \in Int /\ c < costmap.size
  BY SizeIsNatural DEF Cells
<1>6. CASE x0 <= c /\ c < xn
  <2>1. mirror'[k].cells[c] = Read(k, c, junk)
    BY <1>3, <1>4, <1>6 DEF WithUpdate
  <2>2. Read(k, c, junk) = Value(k, costmap.cells[c])
    BY <1>5 DEF Read
  <2> QED BY <1>1, <2>1, <2>2 DEF Agrees, Value
<1>7. CASE c < x0 \/ xn <= c
  <2>1. Agrees(k, c)
    BY <1>1, <1>2, <1>7 DEF IInv, RightOutsideRectangle
  <2>2. mirror'[k].cells[c] = mirror[k].cells[c]
    BY <1>3, <1>4, <1>5, <1>7 DEF WithUpdate, IInv, TypeOK
  <2> QED BY <1>1, <2>1, <2>2 DEF Agrees
<1> QED BY <1>5, <1>6, <1>7 DEF IInv, TypeOK

\* A full grid in the size of the costmap is right everywhere.
LEMMA FullGridAddsUp ==
  ASSUME IInv, NEW k \in Kinds, NEW junk, NEW s, s = Shape(costmap),
         Send(k, FullGrid(k, s.size, junk)), UNCHANGED <<costmap, listening>>, HasCopy(k)'
  PROVE  \A c \in Cells(costmap.size) : Agrees(k, c)'
<1>1. mirror'[k] = FullGrid(k, costmap.size, junk)
  BY FullGridIsShaped DEF IInv, Shape
<1>2. \A c \in Cells(costmap.size) : c < costmap.size
  BY SizeIsNatural DEF Cells
<1>3. \A c \in Cells(costmap.size) : Read(k, c, junk) = Value(k, costmap.cells[c])
  BY <1>2 DEF Read
<1>4. \A c \in Cells(costmap.size) : mirror'[k].cells[c] = Read(k, c, junk)
  BY <1>1 DEF FullGrid
<1> QED BY <1>3, <1>4 DEF Agrees, Value

LEMMA NextKeepsCopies ==
  ASSUME IInv, [Next]_vars
  PROVE  RightOutsideRectangle'
<1>1. CASE \E o \in Origins, n \in Sizes : incomingMap(o, n)
  BY <1>1 DEF incomingMap, RightOutsideRectangle, Steady
<1>2. CASE Update
  BY <1>2, UpdateKeepsCopies
<1>3. CASE publishCostmap
  <2>1. /\ pc = "check" /\ pc' \in {"params", "updates", "done"}
        /\ pc' = "done" => xn <= x0
        /\ UNCHANGED <<map, rect, saved, reads>>
    BY <1>3 DEF publishCostmap, IInv, TypeOK
  <2>2. xn <= x0 => \A c \in Cells(costmap.size) : c < x0 \/ xn <= c
    BY SizeIsNatural DEF IInv, TypeOK, Cells
  <2> QED BY <2>1, <2>2 DEF RightOutsideRectangle, IInv, Steady, HasCopy, Agrees,
          Shape, map, rect, reads
<1>4. CASE updateGridParams
  BY <1>4 DEF updateGridParams, RightOutsideRectangle
<1>5. CASE prepareCostmap
  <2>1. /\ pc = "raw" /\ pc' = "done"
        /\ Send("raw", FullGrid("raw", costmap.size, DefaultCost))
        /\ UNCHANGED <<costmap, redraw, torn, saved, listening>>
    BY <1>5 DEF prepareCostmap
  <2>2. HasCopy("raw")' => \A c \in Cells(costmap.size) : Agrees("raw", c)'
    <3>1. Shape(costmap).size = costmap.size
      BY DEF Shape
    <3> QED BY <2>1, <3>1, FullGridAddsUp DEF Kinds
  <2>3. mirror'["grid"] = mirror["grid"]
    BY <2>1, SendOnlyOneKind DEF IInv, Kinds
  <2>4. Steady' /\ HasCopy("grid")' => \A c \in Cells(costmap.size) : Agrees("grid", c)'
    BY <2>1, <2>3 DEF IInv, RightOutsideRectangle, Steady, HasCopy, Agrees
  <2> QED BY <2>1, <2>2, <2>4 DEF RightOutsideRectangle, Kinds
<1>6. CASE publishCostmap_end
  <2>1. /\ pc = "done" /\ pc' = "idle" /\ UNCHANGED <<map, saved, reads>>
    BY <1>6 DEF publishCostmap_end
  <2> QED BY <2>1 DEF IInv, RightOutsideRectangle, Steady, HasCopy, Agrees, Shape, map, reads
<1>7. ASSUME NEW junk \in Costs, prepareGrid(junk)
      PROVE  RightOutsideRectangle'
  <2>1. /\ pc = "grid" /\ pc' = "raw"
        /\ Send("grid", FullGrid("grid", saved.size, junk))
        /\ UNCHANGED <<map, saved, listening>>
    BY <1>7 DEF prepareGrid
  <2>2. ~torn => saved = Shape(costmap)
    BY <2>1 DEF IInv, CopiesAreShaped
  <2> QED BY <2>1, <2>2, FullGridAddsUp DEF RightOutsideRectangle, Kinds, map
<1>8. CASE \E junk \in Costs : createUpdateMsgs(junk)
  BY <1>8, UpdateMessagesAddUp
<1>9. CASE \E k \in Kinds : Subscribe(k)
  BY <1>9 DEF Subscribe, IInv, RightOutsideRectangle, Steady, HasCopy, Agrees, Shape, map, rect
<1>10. ASSUME NEW k \in Kinds, Unsubscribe(k)
       PROVE  RightOutsideRectangle'
  <2>1. /\ mirror' = [mirror EXCEPT ![k] = NoMap]
        /\ UNCHANGED <<map, pc, rect, saved>>
    BY <1>10 DEF Unsubscribe
  <2>2. \A j \in Kinds : HasCopy(j)' => mirror'[j] = mirror[j]
    BY <2>1 DEF IInv, TypeOK, HasCopy, NoMap
  <2> QED BY <2>1, <2>2 DEF IInv, RightOutsideRectangle, Steady, HasCopy, Agrees,
          Shape, map, rect, Kinds
<1>11. CASE setPublishFrequency
  BY <1>11 DEF setPublishFrequency, rect, reads, IInv, RightOutsideRectangle, Steady,
     HasCopy, Agrees, Shape
<1>12. ASSUME NEW o \in Origins, NEW n \in Sizes, NEW cost \in Costs,
             NEW lo \in 0 .. n, NEW hi \in 0 .. n, setSize(o, n, lo, hi, cost)
      PROVE  RightOutsideRectangle'
  BY <1>12 DEF setSize, RightOutsideRectangle, Steady
<1>13. CASE UNCHANGED vars
  BY <1>13 DEF vars, map, rect, reads, IInv, RightOutsideRectangle, Steady, HasCopy,
     Agrees, Shape
<1> QED BY <1>1, <1>2, <1>3, <1>4, <1>5, <1>6, <1>7, <1>8, <1>9, <1>10, <1>11, <1>12, <1>13
       DEF Next, Publish, SetParameters

-----------------------------------------------------------------------------
(* The theorems *)

LEMMA Inductive ==
  Spec => []IInv
<1>1. Init => IInv
  <2> SUFFICES ASSUME Init
               PROVE  IInv
    OBVIOUS
  <2>1. \A k \in Kinds : ~HasCopy(k)
    BY DEF Init, HasCopy, NoMap
  <2> QED BY <2>1, InitTypeOK DEF Init, IInv, RollingIsFixedSize, ShapeIsSeen,
          CopiesAreShaped, RightOutsideRectangle
<1>2. IInv /\ [Next]_vars => IInv'
  BY NextTypeOK, NextFixedSize, NextShapeIsSeen, NextCopiesAreShaped, NextKeepsCopies DEF IInv
<1> QED BY <1>1, <1>2, PTL DEF Spec

(* What the publisher stores, the rectangle it accumulates and the copies  *)
(* of the subscribers have their types, whatever resizes the costmap.      *)
THEOREM TypeCorrect ==
  Spec => []TypeOK
BY Inductive, PTL DEF IInv

(* For every size, origin and content: what a subscriber has put together  *)
(* from full grids and updates is the costmap, in shape and in every cell, *)
(* whenever all is published, and since the last full grid the costmap has *)
(* neither moved, nor been changed by an update that the publisher was not *)
(* told of, nor changed its shape between the two messages of that grid.   *)
THEOREM CopiesAlwaysAddUp ==
  Spec => []CopiesAddUp
<1>1. IInv => CopiesAddUp
  <2> SUFFICES ASSUME IInv, Settled, NEW k \in Kinds, HasCopy(k)
               PROVE  /\ ShapedAs(k, costmap)
                      /\ \A c \in Cells(costmap.size) : Agrees(k, c)
    BY DEF CopiesAddUp
  <2>1. saved = Shape(costmap) /\ Steady
    BY DEF Settled, IInv, ShapeIsSeen, Steady
  <2>2. ShapedAs(k, costmap)
    BY <2>1 DEF Settled, IInv, CopiesAreShaped, ShapedAs, Shape
  <2>3. \A c \in Cells(costmap.size) : c < x0 \/ xn <= c
    BY SizeIsNatural DEF Settled, IInv, TypeOK, Cells
  <2> QED BY <2>1, <2>2, <2>3 DEF Settled, IInv, RightOutsideRectangle
<1> QED BY <1>1, Inductive, PTL

(* The table that translates costs keeps their order, and gives the values *)
(* of a free, inscribed, lethal and unknown cell to no other cost.         *)
LEMMA TranslationKeepsOrder ==
  /\ \A c, d \in 0 .. 254 :
       c <= d => cost_translation_table[c] <= cost_translation_table[d]
  /\ \A c \in 0 .. 255 : /\ cost_translation_table[c] = -1 <=> c = 255
                         /\ cost_translation_table[c] =  0 <=> c = 0
                         /\ cost_translation_table[c] = 99 <=> c = 253
                         /\ cost_translation_table[c] = 100 <=> c = 254
<1>1. \A c \in 1 .. 252 : 1 + (97 * (c - 1)) \div 251 \in 1 .. 98
  OBVIOUS
<1>2. \A c, d \in 1 .. 252 :
        c <= d => 1 + (97 * (c - 1)) \div 251 <= 1 + (97 * (d - 1)) \div 251
  OBVIOUS
<1>3. \A c \in 0 .. 255 :
        cost_translation_table[c] = CASE c = 0   -> 0
                                      [] c = 253 -> 99
                                      [] c = 254 -> 100
                                      [] c = 255 -> -1
                                      [] OTHER   -> 1 + (97 * (c - 1)) \div 251
  BY DEF cost_translation_table, scaled
<1>4. \A c \in 0 .. 255 :
        /\ c \in 1 .. 252 => cost_translation_table[c] = 1 + (97 * (c - 1)) \div 251
        /\ c = 0   => cost_translation_table[c] = 0
        /\ c = 253 => cost_translation_table[c] = 99
        /\ c = 254 => cost_translation_table[c] = 100
        /\ c = 255 => cost_translation_table[c] = -1
  BY <1>3
<1> HIDE DEF cost_translation_table
<1>5. ASSUME NEW c \in 0 .. 254, NEW d \in 0 .. 254, c <= d
      PROVE  cost_translation_table[c] <= cost_translation_table[d]
  <2>1. CASE c \in 1 .. 252 /\ d \in 1 .. 252
    <3>1. 1 + (97 * (c - 1)) \div 251 <= 1 + (97 * (d - 1)) \div 251
      BY <1>2, <1>5, <2>1
    <3>2. cost_translation_table[c] = 1 + (97 * (c - 1)) \div 251
      BY <1>4, <2>1
    <3>3. cost_translation_table[d] = 1 + (97 * (d - 1)) \div 251
      BY <1>4, <2>1
    <3> QED BY <3>1, <3>2, <3>3
  <2>2. CASE c = d
    <3>1. cost_translation_table[c] \in Int
      BY <1>1, <1>4
    <3> QED BY <2>2, <3>1
  <2>3. CASE c = 0 /\ d > 0
    BY <1>1, <1>4, <2>3
  <2>4. CASE c < 253 /\ c > 0 /\ d \in {253, 254}
    <3>1. cost_translation_table[c] \in 1 .. 98
      <4>1. c \in 1 .. 252
        BY <2>4
      <4>2. cost_translation_table[c] = 1 + (97 * (c - 1)) \div 251
        BY <1>4, <4>1
      <4> QED BY <1>1, <4>1, <4>2
    <3>2. cost_translation_table[d] \in {99, 100}
      BY <1>4, <2>4
    <3> QED BY <3>1, <3>2
  <2>5. CASE c = 253 /\ d = 254
    BY <1>4, <2>5
  <2> QED BY <1>5, <2>1, <2>2, <2>3, <2>4, <2>5
<1>6. ASSUME NEW c \in 0 .. 255
      PROVE  /\ cost_translation_table[c] = -1 <=> c = 255
             /\ cost_translation_table[c] =  0 <=> c = 0
             /\ cost_translation_table[c] = 99 <=> c = 253
             /\ cost_translation_table[c] = 100 <=> c = 254
  <2>1. CASE c \in 1 .. 252
    <3>1. cost_translation_table[c] \in 1 .. 98
      BY <1>1, <1>4, <2>1
    <3> QED BY <2>1, <3>1
  <2>2. CASE c = 0
    BY <1>4, <2>2
  <2>3. CASE c = 253
    BY <1>4, <2>3
  <2>4. CASE c = 254
    BY <1>4, <2>4
  <2>5. CASE c = 255
    BY <1>4, <2>5
  <2> QED BY <2>1, <2>2, <2>3, <2>4, <2>5
<1> QED BY <1>5, <1>6

(* A viewer draws what the costmap holds, in the order of its costs and    *)
(* with the special costs told apart, once all is published in the sense   *)
(* of CopiesAlwaysAddUp.                                                   *)
THEOREM ViewIsFaithful ==
  Spec => []ViewKeepsOrder
<1>1. IInv /\ CopiesAddUp => ViewKeepsOrder
  <2> SUFFICES ASSUME IInv, CopiesAddUp, Settled, HasCopy("grid")
               PROVE  ViewKeepsOrder
    BY DEF ViewKeepsOrder
  <2> DEFINE cost == costmap.cells
             view == mirror["grid"].cells
  <2>1. \A c \in Cells(costmap.size) : cost[c] \in 0 .. 255
    BY DEF IInv, TypeOK
  <2>2. \A c \in Cells(costmap.size) : view[c] = cost_translation_table[cost[c]]
    BY DEF CopiesAddUp, Kinds, Agrees, Value
  <2>3. \A c, d \in Cells(costmap.size) :
          cost[c] <= cost[d] /\ cost[d] # 255 => view[c] <= view[d]
    <3>1. TAKE c, d \in Cells(costmap.size)
    <3>2. HAVE cost[c] <= cost[d] /\ cost[d] # 255
    <3>3. cost[c] \in 0 .. 254 /\ cost[d] \in 0 .. 254
      BY <2>1, <3>2
    <3>4. \A a, b \in 0 .. 254 : a <= b => cost_translation_table[a] <= cost_translation_table[b]
      BY TranslationKeepsOrder
    <3> HIDE DEF cost, view
    <3>5. cost_translation_table[cost[c]] <= cost_translation_table[cost[d]]
      BY <3>2, <3>3, <3>4
    <3>6. view[c] = cost_translation_table[cost[c]] /\ view[d] = cost_translation_table[cost[d]]
      BY <2>2
    <3> QED BY <3>5, <3>6
  <2>4. \A c \in Cells(costmap.size) : /\ view[c] = -1  <=> cost[c] = 255
                                       /\ view[c] = 0   <=> cost[c] = 0
                                       /\ view[c] = 99  <=> cost[c] = 253
                                       /\ view[c] = 100 <=> cost[c] = 254
    <3>1. TAKE c \in Cells(costmap.size)
    <3>2. cost[c] \in 0 .. 255 /\ view[c] = cost_translation_table[cost[c]]
      BY <2>1, <2>2
    <3>3. \A a \in 0 .. 255 : /\ cost_translation_table[a] = -1  <=> a = 255
                              /\ cost_translation_table[a] = 0   <=> a = 0
                              /\ cost_translation_table[a] = 99  <=> a = 253
                              /\ cost_translation_table[a] = 100 <=> a = 254
      BY TranslationKeepsOrder
    <3> DEFINE value == cost[c]
    <3>4. value \in 0 .. 255 /\ view[c] = cost_translation_table[value]
      BY <3>2
    <3> HIDE DEF view, value
    <3>5. /\ cost_translation_table[value] = -1  <=> value = 255
          /\ cost_translation_table[value] = 0   <=> value = 0
          /\ cost_translation_table[value] = 99  <=> value = 253
          /\ cost_translation_table[value] = 100 <=> value = 254
      BY <3>3, <3>4
    <3>6. /\ view[c] = -1  <=> value = 255
          /\ view[c] = 0   <=> value = 0
          /\ view[c] = 99  <=> value = 253
          /\ view[c] = 100 <=> value = 254
      BY <3>4, <3>5
    <3> QED BY <3>6 DEF value
  <2> QED BY <2>3, <2>4 DEF ViewKeepsOrder
<1> QED BY <1>1, Inductive, CopiesAlwaysAddUp, PTL

=============================================================================
