------------------------- MODULE CostmapLayerProofs -------------------------
(***************************************************************************)
(* Proofs about CostmapLayer, Costmap2D and Raster, for maps of any size   *)
(* and resolution, polygons of any shape, and any number of calls.         *)
(***************************************************************************)
EXTENDS CostmapLayer, WellFoundedInduction, TLAPS

-----------------------------------------------------------------------------
(* Induction over the natural numbers, with sets for predicates.           *)

(* A set of natural numbers that is not empty has a least member.          *)
LEMMA LeastMember ==
  ASSUME NEW T \in SUBSET Nat, T # {}
  PROVE  \E m \in T : \A n \in T : m <= n
<1> DEFINE R == {ss \in Nat \X Nat : ss[1] < ss[2]}
<1>1. IsWellFoundedOn(R, Nat)
  BY NatLessThanWellFounded DEF OpToRel
<1>2. PICK m \in T : \A n \in T : <<n, m>> \notin R
  BY <1>1, WFMin
<1>3. ASSUME NEW n \in T PROVE m <= n
  <2>1. ~ (n < m)
    BY <1>2
  <2> QED BY <2>1
<1> QED BY <1>3

(* A set of natural numbers that has 0 and the successor of every member   *)
(* has them all.                                                           *)
LEMMA Induction ==
  ASSUME NEW S \in SUBSET Nat, 0 \in S, \A n \in S : n + 1 \in S
  PROVE  S = Nat
<1> SUFFICES ASSUME Nat \ S # {} PROVE FALSE
  OBVIOUS
<1>1. PICK m \in Nat \ S : \A n \in Nat \ S : m <= n
  <2> DEFINE T == Nat \ S
  <2> T \in SUBSET Nat /\ T # {}
    OBVIOUS
  <2> HIDE DEF T
  <2>1. \E m \in T : \A n \in T : m <= n
    BY LeastMember
  <2> QED BY <2>1 DEF T
<1>2. m # 0 /\ m - 1 \in Nat
  BY <1>1
<1>3. m - 1 \in S
  BY <1>1, <1>2
<1> QED BY <1>1, <1>3

-----------------------------------------------------------------------------
(* Arithmetic *)

(* Multiplication preserves order.                                         *)
LEMMA TimesMonotone ==
  ASSUME NEW a \in Int, NEW b \in Int, NEW n \in Nat, a <= b
  PROVE  a * n <= b * n /\ a * n \in Int /\ b * n \in Int
BY Z3

(* A number is written in one way only as a multiple of n with a rest.     *)
LEMMA DivisionUnique ==
  ASSUME NEW n \in Nat \ {0}, NEW q \in Int, NEW p \in Int,
         NEW r \in 0 .. n - 1, NEW s \in 0 .. n - 1, q * n + r = p * n + s
  PROVE  q = p /\ r = s
<1>1. ~ (q < p)
  <2> SUFFICES ASSUME q + 1 <= p PROVE FALSE
    OBVIOUS
  <2>1. (q + 1) * n <= p * n
    BY TimesMonotone
  <2>2. (q + 1) * n = q * n + n
    OBVIOUS
  <2> QED BY <2>1, <2>2
<1>2. ~ (p < q)
  <2> SUFFICES ASSUME p + 1 <= q PROVE FALSE
    OBVIOUS
  <2>1. (p + 1) * n <= q * n
    BY TimesMonotone
  <2>2. (p + 1) * n = p * n + n
    OBVIOUS
  <2> QED BY <2>1, <2>2
<1> QED BY <1>1, <1>2

(* What div and mod return.                                                *)
LEMMA Division ==
  ASSUME NEW n \in Nat \ {0}, NEW a \in Int
  PROVE  /\ a \div n \in Int /\ a % n \in 0 .. n - 1
         /\ a = (a \div n) * n + (a % n)
BY Z3

LEMMA DivisionOf ==
  ASSUME NEW n \in Nat \ {0}, NEW q \in Int, NEW r \in 0 .. n - 1
  PROVE  (q * n + r) \div n = q /\ (q * n + r) % n = r
<1> DEFINE a == q * n + r
<1>1. a \in Int
  OBVIOUS
<1>2. a \div n \in Int /\ a % n \in 0 .. n - 1 /\ a = (a \div n) * n + (a % n)
  BY <1>1, Division
<1> QED BY <1>2, DivisionUnique

-----------------------------------------------------------------------------
(* The array and the grid *)

(* The cells of a row lie within the row, those of the map within the      *)
(* array.                                                                  *)
LEMMA IndexOfCell ==
  ASSUME NEW w \in Nat \ {0}, NEW h \in Nat \ {0}, NEW c \in (0 .. w - 1) \X (0 .. h - 1)
  PROVE  CellIndex(c, w) \in 0 .. w * h - 1
<1>1. c[1] \in 0 .. w - 1 /\ c[2] \in 0 .. h - 1
  OBVIOUS
<1>2. c[2] * w <= (h - 1) * w /\ c[2] * w \in Int /\ 0 * w <= c[2] * w
  BY <1>1, TimesMonotone
<1>3. (h - 1) * w = w * h - w
  OBVIOUS
<1> QED BY <1>1, <1>2, <1>3 DEF CellIndex

(* No two cells share an index, as long as their columns are in the map.   *)
LEMMA IndexInjective ==
  ASSUME NEW w \in Nat \ {0}, NEW c \in (0 .. w - 1) \X Int, NEW d \in (0 .. w - 1) \X Int,
         CellIndex(c, w) = CellIndex(d, w)
  PROVE  c = d
<1>1. c[2] * w + c[1] = d[2] * w + d[1]
  BY DEF CellIndex
<1>2. /\ c[1] \in 0 .. w - 1 /\ c[2] \in Int /\ d[1] \in 0 .. w - 1 /\ d[2] \in Int
      /\ c = <<c[1], c[2]>> /\ d = <<d[1], d[2]>>
  OBVIOUS
<1>3. c[2] = d[2] /\ c[1] = d[1]
  <2> DEFINE q == c[2]  r == c[1]  p == d[2]  s == d[1]
  <2>1. q \in Int /\ p \in Int /\ r \in 0 .. w - 1 /\ s \in 0 .. w - 1 /\ q * w + r = p * w + s
    BY <1>1, <1>2
  <2> HIDE DEF q, r, p, s
  <2>2. q = p /\ r = s
    BY <2>1, DivisionUnique
  <2> QED BY <2>2 DEF q, r, p, s
<1> QED BY <1>2, <1>3

(* Every index of the array is that of a cell of the map.                  *)
LEMMA CellOfIndex ==
  ASSUME NEW w \in Nat \ {0}, NEW h \in Nat \ {0}, NEW i \in 0 .. w * h - 1
  PROVE  \E c \in (0 .. w - 1) \X (0 .. h - 1) : CellIndex(c, w) = i
<1> DEFINE c == <<i % w, i \div w>>
<1>1. i \div w \in Int /\ i % w \in 0 .. w - 1 /\ i = (i \div w) * w + (i % w)
  BY Division
<1>2. i \div w >= 0
  <2> SUFFICES ASSUME i \div w <= -1 PROVE FALSE
    BY <1>1
  <2>1. (i \div w) * w <= (-1) * w
    BY <1>1, TimesMonotone
  <2> QED BY <1>1, <2>1
<1>3. i \div w <= h - 1
  <2> SUFFICES ASSUME h <= i \div w PROVE FALSE
    BY <1>1
  <2>1. h * w <= (i \div w) * w
    BY <1>1, TimesMonotone
  <2>2. h * w = w * h
    OBVIOUS
  <2> QED BY <1>1, <2>1, <2>2
<1>4. c \in (0 .. w - 1) \X (0 .. h - 1) /\ CellIndex(c, w) = i
  BY <1>1, <1>2, <1>3 DEF CellIndex
<1> QED BY <1>4

(* A point lies in the cell that the division finds.                       *)
LEMMA CellOfPoint ==
  ASSUME NEW r \in Nat \ {0}, NEW o \in Int, NEW w \in Int, NEW x \in Int
  PROVE  /\ x * r \in Int /\ (w - o) \div r \in Int
         /\ o + x * r <= w /\ w < o + x * r + r <=> (w - o) \div r = x
<1>1. (w - o) \div r \in Int /\ (w - o) % r \in 0 .. r - 1
      /\ w - o = ((w - o) \div r) * r + ((w - o) % r)
  <2> DEFINE a == w - o
  <2>1. a \in Int
    OBVIOUS
  <2> HIDE DEF a
  <2>2. a \div r \in Int /\ a % r \in 0 .. r - 1 /\ a = (a \div r) * r + (a % r)
    BY <2>1, Division
  <2> QED BY <2>2 DEF a
<1>2. x * r \in Int
  OBVIOUS
<1>3. ASSUME o + x * r <= w, w < o + x * r + r PROVE (w - o) \div r = x
  <2> DEFINE s == w - o - x * r
  <2>1. s \in 0 .. r - 1 /\ x * r + s = w - o
    BY <1>2, <1>3
  <2> QED BY <2>1, DivisionOf
<1>4. ASSUME (w - o) \div r = x PROVE o + x * r <= w /\ w < o + x * r + r
  BY <1>1, <1>2, <1>4
<1> QED BY <1>1, <1>2, <1>3, <1>4

(* The cell of a cell's corner is the cell.                                *)
LEMMA CornerOfCell ==
  ASSUME NEW r \in Nat \ {0}, NEW o \in Int, NEW x \in Int
  PROVE  o + x * r \in Int /\ ((o + x * r) - o) \div r = x
<1>1. o + x * r \in Int
  OBVIOUS
<1> QED BY <1>1, CellOfPoint

(* Cells at different places have different corners.                       *)
LEMMA CornerInjective ==
  ASSUME NEW r \in Nat \ {0}, NEW o \in Int, NEW x \in Int, NEW y \in Int, o + x * r = o + y * r
  PROVE  x = y
BY CornerOfCell

-----------------------------------------------------------------------------
(* Copying and moving *)

Shifted(c, d) == <<c[1] + d[1], c[2] + d[2]>>

LEMMA ShiftedIndex ==
  ASSUME NEW w \in Nat, NEW c \in Int \X Int, NEW d \in Int \X Int
  PROVE  CellIndex(c, w) + CellIndex(d, w) = CellIndex(Shifted(c, d), w)
<1>1. (c[2] + d[2]) * w = c[2] * w + d[2] * w
  OBVIOUS
<1> QED BY <1>1 DEF CellIndex, Shifted

(* result is dest, with value[c] written to to[c] for every c of region.   *)
CopiedOnto(result, dest, region, to, value) ==
  /\ result = [i \in DOMAIN result |-> result[i]]
  /\ DOMAIN result = DOMAIN dest \cup {to[c] : c \in region}
  /\ \A c \in region : result[to[c]] = value[c]
  /\ \A i \in DOMAIN dest : (\A c \in region : i # to[c]) => result[i] = dest[i]

(* Values are written to places, no two to the same one.                   *)
LEMMA CopiedValues ==
  ASSUME NEW dest, NEW region, NEW to, NEW value,
         \A c, e \in region : to[c] = to[e] => c = e,
         NEW result, result = Copied(dest, {<<to[c], value[c]>> : c \in region})
  PROVE  CopiedOnto(result, dest, region, to, value)
<1> DEFINE copies  == {<<to[c], value[c]>> : c \in region}
           written == {p[1] : p \in copies}
<1>1. written = {to[c] : c \in region}
  <2>1. ASSUME NEW c \in region PROVE <<to[c], value[c]>>[1] = to[c]
    OBVIOUS
  <2>2. ASSUME NEW i \in written PROVE i \in {to[c] : c \in region}
    <3>1. PICK p \in copies : i = p[1]
      OBVIOUS
    <3>2. PICK c \in region : p = <<to[c], value[c]>>
      OBVIOUS
    <3> QED BY <3>1, <3>2
  <2>3. ASSUME NEW c \in region PROVE to[c] \in written
    <3>1. <<to[c], value[c]>> \in copies
      OBVIOUS
    <3> QED BY <3>1, <2>1
  <2> HIDE DEF written
  <2> QED BY <2>2, <2>3
<1>2. result = [i \in DOMAIN dest \cup written |->
                  IF i \in written THEN (CHOOSE p \in copies : p[1] = i)[2] ELSE dest[i]]
  <2>1. result = Copied(dest, copies)
    OBVIOUS
  <2> HIDE DEF copies
  <2> QED BY <2>1 DEF Copied
<1>3. ASSUME NEW c \in region PROVE result[to[c]] = value[c]
  <2> DEFINE p == CHOOSE q \in copies : q[1] = to[c]
  <2>1. \E q \in copies : q[1] = to[c]
    <3>1. <<to[c], value[c]>> \in copies /\ <<to[c], value[c]>>[1] = to[c]
      OBVIOUS
    <3> QED BY <3>1
  <2>2. p \in copies /\ p[1] = to[c]
    <3> HIDE DEF copies
    <3> QED BY <2>1
  <2> HIDE DEF p
  <2>3. PICK e \in region : p = <<to[e], value[e]>>
    BY <2>2
  <2>4. p[1] = to[e] /\ p[2] = value[e]
    BY <2>3
  <2>5. e = c
    BY <2>2, <2>4
  <2>6. to[c] \in written /\ p[2] = value[c]
    BY <1>1, <2>4, <2>5
  <2> HIDE DEF copies, written
  <2> QED BY <1>2, <2>6 DEF p
<1>4. ASSUME NEW i \in DOMAIN dest, \A c \in region : i # to[c] PROVE result[i] = dest[i]
  <2>1. i \notin written
    BY <1>1, <1>4
  <2> HIDE DEF written
  <2> QED BY <1>2, <2>1
<1>5. DOMAIN result = DOMAIN dest \cup {to[c] : c \in region} /\ result = [i \in DOMAIN result |-> result[i]]
  <2> HIDE DEF written
  <2> QED BY <1>1, <1>2
<1> QED BY <1>3, <1>4, <1>5 DEF CopiedOnto

(* Cell by cell, the region at s of source is at d of result, which is     *)
(* dest otherwise.                                                         *)
RegionCopied(result, source, s, sw, dest, d, dw, nx, ny) ==
  LET region == (0 .. nx - 1) \X (0 .. ny - 1)
      to(c)  == CellIndex(Shifted(d, c), dw)
  IN  /\ result = [i \in DOMAIN result |-> result[i]]
      /\ DOMAIN result = DOMAIN dest \cup {to(c) : c \in region}
      /\ \A c \in region : result[to(c)] = source[CellIndex(Shifted(s, c), sw)]
      /\ \A i \in DOMAIN dest : (\A c \in region : i # to(c)) => result[i] = dest[i]

(* A copied region arrives cell by cell, and nothing else of the target    *)
(* changes, if no row of the region goes beyond the end of a row.          *)
LEMMA CopiedRegion ==
  ASSUME NEW source, NEW s \in Int \X Int, NEW sw \in Nat, NEW dest,
         NEW d \in Int \X Int, NEW dw \in Nat, NEW nx \in Int, NEW ny \in Int,
         nx > 0 => d[1] >= 0 /\ d[1] + nx <= dw,
         NEW result, result = copyMapRegion(source, s, sw, dest, d, dw, nx, ny)
  PROVE  RegionCopied(result, source, s, sw, dest, d, dw, nx, ny)
<1> DEFINE region  == (0 .. nx - 1) \X (0 .. ny - 1)
           to      == [c \in region |-> CellIndex(Shifted(d, c), dw)]
           value   == [c \in region |-> source[CellIndex(Shifted(s, c), sw)]]
<1>1. ASSUME NEW c \in region
      PROVE  /\ CellIndex(d, dw) + CellIndex(c, dw) = to[c]
             /\ source[CellIndex(s, sw) + CellIndex(c, sw)] = value[c]
  BY ShiftedIndex
<1>2. \A c, e \in region : to[c] = to[e] => c = e
  <2> SUFFICES ASSUME NEW c \in region, NEW e \in region, to[c] = to[e] PROVE c = e
    OBVIOUS
  <2>1. dw \in Nat \ {0} /\ nx > 0
    OBVIOUS
  <2>2. Shifted(d, c) \in (0 .. dw - 1) \X Int /\ Shifted(d, e) \in (0 .. dw - 1) \X Int
    BY <2>1 DEF Shifted
  <2>3. Shifted(d, c) = Shifted(d, e)
    BY <2>1, <2>2, IndexInjective
  <2>4. d[1] + c[1] = d[1] + e[1] /\ d[2] + c[2] = d[2] + e[2]
    BY <2>3 DEF Shifted
  <2> QED BY <2>4
<1>3. {<<CellIndex(d, dw) + CellIndex(c, dw), source[CellIndex(s, sw) + CellIndex(c, sw)]>> : c \in region}
        = {<<to[c], value[c]>> : c \in region}
  <2> HIDE DEF region, to, value
  <2> QED BY <1>1
<1>4. result = Copied(dest, {<<to[c], value[c]>> : c \in region})
  <2> HIDE DEF to, value
  <2> QED BY <1>3 DEF copyMapRegion
<1>5. CopiedOnto(result, dest, region, to, value)
  <2> HIDE DEF to, value, region
  <2> QED BY <1>2, <1>4, CopiedValues
<1>6. {to[c] : c \in region} = {CellIndex(Shifted(d, c), dw) : c \in region}
  OBVIOUS
<1>7. /\ \A c \in region : result[CellIndex(Shifted(d, c), dw)] = source[CellIndex(Shifted(s, c), sw)]
      /\ \A i \in DOMAIN dest :
           (\A c \in region : i # CellIndex(Shifted(d, c), dw)) => result[i] = dest[i]
  BY <1>5 DEF CopiedOnto
<1> QED BY <1>5, <1>6, <1>7 DEF RegionCopied, CopiedOnto

(* On one axis of n cells, moved by o: what remains in sight are the cells *)
(* from st on that the cells from ll on are copied to.                     *)
LEMMA Overlap ==
  ASSUME NEW n \in Nat \ {0}, NEW o \in Int
  PROVE  LET ll == Clamp(o, n)
             cs == Clamp(o + n, n) - ll
             st == ll - o
         IN  /\ ll \in Nat /\ cs \in Nat /\ st \in Int
             /\ \A k \in 0 .. cs - 1 : st + k \in 0 .. n - 1 /\ ll + k \in 0 .. n - 1
             /\ \A x \in 0 .. n - 1 : x + o \in 0 .. n - 1 => x - st \in 0 .. cs - 1
             /\ cs > 0 => st >= 0 /\ st + cs <= n
BY DEF Clamp

(* The map moves by whole cells, less than one from where it should.       *)
LEMMA WholeCells ==
  ASSUME NEW by \in Int
  PROVE  /\ CellsMoved(by) \in Int
         /\ by + 1 - resolution <= CellsMoved(by) * resolution
         /\ CellsMoved(by) * resolution <= by - 1 + resolution
<1>1. resolution \in Nat \ {0}
  BY Costmap2DAssumption
<1>2. ASSUME NEW a \in Nat
      PROVE  /\ a \div resolution \in Int
             /\ (a \div resolution) * resolution \in Int
             /\ (a \div resolution) * resolution <= a
             /\ a + 1 - resolution <= (a \div resolution) * resolution
  BY <1>1, Division
<1>3. CASE by < 0
  <2> DEFINE q == (-by) \div resolution
  <2>1. q \in Int /\ q * resolution \in Int /\ q * resolution <= -by /\ -by + 1 - resolution <= q * resolution
    BY <1>2, <1>3
  <2>2. (-q) * resolution = -(q * resolution)
    BY <1>1, <2>1
  <2>3. CellsMoved(by) = -q
    BY <1>3 DEF CellsMoved
  <2> HIDE DEF q
  <2> QED BY <1>1, <2>1, <2>2, <2>3
<1>4. CASE by >= 0
  BY <1>1, <1>2, <1>4 DEF CellsMoved
<1> QED BY <1>3, <1>4

HasMoved(moved, map, blank, o, w, h) ==
  /\ moved = [i \in 0 .. w * h - 1 |-> moved[i]]
  /\ \A c \in (0 .. w - 1) \X (0 .. h - 1) :
       moved[CellIndex(c, w)] =
         IF Shifted(c, o) \in (0 .. w - 1) \X (0 .. h - 1)
         THEN map[CellIndex(Shifted(c, o), w)]
         ELSE blank[CellIndex(c, w)]

(* The two copies updateOrigin makes: the overlap out of the map, then in.  *)
CopiedTwice(moved, map, blank, o, w, h, ll, nx, ny, st, local) ==
  /\ ll = <<Clamp(o[1], w), Clamp(o[2], h)>>
  /\ nx = Clamp(o[1] + w, w) - ll[1] /\ ny = Clamp(o[2] + h, h) - ll[2]
  /\ st = <<ll[1] - o[1], ll[2] - o[2]>>
  /\ local = copyMapRegion(map, ll, w, << >>, <<0, 0>>, nx, nx, ny)
  /\ moved = copyMapRegion(local, <<0, 0>>, nx, blank, st, w, nx, ny)

ThereAndBack(c, o, l) == (l - o) + (c - (l - o)) = c /\ l + (c - (l - o)) = c + o

LEMMA ComesBack ==
  ASSUME NEW c \in Int, NEW o \in Int, NEW l \in Int
  PROVE  ThereAndBack(c, o, l)
BY DEF ThereAndBack

(* Moving the map over the world: each cell has the cost of the cell that  *)
(* was at its place, or the default when that was out of sight.            *)
LEMMA MovedMap ==
  ASSUME NEW w \in Nat \ {0}, NEW h \in Nat \ {0}, NEW map, NEW o \in Int \X Int,
         NEW ll, NEW nx, NEW ny, NEW st, NEW local,
         NEW blank, DOMAIN blank = 0 .. w * h - 1, NEW moved,
         CopiedTwice(moved, map, blank, o, w, h, ll, nx, ny, st, local)
  PROVE  HasMoved(moved, map, blank, o, w, h)
<1>0. /\ ll = <<Clamp(o[1], w), Clamp(o[2], h)>>
      /\ nx = Clamp(o[1] + w, w) - ll[1] /\ ny = Clamp(o[2] + h, h) - ll[2]
      /\ st = <<ll[1] - o[1], ll[2] - o[2]>>
      /\ local = copyMapRegion(map, ll, w, << >>, <<0, 0>>, nx, nx, ny)
      /\ moved = copyMapRegion(local, <<0, 0>>, nx, blank, st, w, nx, ny)
  BY DEF CopiedTwice
<1> USE <1>0
<1> DEFINE cells  == (0 .. w - 1) \X (0 .. h - 1)
           region == (0 .. nx - 1) \X (0 .. ny - 1)
<1>1. /\ ll \in Nat \X Nat /\ nx \in Nat /\ ny \in Nat /\ st \in Int \X Int
      /\ nx > 0 => st[1] >= 0 /\ st[1] + nx <= w
      /\ \A k \in region : Shifted(st, k) \in cells
      /\ \A c \in cells : Shifted(c, o) \in cells => <<c[1] - st[1], c[2] - st[2]>> \in region
  <2>1. /\ ll[1] \in Nat /\ nx \in Nat /\ st[1] \in Int
        /\ \A k \in 0 .. nx - 1 : st[1] + k \in 0 .. w - 1
        /\ \A x \in 0 .. w - 1 : x + o[1] \in 0 .. w - 1 => x - st[1] \in 0 .. nx - 1
        /\ nx > 0 => st[1] >= 0 /\ st[1] + nx <= w
    BY Overlap
  <2>2. /\ ll[2] \in Nat /\ ny \in Nat /\ st[2] \in Int
        /\ \A k \in 0 .. ny - 1 : st[2] + k \in 0 .. h - 1
        /\ \A y \in 0 .. h - 1 : y + o[2] \in 0 .. h - 1 => y - st[2] \in 0 .. ny - 1
    BY Overlap
  <2> QED BY <2>1, <2>2 DEF Shifted
<1>2. ASSUME NEW k \in region
      PROVE  local[CellIndex(Shifted(<<0, 0>>, k), nx)] = map[CellIndex(Shifted(ll, k), w)]
  <2>1. RegionCopied(local, map, ll, w, << >>, <<0, 0>>, nx, nx, ny)
    <3>1. ll \in Int \X Int /\ <<0, 0>> \in Int \X Int /\ nx \in Int /\ ny \in Int /\ nx \in Nat
      BY <1>1
    <3>2. <<0, 0>>[1] >= 0 /\ <<0, 0>>[1] + nx <= nx
      <4> DEFINE none == <<0, 0>>[1]
      <4>1. none = 0
        OBVIOUS
      <4> HIDE DEF none
      <4>2. none >= 0 /\ none + nx <= nx
        BY <4>1, <3>1
      <4> QED BY <4>2 DEF none
    <3> QED BY <3>1, <3>2, CopiedRegion
  <2> QED BY <2>1 DEF RegionCopied
<1>3. /\ moved = [i \in DOMAIN moved |-> moved[i]]
      /\ DOMAIN moved = DOMAIN blank \cup {CellIndex(Shifted(st, k), w) : k \in region}
      /\ \A k \in region :
           moved[CellIndex(Shifted(st, k), w)] = local[CellIndex(Shifted(<<0, 0>>, k), nx)]
      /\ \A i \in DOMAIN blank :
           (\A k \in region : i # CellIndex(Shifted(st, k), w)) => moved[i] = blank[i]
  <2>1. RegionCopied(moved, local, <<0, 0>>, nx, blank, st, w, nx, ny)
    <3>1. /\ st \in Int \X Int /\ <<0, 0>> \in Int \X Int /\ nx \in Int /\ ny \in Int
          /\ nx \in Nat /\ w \in Nat
      BY <1>1
    <3>2. nx > 0 => st[1] >= 0 /\ st[1] + nx <= w
      BY <1>1
    <3> HIDE DEF region, cells
    <3> QED BY <3>1, <3>2, CopiedRegion, Zenon
  <2> QED BY <2>1 DEF RegionCopied
<1>3a. ASSUME NEW r \in region
       PROVE  moved[CellIndex(Shifted(st, r), w)] = local[CellIndex(Shifted(<<0, 0>>, r), nx)]
  <2>1. \A k \in region :
           moved[CellIndex(Shifted(st, k), w)] = local[CellIndex(Shifted(<<0, 0>>, k), nx)]
    <3> HIDE DEF region
    <3> QED BY <1>3
  <2> HIDE DEF region
  <2> QED BY <2>1
<1>4. ASSUME NEW c \in cells PROVE c \in Int \X Int /\ CellIndex(c, w) \in 0 .. w * h - 1
  BY IndexOfCell
<1>5. DOMAIN moved = 0 .. w * h - 1
  <2>1. \A k \in region : CellIndex(Shifted(st, k), w) \in 0 .. w * h - 1
    BY <1>1, <1>4
  <2>2. {CellIndex(Shifted(st, k), w) : k \in region} \subseteq 0 .. w * h - 1
    BY <2>1
  <2> QED BY <1>3, <2>2
<1>6. ASSUME NEW c \in cells, Shifted(c, o) \in cells
      PROVE  moved[CellIndex(c, w)] = map[CellIndex(Shifted(c, o), w)]
  <2> DEFINE k == <<c[1] - st[1], c[2] - st[2]>>
  <2>1. k \in region
    BY <1>1, <1>6
  <2>2. Shifted(st, k) = c /\ Shifted(ll, k) = Shifted(c, o)
    <3>1. /\ c[1] \in Int /\ c[2] \in Int /\ c = <<c[1], c[2]>> /\ o[1] \in Int /\ o[2] \in Int
          /\ ll[1] \in Int /\ ll[2] \in Int /\ st[1] = ll[1] - o[1] /\ st[2] = ll[2] - o[2]
      BY <1>1, <1>4
    <3>2. /\ st[1] + k[1] = c[1] /\ st[2] + k[2] = c[2]
          /\ ll[1] + k[1] = c[1] + o[1] /\ ll[2] + k[2] = c[2] + o[2]
      <4>1. ThereAndBack(c[1], o[1], ll[1]) /\ ThereAndBack(c[2], o[2], ll[2])
        BY <3>1, ComesBack
      <4>2. k[1] = c[1] - st[1] /\ k[2] = c[2] - st[2]
        OBVIOUS
      <4> HIDE DEF k
      <4>3. k[1] = c[1] - (ll[1] - o[1]) /\ k[2] = c[2] - (ll[2] - o[2])
        BY <3>1, <4>2, Zenon
      <4> QED BY <3>1, <4>1, <4>3, Zenon DEF ThereAndBack
    <3> HIDE DEF k
    <3> QED BY <3>1, <3>2 DEF Shifted
  <2> HIDE DEF k, region
  <2>3. moved[CellIndex(Shifted(st, k), w)] = local[CellIndex(Shifted(<<0, 0>>, k), nx)]
    BY <1>3a, <2>1, Zenon
  <2>4. local[CellIndex(Shifted(<<0, 0>>, k), nx)] = map[CellIndex(Shifted(ll, k), w)]
    BY <1>2, <2>1, Zenon
  <2> QED BY <2>2, <2>3, <2>4, Zenon
<1>7. ASSUME NEW c \in cells, Shifted(c, o) \notin cells
      PROVE  moved[CellIndex(c, w)] = blank[CellIndex(c, w)]
  <2>1. ASSUME NEW k \in region, CellIndex(c, w) = CellIndex(Shifted(st, k), w) PROVE FALSE
    <3>1. Shifted(st, k) \in cells
      BY <1>1
    <3>2. c = Shifted(st, k)
      <4>1. c \in (0 .. w - 1) \X Int /\ Shifted(st, k) \in (0 .. w - 1) \X Int
        BY <3>1
      <4> QED BY <2>1, <4>1, IndexInjective
    <3>3. Shifted(c, o) = Shifted(ll, k)
      <4>1. /\ k[1] \in Int /\ k[2] \in Int /\ o[1] \in Int /\ o[2] \in Int
            /\ ll[1] \in Int /\ ll[2] \in Int /\ st[1] = ll[1] - o[1] /\ st[2] = ll[2] - o[2]
        BY <1>1
      <4>2. st[1] + k[1] + o[1] = ll[1] + k[1] /\ st[2] + k[2] + o[2] = ll[2] + k[2]
        <5> \A a, b, x \in Int : (a - b) + x + b = a + x
          OBVIOUS
        <5> QED BY ONLY <4>1, \A a, b, x \in Int : (a - b) + x + b = a + x
      <4>3. c[1] = st[1] + k[1] /\ c[2] = st[2] + k[2]
        BY <3>2 DEF Shifted
      <4> QED BY <4>2, <4>3 DEF Shifted
    <3>4. Shifted(ll, k) \in cells
      <4>1. \A j \in 0 .. nx - 1 : ll[1] + j \in 0 .. w - 1
        BY Overlap
      <4>2. \A j \in 0 .. ny - 1 : ll[2] + j \in 0 .. h - 1
        BY Overlap
      <4> QED BY <4>1, <4>2 DEF Shifted
    <3> QED BY <1>7, <3>3, <3>4
  <2>2. \A k \in region : CellIndex(c, w) # CellIndex(Shifted(st, k), w)
    BY <2>1
  <2>3. CellIndex(c, w) \in DOMAIN blank
    BY <1>4
  <2> HIDE DEF region
  <2> QED BY <1>3, <2>2, <2>3
<1>8. /\ moved = [i \in DOMAIN moved |-> moved[i]]
      /\ DOMAIN moved = 0 .. w * h - 1
  BY <1>3, <1>5, Zenon
<1>9. ASSUME NEW c \in cells
      PROVE  moved[CellIndex(c, w)] = IF Shifted(c, o) \in cells
                                      THEN map[CellIndex(Shifted(c, o), w)]
                                      ELSE blank[CellIndex(c, w)]
  <2>1. CASE Shifted(c, o) \in cells
    <3>1. moved[CellIndex(c, w)] = map[CellIndex(Shifted(c, o), w)]
      BY <1>6, <2>1
    <3> HIDE DEF cells
    <3> QED BY <2>1, <3>1, Zenon
  <2>2. CASE Shifted(c, o) \notin cells
    <3>1. moved[CellIndex(c, w)] = blank[CellIndex(c, w)]
      BY <1>7, <2>2
    <3> HIDE DEF cells
    <3> QED BY <2>2, <3>1, Zenon
  <2> QED BY <2>1, <2>2
<1> QED BY <1>8, <1>9, Zenon DEF HasMoved

-----------------------------------------------------------------------------
(* Lines *)

(* Two sequences that begin alike and go on alike are alike.               *)
LEMMA SameSequence ==
  ASSUME NEW n \in Nat, NEW f, NEW g, f[0] = g[0],
         \A i \in 1 .. n : f[i - 1] = g[i - 1] => f[i] = g[i]
  PROVE  \A i \in 0 .. n : f[i] = g[i]
<1> DEFINE S == {i \in Nat : i \in 0 .. n => f[i] = g[i]}
<1>1. 0 \in S
  OBVIOUS
<1>2. ASSUME NEW i \in S PROVE i + 1 \in S
  <2>1. ASSUME i + 1 \in 0 .. n PROVE f[i + 1] = g[i + 1]
    <3>1. i + 1 \in 1 .. n /\ (i + 1) - 1 = i /\ i \in 0 .. n
      BY <2>1
    <3>2. f[i] = g[i]
      BY <3>1
    <3> QED BY <3>1, <3>2
  <2> QED BY <2>1
<1>3. S = Nat
  <2> HIDE DEF S
  <2>1. S \in SUBSET Nat
    BY DEF S
  <2> QED BY <1>1, <1>2, <2>1, Induction
<1> QED BY <1>3

(* After i of da steps along one axis, how many of db along the other.     *)
Carries(i, da, db) == IF da = 0 THEN 0 ELSE (da \div 2 + i * db) \div da
Rest(i, da, db)    == IF da = 0 THEN 0 ELSE (da \div 2 + i * db) % da

LEMMA CarriesAndRest ==
  ASSUME NEW da \in Nat \ {0}, NEW db \in Nat, NEW i \in Nat
  PROVE  /\ i * db \in Nat /\ da \div 2 \in 0 .. da - 1
         /\ Carries(i, da, db) \in Int /\ Rest(i, da, db) \in 0 .. da - 1
         /\ da \div 2 + i * db = Carries(i, da, db) * da + Rest(i, da, db)
<1>1. i * db \in Nat
  BY TimesMonotone
<1>2. da \div 2 \in 0 .. da - 1
  OBVIOUS
<1> DEFINE a == da \div 2 + i * db
<1>3. a \in Int
  BY <1>1, <1>2
<1> HIDE DEF a
<1>4. a \div da \in Int /\ a % da \in 0 .. da - 1 /\ a = (a \div da) * da + (a % da)
  BY <1>3, Division
<1> QED BY <1>1, <1>2, <1>4 DEF a, Carries, Rest

(* One step more carries when the rest is full.                            *)
LEMMA OneStepMore ==
  ASSUME NEW da \in Nat \ {0}, NEW db \in 0 .. da, NEW i \in Nat \ {0}
  PROVE  LET error == Rest(i - 1, da, db) + db
         IN  /\ error >= da =>
                  Carries(i, da, db) = Carries(i - 1, da, db) + 1 /\ Rest(i, da, db) = error - da
             /\ ~ (error >= da) =>
                  Carries(i, da, db) = Carries(i - 1, da, db) /\ Rest(i, da, db) = error
<1> DEFINE j == i - 1
           k == Carries(j, da, db)
           r == Rest(j, da, db)
<1>1. j \in Nat /\ i * db = j * db + db /\ j * db \in Int /\ da \div 2 \in Int
  OBVIOUS
<1>2. k \in Int /\ r \in 0 .. da - 1 /\ da \div 2 + j * db = k * da + r
  <2> HIDE DEF j
  <2> QED BY <1>1, CarriesAndRest
<1>3. k * da \in Int /\ (k + 1) * da = k * da + da
  BY <1>2
<1> HIDE DEF j, k, r
<1>4. da \div 2 + i * db = k * da + (r + db)
  BY <1>1, <1>2, <1>3
<1>5. Carries(i - 1, da, db) = k /\ Rest(i - 1, da, db) = r
  BY DEF j, k, r
<1>6. CASE r + db >= da
  <2>1. r + db - da \in 0 .. da - 1
    BY <1>2, <1>6
  <2>2. da \div 2 + i * db = (k + 1) * da + (r + db - da)
    BY <1>2, <1>3, <1>4
  <2>3. Carries(i, da, db) = k + 1 /\ Rest(i, da, db) = r + db - da
    <3>1. k + 1 \in Int
      BY <1>2
    <3>2. ((k + 1) * da + (r + db - da)) \div da = k + 1 /\ ((k + 1) * da + (r + db - da)) % da = r + db - da
      BY <2>1, <3>1, DivisionOf
    <3> QED BY <2>2, <3>2 DEF Carries, Rest
  <2> QED BY <1>2, <1>5, <1>6, <2>3
<1>7. CASE ~ (r + db >= da)
  <2>1. r + db \in 0 .. da - 1
    BY <1>2, <1>7
  <2>2. (k * da + (r + db)) \div da = k /\ (k * da + (r + db)) % da = r + db
    BY <1>2, <2>1, DivisionOf
  <2>3. Carries(i, da, db) = k /\ Rest(i, da, db) = r + db
    BY <1>4, <2>2 DEF Carries, Rest
  <2> QED BY <1>5, <1>7, <2>3
<1> QED BY <1>6, <1>7

(* There are no carries at the start, and in the end db of them.           *)
LEMMA CarriesBounds ==
  ASSUME NEW da \in Nat, NEW db \in 0 .. da, NEW i \in 0 .. da
  PROVE  /\ Carries(i, da, db) \in 0 .. db
         /\ i = 0 => Carries(i, da, db) = 0
         /\ i = da => Carries(i, da, db) = db
<1>1. CASE da = 0
  BY <1>1 DEF Carries
<1>2. CASE da # 0
  <2> DEFINE k == Carries(i, da, db)  r == Rest(i, da, db)
  <2>1. da \in Nat \ {0} /\ i \in Nat /\ db \in Nat
    BY <1>2
  <2>2. /\ k \in Int /\ r \in 0 .. da - 1 /\ da \div 2 \in 0 .. da - 1 /\ i * db \in Nat
        /\ da \div 2 + i * db = k * da + r
    BY <2>1, CarriesAndRest
  <2> HIDE DEF k, r
  <2>3. k >= 0
    <3> SUFFICES ASSUME k <= -1 PROVE FALSE
      BY <2>2
    <3>1. k * da <= (-1) * da /\ k * da \in Int
      BY <2>1, <2>2, TimesMonotone
    <3> QED BY <2>2, <3>1
  <2>4. k <= db
    <3> SUFFICES ASSUME db + 1 <= k PROVE FALSE
      BY <2>2
    <3>1. (db + 1) * da <= k * da /\ k * da \in Int
      BY <2>1, <2>2, TimesMonotone
    <3>2. i * db <= da * db
      BY <2>1, TimesMonotone
    <3>3. (db + 1) * da = da * db + da /\ da * db \in Int
      OBVIOUS
    <3> QED BY <2>2, <3>1, <3>2, <3>3
  <2>5. ASSUME i = 0 PROVE k = 0
    <3>1. 0 * da + da \div 2 = k * da + r
      BY <2>2, <2>5
    <3> QED BY <2>1, <2>2, <3>1, DivisionUnique
  <2>6. ASSUME i = da PROVE k = db
    <3>1. db * da + da \div 2 = k * da + r
      BY <2>2, <2>6
    <3> QED BY <2>1, <2>2, <3>1, DivisionUnique
  <2> QED BY <2>2, <2>3, <2>4, <2>5, <2>6 DEF k
<1> QED BY <1>1, <1>2

(* The cells that bresenham2D() goes through, and their number.            *)
LEMMA BresenhamOffsets ==
  ASSUME NEW da \in Nat, NEW db \in 0 .. da, NEW oa \in Int, NEW ob \in Int, NEW start \in Int
  PROVE  bresenham2D(da, db, oa, ob, start)
           = {start + i * oa + Carries(i, da, db) * ob : i \in 0 .. da}
<1> DEFINE at[i \in 0 .. da] ==
             IF i = 0
             THEN [offset |-> start, error |-> StartError(da)]
             ELSE LET prev  == at[i - 1]
                      error == prev.error + db
                  IN  IF error >= da
                      THEN [offset |-> prev.offset + oa + ob, error |-> error - da]
                      ELSE [offset |-> prev.offset + oa, error |-> error]
           to == [i \in 0 .. da |-> [offset |-> start + i * oa + Carries(i, da, db) * ob,
                                     error  |-> Rest(i, da, db)]]
           Next1(f, i) == LET prev  == f[i - 1]
                              error == prev.error + db
                          IN  IF error >= da
                              THEN [offset |-> prev.offset + oa + ob, error |-> error - da]
                              ELSE [offset |-> prev.offset + oa, error |-> error]
           Step(f) == [i \in 0 .. da |-> IF i = 0
                                         THEN [offset |-> start, error |-> StartError(da)]
                                         ELSE Next1(f, i)]
<1>1. to[0] = [offset |-> start, error |-> StartError(da)]
  <2>1. 0 \in 0 .. da /\ Carries(0, da, db) = 0
    BY CarriesBounds
  <2>2. start + 0 * oa + 0 * ob = start
    OBVIOUS
  <2>3. Rest(0, da, db) = da \div 2
    <3>1. CASE da = 0
      BY <3>1 DEF Rest
    <3>2. CASE da # 0
      <4>1. da \in Nat \ {0} /\ 0 * db = 0 /\ da \div 2 \in 0 .. da - 1
        BY <3>2
      <4>2. (0 * da + da \div 2) % da = da \div 2
        BY <4>1, DivisionOf
      <4>3. 0 * da + da \div 2 = da \div 2 + 0 * db
        BY <4>1
      <4> QED BY <3>2, <4>2, <4>3 DEF Rest
    <3> QED BY <3>1, <3>2
  <2> QED BY <2>1, <2>2, <2>3 DEF StartError
<1>2. ASSUME NEW i \in 1 .. da PROVE to[i] = Next1(to, i)
  <2> DEFINE k == Carries(i - 1, da, db)  r == Rest(i - 1, da, db)
             o == start + (i - 1) * oa + k * ob
  <2>1. da \in Nat \ {0} /\ i \in Nat \ {0} /\ i - 1 \in Nat /\ i - 1 \in 0 .. da
    OBVIOUS
  <2>2. k \in Int /\ r \in Int
    <3> HIDE DEF to
    <3>1. db \in Nat
      OBVIOUS
    <3> QED BY <2>1, <3>1, CarriesAndRest
  <2>3. to[i - 1] = [offset |-> o, error |-> r]
    BY <2>1
  <2>4. to[i] = [offset |-> start + i * oa + Carries(i, da, db) * ob, error |-> Rest(i, da, db)]
    BY <2>1
  <2>5. /\ r + db >= da => Carries(i, da, db) = k + 1 /\ Rest(i, da, db) = r + db - da
        /\ ~ (r + db >= da) => Carries(i, da, db) = k /\ Rest(i, da, db) = r + db
    <3> HIDE DEF to
    <3>1. db \in 0 .. da
      OBVIOUS
    <3> QED BY <2>1, <2>2, <3>1, OneStepMore
  <2>6. /\ start + i * oa + (k + 1) * ob = o + oa + ob
        /\ start + i * oa + k * ob = o + oa
    <3> HIDE DEF to, k
    <3>1. /\ i * oa = (i - 1) * oa + oa /\ (k + 1) * ob = k * ob + ob
          /\ (i - 1) * oa \in Int /\ k * ob \in Int
      BY <2>1, <2>2
    <3> QED BY <3>1
  <2>6a. o \in Int
    BY <2>1, <2>2
  <2> HIDE DEF k, r, to, o
  <2>7. Next1(to, i) = IF r + db >= da THEN [offset |-> o + oa + ob, error |-> r + db - da]
                                       ELSE [offset |-> o + oa, error |-> r + db]
    <3>1. to[i - 1].offset = o /\ to[i - 1].error = r
      BY <2>3
    <3> QED BY <2>2, <2>6a, <3>1
  <2>8. CASE r + db >= da
    BY <2>4, <2>5, <2>6, <2>7, <2>8
  <2>9. CASE ~ (r + db >= da)
    BY <2>4, <2>5, <2>6, <2>7, <2>9
  <2> QED BY <2>8, <2>9
<1>3. to = Step(to)
  <2>1. \A i \in 1 .. da : to[i] = Next1(to, i)
    BY <1>2
  <2>2. to = [i \in 0 .. da |-> to[i]]
    OBVIOUS
  <2>3. \A i \in 0 .. da : to[i] = Step(to)[i]
    <3> HIDE DEF to, Next1
    <3> QED BY <1>1, <2>1
  <2>4. Step(to) = [i \in 0 .. da |-> Step(to)[i]]
    OBVIOUS
  <2> HIDE DEF to, Step
  <2> QED BY <2>2, <2>3, <2>4
<1>4. at = Step(at)
  <2> HIDE DEF to
  <2> QED BY <1>3
<1>5. \A i \in 0 .. da : at[i] = to[i]
  <2> HIDE DEF to, at
  <2>1. at[0] = to[0]
    BY <1>1, <1>4
  <2>2. ASSUME NEW i \in 1 .. da, at[i - 1] = to[i - 1] PROVE at[i] = to[i]
    <3>1. at[i] = Next1(at, i)
      <4>1. i \in 0 .. da /\ i # 0
        BY <2>2
      <4>2. at[i] = Step(at)[i]
        <5> HIDE DEF Step
        <5> QED BY <1>4
      <4> HIDE DEF Next1
      <4> QED BY <4>1, <4>2
    <3> QED BY <1>2, <2>2, <3>1
  <2> QED BY <2>1, <2>2, SameSequence
<1>6. bresenham2D(da, db, oa, ob, start) = {at[i].offset : i \in 0 .. da}
  BY DEF bresenham2D
<1>7. {at[i].offset : i \in 0 .. da} = {start + i * oa + Carries(i, da, db) * ob : i \in 0 .. da}
  <2>1. \A i \in 0 .. da : to[i].offset = start + i * oa + Carries(i, da, db) * ob
    OBVIOUS
  <2> HIDE DEF to, at
  <2>2. \A i \in 0 .. da : at[i].offset = start + i * oa + Carries(i, da, db) * ob
    BY <1>5, <2>1
  <2> QED BY <2>2
<1> QED BY <1>6, <1>7

(* The cells of a line, the i-th of them i steps along its longer axis.    *)
LineCell(p, q, i) ==
  LET dx == AbsDiff(p[1], q[1])
      dy == AbsDiff(p[2], q[2])
  IN  IF dx >= dy
      THEN <<p[1] + i * Sign(q[1] - p[1]), p[2] + Carries(i, dx, dy) * Sign(q[2] - p[2])>>
      ELSE <<p[1] + Carries(i, dy, dx) * Sign(q[1] - p[1]), p[2] + i * Sign(q[2] - p[2])>>

LineLength(p, q) == MaxOf(AbsDiff(p[1], q[1]), AbsDiff(p[2], q[2]))

Line(p, q) == {LineCell(p, q, i) : i \in 0 .. LineLength(p, q)}

Between(a, b, x) == (a <= x /\ x <= b) \/ (b <= x /\ x <= a)

LEMMA StepsBetween ==
  ASSUME NEW a \in Int, NEW b \in Int, NEW i \in 0 .. AbsDiff(a, b)
  PROVE  /\ a + i * Sign(b - a) \in Int
         /\ Between(a, b, a + i * Sign(b - a))
         /\ i = 0 => a + i * Sign(b - a) = a
         /\ i = AbsDiff(a, b) => a + i * Sign(b - a) = b
<1>1. CASE a < b
  <2>1. Sign(b - a) = 1 /\ AbsDiff(a, b) = b - a
    BY <1>1 DEF Sign, AbsDiff
  <2> QED BY <2>1 DEF Between
<1>2. CASE ~ (a < b)
  <2>1. Sign(b - a) = -1 /\ AbsDiff(a, b) = a - b
    BY <1>2 DEF Sign, AbsDiff
  <2>2. i * (-1) = -i
    OBVIOUS
  <2> QED BY <1>2, <2>1, <2>2 DEF Between
<1> QED BY <1>1, <1>2

(* A line stays within the box of its ends, and has both.                  *)
LEMMA LineInBox ==
  ASSUME NEW p \in Int \X Int, NEW q \in Int \X Int, NEW i \in 0 .. LineLength(p, q)
  PROVE  /\ LineLength(p, q) \in Nat
         /\ LineCell(p, q, i) \in Int \X Int
         /\ Between(p[1], q[1], LineCell(p, q, i)[1])
         /\ Between(p[2], q[2], LineCell(p, q, i)[2])
         /\ i = 0 => LineCell(p, q, i) = p
         /\ i = LineLength(p, q) => LineCell(p, q, i) = q
<1> DEFINE dx == AbsDiff(p[1], q[1])
           dy == AbsDiff(p[2], q[2])
<1>1. /\ dx \in Nat /\ dy \in Nat /\ p[1] \in Int /\ p[2] \in Int /\ q[1] \in Int /\ q[2] \in Int
      /\ p = <<p[1], p[2]>> /\ q = <<q[1], q[2]>>
  BY DEF AbsDiff
<1>2. CASE dx >= dy
  <2>1. LineLength(p, q) = dx /\ i \in 0 .. dx /\ dy \in 0 .. dx
    BY <1>1, <1>2 DEF LineLength, MaxOf
  <2>2. /\ Carries(i, dx, dy) \in 0 .. dy
        /\ i = 0 => Carries(i, dx, dy) = 0
        /\ i = dx => Carries(i, dx, dy) = dy
    BY <1>1, <2>1, CarriesBounds
  <2>3. LineCell(p, q, i) =
          <<p[1] + i * Sign(q[1] - p[1]), p[2] + Carries(i, dx, dy) * Sign(q[2] - p[2])>>
    BY <1>2 DEF LineCell
  <2> DEFINE k == Carries(i, dx, dy)
             x == p[1] + i * Sign(q[1] - p[1])
             y == p[2] + k * Sign(q[2] - p[2])
  <2>4. /\ x \in Int /\ Between(p[1], q[1], x)
        /\ (i = 0 => x = p[1]) /\ (i = dx => x = q[1])
    BY <1>1, <2>1, StepsBetween
  <2>5. /\ y \in Int /\ Between(p[2], q[2], y)
        /\ (k = 0 => y = p[2]) /\ (k = dy => y = q[2])
    <3> HIDE DEF k
    <3> QED BY <1>1, <2>2, StepsBetween DEF k
  <2> HIDE DEF x, y, dx, dy
  <2> QED BY <1>1, <2>1, <2>2, <2>3, <2>4, <2>5 DEF x, y
<1>3. CASE ~ (dx >= dy)
  <2>1. LineLength(p, q) = dy /\ i \in 0 .. dy /\ dx \in 0 .. dy
    BY <1>1, <1>3 DEF LineLength, MaxOf
  <2>2. /\ Carries(i, dy, dx) \in 0 .. dx
        /\ i = 0 => Carries(i, dy, dx) = 0
        /\ i = dy => Carries(i, dy, dx) = dx
    BY <1>1, <2>1, CarriesBounds
  <2>3. LineCell(p, q, i) =
          <<p[1] + Carries(i, dy, dx) * Sign(q[1] - p[1]), p[2] + i * Sign(q[2] - p[2])>>
    BY <1>3 DEF LineCell
  <2> DEFINE k == Carries(i, dy, dx)
             x == p[1] + k * Sign(q[1] - p[1])
             y == p[2] + i * Sign(q[2] - p[2])
  <2>4. /\ y \in Int /\ Between(p[2], q[2], y)
        /\ (i = 0 => y = p[2]) /\ (i = dy => y = q[2])
    BY <1>1, <2>1, StepsBetween
  <2>5. /\ x \in Int /\ Between(p[1], q[1], x)
        /\ (k = 0 => x = p[1]) /\ (k = dx => x = q[1])
    <3> HIDE DEF k
    <3> QED BY <1>1, <2>2, StepsBetween DEF k
  <2> HIDE DEF x, y, dx, dy
  <2> QED BY <1>1, <2>1, <2>2, <2>3, <2>4, <2>5 DEF x, y
<1> QED BY <1>2, <1>3


LEMMA CellAt ==
  ASSUME NEW w \in Nat \ {0}, NEW x \in 0 .. w - 1, NEW y \in Int
  PROVE  indexToCells(CellIndex(<<x, y>>, w), w) = <<x, y>>
<1>1. CellIndex(<<x, y>>, w) = y * w + x
  BY DEF CellIndex
<1> QED BY <1>1, DivisionOf DEF indexToCells

(* raytraceLine() goes through the cells of the line.                      *)
LEMMA RaytraceCells ==
  ASSUME NEW w \in Nat \ {0}, NEW p \in (0 .. w - 1) \X Int, NEW q \in (0 .. w - 1) \X Int
  PROVE  raytraceLine(p, q, w) = Line(p, q)
<1> DEFINE dx == AbsDiff(p[1], q[1])
           dy == AbsDiff(p[2], q[2])
           sx == Sign(q[1] - p[1])
           sy == Sign(q[2] - p[2])
           start == CellIndex(p, w)
           n  == LineLength(p, q)
<1>1. /\ dx \in Nat /\ dy \in Nat /\ p[1] \in Int /\ p[2] \in Int /\ q[1] \in Int /\ q[2] \in Int
      /\ p \in Int \X Int /\ q \in Int \X Int /\ sx \in Int /\ sy \in Int
      /\ start = p[2] * w + p[1] /\ p[2] * w \in Int /\ sy * w \in Int
  BY DEF AbsDiff, Sign, CellIndex
<1>2. ASSUME NEW i \in 0 .. n
      PROVE  indexToCells(CellIndex(LineCell(p, q, i), w), w) = LineCell(p, q, i)
  <2>1. LineCell(p, q, i) \in (0 .. w - 1) \X Int
    BY <1>1, LineInBox DEF Between
  <2>2. PICK x \in 0 .. w - 1, y \in Int : LineCell(p, q, i) = <<x, y>>
    BY <2>1
  <2> QED BY <2>2, CellAt
<1> HIDE DEF dx, dy, sx, sy, start, n
<1>3. CASE dx >= dy
  <2>1. n = dx /\ dy \in 0 .. dx
    BY <1>1, <1>3 DEF LineLength, MaxOf, n, dx, dy
  <2>2. ASSUME NEW i \in 0 .. dx
        PROVE  start + i * sx + Carries(i, dx, dy) * (sy * w) = CellIndex(LineCell(p, q, i), w)
    <3> DEFINE k == Carries(i, dx, dy)
    <3>1. LineCell(p, q, i) = <<p[1] + i * sx, p[2] + k * sy>>
      BY <1>3 DEF LineCell, dx, dy, sx, sy
    <3>2. k \in Int
      BY <1>1, <2>1, CarriesBounds
    <3> HIDE DEF k
    <3>3. (p[2] + k * sy) * w = p[2] * w + k * (sy * w)
      BY <1>1, <3>2
    <3>4. i * sx \in Int /\ k * (sy * w) \in Int
      BY <1>1, <3>2
    <3>5. CellIndex(LineCell(p, q, i), w) = (p[2] + k * sy) * w + (p[1] + i * sx)
      BY <3>1 DEF CellIndex
    <3> QED BY <1>1, <3>3, <3>4, <3>5 DEF k
  <2>3. raytraceLine(p, q, w) = {indexToCells(i, w) : i \in bresenham2D(dx, dy, sx, sy * w, start)}
    BY <1>3 DEF raytraceLine, dx, dy, sx, sy, start
  <2>4. bresenham2D(dx, dy, sx, sy * w, start)
          = {start + i * sx + Carries(i, dx, dy) * (sy * w) : i \in 0 .. dx}
    BY <1>1, <2>1, BresenhamOffsets
  <2>5. bresenham2D(dx, dy, sx, sy * w, start) = {CellIndex(LineCell(p, q, i), w) : i \in 0 .. dx}
    BY <2>2, <2>4
  <2>6. raytraceLine(p, q, w) = {indexToCells(CellIndex(LineCell(p, q, i), w), w) : i \in 0 .. dx}
    BY <2>3, <2>5
  <2>7. \A i \in 0 .. dx : indexToCells(CellIndex(LineCell(p, q, i), w), w) = LineCell(p, q, i)
    BY <1>2, <2>1
  <2>8. {indexToCells(CellIndex(LineCell(p, q, i), w), w) : i \in 0 .. dx} = {LineCell(p, q, i) : i \in 0 .. dx}
    BY <2>7
  <2> QED BY <2>1, <2>6, <2>8 DEF Line, n
<1>4. CASE ~ (dx >= dy)
  <2>1. n = dy /\ dx \in 0 .. dy
    BY <1>1, <1>4 DEF LineLength, MaxOf, n, dx, dy
  <2>2. ASSUME NEW i \in 0 .. dy
        PROVE  start + i * (sy * w) + Carries(i, dy, dx) * sx = CellIndex(LineCell(p, q, i), w)
    <3> DEFINE k == Carries(i, dy, dx)
    <3>1. LineCell(p, q, i) = <<p[1] + k * sx, p[2] + i * sy>>
      BY <1>4 DEF LineCell, dx, dy, sx, sy
    <3>2. k \in Int
      BY <1>1, <2>1, CarriesBounds
    <3> HIDE DEF k
    <3>3. (p[2] + i * sy) * w = p[2] * w + i * (sy * w)
      BY <1>1
    <3>4. k * sx \in Int /\ i * (sy * w) \in Int
      BY <1>1, <3>2
    <3>5. CellIndex(LineCell(p, q, i), w) = (p[2] + i * sy) * w + (p[1] + k * sx)
      BY <3>1 DEF CellIndex
    <3> QED BY <1>1, <3>3, <3>4, <3>5 DEF k
  <2>3. raytraceLine(p, q, w) = {indexToCells(i, w) : i \in bresenham2D(dy, dx, sy * w, sx, start)}
    BY <1>4 DEF raytraceLine, dx, dy, sx, sy, start
  <2>4. bresenham2D(dy, dx, sy * w, sx, start)
          = {start + i * (sy * w) + Carries(i, dy, dx) * sx : i \in 0 .. dy}
    BY <1>1, <2>1, BresenhamOffsets
  <2>5. bresenham2D(dy, dx, sy * w, sx, start) = {CellIndex(LineCell(p, q, i), w) : i \in 0 .. dy}
    BY <2>2, <2>4
  <2>6. raytraceLine(p, q, w) = {indexToCells(CellIndex(LineCell(p, q, i), w), w) : i \in 0 .. dy}
    BY <2>3, <2>5
  <2>7. \A i \in 0 .. dy : indexToCells(CellIndex(LineCell(p, q, i), w), w) = LineCell(p, q, i)
    BY <1>2, <2>1
  <2>8. {indexToCells(CellIndex(LineCell(p, q, i), w), w) : i \in 0 .. dy} = {LineCell(p, q, i) : i \in 0 .. dy}
    BY <2>7
  <2> QED BY <2>1, <2>6, <2>8 DEF Line, n
<1> QED BY <1>3, <1>4


(* One more cell of the line, as LineIterator's next() finds it.           *)
LEMMA NextCell ==
  ASSUME NEW p \in Int \X Int, NEW q \in Int \X Int, NEW i \in 1 .. LineLength(p, q)
  PROVE  LET deltax == AbsDiff(p[1], q[1])
             deltay == AbsDiff(p[2], q[2])
             xstep  == <<IF q[1] >= p[1] THEN 1 ELSE -1, 0>>
             ystep  == <<0, IF q[2] >= p[2] THEN 1 ELSE -1>>
             along  == IF deltax >= deltay THEN xstep ELSE ystep
             across == IF deltax >= deltay THEN ystep ELSE xstep
             den    == MaxOf(deltax, deltay)
             numadd == deltax + deltay - den
             num    == Rest(i - 1, den, numadd) + numadd
         IN  /\ Rest(i - 1, den, numadd) \in Int /\ numadd \in Int /\ den \in Int
             /\ num >= den =>
                  /\ LineCell(p, q, i) = Shifted(Shifted(LineCell(p, q, i - 1), across), along)
                  /\ Rest(i, den, numadd) = num - den
             /\ ~ (num >= den) =>
                  /\ LineCell(p, q, i) = Shifted(LineCell(p, q, i - 1), along)
                  /\ Rest(i, den, numadd) = num
<1> DEFINE dx  == AbsDiff(p[1], q[1])
           dy  == AbsDiff(p[2], q[2])
           xs  == <<IF q[1] >= p[1] THEN 1 ELSE -1, 0>>
           ys  == <<0, IF q[2] >= p[2] THEN 1 ELSE -1>>
           sx  == Sign(q[1] - p[1])
           sy  == Sign(q[2] - p[2])
           j   == i - 1
<1>1. /\ dx \in Nat /\ dy \in Nat /\ p[1] \in Int /\ p[2] \in Int /\ q[1] \in Int /\ q[2] \in Int
      /\ sx \in Int /\ sy \in Int
      /\ dx > 0 => xs = <<sx, 0>>
      /\ dy > 0 => ys = <<0, sy>>
  BY DEF AbsDiff, Sign
<1>2. j \in Nat /\ i \in Nat \ {0} /\ j = i - 1
  BY <1>1 DEF LineLength, MaxOf
<1>3. CASE dx >= dy
  <2> DEFINE k == Carries(j, dx, dy)  r == Rest(j, dx, dy)
  <2>1. LineLength(p, q) = dx /\ dy \in 0 .. dx /\ dx \in Nat \ {0} /\ MaxOf(dx, dy) = dx /\ i \in 0 .. dx
    BY <1>1, <1>3 DEF LineLength, MaxOf
  <2>2. k \in Int /\ r \in Int /\ k >= 0
    <3> HIDE DEF j
    <3>1. j \in 0 .. dx
      BY <1>2, <2>1
    <3>2. k \in 0 .. dy
      BY <2>1, <3>1, CarriesBounds
    <3>3. r \in 0 .. dx - 1
      BY <1>1, <1>2, <2>1, CarriesAndRest
    <3> QED BY <2>1, <3>2, <3>3
  <2>3. /\ r + dy >= dx => Carries(i, dx, dy) = k + 1 /\ Rest(i, dx, dy) = r + dy - dx
        /\ ~ (r + dy >= dx) => Carries(i, dx, dy) = k /\ Rest(i, dx, dy) = r + dy
    BY <1>2, <2>1, <2>2, OneStepMore
  <2>4. Carries(i, dx, dy) \in 0 .. dy
    BY <2>1, CarriesBounds
  <2>5. /\ LineCell(p, q, i) = <<p[1] + i * sx, p[2] + Carries(i, dx, dy) * sy>>
        /\ LineCell(p, q, j) = <<p[1] + j * sx, p[2] + k * sy>>
    BY <1>3 DEF LineCell
  <2>6. i * sx = j * sx + sx /\ (k + 1) * sy = k * sy + sy /\ j * sx \in Int /\ k * sy \in Int
    <3> HIDE DEF j, k, sx, sy
    <3>1. i = j + 1
      BY <1>2
    <3> QED BY <1>1, <1>2, <2>2, <3>1
  <2>7. xs = <<sx, 0>>
    BY <1>1, <2>1
  <2> HIDE DEF k, r, j, sx, sy, xs, ys, dx, dy
  <2>8. CASE r + dy >= dx
    <3>1. dy > 0
      BY <1>1, <2>2, <2>3, <2>4, <2>8
    <3>2. ys = <<0, sy>>
      BY <1>1, <3>1
    <3>3. LineCell(p, q, i) = <<p[1] + j * sx + sx, p[2] + k * sy + sy>>
      BY <1>1, <2>3, <2>5, <2>6, <2>8
    <3>4. Shifted(Shifted(LineCell(p, q, j), ys), xs) = <<p[1] + j * sx + 0 + sx, p[2] + k * sy + sy + 0>>
      BY <2>5, <2>7, <3>2 DEF Shifted
    <3>5. LineCell(p, q, i) = Shifted(Shifted(LineCell(p, q, j), ys), xs)
      BY <1>1, <2>6, <3>3, <3>4
    <3>6. dx + dy - dx = dy
      BY <1>1
    <3> QED BY <1>1, <1>3, <2>1, <2>2, <2>3, <2>8, <3>5, <3>6 DEF k, r, j, xs, ys, dx, dy
  <2>9. CASE ~ (r + dy >= dx)
    <3>3. LineCell(p, q, i) = <<p[1] + j * sx + sx, p[2] + k * sy>>
      BY <1>1, <2>3, <2>5, <2>6, <2>9
    <3>4. Shifted(LineCell(p, q, j), xs) = <<p[1] + j * sx + sx, p[2] + k * sy + 0>>
      BY <2>5, <2>7 DEF Shifted
    <3>5. LineCell(p, q, i) = Shifted(LineCell(p, q, j), xs)
      BY <1>1, <2>6, <3>3, <3>4
    <3>6. dx + dy - dx = dy
      BY <1>1
    <3> QED BY <1>1, <1>3, <2>1, <2>2, <2>3, <2>9, <3>5, <3>6 DEF k, r, j, xs, ys, dx, dy
  <2> QED BY <2>8, <2>9
<1>4. CASE ~ (dx >= dy)
  <2> DEFINE k == Carries(j, dy, dx)  r == Rest(j, dy, dx)
  <2>1. LineLength(p, q) = dy /\ dx \in 0 .. dy /\ dy \in Nat \ {0} /\ MaxOf(dx, dy) = dy /\ i \in 0 .. dy
    BY <1>1, <1>4 DEF LineLength, MaxOf
  <2>2. k \in Int /\ r \in Int /\ k >= 0
    <3> HIDE DEF j
    <3>1. j \in 0 .. dy
      BY <1>2, <2>1
    <3>2. k \in 0 .. dx
      BY <2>1, <3>1, CarriesBounds
    <3>3. r \in 0 .. dy - 1
      BY <1>1, <1>2, <2>1, CarriesAndRest
    <3> QED BY <2>1, <3>2, <3>3
  <2>3. /\ r + dx >= dy => Carries(i, dy, dx) = k + 1 /\ Rest(i, dy, dx) = r + dx - dy
        /\ ~ (r + dx >= dy) => Carries(i, dy, dx) = k /\ Rest(i, dy, dx) = r + dx
    BY <1>2, <2>1, <2>2, OneStepMore
  <2>4. Carries(i, dy, dx) \in 0 .. dx
    BY <2>1, CarriesBounds
  <2>5. /\ LineCell(p, q, i) = <<p[1] + Carries(i, dy, dx) * sx, p[2] + i * sy>>
        /\ LineCell(p, q, j) = <<p[1] + k * sx, p[2] + j * sy>>
    BY <1>4 DEF LineCell
  <2>6. i * sy = j * sy + sy /\ (k + 1) * sx = k * sx + sx /\ j * sy \in Int /\ k * sx \in Int
    <3> HIDE DEF j, k, sx, sy
    <3>1. i = j + 1
      BY <1>2
    <3> QED BY <1>1, <1>2, <2>2, <3>1
  <2>7. ys = <<0, sy>>
    BY <1>1, <2>1
  <2> HIDE DEF k, r, j, sx, sy, xs, ys, dx, dy
  <2>8. CASE r + dx >= dy
    <3>1. dx > 0
      BY <1>1, <2>2, <2>3, <2>4, <2>8
    <3>2. xs = <<sx, 0>>
      BY <1>1, <3>1
    <3>3. LineCell(p, q, i) = <<p[1] + k * sx + sx, p[2] + j * sy + sy>>
      BY <1>1, <2>3, <2>5, <2>6, <2>8
    <3>4. Shifted(Shifted(LineCell(p, q, j), xs), ys) = <<p[1] + k * sx + sx + 0, p[2] + j * sy + 0 + sy>>
      BY <2>5, <2>7, <3>2 DEF Shifted
    <3>5. LineCell(p, q, i) = Shifted(Shifted(LineCell(p, q, j), xs), ys)
      BY <1>1, <2>6, <3>3, <3>4
    <3>6. dx + dy - dy = dx
      BY <1>1
    <3> QED BY <1>1, <1>4, <2>1, <2>2, <2>3, <2>8, <3>5, <3>6 DEF k, r, j, xs, ys, dx, dy
  <2>9. CASE ~ (r + dx >= dy)
    <3>3. LineCell(p, q, i) = <<p[1] + k * sx, p[2] + j * sy + sy>>
      BY <1>1, <2>3, <2>5, <2>6, <2>9
    <3>4. Shifted(LineCell(p, q, j), ys) = <<p[1] + k * sx + 0, p[2] + j * sy + sy>>
      BY <2>5, <2>7 DEF Shifted
    <3>5. LineCell(p, q, i) = Shifted(LineCell(p, q, j), ys)
      BY <1>1, <2>6, <3>3, <3>4
    <3>6. dx + dy - dy = dx
      BY <1>1
    <3> QED BY <1>1, <1>4, <2>1, <2>2, <2>3, <2>9, <3>5, <3>6 DEF k, r, j, xs, ys, dx, dy
  <2> QED BY <2>8, <2>9
<1> QED BY <1>3, <1>4


(* A LineIterator visits the cells of the line.                            *)
LEMMA LineIteratorCells ==
  ASSUME NEW p \in Int \X Int, NEW q \in Int \X Int
  PROVE  LineIterator(p, q) = Line(p, q)
<1> DEFINE deltax == AbsDiff(p[1], q[1])
           deltay == AbsDiff(p[2], q[2])
           xstep  == <<IF q[1] >= p[1] THEN 1 ELSE -1, 0>>
           ystep  == <<0, IF q[2] >= p[2] THEN 1 ELSE -1>>
           along  == IF deltax >= deltay THEN xstep ELSE ystep
           across == IF deltax >= deltay THEN ystep ELSE xstep
           den    == MaxOf(deltax, deltay)
           numadd == deltax + deltay - den
           Plus(c, step) == <<c[1] + step[1], c[2] + step[2]>>
           at[i \in 0 .. den] ==
             IF i = 0
             THEN [cell |-> p, num |-> den \div 2]
             ELSE LET prev == at[i - 1]
                      num  == prev.num + numadd
                  IN  IF num >= den
                      THEN [cell |-> Plus(Plus(prev.cell, across), along), num |-> num - den]
                      ELSE [cell |-> Plus(prev.cell, along), num |-> num]
           to == [i \in 0 .. den |-> [cell |-> LineCell(p, q, i), num |-> Rest(i, den, numadd)]]
           Next1(f, i) == LET prev == f[i - 1]
                              num  == prev.num + numadd
                          IN  IF num >= den
                              THEN [cell |-> Plus(Plus(prev.cell, across), along), num |-> num - den]
                              ELSE [cell |-> Plus(prev.cell, along), num |-> num]
           Step(f) == [i \in 0 .. den |-> IF i = 0
                                          THEN [cell |-> p, num |-> den \div 2]
                                          ELSE Next1(f, i)]
<1>0. den \in Nat /\ numadd \in Nat /\ den = LineLength(p, q)
  BY DEF AbsDiff, MaxOf, LineLength
<1>1. to[0] = [cell |-> p, num |-> den \div 2]
  <2> HIDE DEF den, numadd
  <2>1. 0 \in 0 .. den /\ LineCell(p, q, 0) = p
    BY <1>0, LineInBox
  <2>2. Rest(0, den, numadd) = den \div 2
    <3>1. CASE den = 0
      BY <3>1 DEF Rest
    <3>2. CASE den # 0
      <4>1. 0 \in Int /\ den \in Nat \ {0} /\ 0 * numadd = 0 /\ den \div 2 \in 0 .. den - 1
        BY <1>0, <3>2
      <4> HIDE DEF to, at
      <4>2. (0 * den + den \div 2) % den = den \div 2
        BY <4>1, DivisionOf
      <4>3. 0 * den + den \div 2 = den \div 2 + 0 * numadd
        BY <4>1
      <4> QED BY <3>2, <4>2, <4>3 DEF Rest
    <3> QED BY <3>1, <3>2
  <2> QED BY <2>1, <2>2
<1>2. ASSUME NEW i \in 1 .. den PROVE to[i] = Next1(to, i)
  <2> DEFINE r == Rest(i - 1, den, numadd)
             c == LineCell(p, q, i - 1)
  <2>1. i - 1 \in 0 .. den /\ i \in 0 .. den
    BY <1>0
  <2>2. /\ r \in Int /\ numadd \in Int /\ den \in Int
        /\ r + numadd >= den =>
             LineCell(p, q, i) = Shifted(Shifted(c, across), along) /\ Rest(i, den, numadd) = r + numadd - den
        /\ ~ (r + numadd >= den) =>
             LineCell(p, q, i) = Shifted(c, along) /\ Rest(i, den, numadd) = r + numadd
    <3>1. i \in 1 .. LineLength(p, q)
      BY <1>0
    <3> QED BY <3>1, NextCell
  <2> HIDE DEF den, numadd, along, across
  <2>3. to[i - 1].cell = c /\ to[i - 1].num = r
    BY <2>1
  <2>4. to[i] = [cell |-> LineCell(p, q, i), num |-> Rest(i, den, numadd)]
    BY <2>1
  <2> HIDE DEF to, r, c
  <2>5. Next1(to, i) = IF r + numadd >= den
                       THEN [cell |-> Shifted(Shifted(c, across), along), num |-> r + numadd - den]
                       ELSE [cell |-> Shifted(c, along), num |-> r + numadd]
    BY <2>2, <2>3 DEF Shifted
  <2>6. CASE r + numadd >= den
    BY <2>2, <2>4, <2>5, <2>6
  <2>7. CASE ~ (r + numadd >= den)
    BY <2>2, <2>4, <2>5, <2>7
  <2> QED BY <2>6, <2>7
<1>3. to = Step(to)
  <2> HIDE DEF den, numadd, along, across
  <2>1. \A i \in 1 .. den : to[i] = Next1(to, i)
    BY <1>2
  <2>2. to = [i \in 0 .. den |-> to[i]]
    OBVIOUS
  <2>3. \A i \in 0 .. den : to[i] = Step(to)[i]
    <3> HIDE DEF to, Next1
    <3> QED BY <1>0, <1>1, <2>1
  <2>4. Step(to) = [i \in 0 .. den |-> Step(to)[i]]
    OBVIOUS
  <2> HIDE DEF to, Step
  <2> QED BY <2>2, <2>3, <2>4
<1>4. at = Step(at)
  <2> HIDE DEF to, den, numadd, along, across
  <2> QED BY <1>3
<1>5. LineIterator(p, q) = {at[i].cell : i \in 0 .. den}
  BY DEF LineIterator
<1> HIDE DEF den, numadd, along, across
<1>6. \A i \in 0 .. den : at[i] = to[i]
  <2> HIDE DEF to, at
  <2>1. at[0] = to[0]
    BY <1>0, <1>1, <1>4
  <2>2. ASSUME NEW i \in 1 .. den, at[i - 1] = to[i - 1] PROVE at[i] = to[i]
    <3>1. at[i] = Next1(at, i)
      <4>1. i \in 0 .. den /\ i # 0
        BY <1>0
      <4>2. Step(at)[i] = Next1(at, i)
        <5> HIDE DEF Next1
        <5> QED BY <4>1
      <4> HIDE DEF Next1, Step
      <4> QED BY <1>4, <4>2
    <3> QED BY <1>2, <2>2, <3>1
  <2> QED BY <1>0, <2>1, <2>2, SameSequence
<1>7. {at[i].cell : i \in 0 .. den} = {LineCell(p, q, i) : i \in 0 .. den}
  <2>1. \A i \in 0 .. den : to[i].cell = LineCell(p, q, i)
    OBVIOUS
  <2> HIDE DEF to, at
  <2>2. \A i \in 0 .. den : at[i].cell = LineCell(p, q, i)
    BY <1>6, <2>1
  <2> QED BY <2>2
<1> QED BY <1>0, <1>5, <1>7 DEF Line


-----------------------------------------------------------------------------
(* Polygons *)

After(polygon, i) == polygon[(i % Len(polygon)) + 1]

LEMMA EdgesOf ==
  ASSUME NEW S, NEW polygon \in Seq(S), Len(polygon) > 0
  PROVE  /\ DOMAIN polygon = 1 .. Len(polygon)
         /\ \A i \in DOMAIN polygon : polygon[i] \in S /\ After(polygon, i) \in S
         /\ Range(Edges(polygon)) = {<<polygon[i], After(polygon, i)>> : i \in DOMAIN polygon}
<1>1. Len(polygon) \in Nat \ {0} /\ DOMAIN polygon = 1 .. Len(polygon)
  OBVIOUS
<1>2. ASSUME NEW i \in DOMAIN polygon PROVE polygon[i] \in S /\ After(polygon, i) \in S
  <2>1. (i % Len(polygon)) + 1 \in 1 .. Len(polygon)
    BY <1>1
  <2> QED BY <1>1, <2>1 DEF After
<1>3. Range(Edges(polygon)) = {<<polygon[i], After(polygon, i)>> : i \in DOMAIN polygon}
  BY DEF Range, Edges, After
<1> QED BY <1>1, <1>2, <1>3

(* The outline goes through the cells of the edges' lines.                 *)
LEMMA OutlineCells ==
  ASSUME NEW w \in Nat \ {0}, NEW polygon \in Seq((0 .. w - 1) \X Int), Len(polygon) > 0, NEW c
  PROVE  c \in polygonOutlineCells(polygon, w)
           <=> \E i \in DOMAIN polygon : c \in Line(polygon[i], After(polygon, i))
<1> DEFINE lines == {raytraceLine(e[1], e[2], w) : e \in Range(Edges(polygon))}
<1>1. /\ \A i \in DOMAIN polygon : polygon[i] \in (0 .. w - 1) \X Int /\ After(polygon, i) \in (0 .. w - 1) \X Int
      /\ Range(Edges(polygon)) = {<<polygon[i], After(polygon, i)>> : i \in DOMAIN polygon}
  BY EdgesOf
<1>2. \A i \in DOMAIN polygon : raytraceLine(polygon[i], After(polygon, i), w) = Line(polygon[i], After(polygon, i))
  BY <1>1, RaytraceCells
<1>3. polygonOutlineCells(polygon, w) = UNION lines
  BY DEF polygonOutlineCells
<1>4. c \in UNION lines <=> \E e \in Range(Edges(polygon)) : c \in raytraceLine(e[1], e[2], w)
  OBVIOUS
<1>5. (\E e \in Range(Edges(polygon)) : c \in raytraceLine(e[1], e[2], w))
        <=> \E i \in DOMAIN polygon : c \in raytraceLine(polygon[i], After(polygon, i), w)
  <2>1. ASSUME NEW e \in Range(Edges(polygon)), c \in raytraceLine(e[1], e[2], w)
        PROVE  \E i \in DOMAIN polygon : c \in raytraceLine(polygon[i], After(polygon, i), w)
    <3>1. PICK i \in DOMAIN polygon : e = <<polygon[i], After(polygon, i)>>
      BY <1>1
    <3>2. e[1] = polygon[i] /\ e[2] = After(polygon, i)
      BY <3>1
    <3> QED BY <2>1, <3>2
  <2>2. ASSUME NEW i \in DOMAIN polygon, c \in raytraceLine(polygon[i], After(polygon, i), w)
        PROVE  \E e \in Range(Edges(polygon)) : c \in raytraceLine(e[1], e[2], w)
    <3> DEFINE e == <<polygon[i], After(polygon, i)>>
    <3>1. e \in Range(Edges(polygon)) /\ e[1] = polygon[i] /\ e[2] = After(polygon, i)
      BY <1>1
    <3> QED BY <2>2, <3>1
  <2> QED BY <2>1, <2>2
<1> QED BY <1>2, <1>3, <1>4, <1>5

(* The fill has a cell if the outline has one above and one below, or it.  *)
LEMMA FilledCells ==
  ASSUME NEW polygon, NEW w, Len(polygon) >= 3, NEW c \in Int \X Int,
         polygonOutlineCells(polygon, w) \subseteq Int \X Int
  PROVE  c \in convexFillCells(polygon, w)
           <=> \E a, b \in polygonOutlineCells(polygon, w) :
                 a[1] = c[1] /\ b[1] = c[1] /\ a[2] <= c[2] /\ c[2] <= b[2]
<1> DEFINE outline == polygonOutlineCells(polygon, w)
           pairs   == {e \in outline \X outline : e[1][1] = e[2][1]}
           columns == {{<<e[1][1], y>> : y \in e[1][2] .. e[2][2]} : e \in pairs}
<1>1. convexFillCells(polygon, w) = UNION columns
  BY DEF convexFillCells
<1>2. ASSUME NEW a \in outline, NEW b \in outline,
             a[1] = c[1], b[1] = c[1], a[2] <= c[2], c[2] <= b[2]
      PROVE  c \in UNION columns
  <2>1. <<a, b>> \in pairs
    BY <1>2
  <2>2. {<<(<<a, b>>)[1][1], y>> : y \in (<<a, b>>)[1][2] .. (<<a, b>>)[2][2]} \in columns
    BY <2>1
  <2>3. c[2] \in a[2] .. b[2] /\ c = <<a[1], c[2]>>
    BY <1>2
  <2>4. c \in {<<(<<a, b>>)[1][1], y>> : y \in (<<a, b>>)[1][2] .. (<<a, b>>)[2][2]}
    BY <2>3
  <2> HIDE DEF columns
  <2> QED BY <2>2, <2>4
<1>3. ASSUME c \in UNION columns
      PROVE  \E a, b \in outline : a[1] = c[1] /\ b[1] = c[1] /\ a[2] <= c[2] /\ c[2] <= b[2]
  <2>1. PICK e \in pairs : c \in {<<e[1][1], y>> : y \in e[1][2] .. e[2][2]}
    BY <1>3
  <2>2. PICK y \in e[1][2] .. e[2][2] : c = <<e[1][1], y>>
    BY <2>1
  <2>3. e[1] \in outline /\ e[2] \in outline /\ e[1][1] = e[2][1]
    OBVIOUS
  <2>4. c[1] = e[1][1] /\ c[2] = y /\ e[1][2] <= y /\ y <= e[2][2]
    BY <2>2, <2>3
  <2> QED BY <2>3, <2>4
<1> QED BY <1>1, <1>2, <1>3

(* Neither leaves the map when the corners do not.                         *)
LEMMA FillInMap ==
  ASSUME NEW w \in Nat \ {0}, NEW h \in Nat \ {0},
         NEW polygon \in Seq((0 .. w - 1) \X (0 .. h - 1)), Len(polygon) > 0
  PROVE  /\ polygonOutlineCells(polygon, w) \subseteq (0 .. w - 1) \X (0 .. h - 1)
         /\ convexFillCells(polygon, w) \subseteq (0 .. w - 1) \X (0 .. h - 1)
<1> DEFINE cells == (0 .. w - 1) \X (0 .. h - 1)
           outline == polygonOutlineCells(polygon, w)
<1>1. ASSUME NEW p \in cells, NEW q \in cells, NEW c \in Line(p, q) PROVE c \in cells
  <2>1. PICK i \in 0 .. LineLength(p, q) : c = LineCell(p, q, i)
    BY DEF Line
  <2>2. p \in Int \X Int /\ q \in Int \X Int
    OBVIOUS
  <2>3. c \in Int \X Int /\ Between(p[1], q[1], c[1]) /\ Between(p[2], q[2], c[2])
    BY <2>1, <2>2, LineInBox
  <2> QED BY <2>3 DEF Between
<1>2. outline \subseteq cells
  <2> SUFFICES ASSUME NEW c \in outline PROVE c \in cells
    OBVIOUS
  <2>1. \A i \in DOMAIN polygon : polygon[i] \in cells /\ After(polygon, i) \in cells
    BY EdgesOf
  <2>2. polygon \in Seq((0 .. w - 1) \X Int)
    OBVIOUS
  <2>3. PICK i \in DOMAIN polygon : c \in Line(polygon[i], After(polygon, i))
    BY <2>2, OutlineCells
  <2> HIDE DEF cells, outline
  <2> QED BY <1>1, <2>1, <2>3
<1>3. ASSUME NEW c \in convexFillCells(polygon, w) PROVE c \in cells
  <2> DEFINE pairs == {e \in outline \X outline : e[1][1] = e[2][1]}
  <2>1. PICK e \in pairs : c \in {<<e[1][1], y>> : y \in e[1][2] .. e[2][2]}
    BY DEF convexFillCells
  <2>2. PICK y \in e[1][2] .. e[2][2] : c = <<e[1][1], y>>
    BY <2>1
  <2>3. e[1] \in cells /\ e[2] \in cells
    BY <1>2
  <2>4. e[1][1] \in 0 .. w - 1 /\ e[1][2] \in 0 .. h - 1 /\ e[2][2] \in 0 .. h - 1
    BY <2>3
  <2> DEFINE x == e[1][1]  low == e[1][2]  high == e[2][2]
  <2> HIDE DEF x, low, high, pairs, outline
  <2>5. x \in 0 .. w - 1 /\ y \in 0 .. h - 1
    <3>1. x \in 0 .. w - 1 /\ low \in 0 .. h - 1 /\ high \in 0 .. h - 1 /\ y \in low .. high
      BY <2>2, <2>4, Zenon DEF x, low, high
    <3> QED BY ONLY <3>1, w \in Nat \ {0}, h \in Nat \ {0}
  <2>6. c = <<x, y>>
    BY <2>2, Zenon DEF x
  <2> QED BY <2>5, <2>6
<1> QED BY <1>2, <1>3


-----------------------------------------------------------------------------
(* Writing, and the costs by place *)

GridCells(w, h) == (0 .. w - 1) \X (0 .. h - 1)

IsWritten(new, w, h, V, map, S, value) ==
  /\ new \in [0 .. w * h - 1 -> V]
  /\ \A c \in GridCells(w, h) :
       new[CellIndex(c, w)] = IF c \in S THEN value ELSE map[CellIndex(c, w)]

LEMMA WrittenCells ==
  ASSUME NEW w \in Nat \ {0}, NEW h \in Nat \ {0}, NEW V, NEW map \in [0 .. w * h - 1 -> V],
         NEW S \in SUBSET GridCells(w, h), NEW value \in V,
         NEW new, new = Written(map, {CellIndex(c, w) : c \in S}, value)
  PROVE  IsWritten(new, w, h, V, map, S, value)
<1> DEFINE indices == {CellIndex(c, w) : c \in S}
<1>1. \A c \in GridCells(w, h) : CellIndex(c, w) \in 0 .. w * h - 1
  BY IndexOfCell DEF GridCells
<1>2. indices \subseteq 0 .. w * h - 1
  BY <1>1
<1>3. new = [i \in 0 .. w * h - 1 |-> IF i \in indices THEN value ELSE map[i]]
  <2>1. DOMAIN map \cup indices = 0 .. w * h - 1
    BY <1>2
  <2> HIDE DEF indices
  <2>2. new = Written(map, indices, value)
    BY DEF indices
  <2> QED BY <2>1, <2>2 DEF Written
<1>4. new \in [0 .. w * h - 1 -> V]
  <2> HIDE DEF indices
  <2> QED BY <1>3
<1>5. ASSUME NEW c \in GridCells(w, h) PROVE CellIndex(c, w) \in indices <=> c \in S
  <2>1. ASSUME NEW d \in S, CellIndex(c, w) = CellIndex(d, w) PROVE c = d
    <3>1. c \in (0 .. w - 1) \X Int /\ d \in (0 .. w - 1) \X Int
      BY DEF GridCells
    <3> QED BY <2>1, <3>1, IndexInjective
  <2> QED BY <2>1
<1> HIDE DEF indices
<1> QED BY <1>1, <1>3, <1>4, <1>5 DEF IsWritten

CellPlace(c, o) == <<o[1] + c[1] * resolution, o[2] + c[2] * resolution>>

Places(o, w, h) == {CellPlace(c, o) : c \in GridCells(w, h)}

(* As WorldCost.                                                           *)
GridCost(o, w, h, map) ==
  [v \in Places(o, w, h) |->
     map[CellIndex(<<(v[1] - o[1]) \div resolution, (v[2] - o[2]) \div resolution>>, w)]]

LEMMA WorldCostIsGridCost ==
  /\ WorldCost = GridCost(origin, size_x, size_y, costmap)
  /\ WorldCost' = GridCost(origin', size_x', size_y', costmap')
<1>1. WorldCost = GridCost(origin, size_x, size_y, costmap)
  BY DEF WorldCost, WorldOf, MapCells, getIndex, worldToMap, GridCost, Places, GridCells, CellPlace
<1>2. WorldCost' = GridCost(origin', size_x', size_y', costmap')
  BY DEF WorldCost, WorldOf, MapCells, getIndex, worldToMap, GridCost, Places, GridCells, CellPlace
<1> QED BY <1>1, <1>2

LEMMA PlaceOfCell ==
  ASSUME NEW o \in Int \X Int, NEW c \in Int \X Int
  PROVE  /\ CellPlace(c, o) \in Int \X Int
         /\ <<(CellPlace(c, o)[1] - o[1]) \div resolution, (CellPlace(c, o)[2] - o[2]) \div resolution>> = c
         /\ \A d \in Int \X Int : CellPlace(c, o) = CellPlace(d, o) => c = d
<1>1. resolution \in Nat \ {0}
  BY Costmap2DAssumption
<1>2. ASSUME NEW d \in Int \X Int
      PROVE  /\ CellPlace(d, o) \in Int \X Int
             /\ <<(CellPlace(d, o)[1] - o[1]) \div resolution, (CellPlace(d, o)[2] - o[2]) \div resolution>> = d
  <2>1. d[1] \in Int /\ d[2] \in Int /\ o[1] \in Int /\ o[2] \in Int /\ d = <<d[1], d[2]>>
    OBVIOUS
  <2>2. /\ o[1] + d[1] * resolution \in Int /\ ((o[1] + d[1] * resolution) - o[1]) \div resolution = d[1]
        /\ o[2] + d[2] * resolution \in Int /\ ((o[2] + d[2] * resolution) - o[2]) \div resolution = d[2]
    BY <1>1, <2>1, CornerOfCell
  <2>3. CellPlace(d, o)[1] = o[1] + d[1] * resolution /\ CellPlace(d, o)[2] = o[2] + d[2] * resolution
    BY DEF CellPlace
  <2> QED BY <2>1, <2>2, <2>3 DEF CellPlace
<1> QED BY <1>2

(* The cost at the place of a cell is that of the cell.                    *)
LEMMA CostAtPlace ==
  ASSUME NEW o \in Int \X Int, NEW w \in Nat \ {0}, NEW h \in Nat \ {0}, NEW map
  PROVE  /\ DOMAIN GridCost(o, w, h, map) = Places(o, w, h)
         /\ GridCost(o, w, h, map) = [v \in Places(o, w, h) |-> GridCost(o, w, h, map)[v]]
         /\ \A c \in GridCells(w, h) :
              CellPlace(c, o) \in Places(o, w, h) /\ GridCost(o, w, h, map)[CellPlace(c, o)] = map[CellIndex(c, w)]
<1>1. ASSUME NEW c \in GridCells(w, h)
      PROVE  CellPlace(c, o) \in Places(o, w, h) /\ GridCost(o, w, h, map)[CellPlace(c, o)] = map[CellIndex(c, w)]
  <2>1. CellPlace(c, o) \in Places(o, w, h)
    BY DEF Places
  <2>2. c \in Int \X Int
    BY DEF GridCells
  <2>3. <<(CellPlace(c, o)[1] - o[1]) \div resolution, (CellPlace(c, o)[2] - o[2]) \div resolution>> = c
    BY <2>2, PlaceOfCell
  <2> QED BY <2>1, <2>3 DEF GridCost
<1>2. DOMAIN GridCost(o, w, h, map) = Places(o, w, h)
      /\ GridCost(o, w, h, map) = [v \in Places(o, w, h) |-> GridCost(o, w, h, map)[v]]
  BY DEF GridCost
<1> QED BY <1>1, <1>2

CostsByPlace(f, o, w, h, map) ==
  /\ f = [v \in Places(o, w, h) |-> f[v]]
  /\ \A c \in GridCells(w, h) : f[CellPlace(c, o)] = map[CellIndex(c, w)]

(* A function on the places is the costs of the grid if it is so cell by   *)
(* cell.                                                                   *)
LEMMA SameCosts ==
  ASSUME NEW o \in Int \X Int, NEW w \in Nat \ {0}, NEW h \in Nat \ {0}, NEW map, NEW f,
         CostsByPlace(f, o, w, h, map)
  PROVE  GridCost(o, w, h, map) = f
<1> DEFINE g == GridCost(o, w, h, map)
<1>1. g = [v \in Places(o, w, h) |-> g[v]]
  BY CostAtPlace
<1>2. ASSUME NEW v \in Places(o, w, h) PROVE g[v] = f[v]
  <2>1. PICK c \in GridCells(w, h) : v = CellPlace(c, o)
    BY DEF Places
  <2> QED BY <2>1, CostAtPlace DEF CostsByPlace
<1> HIDE DEF g
<1>3. g = f
  BY <1>1, <1>2 DEF CostsByPlace
<1> QED BY <1>3 DEF g


-----------------------------------------------------------------------------
(* The calls, each as a request to the grid of the world *)

(* What all calls that write costs do: v to the cells of S.                *)
IsWrite(S, v) ==
  /\ S \subseteq MapCells /\ v \in Cost
  /\ costmap' = Written(costmap, {getIndex(c) : c \in S}, v)
  /\ UNCHANGED <<size_x, size_y, origin>>
  /\ calls < MaxCalls /\ calls' = calls + 1
  /\ Request' = [do |-> "write", value |-> v, cells |-> {WorldOf(c) : c \in S}]

LEMMA AWrite ==
  ASSUME TypeOK, NEW S, NEW v, IsWrite(S, v)
  PROVE  TypeOK' /\ World!Write
<1> DEFINE w == size_x  h == size_y  o == origin
           old == GridCost(o, w, h, costmap)
           f == [d \in Places(o, w, h) |-> IF d \in {CellPlace(c, o) : c \in S} THEN v ELSE old[d]]
<1>1. /\ w \in Nat \ {0} /\ h \in Nat \ {0} /\ o \in Int \X Int /\ costmap \in [0 .. w * h - 1 -> Cost]
      /\ S \in SUBSET GridCells(w, h) /\ v \in Cost
  BY DEF TypeOK, Indices, IsWrite, MapCells, GridCells
<1>2. costmap' = Written(costmap, {CellIndex(c, w) : c \in S}, v)
  BY DEF IsWrite, getIndex
<1> HIDE DEF w, h, o
<1>3. /\ costmap' \in [0 .. w * h - 1 -> Cost]
      /\ \A c \in GridCells(w, h) :
           costmap'[CellIndex(c, w)] = IF c \in S THEN v ELSE costmap[CellIndex(c, w)]
  <2>1. IsWritten(costmap', w, h, Cost, costmap, S, v)
    BY <1>1, <1>2, WrittenCells
  <2> QED BY <2>1 DEF IsWritten
<1>4. TypeOK'
  <2>1. calls' \in 0 .. MaxCalls
    BY Costmap2DAssumption DEF TypeOK, IsWrite
  <2> QED BY <1>1, <1>3, <2>1 DEF TypeOK, Indices, IsWrite, w, h, o
<1>5. ASSUME NEW c \in GridCells(w, h) PROVE f[CellPlace(c, o)] = costmap'[CellIndex(c, w)]
  <2>1. CellPlace(c, o) \in Places(o, w, h) /\ old[CellPlace(c, o)] = costmap[CellIndex(c, w)]
    BY <1>1, CostAtPlace
  <2>2. CellPlace(c, o) \in {CellPlace(d, o) : d \in S} <=> c \in S
    <3>1. c \in Int \X Int /\ \A d \in S : d \in Int \X Int
      BY <1>1 DEF GridCells
    <3>2. \A d \in S : CellPlace(c, o) = CellPlace(d, o) => c = d
      BY <1>1, <3>1, PlaceOfCell
    <3> QED BY <3>2
  <2> HIDE DEF old
  <2> QED BY <1>3, <2>1, <2>2
<1>6. GridCost(o, w, h, costmap') = f
  <2>1. f = [d \in Places(o, w, h) |-> f[d]]
    OBVIOUS
  <2> HIDE DEF f
  <2>2. CostsByPlace(f, o, w, h, costmap')
    BY <1>5, <2>1 DEF CostsByPlace
  <2> QED BY <1>1, <2>2, SameCosts
<1>7. WorldCost = old /\ WorldCost' = f /\ DOMAIN old = Places(o, w, h)
  <2> HIDE DEF f
  <2>1. origin' = o /\ size_x' = w /\ size_y' = h
    BY DEF IsWrite, o, w, h
  <2>2. WorldCost = old
    BY WorldCostIsGridCost DEF o, w, h
  <2>3. WorldCost' = f
    BY <1>6, <2>1, WorldCostIsGridCost
  <2> QED BY <1>1, <2>2, <2>3, CostAtPlace
<1>8. {WorldOf(c) : c \in S} = {CellPlace(c, o) : c \in S}
  BY DEF WorldOf, CellPlace, o
<1>9. Request'.do = "write" /\ Request'.value = v /\ Request'.cells = {CellPlace(c, o) : c \in S}
  BY <1>8 DEF IsWrite
<1>10. World!Write
  <2> HIDE DEF old
  <2> QED BY <1>7, <1>9 DEF World!Write, World!window
<1> QED BY <1>4, <1>10


LEMMA SetCost ==
  ASSUME TypeOK, NEW m \in Marks, setCost(m.index, m.cost)
  PROVE  TypeOK' /\ World!Write
<1> DEFINE S == {indexToCells(m.index, size_x)}
<1>1. size_x \in Nat \ {0} /\ size_y \in Nat \ {0} /\ m.index \in 0 .. size_x * size_y - 1 /\ m.cost \in Cost
  BY Costmap2DAssumption DEF TypeOK, setCost, Indices
<1>2. indexToCells(m.index, size_x) \in MapCells /\ getIndex(indexToCells(m.index, size_x)) = m.index
  <2>1. PICK c \in (0 .. size_x - 1) \X (0 .. size_y - 1) : CellIndex(c, size_x) = m.index
    BY <1>1, CellOfIndex
  <2>2. PICK x \in 0 .. size_x - 1, y \in 0 .. size_y - 1 : c = <<x, y>>
    BY <2>1
  <2>3. indexToCells(m.index, size_x) = c
    BY <1>1, <2>1, <2>2, CellAt
  <2> QED BY <2>1, <2>3 DEF MapCells, getIndex
<1>3. costmap' = Written(costmap, {getIndex(c) : c \in S}, m.cost)
  <2>1. {getIndex(c) : c \in S} = {m.index}
    BY <1>2
  <2>2. costmap = [i \in Indices |-> costmap[i]] /\ Indices \cup {m.index} = Indices /\ DOMAIN costmap = Indices
    BY DEF TypeOK, setCost
  <2>3. costmap' = [i \in Indices |-> IF i = m.index THEN m.cost ELSE costmap[i]]
    BY <2>2 DEF setCost
  <2> QED BY <2>1, <2>2, <2>3 DEF Written
<1>4. IsWrite(S, m.cost)
  <2>1. call' = [op |-> "setCost", cells |-> S, value |-> m.cost]
    BY DEF setCost, Called
  <2>2. {WorldOf(c) : c \in S}' = {WorldOf(c) : c \in S}
    BY DEF setCost, WorldOf
  <2>3. Request' = [do |-> "write", value |-> m.cost, cells |-> {WorldOf(c) : c \in S}]
    <3> HIDE DEF S
    <3>1. call'.op = "setCost" /\ call'.value = m.cost /\ call'.cells = S
      BY <2>1
    <3>2. {WorldOf(c) : c \in call.cells}' = {WorldOf(c) : c \in S}
      BY <3>1 DEF setCost, WorldOf
    <3> QED BY <3>1, <3>2 DEF Request
  <2> QED BY <1>1, <1>2, <1>3, <2>3 DEF IsWrite, setCost, Called
<1> QED BY <1>4, AWrite

LEMMA ResetMap ==
  ASSUME TypeOK, NEW a \in Areas, resetMap(a)
  PROVE  TypeOK' /\ World!Write
<1> DEFINE S == (a.x0 .. a.xn - 1) \X (a.y0 .. a.yn - 1)
           rows == {y .. y + (a.xn - a.x0) - 1 : y \in RowStarts(a)}
<1>1. /\ size_x \in Nat \ {0} /\ size_y \in Nat \ {0}
      /\ a.x0 \in Nat /\ a.y0 \in Nat /\ a.xn \in Nat /\ a.yn \in Nat
      /\ a.x0 <= a.xn /\ a.y0 <= a.yn /\ a.xn <= size_x /\ a.yn <= size_y
  BY Costmap2DAssumption DEF TypeOK, resetMap
<1>2. S \subseteq MapCells
  BY <1>1 DEF MapCells
<1>3. UNION rows = {getIndex(c) : c \in S}
  <2>1. ASSUME NEW c \in S PROVE getIndex(c) \in UNION rows
    <3>1. c[2] \in a.y0 .. a.yn - 1 /\ c[1] \in a.x0 .. a.xn - 1 /\ c[2] * size_x \in Int
      BY <1>1
    <3> DEFINE y == c[2] * size_x + a.x0
    <3>2. y \in RowStarts(a)
      BY <3>1 DEF RowStarts
    <3>3. getIndex(c) \in y .. y + (a.xn - a.x0) - 1
      BY <1>1, <3>1 DEF getIndex, CellIndex
    <3> HIDE DEF y
    <3>4. y .. y + (a.xn - a.x0) - 1 \in rows
      BY <3>2
    <3> HIDE DEF rows
    <3> QED BY <3>3, <3>4
  <2>2. ASSUME NEW i \in UNION rows PROVE i \in {getIndex(c) : c \in S}
    <3>1. PICK s \in RowStarts(a) : i \in s .. s + (a.xn - a.x0) - 1
      OBVIOUS
    <3>2. PICK y \in a.y0 .. a.yn - 1 : s = y * size_x + a.x0
      BY <3>1 DEF RowStarts
    <3>3. y * size_x \in Int
      BY <1>1
    <3> DEFINE x == i - y * size_x
    <3>4. x \in a.x0 .. a.xn - 1 /\ i = y * size_x + x
      BY <1>1, <3>1, <3>2, <3>3
    <3> HIDE DEF x
    <3>5. <<x, y>> \in S /\ getIndex(<<x, y>>) = i
      BY <3>4 DEF getIndex, CellIndex
    <3> HIDE DEF S
    <3> QED BY <3>5
  <2> HIDE DEF S, rows
  <2> QED BY <2>1, <2>2
<1>4. IsWrite(S, default_value)
  <2>1. call' = [op |-> "resetMap", value |-> default_value, cells |-> S]
    BY DEF resetMap, Called
  <2>2. Request' = [do |-> "write", value |-> default_value, cells |-> {WorldOf(c) : c \in S}]
    <3> HIDE DEF S
    <3>1. call'.op = "resetMap" /\ call'.value = default_value /\ call'.cells = S
      BY <2>1
    <3>2. {WorldOf(c) : c \in call.cells}' = {WorldOf(c) : c \in S}
      BY <3>1 DEF resetMap, WorldOf
    <3> QED BY <3>1, <3>2 DEF Request
  <2>3. costmap' = Written(costmap, UNION rows, default_value)
    BY DEF resetMap
  <2> HIDE DEF S, rows
  <2> QED BY <1>2, <1>3, <2>2, <2>3, Costmap2DAssumption DEF IsWrite, resetMap, Called
<1> QED BY <1>4, AWrite


LEMMA InAxis ==
  ASSUME NEW r \in Nat \ {0}, NEW n \in Nat, NEW o \in Int, NEW w \in Int
  PROVE  /\ (w - o) \div r \in Int
         /\ (o <= w /\ w < o + n * r) <=> (w - o) \div r \in 0 .. n - 1
<1> DEFINE x == (w - o) \div r
<1>1. x \in Int /\ x * r \in Int /\ o + x * r <= w /\ w < o + x * r + r
  <2>1. x \in Int
    BY CellOfPoint
  <2> HIDE DEF x
  <2>2. x * r \in Int
    BY <2>1
  <2> QED BY <2>1, <2>2, CellOfPoint DEF x
<1> HIDE DEF x
<1>2. n * r \in Int
  OBVIOUS
<1>3. ASSUME o <= w, w < o + n * r PROVE x \in 0 .. n - 1
  <2>1. ~ (x <= -1)
    <3> SUFFICES ASSUME x <= -1 PROVE FALSE
      OBVIOUS
    <3>1. x * r <= (-1) * r
      BY <1>1, TimesMonotone
    <3> QED BY <1>1, <1>3, <3>1
  <2>2. ~ (n <= x)
    <3> SUFFICES ASSUME n <= x PROVE FALSE
      OBVIOUS
    <3>1. n * r <= x * r
      BY <1>1, TimesMonotone
    <3> QED BY <1>1, <1>2, <1>3, <3>1
  <2> QED BY <1>1, <2>1, <2>2
<1>4. ASSUME x \in 0 .. n - 1 PROVE o <= w /\ w < o + n * r
  <2>1. 0 * r <= x * r
    BY <1>1, <1>4, TimesMonotone
  <2>2. (x + 1) * r <= n * r
    BY <1>1, <1>4, TimesMonotone
  <2>3. (x + 1) * r = x * r + r
    BY <1>1
  <2> QED BY <1>1, <1>2, <2>1, <2>2, <2>3
<1>5. x \in Int /\ ((o <= w /\ w < o + n * r) <=> x \in 0 .. n - 1)
  BY <1>1, <1>3, <1>4
<1> QED BY <1>5 DEF x

(* A point is in the map if its cell is.                                   *)
LEMMA InMapCell ==
  ASSUME TypeOK, NEW w \in Int \X Int
  PROVE  /\ worldToMap(w) \in Int \X Int
         /\ InMap(w) <=> worldToMap(w) \in MapCells
<1>1. /\ w[1] \in Int /\ w[2] \in Int /\ origin[1] \in Int /\ origin[2] \in Int
      /\ size_x \in Nat /\ size_y \in Nat /\ resolution \in Nat \ {0}
  BY Costmap2DAssumption DEF TypeOK
<1> DEFINE x == (w[1] - origin[1]) \div resolution
           y == (w[2] - origin[2]) \div resolution
<1>2. x \in Int /\ ((origin[1] <= w[1] /\ w[1] < origin[1] + size_x * resolution) <=> x \in 0 .. size_x - 1)
  BY <1>1, InAxis
<1>3. y \in Int /\ ((origin[2] <= w[2] /\ w[2] < origin[2] + size_y * resolution) <=> y \in 0 .. size_y - 1)
  BY <1>1, InAxis
<1>4. worldToMap(w) = <<x, y>>
  BY DEF worldToMap
<1> HIDE DEF x, y
<1>5. worldToMap(w) \in MapCells <=> x \in 0 .. size_x - 1 /\ y \in 0 .. size_y - 1
  BY <1>4 DEF MapCells
<1> QED BY <1>2, <1>3, <1>4, <1>5 DEF InMap

(* The corners of a polygon that is not refused are cells of the map.      *)
LEMMA CornersInMap ==
  ASSUME TypeOK, NEW polygon \in Seq(Int \X Int), Len(polygon) > 0
  PROVE  /\ CellsOf(polygon) \in Seq(Int \X Int) /\ Len(CellsOf(polygon)) = Len(polygon)
         /\ ~ Refused(polygon) => CellsOf(polygon) \in Seq(MapCells)
<1>1. DOMAIN polygon = 1 .. Len(polygon) /\ Len(polygon) \in Nat /\ \A i \in DOMAIN polygon : polygon[i] \in Int \X Int
  OBVIOUS
<1>2. CellsOf(polygon) = [i \in 1 .. Len(polygon) |-> worldToMap(polygon[i])]
  BY <1>1 DEF CellsOf
<1>3. \A i \in 1 .. Len(polygon) : worldToMap(polygon[i]) \in Int \X Int
  BY <1>1, InMapCell
<1>4. CellsOf(polygon) \in Seq(Int \X Int) /\ Len(CellsOf(polygon)) = Len(polygon)
  BY <1>1, <1>2, <1>3
<1>5. ASSUME ~ Refused(polygon) PROVE CellsOf(polygon) \in Seq(MapCells)
  <2>1. \A i \in 1 .. Len(polygon) : InMap(polygon[i])
    BY <1>1, <1>5 DEF Refused, Range
  <2>2. \A i \in 1 .. Len(polygon) : worldToMap(polygon[i]) \in MapCells
    BY <1>1, <2>1, InMapCell
  <2> QED BY <1>1, <1>2, <2>2
<1> QED BY <1>4, <1>5

LEMMA SetConvexPolygonCost ==
  ASSUME TypeOK, NEW polygon \in Polygons, NEW cost \in FillCosts, setConvexPolygonCost(polygon, cost)
  PROVE  TypeOK' /\ World!Write
<1> DEFINE S == IF Refused(polygon) THEN {} ELSE convexFillCells(CellsOf(polygon), size_x)
<1>1. /\ size_x \in Nat \ {0} /\ size_y \in Nat \ {0} /\ cost \in Cost
      /\ polygon \in Seq(Int \X Int) /\ Len(polygon) > 0
  <2>1. polygon \in Seq(Int \X Int) /\ Len(polygon) >= 2 /\ Len(polygon) \in Nat
    BY Costmap2DAssumption
  <2> QED BY <2>1, Costmap2DAssumption DEF TypeOK
<1>2. S \subseteq MapCells
  <2>1. CASE Refused(polygon)
    BY <2>1
  <2>2. CASE ~ Refused(polygon)
    <3> DEFINE corners == CellsOf(polygon)
    <3>1. corners \in Seq((0 .. size_x - 1) \X (0 .. size_y - 1)) /\ Len(corners) > 0
      BY <1>1, <2>2, CornersInMap DEF MapCells
    <3> HIDE DEF corners
    <3>2. convexFillCells(corners, size_x) \subseteq MapCells
      BY <1>1, <3>1, FillInMap DEF MapCells
    <3> QED BY <2>2, <3>2 DEF corners
  <2> QED BY <2>1, <2>2
<1>3. call' = [op |-> "setConvexPolygonCost", polygon |-> polygon, cells |-> S, value |-> cost]
  BY DEF setConvexPolygonCost, Called
<1>4. costmap' = Written(costmap, {getIndex(c) : c \in S}, cost)
  BY DEF setConvexPolygonCost
<1> HIDE DEF S
<1>5. IsWrite(S, cost)
  <2>1. Request' = [do |-> "write", value |-> cost, cells |-> {WorldOf(c) : c \in S}]
    <3>1. call'.op = "setConvexPolygonCost" /\ call'.value = cost /\ call'.cells = S
      BY <1>3
    <3>2. {WorldOf(c) : c \in call.cells}' = {WorldOf(c) : c \in S}
      BY <3>1 DEF setConvexPolygonCost, WorldOf
    <3> QED BY <3>1, <3>2 DEF Request
  <2> QED BY <1>1, <1>2, <1>4, <2>1 DEF IsWrite, setConvexPolygonCost, Called
<1> QED BY <1>5, AWrite

LEMMA ClearLayerRegion ==
  ASSUME TypeOK, NEW position, NEW d, NEW invert, clearLayerRegion(position, d, invert)
  PROVE  TypeOK' /\ World!Write
<1> DEFINE start == <<position[1] - d \div 2, position[2] - d \div 2>>
           end   == <<start[1] + d, start[2] + d>>
           S     == ClearedCells(EnforcedCell(start), EnforcedCell(end), invert)
<1>1. S \subseteq MapCells
  BY DEF ClearedCells
<1>2. call' = [op |-> "clearLayerRegion", start |-> start, end |-> end,
               invert |-> invert, cells |-> S, value |-> NO_INFORMATION]
  BY DEF clearLayerRegion, Called
<1>3. costmap' = Written(costmap, {getIndex(c) : c \in S}, NO_INFORMATION)
  BY DEF clearLayerRegion
<1> HIDE DEF S, start, end
<1>4. IsWrite(S, NO_INFORMATION)
  <2>1. Request' = [do |-> "write", value |-> NO_INFORMATION, cells |-> {WorldOf(c) : c \in S}]
    <3>1. call'.op = "clearLayerRegion" /\ call'.value = NO_INFORMATION /\ call'.cells = S
      BY <1>2
    <3>2. {WorldOf(c) : c \in call.cells}' = {WorldOf(c) : c \in S}
      BY <3>1 DEF clearLayerRegion, WorldOf
    <3> QED BY <3>1, <3>2 DEF Request
  <2>2. NO_INFORMATION \in Cost
    BY DEF NO_INFORMATION, Cost
  <2> QED BY <1>1, <1>3, <2>1, <2>2 DEF IsWrite, clearLayerRegion, Called
<1> QED BY <1>4, AWrite


LEMMA ResizeMap ==
  ASSUME TypeOK, NEW s \in Sizes, NEW o \in Corners, resizeMap(s, o)
  PROVE  TypeOK' /\ World!Replace
<1>1. s[1] \in Nat \ {0} /\ s[2] \in Nat \ {0} /\ o \in Int \X Int /\ default_value \in Cost
  BY Costmap2DAssumption
<1>2. /\ size_x' = s[1] /\ size_y' = s[2] /\ origin' = o
      /\ costmap' = [i \in 0 .. s[1] * s[2] - 1 |-> default_value]
      /\ call' = [op |-> "resizeMap"] /\ calls < MaxCalls /\ calls' = calls + 1
  BY DEF resizeMap, resetMaps, Called
<1> DEFINE w == s[1]  h == s[2]
           blank == [i \in 0 .. w * h - 1 |-> default_value]
           f == [v \in Places(o, w, h) |-> default_value]
<1>3. TypeOK'
  <2>1. calls' \in 0 .. MaxCalls
    BY <1>2, Costmap2DAssumption DEF TypeOK
  <2> QED BY <1>1, <1>2, <2>1 DEF TypeOK, Indices
<1>4. WorldCost' = GridCost(o, w, h, blank)
  BY <1>2, WorldCostIsGridCost
<1>5. GridCost(o, w, h, blank) = f
  <2>1. ASSUME NEW c \in GridCells(w, h) PROVE f[CellPlace(c, o)] = blank[CellIndex(c, w)]
    BY <1>1, IndexOfCell DEF Places, GridCells
  <2>2. f = [v \in Places(o, w, h) |-> f[v]]
    OBVIOUS
  <2> HIDE DEF f, blank, w, h
  <2>3. CostsByPlace(f, o, w, h, blank)
    BY <2>1, <2>2 DEF CostsByPlace
  <2>4. w \in Nat \ {0} /\ h \in Nat \ {0}
    BY <1>1 DEF w, h
  <2> QED BY <1>1, <2>3, <2>4, SameCosts
<1>6. Request'.do = "replace"
  BY <1>2 DEF Request
<1> QED BY <1>3, <1>4, <1>5, <1>6 DEF World!Replace, World!AllBlank, World!window

LEMMA UpdateOrigin ==
  ASSUME TypeOK, NEW by \in Moves, updateOrigin(by)
  PROVE  TypeOK' /\ World!Move
<1> DEFINE w == size_x  h == size_y
           m == <<CellsMoved(by[1]), CellsMoved(by[2])>>
           dx == m[1] * resolution  dy == m[2] * resolution
           ll == <<Clamp(m[1], w), Clamp(m[2], h)>>
           nx == Clamp(m[1] + w, w) - ll[1]
           ny == Clamp(m[2] + h, h) - ll[2]
           st == <<ll[1] - m[1], ll[2] - m[2]>>
           local == copyMapRegion(costmap, ll, w, << >>, <<0, 0>>, nx, nx, ny)
           blank == resetMaps(w * h)
           new == <<origin[1] + dx, origin[2] + dy>>
           old == GridCost(origin, w, h, costmap)
<1>1. /\ w \in Nat \ {0} /\ h \in Nat \ {0} /\ origin \in Int \X Int /\ costmap \in [0 .. w * h - 1 -> Cost]
      /\ by \in Int \X Int /\ resolution \in Nat \ {0} /\ default_value \in Cost
  BY Costmap2DAssumption DEF TypeOK, Indices
<1>2. /\ m \in Int \X Int /\ dx \in Int /\ dy \in Int
      /\ dx \in World!About(by[1]) /\ dy \in World!About(by[2])
      /\ dx % resolution = 0 /\ dy % resolution = 0
  <2>1. ASSUME NEW b \in Int
        PROVE  /\ CellsMoved(b) \in Int /\ CellsMoved(b) * resolution \in Int
               /\ CellsMoved(b) * resolution \in World!About(b)
               /\ (CellsMoved(b) * resolution) % resolution = 0
    <3> DEFINE k == CellsMoved(b)
    <3>1. k \in Int /\ b + 1 - resolution <= k * resolution /\ k * resolution <= b - 1 + resolution
      BY WholeCells
    <3> HIDE DEF k
    <3>2. k * resolution \in Int /\ k * resolution + 0 = k * resolution
      BY <1>1, <3>1
    <3>3. (k * resolution + 0) % resolution = 0
      <4>1. 0 \in 0 .. resolution - 1
        BY <1>1
      <4> QED BY <1>1, <3>1, <4>1, DivisionOf
    <3> QED BY <1>1, <3>1, <3>2, <3>3 DEF k, World!About
  <2> QED BY <1>1, <2>1
<1>3. /\ origin' = new /\ size_x' = w /\ size_y' = h
      /\ costmap' = copyMapRegion(local, <<0, 0>>, nx, blank, st, w, nx, ny)
      /\ calls < MaxCalls /\ calls' = calls + 1
      /\ call' = [op |-> "updateOrigin", by |-> by]
  BY DEF updateOrigin, Called
<1>4. DOMAIN blank = 0 .. w * h - 1 /\ \A i \in 0 .. w * h - 1 : blank[i] = default_value
  BY DEF resetMaps
<1>5. /\ ll = <<Clamp(m[1], w), Clamp(m[2], h)>>
      /\ nx = Clamp(m[1] + w, w) - ll[1] /\ ny = Clamp(m[2] + h, h) - ll[2]
      /\ st = <<ll[1] - m[1], ll[2] - m[2]>>
      /\ local = copyMapRegion(costmap, ll, w, << >>, <<0, 0>>, nx, nx, ny)
  OBVIOUS
<1> HIDE DEF w, h, m, ll, nx, ny, st, local, blank
<1>5a. /\ w \in Nat \ {0} /\ h \in Nat \ {0} /\ m[1] \in Int /\ m[2] \in Int /\ dx \in Int /\ dy \in Int
       /\ origin[1] \in Int /\ origin[2] \in Int
       /\ \A c \in GridCells(w, h) : c \in Int \X Int /\ c[1] \in Int /\ c[2] \in Int
  <2>1. \A c \in GridCells(w, h) : c \in Int \X Int /\ c[1] \in Int /\ c[2] \in Int
    BY <1>1 DEF GridCells
  <2>2. m[1] \in Int /\ m[2] \in Int
    BY <1>2
  <2> QED BY <1>1, <1>2, <2>1, <2>2
<1>6. HasMoved(costmap', costmap, blank, m, w, h)
  <2>1. w \in Nat \ {0} /\ h \in Nat \ {0} /\ m \in Int \X Int
    BY <1>1, <1>2
  <2>2. costmap' = copyMapRegion(local, <<0, 0>>, nx, blank, st, w, nx, ny)
    BY <1>3, Zenon
  <2>3. DOMAIN blank = 0 .. w * h - 1
    BY <1>4, Zenon
  <2>4. CopiedTwice(costmap', costmap, blank, m, w, h, ll, nx, ny, st, local)
    BY <1>5, <2>2, Zenon DEF CopiedTwice
  <2> QED BY <2>1, <2>3, <2>4, MovedMap, Zenon
<1>7. ASSUME NEW c \in GridCells(w, h)
      PROVE  costmap'[CellIndex(c, w)] = IF Shifted(c, m) \in GridCells(w, h)
                                         THEN costmap[CellIndex(Shifted(c, m), w)]
                                         ELSE default_value
  <2>1. CellIndex(c, w) \in 0 .. w * h - 1
    BY <1>1, IndexOfCell DEF GridCells
  <2> QED BY <1>4, <1>6, <2>1 DEF HasMoved, GridCells
<1>8. costmap' \in [0 .. w * h - 1 -> Cost]
  <2>1. ASSUME NEW i \in 0 .. w * h - 1 PROVE costmap'[i] \in Cost
    <3>1. PICK c \in GridCells(w, h) : CellIndex(c, w) = i
      <4>1. \E c \in (0 .. w - 1) \X (0 .. h - 1) : CellIndex(c, w) = i
        <5>1. w \in Nat \ {0} /\ h \in Nat \ {0}
          BY <1>1
        <5> QED BY ONLY <5>1, i \in 0 .. w * h - 1, CellOfIndex
      <4> QED BY <4>1 DEF GridCells
    <3>2. ASSUME Shifted(c, m) \in GridCells(w, h) PROVE costmap[CellIndex(Shifted(c, m), w)] \in Cost
      BY <1>1, <3>2, IndexOfCell DEF GridCells
    <3> QED BY <1>1, <1>7, <3>1, <3>2
  <2> QED BY <1>6, <2>1 DEF HasMoved
<1>9. new \in Int \X Int
  <2> HIDE DEF dx, dy
  <2> QED BY <1>5a
<1>10. TypeOK'
  <2>1. calls' \in 0 .. MaxCalls
    BY <1>3, Costmap2DAssumption DEF TypeOK
  <2> HIDE DEF new
  <2> QED BY <1>1, <1>3, <1>8, <1>9, <2>1 DEF TypeOK, Indices
<1> DEFINE window == Places(origin, w, h)
           moved(d) == <<d[1] + dx, d[2] + dy>>
           f == [v \in {moved(d) : d \in window} |-> IF v \in window THEN old[v] ELSE default_value]
<1>11. ASSUME NEW c \in Int \X Int
       PROVE  CellPlace(c, new) = moved(CellPlace(c, origin)) /\ CellPlace(c, new) = CellPlace(Shifted(c, m), origin)
  <2>1. c[1] \in Int /\ c[2] \in Int /\ m[1] \in Int /\ m[2] \in Int /\ origin[1] \in Int /\ origin[2] \in Int
    BY <1>5a
  <2>2. /\ (c[1] + m[1]) * resolution = c[1] * resolution + dx /\ c[1] * resolution \in Int
        /\ (c[2] + m[2]) * resolution = c[2] * resolution + dy /\ c[2] * resolution \in Int
    <3>1. \A a, b \in Int : (a + b) * resolution = a * resolution + b * resolution /\ a * resolution \in Int
      BY Costmap2DAssumption
    <3> QED BY <2>1, <3>1
  <2>3. /\ CellPlace(c, new) = <<origin[1] + dx + c[1] * resolution, origin[2] + dy + c[2] * resolution>>
        /\ moved(CellPlace(c, origin)) = <<origin[1] + c[1] * resolution + dx, origin[2] + c[2] * resolution + dy>>
        /\ CellPlace(Shifted(c, m), origin) = <<origin[1] + (c[1] + m[1]) * resolution, origin[2] + (c[2] + m[2]) * resolution>>
    BY DEF CellPlace, Shifted
  <2> HIDE DEF dx, dy, moved, new
  <2> QED BY <1>2, <2>1, <2>2, <2>3
<1>12. Places(new, w, h) = {moved(d) : d \in window}
  <2>1. \A c \in GridCells(w, h) : CellPlace(c, new) = moved(CellPlace(c, origin))
    <3> HIDE DEF moved, new
    <3> QED BY <1>5a, <1>11
  <2> HIDE DEF moved, new
  <2>2. ASSUME NEW v \in Places(new, w, h) PROVE v \in {moved(d) : d \in window}
    <3>1. PICK c \in GridCells(w, h) : v = CellPlace(c, new)
      BY DEF Places
    <3> QED BY <2>1, <3>1 DEF Places
  <2>3. ASSUME NEW d \in window PROVE moved(d) \in Places(new, w, h)
    <3>1. PICK c \in GridCells(w, h) : d = CellPlace(c, origin)
      BY DEF Places
    <3> QED BY <2>1, <3>1 DEF Places
  <2> QED BY <2>2, <2>3
<1>13. ASSUME NEW c \in GridCells(w, h) PROVE f[CellPlace(c, new)] = costmap'[CellIndex(c, w)]
  <2> DEFINE e == Shifted(c, m)  v == CellPlace(c, new)
  <2>1. c \in Int \X Int /\ e \in Int \X Int
    BY <1>5a DEF Shifted
  <2>2. v \in {moved(d) : d \in window}
    BY <1>12 DEF Places
  <2>3. v = CellPlace(e, origin)
    BY <1>11, <2>1
  <2>4. v \in window <=> e \in GridCells(w, h)
    <3>1. ASSUME NEW b \in GridCells(w, h), v = CellPlace(b, origin) PROVE e = b
      <4>1. b \in Int \X Int
        BY DEF GridCells
      <4> HIDE DEF e, v
      <4> QED BY <1>1, <2>1, <2>3, <3>1, <4>1, PlaceOfCell
    <3> HIDE DEF e, v
    <3> QED BY <2>3, <3>1 DEF Places
  <2> HIDE DEF moved, new
  <2>5. f[v] = IF v \in window THEN old[v] ELSE default_value
    <3> HIDE DEF v
    <3> QED BY <2>2
  <2>6. e \in GridCells(w, h) => old[v] = costmap[CellIndex(e, w)]
    BY <1>1, <2>3, CostAtPlace
  <2> HIDE DEF f, old, window
  <2> QED BY <1>7, <2>4, <2>5, <2>6
<1>14. GridCost(new, w, h, costmap') = f
  <2>1. f = [v \in Places(new, w, h) |-> f[v]]
    <3> HIDE DEF new, moved
    <3> QED BY <1>12
  <2> HIDE DEF f, new
  <2>2. CostsByPlace(f, new, w, h, costmap')
    BY <1>13, <2>1 DEF CostsByPlace
  <2> QED BY <1>1, <1>9, <2>2, SameCosts
<1>15. WorldCost = old /\ WorldCost' = f /\ DOMAIN old = window
  <2> HIDE DEF f, new
  <2>1. WorldCost = old
    BY WorldCostIsGridCost DEF w, h
  <2>2. WorldCost' = f
    BY <1>3, <1>14, WorldCostIsGridCost
  <2> QED BY <1>1, <2>1, <2>2, CostAtPlace
<1>16. Request'.do = "move" /\ Request'.by = by
  <2>1. Request' = [do |-> "move", by |-> by]
    BY <1>3 DEF Request
  <2> QED BY <2>1
<1>17. World!Move
  <2> HIDE DEF old, window, dx, dy
  <2> QED BY <1>2, <1>15, <1>16 DEF World!Move, World!window
<1> QED BY <1>10, <1>17

LEMMA Unchanged ==
  ASSUME TypeOK, UNCHANGED <<size_x, size_y, origin, costmap>>
  PROVE  /\ calls < MaxCalls /\ calls' = calls + 1 => TypeOK'
         /\ UNCHANGED WorldCost
<1>1. ASSUME calls < MaxCalls, calls' = calls + 1 PROVE TypeOK'
  <2>1. calls' \in 0 .. MaxCalls
    BY <1>1, Costmap2DAssumption DEF TypeOK
  <2> QED BY <2>1 DEF TypeOK, Indices
<1>2. WorldCost' = WorldCost
  <2>1. GridCost(origin', size_x', size_y', costmap') = GridCost(origin, size_x, size_y, costmap)
    OBVIOUS
  <2> QED BY <2>1, WorldCostIsGridCost
<1> QED BY <1>1, <1>2

(* A call that only reads.                                                 *)
LEMMA ALook ==
  ASSUME TypeOK, UNCHANGED <<size_x, size_y, origin, costmap>>,
         calls < MaxCalls, calls' = calls + 1,
         call'.op \in {"footprintCost", "useExtraBounds", "clearRegion"}
  PROVE  TypeOK' /\ World!Look
<1>1. Request' = [do |-> "look"]
  BY DEF Request
<1>2. Request'.do = "look"
  BY <1>1
<1> QED BY <1>2, Unchanged DEF World!Look

LEMMA GetCostCallback ==
  ASSUME TypeOK, NEW p \in Points, getCostCallback(p)
  PROVE  TypeOK' /\ World!Ask
<1> DEFINE w == size_x  h == size_y  o == origin
           window == Places(o, w, h)
           old == GridCost(o, w, h, costmap)
<1>1. /\ w \in Nat \ {0} /\ h \in Nat \ {0} /\ o \in Int \X Int /\ p \in Int \X Int
      /\ resolution \in Nat \ {0}
      /\ o[1] \in Int /\ o[2] \in Int /\ p[1] \in Int /\ p[2] \in Int
  BY Costmap2DAssumption DEF TypeOK
<1>2. /\ UNCHANGED <<size_x, size_y, origin, costmap>>
      /\ calls < MaxCalls /\ calls' = calls + 1
      /\ call' = [op |-> "getCost", at |-> p, answer |-> getCost(p)]
  BY DEF getCostCallback, Called
<1>3. Request'.do = "ask" /\ Request'.at = p /\ Request'.answer = getCost(p)
  <2>1. Request' = [do |-> "ask", at |-> p, answer |-> getCost(p)]
    BY <1>2 DEF Request
  <2> QED BY <2>1
<1>4. WorldCost = old /\ DOMAIN old = window /\ WorldCost' = WorldCost
  BY <1>1, <1>2, Unchanged, WorldCostIsGridCost, CostAtPlace
<1>5. ASSUME NEW c \in GridCells(w, h)
      PROVE  World!Holds(CellPlace(c, o), p) <=> worldToMap(p) = c
  <2>1. c[1] \in Int /\ c[2] \in Int /\ c = <<c[1], c[2]>>
    BY DEF GridCells
  <2>2. o[1] + c[1] * resolution <= p[1] /\ p[1] < o[1] + c[1] * resolution + resolution
          <=> (p[1] - o[1]) \div resolution = c[1]
    BY <1>1, <2>1, CellOfPoint
  <2>3. o[2] + c[2] * resolution <= p[2] /\ p[2] < o[2] + c[2] * resolution + resolution
          <=> (p[2] - o[2]) \div resolution = c[2]
    BY <1>1, <2>1, CellOfPoint
  <2>4. CellPlace(c, o)[1] = o[1] + c[1] * resolution /\ CellPlace(c, o)[2] = o[2] + c[2] * resolution
    BY DEF CellPlace
  <2>5. worldToMap(p) = <<(p[1] - o[1]) \div resolution, (p[2] - o[2]) \div resolution>>
    BY DEF worldToMap
  <2>6. worldToMap(p) = c <=> (p[1] - o[1]) \div resolution = c[1] /\ (p[2] - o[2]) \div resolution = c[2]
    BY <2>1, <2>5
  <2>7. World!Holds(CellPlace(c, o), p)
          <=> /\ CellPlace(c, o)[1] <= p[1] /\ p[1] < CellPlace(c, o)[1] + resolution
              /\ CellPlace(c, o)[2] <= p[2] /\ p[2] < CellPlace(c, o)[2] + resolution
    BY DEF World!Holds
  <2> HIDE DEF o
  <2> QED BY <2>2, <2>3, <2>4, <2>6, <2>7
<1>6. InMap(p) <=> worldToMap(p) \in GridCells(w, h)
  BY <1>1, InMapCell DEF MapCells, GridCells
<1> HIDE DEF w, h, o
<1>7. CASE InMap(p)
  <2> DEFINE c == worldToMap(p)  v == CellPlace(c, o)
  <2>1. v \in window /\ old[v] = costmap[CellIndex(c, w)] /\ World!Holds(v, p)
    BY <1>1, <1>5, <1>6, <1>7, CostAtPlace
  <2>2. getCost(p) = old[v]
    BY <1>7, <2>1 DEF getCost, getIndex, w
  <2> HIDE DEF v, old, window
  <2> QED BY <1>2, <1>3, <1>4, <2>1, <2>2, Unchanged DEF World!Ask, World!window
<1>8. CASE ~ InMap(p)
  <2>1. ASSUME NEW v \in window, World!Holds(v, p) PROVE FALSE
    <3>1. PICK c \in GridCells(w, h) : v = CellPlace(c, o)
      BY DEF Places
    <3> QED BY <1>5, <1>6, <1>8, <2>1, <3>1
  <2>2. getCost(p) = -1
    BY <1>8 DEF getCost
  <2> HIDE DEF old, window
  <2> QED BY <1>2, <1>3, <1>4, <2>1, <2>2, Unchanged DEF World!Ask, World!window
<1> QED BY <1>7, <1>8


LEMMA FootprintCall ==
  ASSUME TypeOK, NEW p, footprintCost(p)
  PROVE  TypeOK' /\ World!Look
<1>1. call'.op = "footprintCost" /\ calls < MaxCalls /\ calls' = calls + 1
  <2>1. call' = [op |-> "footprintCost", polygon |-> p, result |-> FootprintCost(p)]
        /\ calls < MaxCalls /\ calls' = calls + 1
    BY DEF footprintCost, Called
  <2> QED BY <2>1
<1> QED BY <1>1, ALook DEF footprintCost

LEMMA GridStep ==
  ASSUME TypeOK, Next
  PROVE  TypeOK' /\ World!Next
<1>1. ASSUME NEW s \in Sizes, NEW o \in Corners, resizeMap(s, o) PROVE TypeOK' /\ World!Next
  BY <1>1, ResizeMap DEF World!Next
<1>2. ASSUME NEW by \in Moves, updateOrigin(by) PROVE TypeOK' /\ World!Next
  BY <1>2, UpdateOrigin DEF World!Next
<1>3. ASSUME NEW m \in Marks, setCost(m.index, m.cost) PROVE TypeOK' /\ World!Next
  BY <1>3, SetCost DEF World!Next
<1>4. ASSUME NEW a \in Areas, resetMap(a) PROVE TypeOK' /\ World!Next
  BY <1>4, ResetMap DEF World!Next
<1>5. ASSUME NEW p \in Polygons, NEW c \in FillCosts, setConvexPolygonCost(p, c) PROVE TypeOK' /\ World!Next
  BY <1>5, SetConvexPolygonCost DEF World!Next
<1>6. ASSUME NEW p \in Polygons, footprintCost(p) PROVE TypeOK' /\ World!Next
  BY <1>6, FootprintCall DEF World!Next
<1>7. ASSUME NEW w \in Points, getCostCallback(w) PROVE TypeOK' /\ World!Next
  BY <1>7, GetCostCallback DEF World!Next
<1> QED BY <1>1, <1>2, <1>3, <1>4, <1>5, <1>6, <1>7 DEF Next

(* A call of a clearing service clears, or finds no position.              *)
LEMMA ClearCalls ==
  ASSUME LayerNext, ~ GridCall, ~ useExtraBounds
  PROVE  \E d \in Distances, invert \in BOOLEAN :
           \/ \E position \in Positions : clearLayerRegion(position, d, invert)
           \/ clearRegion(NoPosition, d, invert) /\ call'.op = "clearRegion"
              /\ UNCHANGED <<size_x, size_y, origin, costmap, layer_vars>>
              /\ calls < MaxCalls /\ calls' = calls + 1
<1>1. PICK d \in Distances, invert \in BOOLEAN, position \in GetPosition : clearRegion(position, d, invert)
  BY DEF LayerNext, clearExceptRegionCallback, clearAroundRobotCallback, clearAroundPose
<1>2. CASE position = NoPosition
  <2>1. /\ UNCHANGED <<size_x, size_y, origin, costmap, layer_vars>>
        /\ Called([op |-> "clearRegion"])
    BY <1>1, <1>2 DEF clearRegion
  <2>2. call' = [op |-> "clearRegion"] /\ calls < MaxCalls /\ calls' = calls + 1
    BY <2>1 DEF Called
  <2>3. call'.op = "clearRegion"
    BY <2>2
  <2> QED BY <1>1, <1>2, <2>1, <2>2, <2>3
<1>3. CASE position # NoPosition
  <2>1. position \in Positions /\ clearLayerRegion(position, d, invert)
    BY <1>1, <1>3 DEF clearRegion, GetPosition
  <2> QED BY <2>1
<1> QED BY <1>2, <1>3

LEMMA LayerStep ==
  ASSUME TypeOK, LayerNext
  PROVE  TypeOK' /\ World!Next
<1>1. CASE GridCall
  BY <1>1, GridStep DEF GridCall
<1>2. CASE useExtraBounds
  <2>1. /\ UNCHANGED <<size_x, size_y, origin, costmap>> /\ call' = [op |-> "useExtraBounds"]
        /\ calls < MaxCalls /\ calls' = calls + 1
    BY <1>2 DEF useExtraBounds, Called
  <2>2. call'.op = "useExtraBounds"
    BY <2>1
  <2> QED BY <2>1, <2>2, ALook DEF World!Next
<1>3. CASE ~ GridCall /\ ~ useExtraBounds
  <2>1. ASSUME NEW d \in Distances, NEW invert \in BOOLEAN, NEW position \in Positions,
               clearLayerRegion(position, d, invert)
        PROVE  TypeOK' /\ World!Next
    BY <2>1, ClearLayerRegion DEF World!Next
  <2>2. ASSUME call'.op = "clearRegion", UNCHANGED <<size_x, size_y, origin, costmap>>,
               calls < MaxCalls, calls' = calls + 1
        PROVE  TypeOK' /\ World!Next
    BY <2>2, ALook DEF World!Next
  <2> QED BY <1>3, <2>1, <2>2, ClearCalls
<1> QED BY <1>1, <1>2, <1>3

LEMMA StutterStep ==
  ASSUME TypeOK, UNCHANGED <<vars, layer_vars>>
  PROVE  TypeOK' /\ UNCHANGED <<WorldCost, Request>>
<1>1. UNCHANGED <<size_x, size_y, origin, costmap, call, calls>>
  BY DEF vars
<1>2. TypeOK'
  BY <1>1 DEF TypeOK, Indices
<1>3. UNCHANGED WorldCost
  BY <1>1, Unchanged
<1>4. Request' = Request
  <2>1. {WorldOf(c) : c \in call.cells}' = {WorldOf(c) : c \in call.cells}
    BY <1>1 DEF WorldOf
  <2> QED BY <1>1, <2>1 DEF Request
<1> QED BY <1>2, <1>3, <1>4

LEMMA FirstState ==
  ASSUME Init
  PROVE  TypeOK /\ World!Init
<1>1. PICK s \in Sizes : size_x = s[1] /\ size_y = s[2]
  BY DEF Init
<1>2. /\ size_x \in Nat \ {0} /\ size_y \in Nat \ {0} /\ origin \in Int \X Int /\ calls = 0
      /\ costmap = [i \in 0 .. size_x * size_y - 1 |-> default_value]
      /\ default_value \in Cost /\ MaxCalls \in Nat
  BY <1>1, Costmap2DAssumption DEF Init, resetMaps
<1>3. TypeOK
  BY <1>2 DEF TypeOK, Indices
<1> DEFINE f == [v \in Places(origin, size_x, size_y) |-> default_value]
<1>4. WorldCost = f
  <2>1. ASSUME NEW c \in GridCells(size_x, size_y)
        PROVE  f[CellPlace(c, origin)] = costmap[CellIndex(c, size_x)]
    BY <1>2, IndexOfCell DEF Places, GridCells
  <2>2. f = [v \in Places(origin, size_x, size_y) |-> f[v]]
    OBVIOUS
  <2> HIDE DEF f
  <2>3. CostsByPlace(f, origin, size_x, size_y, costmap)
    BY <2>1, <2>2 DEF CostsByPlace
  <2>4. GridCost(origin, size_x, size_y, costmap) = f
    BY <1>2, <2>3, SameCosts
  <2> QED BY <2>4, WorldCostIsGridCost
<1> QED BY <1>3, <1>4 DEF World!Init, World!AllBlank, World!window

(* Every behaviour of the layer, through the arithmetic of indices, widths *)
(* and overlaps, is one of the grid of the world.                          *)
THEOREM LayerImplementsWorldGrid == LayerSpec => ImplementsWorldGrid
<1>1. LayerInit => TypeOK /\ World!Init
  BY FirstState DEF LayerInit
<1>2. TypeOK /\ [LayerNext]_<<vars, layer_vars>> => TypeOK' /\ [World!Next]_<<WorldCost, Request>>
  BY LayerStep, StutterStep
<1> QED BY <1>1, <1>2, PTL DEF LayerSpec, ImplementsWorldGrid, World!Spec


-----------------------------------------------------------------------------
(* Clearing *)

(* What was cleared since the last update lies within the extra bounds.    *)
PendingCovered ==
  \A v \in pending :
    /\ v \in Int \X Int /\ has_extra_bounds
    /\ \A i \in {1, 2} : extra_bounds.min[i] <= v[i] /\ v[i] <= extra_bounds.max[i]

LayerInv == LayerTypeOK /\ PendingCovered

(* The map's extent, as getSizeInMeters returns it, ends in its last cell. *)
LEMMA MapExtent ==
  ASSUME TypeOK, NEW top, top = <<origin[1] + SizeInMeters[1], origin[2] + SizeInMeters[2]>>
  PROVE  /\ top \in Int \X Int /\ origin[1] <= top[1] /\ origin[2] <= top[2]
         /\ \A c \in MapCells : /\ WorldOf(c) \in Int \X Int
                                /\ \A i \in {1, 2} : origin[i] <= WorldOf(c)[i] /\ WorldOf(c)[i] <= top[i]
<1>1. /\ size_x \in Nat \ {0} /\ size_y \in Nat \ {0} /\ origin[1] \in Int /\ origin[2] \in Int
      /\ resolution \in Nat \ {0} /\ resolution % 2 = 0
  BY Costmap2DAssumption, CostmapLayerAssumption DEF TypeOK
<1>2. ASSUME NEW n \in Nat \ {0}
      PROVE  /\ ((2 * n - 1) * resolution) \div 2 \in Nat
             /\ \A x \in 0 .. n - 1 :
                  /\ x * resolution \in Nat
                  /\ x * resolution <= ((2 * n - 1) * resolution) \div 2
  <2>1. PICK h \in Nat : resolution = 2 * h
    <3>1. resolution = 2 * (resolution \div 2) /\ resolution \div 2 \in Nat
      BY <1>1
    <3> QED BY <3>1
  <2>2. (2 * n - 1) * resolution = ((2 * n - 1) * h) * 2 + 0
    BY <2>1
  <2>3. (2 * n - 1) * h \in Nat
    <3>1. 0 * h <= (2 * n - 1) * h /\ (2 * n - 1) * h \in Int
      BY TimesMonotone
    <3> QED BY <3>1
  <2>4. ((2 * n - 1) * resolution) \div 2 = (2 * n - 1) * h
    <3> DEFINE k == (2 * n - 1) * h
    <3> HIDE DEF k
    <3>1. (k * 2 + 0) \div 2 = k
      BY <2>3 DEF k
    <3> QED BY <2>2, <3>1 DEF k
  <2>5. ASSUME NEW x \in 0 .. n - 1
        PROVE  x * resolution \in Nat /\ x * resolution <= (2 * n - 1) * h
    <3>1. (2 * x) * h <= (2 * n - 1) * h /\ 0 * h <= (2 * x) * h /\ (2 * x) * h \in Int
      BY TimesMonotone
    <3>2. x * resolution = (2 * x) * h
      BY <2>1
    <3> QED BY <3>1, <3>2
  <2> QED BY <2>3, <2>4, <2>5
<1> DEFINE sx == ((2 * size_x - 1) * resolution) \div 2
           sy == ((2 * size_y - 1) * resolution) \div 2
<1>3. /\ sx \in Nat /\ \A x \in 0 .. size_x - 1 : x * resolution \in Nat /\ x * resolution <= sx
      /\ sy \in Nat /\ \A x \in 0 .. size_y - 1 : x * resolution \in Nat /\ x * resolution <= sy
  BY <1>1, <1>2
<1>4. top = <<origin[1] + sx, origin[2] + sy>>
  BY DEF SizeInMeters
<1> HIDE DEF sx, sy
<1>5. ASSUME NEW c \in MapCells
      PROVE  /\ WorldOf(c) \in Int \X Int
             /\ \A i \in {1, 2} : origin[i] <= WorldOf(c)[i] /\ WorldOf(c)[i] <= top[i]
  <2>1. c[1] \in 0 .. size_x - 1 /\ c[2] \in 0 .. size_y - 1
    BY DEF MapCells
  <2>2. WorldOf(c) = <<origin[1] + c[1] * resolution, origin[2] + c[2] * resolution>>
    BY DEF WorldOf
  <2>3. /\ c[1] * resolution \in Nat /\ c[1] * resolution <= sx
        /\ c[2] * resolution \in Nat /\ c[2] * resolution <= sy
    BY <1>3, <2>1
  <2> QED BY <1>1, <1>3, <1>4, <2>2, <2>3
<1>6. top \in Int \X Int /\ origin[1] <= top[1] /\ origin[2] <= top[2]
  BY <1>1, <1>3, <1>4
<1> QED BY <1>5, <1>6

(* Adding bounds adds them to those that there were.                       *)
LEMMA BoundsAdded ==
  ASSUME extra_bounds \in [min : Int \X Int, max : Int \X Int], NEW p \in Int \X Int, NEW q \in Int \X Int,
         p[1] <= q[1], addExtraBounds(p, q)
  PROVE  /\ extra_bounds' \in [min : Int \X Int, max : Int \X Int]
         /\ has_extra_bounds' = TRUE /\ extra_bounds' # NoExtraBounds
         /\ \A i \in {1, 2} :
              /\ extra_bounds'.min[i] <= extra_bounds.min[i] /\ extra_bounds'.min[i] <= p[i]
              /\ extra_bounds.max[i] <= extra_bounds'.max[i] /\ q[i] <= extra_bounds'.max[i]
<1> DEFINE lo == extra_bounds.min  hi == extra_bounds.max
<1>1. /\ p[1] \in Int /\ p[2] \in Int /\ q[1] \in Int /\ q[2] \in Int
      /\ lo[1] \in Int /\ lo[2] \in Int /\ hi[1] \in Int /\ hi[2] \in Int
  OBVIOUS
<1> HIDE DEF lo, hi
<1>2. extra_bounds' = [min |-> Lower(p, lo), max |-> Upper(q, hi)] /\ has_extra_bounds' = TRUE
  BY DEF addExtraBounds, lo, hi
<1>3. extra_bounds'.min = Lower(p, lo) /\ extra_bounds'.max = Upper(q, hi)
  BY <1>2
<1>4. /\ Lower(p, lo) \in Int \X Int
      /\ \A i \in {1, 2} : Lower(p, lo)[i] <= p[i] /\ Lower(p, lo)[i] <= lo[i]
      /\ Lower(p, lo)[1] \in {p[1], lo[1]}
  BY <1>1 DEF Lower
<1>5. /\ Upper(q, hi) \in Int \X Int
      /\ \A i \in {1, 2} : q[i] <= Upper(q, hi)[i] /\ hi[i] <= Upper(q, hi)[i]
  BY <1>1 DEF Upper, MaxOf
<1>6. extra_bounds' # NoExtraBounds
  <2> SUFFICES ASSUME extra_bounds' = NoExtraBounds PROVE FALSE
    OBVIOUS
  <2>1. Lower(p, lo)[1] = Far /\ Upper(q, hi)[1] = -Far
    BY <1>3 DEF NoExtraBounds
  <2> QED BY <1>1, <1>4, <1>5, <2>1 DEF Far
<1> QED BY <1>2, <1>3, <1>4, <1>5, <1>6 DEF lo, hi


LEMMA SameLayer ==
  ASSUME LayerInv, TypeOK', UNCHANGED <<extra_bounds, has_extra_bounds, current>>, pending' \subseteq pending
  PROVE  LayerInv'
BY DEF LayerInv, LayerTypeOK, PendingCovered

LEMMA LayerInvStep ==
  ASSUME LayerInv, [LayerNext]_<<vars, layer_vars>>
  PROVE  LayerInv'
<1> USE DEF LayerInv
<1>0. TypeOK /\ TypeOK'
  BY LayerStep, StutterStep DEF LayerTypeOK
<1>1. CASE GridCall
  <2>1. UNCHANGED <<extra_bounds, has_extra_bounds, current>> /\ pending' \subseteq pending
    BY <1>1 DEF GridCall
  <2> QED BY <1>0, <2>1, SameLayer
<1>2. CASE useExtraBounds
  <2>1. /\ extra_bounds' = NoExtraBounds /\ has_extra_bounds' = FALSE /\ current' = TRUE /\ pending' = {}
    BY <1>2 DEF useExtraBounds
  <2>2. NoExtraBounds \in [min : Int \X Int, max : Int \X Int]
    BY DEF NoExtraBounds, Far
  <2> QED BY <1>0, <2>1, <2>2 DEF LayerTypeOK, PendingCovered
<1>3. ASSUME NEW d \in Distances, NEW invert \in BOOLEAN, NEW position \in Positions,
             clearLayerRegion(position, d, invert)
      PROVE  LayerInv'
  <2> DEFINE top == <<origin[1] + SizeInMeters[1], origin[2] + SizeInMeters[2]>>
  <2>1. PICK cells \in SUBSET MapCells : pending' = pending \cup {WorldOf(c) : c \in cells}
    BY <1>3 DEF clearLayerRegion, ClearedCells
  <2>2. addExtraBounds(origin, top) /\ current' = FALSE
    BY <1>3 DEF clearLayerRegion
  <2>3. /\ top \in Int \X Int /\ origin[1] <= top[1]
        /\ \A c \in MapCells : /\ WorldOf(c) \in Int \X Int
                               /\ \A i \in {1, 2} : origin[i] <= WorldOf(c)[i] /\ WorldOf(c)[i] <= top[i]
    BY <1>0, MapExtent
  <2> HIDE DEF top
  <2>4. extra_bounds \in [min : Int \X Int, max : Int \X Int] /\ origin \in Int \X Int
    BY <1>0 DEF LayerTypeOK, TypeOK
  <2>5. /\ extra_bounds' \in [min : Int \X Int, max : Int \X Int]
        /\ has_extra_bounds' = TRUE /\ extra_bounds' # NoExtraBounds
        /\ \A i \in {1, 2} :
             /\ extra_bounds'.min[i] <= extra_bounds.min[i] /\ extra_bounds'.min[i] <= origin[i]
             /\ extra_bounds.max[i] <= extra_bounds'.max[i] /\ top[i] <= extra_bounds'.max[i]
    BY <2>2, <2>3, <2>4, BoundsAdded
  <2>6. LayerTypeOK'
    BY <1>0, <2>2, <2>5 DEF LayerTypeOK
  <2>7. PendingCovered'
    <3> SUFFICES ASSUME NEW v \in pending', NEW i \in {1, 2}
                 PROVE  v \in Int \X Int /\ extra_bounds'.min[i] <= v[i] /\ v[i] <= extra_bounds'.max[i]
      BY <2>5 DEF PendingCovered
    <3>1. /\ extra_bounds.min[i] \in Int /\ extra_bounds.max[i] \in Int /\ origin[i] \in Int /\ top[i] \in Int
          /\ extra_bounds'.min[i] \in Int /\ extra_bounds'.max[i] \in Int
      BY <2>3, <2>4, <2>5
    <3>2. CASE v \in pending
      <4>1. v \in Int \X Int /\ extra_bounds.min[i] <= v[i] /\ v[i] <= extra_bounds.max[i]
        BY <3>2 DEF PendingCovered
      <4>2. v[i] \in Int
        BY <4>1
      <4> QED BY <2>5, <3>1, <4>1, <4>2
    <3>3. CASE v \in {WorldOf(c) : c \in cells}
      <4>1. v \in Int \X Int /\ origin[i] <= v[i] /\ v[i] <= top[i]
        BY <2>3, <3>3
      <4>2. v[i] \in Int
        BY <4>1
      <4> QED BY <2>5, <3>1, <4>1, <4>2
    <3> QED BY <2>1, <3>2, <3>3
  <2> QED BY <2>6, <2>7
<1>4. CASE UNCHANGED layer_vars
  <2>1. UNCHANGED <<extra_bounds, has_extra_bounds, current>> /\ pending' \subseteq pending
    BY <1>4 DEF layer_vars
  <2> QED BY <1>0, <2>1, SameLayer
<1>5. CASE LayerNext /\ ~ GridCall /\ ~ useExtraBounds
  BY <1>3, <1>4, <1>5, ClearCalls
<1> QED BY <1>1, <1>2, <1>4, <1>5

LEMMA LayerInvFirst ==
  ASSUME LayerInit
  PROVE  LayerInv
<1>1. TypeOK
  BY FirstState DEF LayerInit
<1>2. NoExtraBounds \in [min : Int \X Int, max : Int \X Int]
  BY DEF NoExtraBounds, Far
<1> QED BY <1>1, <1>2 DEF LayerInit, LayerInv, LayerTypeOK, PendingCovered

(* The costs stay costs and in the array whatever is called, and bounds    *)
(* are held exactly while some are to be handed out.                       *)
THEOREM LayerTypeCorrect == LayerSpec => []LayerTypeOK
<1>1. LayerInv => LayerTypeOK
  BY DEF LayerInv
<1> QED BY <1>1, LayerInvFirst, LayerInvStep, PTL DEF LayerSpec

(* On one axis: a bound below (above) a cell's corner is, cut to the map,  *)
(* not above (below) the cell.                                             *)
LEMMA BoundOfCell ==
  ASSUME NEW r \in Nat \ {0}, r = resolution, NEW n \in Nat \ {0}, NEW o \in Int, NEW x \in 0 .. n - 1, NEW b \in Int
  PROVE  /\ b <= o + x * r => worldToMapEnforceBounds(b, o, n) <= x
         /\ o + x * r <= b => x <= worldToMapEnforceBounds(b, o, n)
<1> DEFINE k == (b - o) \div r
           e == worldToMapEnforceBounds(b, o, n)
<1>1. k \in Int /\ k * r \in Int /\ o + k * r <= b /\ b < o + k * r + r
  <2>1. k \in Int
    BY CellOfPoint
  <2> HIDE DEF k
  <2>2. k * r \in Int
    BY <2>1
  <2> QED BY <2>1, <2>2, CellOfPoint DEF k
<1>2. x * r \in Int /\ n * r \in Int
  OBVIOUS
<1>3. /\ b < o => e = 0
      /\ ~ (b < o) /\ b > o + n * r => e = n - 1
      /\ ~ (b < o) /\ ~ (b > o + n * r) => e = k
  BY DEF worldToMapEnforceBounds
<1> HIDE DEF k, e
<1>4. ASSUME b <= o + x * r PROVE e <= x
  <2>1. x * r <= n * r
    BY TimesMonotone
  <2>2. k <= x
    <3> SUFFICES ASSUME x + 1 <= k PROVE FALSE
      BY <1>1
    <3>1. (x + 1) * r <= k * r /\ (x + 1) * r = x * r + r
      BY <1>1, TimesMonotone
    <3> QED BY <1>1, <1>2, <1>4, <3>1
  <2> QED BY <1>2, <1>3, <1>4, <2>1, <2>2
<1>5. ASSUME o + x * r <= b PROVE x <= e
  <2>1. 0 * r <= x * r
    BY TimesMonotone
  <2>2. x <= k
    <3> SUFFICES ASSUME k + 1 <= x PROVE FALSE
      BY <1>1
    <3>1. (k + 1) * r <= x * r /\ (k + 1) * r = k * r + r
      BY <1>1, TimesMonotone
    <3> QED BY <1>1, <1>2, <1>5, <3>1
  <2> QED BY <1>2, <1>3, <1>5, <2>1, <2>2
<1> QED BY <1>4, <1>5 DEF e

(* Whatever was cleared since the last update will be within the bounds of *)
(* the next, though the map has moved: see PendingCovered.                 *)
THEOREM ClearedIsUpdated == LayerSpec => []ClearedWillBeUpdated
<1>1. ASSUME LayerInv PROVE ClearedWillBeUpdated
  <2> SUFFICES ASSUME NEW c \in MapCells, WorldOf(c) \in pending
               PROVE  /\ has_extra_bounds
                      /\ \A i \in {1, 2} : EnforcedCell(extra_bounds.min)[i] <= c[i]
                                           /\ c[i] <= EnforcedCell(extra_bounds.max)[i]
    BY DEF ClearedWillBeUpdated
  <2> DEFINE lo == extra_bounds.min  hi == extra_bounds.max
  <2>1. /\ size_x \in Nat \ {0} /\ size_y \in Nat \ {0} /\ origin[1] \in Int /\ origin[2] \in Int
        /\ resolution \in Nat \ {0} /\ c[1] \in 0 .. size_x - 1 /\ c[2] \in 0 .. size_y - 1
    BY <1>1, Costmap2DAssumption DEF LayerInv, LayerTypeOK, TypeOK, MapCells
  <2>2. lo[1] \in Int /\ lo[2] \in Int /\ hi[1] \in Int /\ hi[2] \in Int
    BY <1>1 DEF LayerInv, LayerTypeOK
  <2>3. /\ has_extra_bounds
        /\ lo[1] <= WorldOf(c)[1] /\ WorldOf(c)[1] <= hi[1]
        /\ lo[2] <= WorldOf(c)[2] /\ WorldOf(c)[2] <= hi[2]
    BY <1>1 DEF LayerInv, PendingCovered
  <2>4. WorldOf(c)[1] = origin[1] + c[1] * resolution /\ WorldOf(c)[2] = origin[2] + c[2] * resolution
    BY DEF WorldOf
  <2> HIDE DEF lo, hi
  <2>5. /\ worldToMapEnforceBounds(lo[1], origin[1], size_x) <= c[1]
        /\ worldToMapEnforceBounds(lo[2], origin[2], size_y) <= c[2]
        /\ c[1] <= worldToMapEnforceBounds(hi[1], origin[1], size_x)
        /\ c[2] <= worldToMapEnforceBounds(hi[2], origin[2], size_y)
    BY <2>1, <2>2, <2>3, <2>4, BoundOfCell
  <2>6. \A i \in {1, 2} : EnforcedCell(lo)[i] <= c[i] /\ c[i] <= EnforcedCell(hi)[i]
    BY <2>5 DEF EnforcedCell
  <2> QED BY <2>3, <2>6 DEF lo, hi
<1> QED BY <1>1, LayerInvFirst, LayerInvStep, PTL DEF LayerSpec


CellBounds(s, t, o, n, x) ==
  LET es == worldToMapEnforceBounds(s, o, n)
      et == worldToMapEnforceBounds(t, o, n)
      r  == resolution
  IN  /\ es \in Int /\ et \in Int
      /\ es < x => s <= o + x * r
      /\ x < et => o + x * r + r <= t
      /\ s + r <= o + x * r /\ x # 0 => es < x
      /\ o + x * r + r <= t - r /\ x # n - 1 => x < et

(* On one axis: a cell that lies between those of s and t lies between s   *)
(* and t; one that does with a cell to spare, and is not the first or the  *)
(* last of the map, lies between those of s and t.                         *)
LEMMA CellBetween ==
  ASSUME NEW r \in Nat \ {0}, r = resolution, NEW n \in Nat \ {0}, NEW o \in Int, NEW x \in 0 .. n - 1,
         NEW s \in Int, NEW t \in Int
  PROVE  CellBounds(s, t, o, n, x)
<1> DEFINE es == worldToMapEnforceBounds(s, o, n)
           et == worldToMapEnforceBounds(t, o, n)
           k == (t - o) \div r
<1>1. k \in Int /\ k * r \in Int /\ o + k * r <= t
  <2>1. k \in Int
    BY CellOfPoint
  <2> HIDE DEF k
  <2>2. k * r \in Int
    BY <2>1
  <2> QED BY <2>1, <2>2, CellOfPoint DEF k
<1>2. /\ x * r \in Int /\ n * r \in Int
      /\ (x + 1) * r = x * r + r /\ (x - 1) * r = x * r - r
  OBVIOUS
<1>3. /\ t < o => et = 0
      /\ ~ (t < o) /\ t > o + n * r => et = n - 1
      /\ ~ (t < o) /\ ~ (t > o + n * r) => et = k
  BY DEF worldToMapEnforceBounds
<1>4. es \in Int
  <2>1. (s - o) \div r \in Int
    BY CellOfPoint
  <2> QED BY <2>1 DEF worldToMapEnforceBounds
<1>5. et \in Int
  BY <1>1, <1>3
<1> HIDE DEF es, et, k
<1>6. ASSUME es < x PROVE s <= o + x * r
  <2>1. o + x * r <= s => x <= es
    BY BoundOfCell DEF es
  <2> QED BY <1>2, <1>4, <1>6, <2>1
<1>7. ASSUME x < et PROVE o + x * r + r <= t
  <2>1. (x + 1) * r <= n * r
    BY TimesMonotone
  <2>2. CASE t < o
    BY <1>3, <1>7, <2>2
  <2>3. CASE ~ (t < o) /\ t > o + n * r
    BY <1>2, <2>1, <2>3
  <2>4. CASE ~ (t < o) /\ ~ (t > o + n * r)
    <3>1. x + 1 <= k
      BY <1>1, <1>3, <1>7, <2>4
    <3>2. (x + 1) * r <= k * r
      BY <1>1, <3>1, TimesMonotone
    <3> QED BY <1>1, <1>2, <3>2
  <2> QED BY <2>2, <2>3, <2>4
<1>8. ASSUME s + r <= o + x * r, x # 0 PROVE es < x
  <2>1. x - 1 \in 0 .. n - 1 /\ s <= o + (x - 1) * r
    BY <1>2, <1>8
  <2>2. es <= x - 1
    BY <2>1, BoundOfCell DEF es
  <2> QED BY <1>4, <2>2
<1>9. ASSUME o + x * r + r <= t - r, x # n - 1 PROVE x < et
  <2>1. x + 1 \in 0 .. n - 1 /\ o + (x + 1) * r <= t
    BY <1>2, <1>9
  <2>2. x + 1 <= et
    BY <2>1, BoundOfCell DEF et
  <2> QED BY <1>5, <2>2
<1> QED BY <1>4, <1>5, <1>6, <1>7, <1>8, <1>9 DEF es, et, CellBounds

LEMMA ClearedSquare ==
  ASSUME TypeOK, NEW position \in Positions, NEW d \in Distances, NEW invert \in BOOLEAN,
         clearLayerRegion(position, d, invert)
  PROVE  ClearedRegion'
<1> DEFINE start == <<position[1] - d \div 2, position[2] - d \div 2>>
           end   == <<start[1] + d, start[2] + d>>
           cells == ClearedCells(EnforcedCell(start), EnforcedCell(end), invert)
<1>1. /\ size_x \in Nat \ {0} /\ size_y \in Nat \ {0} /\ origin[1] \in Int /\ origin[2] \in Int
      /\ resolution \in Nat \ {0} /\ d \in Nat /\ position \in Int \X Int
      /\ d \div 2 \in Int
  BY Costmap2DAssumption, CostmapLayerAssumption DEF TypeOK
<1>2. /\ start[1] \in Int /\ start[2] \in Int /\ end[1] \in Int /\ end[2] \in Int
  BY <1>1
<1>3. /\ UNCHANGED <<size_x, size_y, origin>>
      /\ call' = [op |-> "clearLayerRegion", start |-> start, end |-> end,
                  invert |-> invert, cells |-> cells, value |-> NO_INFORMATION]
  BY DEF clearLayerRegion, Called
<1> HIDE DEF start, end
<1>4. ASSUME NEW c \in MapCells
      PROVE  LET within == (c \in cells) # invert
             IN  /\ within => InSquare(c, start, end, 0)
                 /\ InSquare(c, start, end, resolution) /\ ~ OnEdgeOfMap(c) => within
  <2> DEFINE es == EnforcedCell(start)  et == EnforcedCell(end)
             inner == es[1] < c[1] /\ c[1] < et[1] /\ es[2] < c[2] /\ c[2] < et[2]
  <2>1. ((c \in cells) # invert) <=> inner
    <3>1. c \in cells <=> (inner # invert)
      BY DEF ClearedCells
    <3> HIDE DEF inner, cells
    <3>2. CASE invert = TRUE
      <4>1. inner \in BOOLEAN
        BY DEF inner
      <4>2. c \in cells <=> (inner # TRUE)
        BY <3>1, <3>2
      <4>3. c \in cells <=> ~ inner
        BY <4>1, <4>2
      <4>4. ((c \in cells) # TRUE) <=> ~ (c \in cells)
        OBVIOUS
      <4> QED BY <3>2, <4>3, <4>4
    <3>3. CASE invert = FALSE
      <4>1. inner \in BOOLEAN
        BY DEF inner
      <4>2. c \in cells <=> (inner # FALSE)
        BY <3>1, <3>3
      <4>3. c \in cells <=> inner
        BY <4>1, <4>2
      <4>4. ((c \in cells) # FALSE) <=> (c \in cells)
        <5>1. ASSUME NEW b \in BOOLEAN PROVE (b # FALSE) <=> b
          OBVIOUS
        <5>2. (c \in cells) \in BOOLEAN
          OBVIOUS
        <5> QED BY <5>1, <5>2
      <4> QED BY <3>3, <4>3, <4>4
    <3> QED BY <3>2, <3>3
  <2>2. c[1] \in 0 .. size_x - 1 /\ c[2] \in 0 .. size_y - 1
    BY DEF MapCells
  <2>3. /\ es[1] < c[1] => start[1] <= origin[1] + c[1] * resolution
        /\ c[1] < et[1] => origin[1] + c[1] * resolution + resolution <= end[1]
        /\ start[1] + resolution <= origin[1] + c[1] * resolution /\ c[1] # 0 => es[1] < c[1]
        /\ origin[1] + c[1] * resolution + resolution <= end[1] - resolution /\ c[1] # size_x - 1 => c[1] < et[1]
    <3>1. CellBounds(start[1], end[1], origin[1], size_x, c[1])
      BY <1>1, <1>2, <2>2, CellBetween
    <3> QED BY <3>1 DEF EnforcedCell, CellBounds
  <2>4. /\ es[2] < c[2] => start[2] <= origin[2] + c[2] * resolution
        /\ c[2] < et[2] => origin[2] + c[2] * resolution + resolution <= end[2]
        /\ start[2] + resolution <= origin[2] + c[2] * resolution /\ c[2] # 0 => es[2] < c[2]
        /\ origin[2] + c[2] * resolution + resolution <= end[2] - resolution /\ c[2] # size_y - 1 => c[2] < et[2]
    <3>1. CellBounds(start[2], end[2], origin[2], size_y, c[2])
      BY <1>1, <1>2, <2>2, CellBetween
    <3> QED BY <3>1 DEF EnforcedCell, CellBounds
  <2>5. WorldOf(c)[1] = origin[1] + c[1] * resolution /\ WorldOf(c)[2] = origin[2] + c[2] * resolution
    BY DEF WorldOf
  <2> HIDE DEF es, et, cells
  <2>6. ASSUME inner PROVE InSquare(c, start, end, 0)
    <3>1. start[1] + 0 = start[1] /\ end[1] - 0 = end[1] /\ start[2] + 0 = start[2] /\ end[2] - 0 = end[2]
      BY <1>2
    <3> QED BY <2>3, <2>4, <2>5, <2>6, <3>1 DEF InSquare
  <2>7. ASSUME InSquare(c, start, end, resolution), ~ OnEdgeOfMap(c) PROVE inner
    BY <2>3, <2>4, <2>5, <2>7 DEF InSquare, OnEdgeOfMap
  <2> QED BY <2>1, <2>6, <2>7
<1>5. call'.cells = cells /\ call'.start = start /\ call'.end = end /\ call'.invert = invert
  BY <1>3
<1> HIDE DEF cells
<1>6. MapCells' = MapCells /\ \A c : OnEdgeOfMap(c)' = OnEdgeOfMap(c)
  BY <1>3 DEF MapCells, OnEdgeOfMap
<1>7. ASSUME NEW c PROVE /\ InSquare(c, call.start, call.end, 0)' = InSquare(c, start, end, 0)
                         /\ InSquare(c, call.start, call.end, resolution)' = InSquare(c, start, end, resolution)
  BY <1>3, <1>5 DEF InSquare, WorldOf
<1> QED BY <1>4, <1>5, <1>6, <1>7 DEF ClearedRegion

(* Which calls there are to the grid.                                      *)
LEMMA GridOps ==
  ASSUME Next
  PROVE  /\ call'.op \in {"resizeMap", "updateOrigin", "setCost", "resetMap",
                          "setConvexPolygonCost", "footprintCost", "getCost"}
         /\ call'.op = "setConvexPolygonCost" =>
              \E p \in Polygons, cost \in FillCosts : setConvexPolygonCost(p, cost)
         /\ call'.op = "footprintCost" => \E p \in Polygons : footprintCost(p)
<1>1. ASSUME NEW s \in Sizes, NEW o \in Corners, resizeMap(s, o) PROVE call'.op = "resizeMap"
  <2>1. call' = [op |-> "resizeMap"]
    BY <1>1 DEF resizeMap, Called
  <2> QED BY <2>1
<1>2. ASSUME NEW by \in Moves, updateOrigin(by) PROVE call'.op = "updateOrigin"
  <2>1. call' = [op |-> "updateOrigin", by |-> by]
    BY <1>2 DEF updateOrigin, Called
  <2> QED BY <2>1
<1>3. ASSUME NEW m \in Marks, setCost(m.index, m.cost) PROVE call'.op = "setCost"
  <2>1. call' = [op |-> "setCost", cells |-> {indexToCells(m.index, size_x)}, value |-> m.cost]
    BY <1>3 DEF setCost, Called
  <2> QED BY <2>1
<1>4. ASSUME NEW a \in Areas, resetMap(a) PROVE call'.op = "resetMap"
  <2>1. call' = [op |-> "resetMap", value |-> default_value,
                 cells |-> (a.x0 .. a.xn - 1) \X (a.y0 .. a.yn - 1)]
    BY <1>4 DEF resetMap, Called
  <2> QED BY <2>1
<1>5. ASSUME NEW p \in Polygons, NEW cost \in FillCosts, setConvexPolygonCost(p, cost)
      PROVE  call'.op = "setConvexPolygonCost"
  <2>1. PICK cells : call' = [op |-> "setConvexPolygonCost", polygon |-> p, cells |-> cells, value |-> cost]
    BY <1>5 DEF setConvexPolygonCost, Called
  <2> QED BY <2>1
<1>6. ASSUME NEW p \in Polygons, footprintCost(p) PROVE call'.op = "footprintCost"
  <2>1. call' = [op |-> "footprintCost", polygon |-> p, result |-> FootprintCost(p)]
    BY <1>6 DEF footprintCost, Called
  <2> QED BY <2>1
<1>7. ASSUME NEW w \in Points, getCostCallback(w) PROVE call'.op = "getCost"
  <2>1. call' = [op |-> "getCost", at |-> w, answer |-> getCost(w)]
    BY <1>7 DEF getCostCallback, Called
  <2> QED BY <2>1
<1> QED BY <1>1, <1>2, <1>3, <1>4, <1>5, <1>6, <1>7 DEF Next

LEMMA ClearedRegionStep ==
  ASSUME TypeOK, ClearedRegion, [LayerNext]_<<vars, layer_vars>>
  PROVE  ClearedRegion'
<1> SUFFICES ASSUME call'.op = "clearLayerRegion" PROVE ClearedRegion'
  BY DEF ClearedRegion
<1>1. CASE GridCall
  BY <1>1, GridOps DEF GridCall
<1>2. CASE useExtraBounds
  BY <1>2 DEF useExtraBounds, Called
<1>3. CASE LayerNext /\ ~ GridCall /\ ~ useExtraBounds
  BY <1>3, ClearCalls, ClearedSquare
<1>4. CASE UNCHANGED <<vars, layer_vars>>
  BY <1>4 DEF vars, ClearedRegion, MapCells, OnEdgeOfMap, InSquare, WorldOf
<1> QED BY <1>1, <1>2, <1>3, <1>4

(* Clearing around a place clears the cells within the square asked for,   *)
(* clearing all but it spares them, to less than a cell, wherever the map  *)
(* has moved to.                                                           *)
THEOREM ClearsTheSquare == LayerSpec => []ClearedRegion
<1>1. LayerInit => TypeOK /\ ClearedRegion
  <2>1. LayerInit => call.op = "Costmap2D"
    BY DEF LayerInit, Init
  <2> QED BY <2>1, FirstState DEF LayerInit, ClearedRegion
<1>2. TypeOK /\ ClearedRegion /\ [LayerNext]_<<vars, layer_vars>> => (TypeOK /\ ClearedRegion)'
  BY LayerStep, StutterStep, ClearedRegionStep
<1> QED BY <1>1, <1>2, PTL DEF LayerSpec


-----------------------------------------------------------------------------
(* Cells near a line *)

(* Every place between a and b is some steps from a.                       *)
LEMMA StepsTo ==
  ASSUME NEW a \in Int, NEW b \in Int, NEW x \in Int, Between(a, b, x)
  PROVE  \E i \in 0 .. AbsDiff(a, b) : x = a + i * Sign(b - a)
<1>1. CASE a < b
  <2>1. Sign(b - a) = 1 /\ AbsDiff(a, b) = b - a
    BY <1>1 DEF Sign, AbsDiff
  <2>2. x - a \in 0 .. AbsDiff(a, b) /\ x = a + (x - a) * 1
    BY <1>1, <2>1 DEF Between
  <2> QED BY <2>1, <2>2
<1>2. CASE ~ (a < b)
  <2>1. Sign(b - a) = -1 /\ AbsDiff(a, b) = a - b
    BY <1>2 DEF Sign, AbsDiff
  <2>2. a - x \in 0 .. AbsDiff(a, b) /\ x = a + (a - x) * (-1)
    BY <1>2, <2>1 DEF Between
  <2> QED BY <2>1, <2>2
<1> QED BY <1>1, <1>2

(* How far a place, i steps along one axis and j along the other, is from  *)
(* the line, but for the sign.                                             *)
Offset(i, j, dx, dy) == dx * j - dy * i

SameOrOpposite(a, b, same) == IF same THEN a = b ELSE a = -b

LEMMA CrossOfSteps ==
  ASSUME NEW p \in Int \X Int, NEW q \in Int \X Int, NEW c \in Int \X Int,
         NEW i \in Int, NEW j \in Int,
         c[1] = p[1] + i * Sign(q[1] - p[1]), c[2] = p[2] + j * Sign(q[2] - p[2])
  PROVE  /\ SameOrOpposite(Cross(p, q, c), Offset(i, j, AbsDiff(p[1], q[1]), AbsDiff(p[2], q[2])),
                           Sign(q[1] - p[1]) = Sign(q[2] - p[2]))
         /\ Offset(i, j, AbsDiff(p[1], q[1]), AbsDiff(p[2], q[2])) \in Int
         /\ Cross(p, q, c) \in Int
<1> DEFINE dx == AbsDiff(p[1], q[1])
           dy == AbsDiff(p[2], q[2])
           sx == Sign(q[1] - p[1])
           sy == Sign(q[2] - p[2])
<1>1. p[1] \in Int /\ p[2] \in Int /\ q[1] \in Int /\ q[2] \in Int
  OBVIOUS
<1>2. /\ dx \in Nat /\ dy \in Nat /\ sx \in {1, -1} /\ sy \in {1, -1}
      /\ q[1] - p[1] = IF sx = 1 THEN dx ELSE -dx
      /\ q[2] - p[2] = IF sy = 1 THEN dy ELSE -dy
  BY <1>1 DEF AbsDiff, Sign
<1>3. c[1] - p[1] = i * sx /\ c[2] - p[2] = j * sy
  BY <1>1, <1>2
<1>4. Cross(p, q, c) = (q[1] - p[1]) * (j * sy) - (q[2] - p[2]) * (i * sx)
  BY <1>3 DEF Cross
<1> HIDE DEF dx, dy, sx, sy
<1>5. dx * j \in Int /\ dy * i \in Int
  BY <1>2
<1>6. CASE sx = 1 /\ sy = 1
  <2>1. Cross(p, q, c) = dx * j - dy * i
    BY <1>2, <1>4, <1>6
  <2> QED BY <1>5, <1>6, <2>1 DEF SameOrOpposite, Offset, dx, dy, sx, sy
<1>7. CASE sx = -1 /\ sy = -1
  <2>1. Cross(p, q, c) = dx * j - dy * i
    <3>1. Cross(p, q, c) = (-dx) * (j * (-1)) - (-dy) * (i * (-1))
      BY <1>2, <1>4, <1>7
    <3> QED BY <1>2, <3>1
  <2> QED BY <1>5, <1>7, <2>1 DEF SameOrOpposite, Offset, dx, dy, sx, sy
<1>8. CASE sx = 1 /\ sy = -1
  <2>1. Cross(p, q, c) = -(dx * j - dy * i)
    <3>1. Cross(p, q, c) = dx * (j * (-1)) - (-dy) * (i * 1)
      BY <1>2, <1>4, <1>8
    <3> QED BY <1>2, <3>1
  <2> QED BY <1>5, <1>8, <2>1 DEF SameOrOpposite, Offset, dx, dy, sx, sy
<1>9. CASE sx = -1 /\ sy = 1
  <2>1. Cross(p, q, c) = -(dx * j - dy * i)
    <3>1. Cross(p, q, c) = (-dx) * (j * 1) - dy * (i * (-1))
      BY <1>2, <1>4, <1>9
    <3> QED BY <1>2, <3>1
  <2> QED BY <1>5, <1>9, <2>1 DEF SameOrOpposite, Offset, dx, dy, sx, sy
<1> QED BY <1>2, <1>6, <1>7, <1>8, <1>9

(* Where a line is after i steps along its longer axis.                    *)
LEMMA CarriesAre ==
  ASSUME NEW da \in Nat \ {0}, NEW db \in Nat, NEW i \in Nat, NEW k \in Int,
         k * da <= da \div 2 + i * db, da \div 2 + i * db < k * da + da
  PROVE  Carries(i, da, db) = k
<1> DEFINE a == da \div 2 + i * db
           r == a - k * da
<1>1. a \in Int /\ k * da \in Int
  <2>1. i * db \in Nat /\ da \div 2 \in 0 .. da - 1
    BY CarriesAndRest
  <2> QED BY <2>1
<1>2. k * da <= a /\ a < k * da + da
  OBVIOUS
<1>3. Carries(i, da, db) = a \div da
  BY DEF Carries
<1> HIDE DEF a
<1>4. r \in 0 .. da - 1 /\ k * da + r = a
  BY <1>1, <1>2
<1> HIDE DEF r
<1>5. (k * da + r) \div da = k
  BY <1>4, DivisionOf
<1> QED BY <1>3, <1>4, <1>5

LEMMA OnLine ==
  ASSUME NEW p \in Int \X Int, NEW q \in Int \X Int, NEW c \in Int \X Int,
         NEW i \in Nat, NEW j \in Nat,
         c[1] = p[1] + i * Sign(q[1] - p[1]), c[2] = p[2] + j * Sign(q[2] - p[2]),
         NEW dx, dx = AbsDiff(p[1], q[1]), NEW dy, dy = AbsDiff(p[2], q[2]),
         \/ /\ dx >= dy /\ i <= dx
            /\ j = Carries(i, dx, dy)
         \/ /\ dx < dy /\ j <= dy
            /\ i = Carries(j, dy, dx)
  PROVE  c \in Line(p, q)
<1>1. dx \in Nat /\ dy \in Nat /\ c = <<c[1], c[2]>>
  BY DEF AbsDiff
<1>2. CASE dx >= dy
  <2>1. i \in 0 .. LineLength(p, q) /\ j = Carries(i, dx, dy)
    BY <1>1, <1>2 DEF LineLength, MaxOf
  <2>2. c = LineCell(p, q, i)
    BY <1>1, <1>2, <2>1 DEF LineCell
  <2> QED BY <2>1, <2>2 DEF Line
<1>3. CASE ~ (dx >= dy)
  <2>1. j \in 0 .. LineLength(p, q) /\ i = Carries(j, dy, dx)
    BY <1>1, <1>3 DEF LineLength, MaxOf
  <2>2. c = LineCell(p, q, j)
    BY <1>1, <1>3, <2>1 DEF LineCell
  <2> QED BY <2>1, <2>2 DEF Line
<1> QED BY <1>2, <1>3

(* A line visits every cell that is less than half a cell from it.         *)
LEMMA NearIsOnLine ==
  ASSUME NEW p \in Int \X Int, NEW q \in Int \X Int, NEW c \in Int \X Int, NearLine(<<p, q>>, c)
  PROVE  c \in Line(p, q)
<1> DEFINE dx == AbsDiff(p[1], q[1])
           dy == AbsDiff(p[2], q[2])
<1>1. /\ p[1] \in Int /\ p[2] \in Int /\ q[1] \in Int /\ q[2] \in Int /\ c[1] \in Int /\ c[2] \in Int
      /\ dx \in Nat /\ dy \in Nat
  BY DEF AbsDiff
<1>2. Range(<<p, q>>) = {p, q}
  BY DEF Range
<1>3. Between(p[1], q[1], c[1]) /\ Between(p[2], q[2], c[2])
  BY <1>1, <1>2 DEF NearLine, InBox, Between
<1>4. PICK i \in 0 .. dx : c[1] = p[1] + i * Sign(q[1] - p[1])
  BY <1>1, <1>3, StepsTo
<1>5. PICK j \in 0 .. dy : c[2] = p[2] + j * Sign(q[2] - p[2])
  BY <1>1, <1>3, StepsTo
<1> DEFINE off == Offset(i, j, dx, dy)
<1>6. off \in Int /\ Cross(p, q, c) \in Int /\ (Cross(p, q, c) = off \/ Cross(p, q, c) = -off)
  BY <1>4, <1>5, CrossOfSteps DEF SameOrOpposite
<1>7. off = 0 \/ (2 * off < MaxOf(dx, dy) /\ -2 * off < MaxOf(dx, dy))
  <2>1. Cross((<<p, q>>)[1], (<<p, q>>)[2], c) = Cross(p, q, c)
    OBVIOUS
  <2> HIDE DEF off, dx, dy
  <2>2. MaxOf(dx, dy) \in Int
    BY <1>1 DEF MaxOf
  <2>3. \/ AbsDiff(Cross(p, q, c), 0) = 0
        \/ 2 * AbsDiff(Cross(p, q, c), 0) < MaxOf(dx, dy)
    BY <2>1 DEF NearLine, dx, dy
  <2> QED BY <1>6, <2>2, <2>3 DEF AbsDiff
<1>8. dx * j \in Int /\ dy * i \in Int /\ off = dx * j - dy * i /\ i * dy = dy * i /\ j * dx = dx * j
  BY <1>1 DEF Offset
<1> HIDE DEF off, dx, dy
<1>9. CASE dx >= dy
  <2>1. CASE dx = 0
    <3>1. dy = 0 /\ i = 0 /\ j = 0
      BY <1>1, <1>9, <2>1
    <3>2. j = Carries(i, dx, dy)
      BY <2>1, <3>1 DEF Carries
    <3> QED BY <1>4, <1>5, <1>9, <2>1, <3>1, <3>2, OnLine DEF dx, dy
  <2>2. CASE dx # 0
    <3>1. j * dx <= dx \div 2 + i * dy /\ dx \div 2 + i * dy < j * dx + dx
      BY <1>1, <1>7, <1>8, <1>9, <2>2 DEF MaxOf
    <3>2. Carries(i, dx, dy) = j
      <4>1. dx \in Nat \ {0} /\ dy \in Nat /\ i \in Nat /\ j \in Int
        BY <1>1, <2>2
      <4> QED BY <3>1, <4>1, CarriesAre
    <3> QED BY <1>1, <1>4, <1>5, <1>9, <3>2, OnLine DEF dx, dy
  <2> QED BY <2>1, <2>2
<1>10. CASE ~ (dx >= dy)
  <2>1. i * dy <= dy \div 2 + j * dx /\ dy \div 2 + j * dx < i * dy + dy
    BY <1>1, <1>7, <1>8, <1>10 DEF MaxOf
  <2>2. Carries(j, dy, dx) = i
    <3>1. dy \in Nat \ {0} /\ dx \in Nat /\ j \in Nat /\ i \in Int
      BY <1>1, <1>10
    <3> QED BY <2>1, <3>1, CarriesAre
  <2> QED BY <1>1, <1>4, <1>5, <1>10, <2>2, OnLine DEF dx, dy
<1> QED BY <1>9, <1>10

(* And so does the line walked the other way.                              *)
LEMMA NearReversed ==
  ASSUME NEW p \in Int \X Int, NEW q \in Int \X Int, NEW c \in Int \X Int, NearLine(<<p, q>>, c)
  PROVE  NearLine(<<q, p>>, c)
<1> DEFINE a == Cross(p, q, c)
           b == Cross(q, p, c)
<1>1. p[1] \in Int /\ p[2] \in Int /\ q[1] \in Int /\ q[2] \in Int /\ c[1] \in Int /\ c[2] \in Int
  OBVIOUS
<1>2. a \in Int /\ b = -a
  BY <1>1 DEF Cross
<1>3. AbsDiff(b, 0) = AbsDiff(a, 0)
  <2> HIDE DEF a, b
  <2> QED BY <1>2 DEF AbsDiff
<1>4. /\ AbsDiff(q[1], p[1]) = AbsDiff(p[1], q[1])
      /\ AbsDiff(q[2], p[2]) = AbsDiff(p[2], q[2])
  BY <1>1 DEF AbsDiff
<1>5. Range(<<p, q>>) = {p, q} /\ Range(<<q, p>>) = {p, q}
  BY DEF Range
<1>6. InBox(<<q, p>>, c)
  BY <1>5 DEF NearLine, InBox
<1> QED BY <1>3, <1>4, <1>6 DEF NearLine


-----------------------------------------------------------------------------
(* The cost of a footprint *)

(* A recursion over the numbers up to n has a solution.                    *)
Solves(f, n, a, step) == f[0] = a /\ \A i \in 1 .. n : f[i] = step[<<i, f[i - 1]>>]

LEMMA Recursion ==
  ASSUME NEW n \in Nat, NEW V, NEW a \in V, NEW step \in [(1 .. n) \X V -> V]
  PROVE  \E f \in [0 .. n -> V] : Solves(f, n, a, step)
<1> DEFINE S == {k \in Nat : k <= n => \E f \in [0 .. k -> V] : Solves(f, k, a, step)}
<1>1. 0 \in S
  <2> DEFINE f == [i \in 0 .. 0 |-> a]
  <2>1. f \in [0 .. 0 -> V] /\ Solves(f, 0, a, step)
    BY DEF Solves
  <2> QED BY <2>1
<1>2. ASSUME NEW k \in S PROVE k + 1 \in S
  <2> SUFFICES ASSUME k + 1 <= n PROVE \E f \in [0 .. k + 1 -> V] : Solves(f, k + 1, a, step)
    OBVIOUS
  <2>1. k \in Nat /\ k <= n /\ k + 1 \in 1 .. n
    OBVIOUS
  <2>2. PICK f \in [0 .. k -> V] : Solves(f, k, a, step)
    BY <2>1
  <2> DEFINE g == [i \in 0 .. k + 1 |-> IF i <= k THEN f[i] ELSE step[<<k + 1, f[k]>>]]
  <2>3. f[k] \in V /\ step[<<k + 1, f[k]>>] \in V
    BY <2>1
  <2>4. g \in [0 .. k + 1 -> V]
    BY <2>1, <2>3
  <2>5. g[0] = f[0] /\ g[k + 1] = step[<<k + 1, f[k]>>] /\ \A i \in 0 .. k : g[i] = f[i]
    BY <2>1
  <2> HIDE DEF g
  <2>6. ASSUME NEW i \in 1 .. k + 1 PROVE g[i] = step[<<i, g[i - 1]>>]
    <3>1. i - 1 \in 0 .. k /\ g[i - 1] = f[i - 1]
      BY <2>1, <2>5
    <3>2. CASE i = k + 1
      BY <2>1, <2>5, <3>1, <3>2
    <3>3. CASE i # k + 1
      <4>1. i \in 1 .. k /\ i \in 0 .. k
        BY <2>1, <3>3
      <4> QED BY <2>2, <2>5, <3>1, <4>1 DEF Solves
    <3> QED BY <3>2, <3>3
  <2>7. Solves(g, k + 1, a, step)
    BY <2>2, <2>5, <2>6 DEF Solves
  <2> QED BY <2>4, <2>7
<1>3. S = Nat
  <2> HIDE DEF S
  <2>1. S \in SUBSET Nat
    BY DEF S
  <2> QED BY <1>1, <1>2, <2>1, Induction
<1>4. n \in S /\ n <= n
  BY <1>3
<1> QED BY <1>4

(* A set of costs that is not empty has a greatest.                        *)
LEMMA GreatestCost ==
  ASSUME NEW S \in SUBSET Cost, S # {}
  PROVE  Max(S) \in S /\ \A x \in S : x <= Max(S)
<1> DEFINE T == {255 - x : x \in S}
<1>1. T \in SUBSET Nat /\ T # {}
  <2>1. \A x \in S : x \in 0 .. 255 /\ 255 - x \in Nat
    BY DEF Cost
  <2> QED BY <2>1
<1> HIDE DEF T
<1>2. PICK m \in T : \A t \in T : m <= t
  BY <1>1, LeastMember
<1>3. PICK y \in S : m = 255 - y
  BY DEF T
<1>4. ASSUME NEW x \in S PROVE y >= x
  <2>1. 255 - x \in T /\ x \in Int /\ y \in Int
    BY DEF T, Cost
  <2> QED BY <1>2, <1>3, <2>1
<1>5. Max(S) \in S /\ \A x \in S : Max(S) >= x
  BY <1>4 DEF Max
<1>6. \A x \in S : x \in Int
  BY DEF Cost
<1> QED BY <1>5, <1>6

CostAt(c) == costmap[getIndex(c)]

(* x is the cost of one of cells, and none has one that is known and       *)
(* higher.                                                                 *)
WorstOf(x, cells) ==
  /\ \E c \in cells : CostAt(c) = x
  /\ \A c \in cells : CostAt(c) \in Cost /\ (CostAt(c) <= x \/ CostAt(c) = NO_INFORMATION)

LEMMA CostInMap ==
  ASSUME TypeOK, NEW c \in MapCells
  PROVE  CostAt(c) \in Cost
BY IndexOfCell DEF TypeOK, MapCells, Indices, getIndex, CostAt

(* A line in the map costs as much as the worst of its cells.              *)
LEMMA LineCostIsWorst ==
  ASSUME TypeOK, NEW p \in MapCells, NEW q \in MapCells
  PROVE  /\ lineCost(p, q) \in Cost
         /\ WorstOf(lineCost(p, q), Line(p, q))
<1> DEFINE costs == {CostAt(c) : c \in Line(p, q)}
<1>1. p \in Int \X Int /\ q \in Int \X Int
  BY DEF MapCells, TypeOK
<1>2. Line(p, q) \subseteq MapCells
  <2> SUFFICES ASSUME NEW c \in Line(p, q) PROVE c \in MapCells
    OBVIOUS
  <2>1. PICK i \in 0 .. LineLength(p, q) : c = LineCell(p, q, i)
    BY DEF Line
  <2>2. c \in Int \X Int /\ Between(p[1], q[1], c[1]) /\ Between(p[2], q[2], c[2])
    BY <1>1, <2>1, LineInBox
  <2> QED BY <2>2 DEF MapCells, TypeOK, Between
<1>3. costs \subseteq Cost /\ costs # {}
  <2>1. 0 \in 0 .. LineLength(p, q)
    BY <1>1 DEF LineLength, MaxOf, AbsDiff
  <2>2. Line(p, q) # {}
    BY <2>1 DEF Line
  <2> HIDE DEF MapCells
  <2>3. \A c \in Line(p, q) : CostAt(c) \in Cost
    BY <1>2, CostInMap
  <2> QED BY <2>2, <2>3
<1>4. lineCost(p, q) = IF LETHAL_OBSTACLE \in costs THEN LETHAL_OBSTACLE ELSE Max(costs)
  <2>1. LineIterator(p, q) = Line(p, q)
    BY <1>1, LineIteratorCells
  <2> QED BY <2>1 DEF lineCost, CostAt
<1> HIDE DEF costs
<1>5. lineCost(p, q) \in costs /\ \A x \in costs : x <= lineCost(p, q) \/ x = NO_INFORMATION
  <2>1. CASE LETHAL_OBSTACLE \in costs
    <3>1. \A x \in costs : x \in 0 .. 255
      BY <1>3 DEF Cost
    <3> QED BY <1>4, <2>1, <3>1 DEF LETHAL_OBSTACLE, NO_INFORMATION
  <2>2. CASE LETHAL_OBSTACLE \notin costs
    BY <1>3, <1>4, <2>2, GreatestCost
  <2> QED BY <2>1, <2>2
<1>6. WorstOf(lineCost(p, q), Line(p, q))
  BY <1>3, <1>5 DEF WorstOf, costs
<1> QED BY <1>3, <1>5, <1>6


(* The ends of a line that footprintCost() walks, which are those of an    *)
(* edge, in this order or, for the last line, in the other.                *)
LEMMA LinesAreEdges ==
  ASSUME NEW S, NEW cells \in Seq(S), NEW n, n = Len(cells), n >= 2, NEW i \in 1 .. n
  PROVE  LET line == FootprintLines(cells)[i]
         IN  /\ line[1] \in S /\ line[2] \in S
             /\ \/ line[1] = cells[i] /\ line[2] = After(cells, i)
                \/ line[2] = cells[i] /\ line[1] = After(cells, i)
<1>1. n \in Nat /\ DOMAIN cells = 1 .. n /\ 1 \in 1 .. n
  OBVIOUS
<1>2. FootprintLines(cells)[i] = IF i < n THEN <<cells[i], cells[i + 1]>> ELSE <<cells[1], cells[i]>>
  BY <1>1 DEF FootprintLines
<1>3. CASE i < n
  <2>1. i % n = i /\ i + 1 \in 1 .. n
    BY <1>1, <1>3
  <2>2. After(cells, i) = cells[i + 1]
    BY <2>1 DEF After
  <2> QED BY <1>1, <1>2, <1>3, <2>1, <2>2
<1>4. CASE ~ (i < n)
  <2>1. i = n
    BY <1>1, <1>4
  <2>2. n % n = 0
    BY <1>1
  <2>3. (i % n) + 1 = 1
    BY <2>1, <2>2
  <2>4. After(cells, i) = cells[1]
    BY <2>3 DEF After
  <2> QED BY <1>1, <1>2, <1>4, <2>1, <2>4
<1> QED BY <1>3, <1>4

WalkedUpTo(lines, i) == UNION {Line(lines[j][1], lines[j][2]) : j \in 1 .. i}

LEMMA FootprintCostOfLines ==
  ASSUME TypeOK, NEW polygon \in Seq(Int \X Int), Len(polygon) >= 2, ~ Refused(polygon)
  PROVE  WorstOf(FootprintCost(polygon), WalkedUpTo(FootprintLines(CellsOf(polygon)), Len(polygon)))
<1> DEFINE n     == Len(polygon)
           cells == CellsOf(polygon)
           lines == FootprintLines(cells)
           L(i)  == lineCost(lines[i][1], lines[i][2])
<1>1. n \in Nat /\ n >= 2 /\ cells \in Seq(MapCells) /\ Len(cells) = n
  <2>1. Len(polygon) > 0 /\ Len(polygon) \in Nat
    OBVIOUS
  <2> QED BY <2>1, CornersInMap
<1> HIDE DEF cells, n
<1>2. ASSUME NEW i \in 1 .. n
      PROVE  L(i) \in Cost /\ WorstOf(L(i), Line(lines[i][1], lines[i][2]))
  <2>1. lines[i][1] \in MapCells /\ lines[i][2] \in MapCells
    BY <1>1, LinesAreEdges
  <2> HIDE DEF lines
  <2> QED BY <2>1, LineCostIsWorst
<1> HIDE DEF lines
<1> DEFINE cost[i \in 0 .. n] ==
             IF i = 0 THEN 0
             ELSE IF cost[i - 1] = LETHAL_OBSTACLE THEN LETHAL_OBSTACLE
             ELSE MaxOf(lineCost(lines[i][1], lines[i][2]), cost[i - 1])
           Next1(i, v) == IF v = LETHAL_OBSTACLE THEN LETHAL_OBSTACLE ELSE MaxOf(L(i), v)
           Step(f) == [i \in 0 .. n |-> IF i = 0 THEN 0 ELSE Next1(i, f[i - 1])]
<1>3. FootprintCost(polygon) = cost[n]
  BY DEF FootprintCost, lines, cells, n
<1> HIDE DEF L
<1>4. \A i \in 1 .. n, v \in Cost : Next1(i, v) \in Cost
  BY <1>2 DEF MaxOf, LETHAL_OBSTACLE, Cost
<1>5. \E f : f = Step(f)
  <2> DEFINE step == [e \in (1 .. n) \X Cost |-> Next1(e[1], e[2])]
  <2> HIDE DEF Next1
  <2>1. step \in [(1 .. n) \X Cost -> Cost]
    BY <1>4
  <2>2. 0 \in Cost
    BY DEF Cost
  <2> HIDE DEF step
  <2>3. PICK f \in [0 .. n -> Cost] : Solves(f, n, 0, step)
    BY <1>1, <2>1, <2>2, Recursion
  <2>4. ASSUME NEW i \in 1 .. n PROVE f[i] = Next1(i, f[i - 1])
    <3>1. f[i - 1] \in Cost /\ <<i, f[i - 1]>> \in (1 .. n) \X Cost
      BY <1>1
    <3> QED BY <2>3, <3>1 DEF step, Solves
  <2>5. f = [i \in 0 .. n |-> f[i]]
    OBVIOUS
  <2>6. f = Step(f)
    <3>1. \A i \in 0 .. n : f[i] = Step(f)[i]
      BY <1>1, <2>3, <2>4 DEF Solves
    <3>2. Step(f) = [i \in 0 .. n |-> Step(f)[i]]
      OBVIOUS
    <3> HIDE DEF Step
    <3> QED BY <2>5, <3>1, <3>2
  <2> QED BY <2>6
<1>6. cost = Step(cost)
  BY <1>5 DEF L
<1> HIDE DEF cost
<1> DEFINE Good == {i \in Nat : i <= n => /\ cost[i] \in Cost
                                          /\ i # 0 => WorstOf(cost[i], WalkedUpTo(lines, i))}
<1>7. 0 \in Good
  <2>1. cost[0] = 0
    BY <1>1, <1>6
  <2> QED BY <2>1 DEF Cost
<1>8. ASSUME NEW k \in Good PROVE k + 1 \in Good
  <2> DEFINE i == k + 1
             line == Line(lines[i][1], lines[i][2])
  <2> SUFFICES ASSUME i <= n
               PROVE  i \in Nat /\ cost[i] \in Cost /\ WorstOf(cost[i], WalkedUpTo(lines, i))
    OBVIOUS
  <2>1. i \in 1 .. n /\ k \in 0 .. n /\ i - 1 = k /\ i \in Nat
    BY <1>1
  <2>2. cost[k] \in Cost /\ (k # 0 => WorstOf(cost[k], WalkedUpTo(lines, k)))
    BY <1>1, <2>1
  <2>3. cost[i] = IF cost[k] = LETHAL_OBSTACLE THEN LETHAL_OBSTACLE ELSE MaxOf(L(i), cost[k])
    <3>1. i # 0 /\ i \in 0 .. n
      BY <2>1
    <3>2. cost[i] = Step(cost)[i]
      BY <1>6
    <3> HIDE DEF i
    <3> QED BY <2>1, <3>1, <3>2
  <2>4. L(i) \in Cost /\ WorstOf(L(i), line)
    <3> HIDE DEF i
    <3> QED BY <1>2, <2>1 DEF L
  <2>5. cost[i] \in Cost
    BY <1>4, <2>1, <2>2, <2>3
  <2>6. \A c : c \in WalkedUpTo(lines, i) <=> c \in WalkedUpTo(lines, k) \/ c \in line
    <3>1. \A j : j \in 1 .. i <=> j \in 1 .. k \/ j = i
      BY <2>1
    <3> HIDE DEF i
    <3> QED BY <3>1 DEF WalkedUpTo
  <2>9. /\ (L(i) <= cost[i] /\ cost[k] <= cost[i]) \/ cost[i] = LETHAL_OBSTACLE
        /\ cost[i] = L(i) \/ (cost[i] = cost[k] /\ k # 0)
    <3>1. k = 0 => cost[k] = 0
      BY <1>1, <1>6
    <3> DEFINE a == cost[i]  b == cost[k]  l == L(i)
    <3>2. a = IF b = LETHAL_OBSTACLE THEN LETHAL_OBSTACLE ELSE MaxOf(l, b)
      BY <2>3
    <3>3. b \in 0 .. 255 /\ l \in 0 .. 255 /\ (k = 0 => b = 0)
      BY <2>2, <2>4, <3>1 DEF Cost
    <3> HIDE DEF a, b, l
    <3>4. ((l <= a /\ b <= a) \/ a = LETHAL_OBSTACLE) /\ (a = l \/ (a = b /\ k # 0))
      BY <3>2, <3>3 DEF MaxOf, LETHAL_OBSTACLE
    <3> QED BY <3>4 DEF a, b, l
  <2>7. ASSUME NEW c \in WalkedUpTo(lines, i)
        PROVE  CostAt(c) \in Cost /\ (CostAt(c) <= cost[i] \/ CostAt(c) = NO_INFORMATION)
    <3>1. k = 0 => c \notin WalkedUpTo(lines, k)
      BY DEF WalkedUpTo
    <3>2. c \in line => CostAt(c) \in Cost /\ (CostAt(c) <= L(i) \/ CostAt(c) = NO_INFORMATION)
      BY <2>4 DEF WorstOf
    <3>3. c \in WalkedUpTo(lines, k) =>
            CostAt(c) \in Cost /\ (CostAt(c) <= cost[k] \/ CostAt(c) = NO_INFORMATION)
      BY <2>2, <3>1 DEF WorstOf
    <3>4. CostAt(c) \in Cost /\ CostAt(c) \in 0 .. 255
      BY <2>6, <3>2, <3>3 DEF Cost
    <3> DEFINE a == cost[i]  b == cost[k]  l == L(i)  x == CostAt(c)
    <3>5. ((l <= a /\ b <= a) \/ a = LETHAL_OBSTACLE) /\ a \in 0 .. 255 /\ b \in 0 .. 255 /\ l \in 0 .. 255
      BY <2>2, <2>4, <2>5, <2>9 DEF Cost
    <3>6. x \in 0 .. 255 /\ (x <= l \/ x <= b \/ x = NO_INFORMATION)
      BY <2>6, <3>2, <3>3, <3>4
    <3> HIDE DEF a, b, l, x
    <3>7. x <= a \/ x = NO_INFORMATION
      BY <3>5, <3>6 DEF LETHAL_OBSTACLE, NO_INFORMATION
    <3> QED BY <3>4, <3>7 DEF a, x
  <2>8. \E c \in WalkedUpTo(lines, i) : CostAt(c) = cost[i]
    <3>1. CASE cost[i] = L(i)
      BY <2>4, <2>6, <3>1 DEF WorstOf
    <3>2. CASE cost[i] = cost[k] /\ k # 0
      BY <2>2, <2>6, <3>2 DEF WorstOf
    <3> QED BY <2>9, <3>1, <3>2
  <2> QED BY <2>1, <2>5, <2>7, <2>8 DEF WorstOf
<1>9. Good = Nat
  <2> HIDE DEF Good
  <2>1. Good \in SUBSET Nat
    BY DEF Good
  <2> QED BY <1>7, <1>8, <2>1, Induction
<1>10. WorstOf(cost[n], WalkedUpTo(lines, n))
  BY <1>1, <1>9
<1> QED BY <1>3, <1>10 DEF lines, cells, n


(* What FootprintCostIsWorst says of one call.                             *)
IsWorst(result, refused, cells, map, width, here) ==
  IF refused
  THEN result = LETHAL_OBSTACLE
  ELSE LET edges  == Range(Edges(cells))
           touched == {c \in here : \E e \in edges : NearLine(e, c)}
           about   == UNION {LineIterator(e[1], e[2]) \cup LineIterator(e[2], e[1]) : e \in edges}
       IN  /\ \E c \in about : map[CellIndex(c, width)] = result
           /\ \A c \in touched : LET cost == map[CellIndex(c, width)]
                                 IN  cost <= result \/ cost = NO_INFORMATION

LEMMA FootprintWorst ==
  ASSUME TypeOK, NEW polygon \in Seq(Int \X Int), Len(polygon) >= 2
  PROVE  IsWorst(FootprintCost(polygon), Refused(polygon), CellsOf(polygon), costmap, size_x, MapCells)
<1>1. CASE Refused(polygon)
  BY <1>1 DEF IsWorst, FootprintCost
<1>2. CASE ~ Refused(polygon)
  <2> DEFINE n     == Len(polygon)
             cells == CellsOf(polygon)
             edges == Range(Edges(cells))
             lines == FootprintLines(cells)
             about == UNION {LineIterator(e[1], e[2]) \cup LineIterator(e[2], e[1]) : e \in edges}
             result == FootprintCost(polygon)
  <2>1. n \in Nat /\ n >= 2 /\ cells \in Seq(MapCells) /\ Len(cells) = n /\ Len(cells) > 0
    <3>1. Len(polygon) > 0 /\ Len(polygon) \in Nat
      OBVIOUS
    <3> QED BY <1>2, <3>1, CornersInMap
  <2>2. WorstOf(result, WalkedUpTo(lines, n))
    BY <1>2, FootprintCostOfLines
  <2> HIDE DEF cells, n, result
  <2>3. /\ DOMAIN cells = 1 .. n
        /\ \A i \in DOMAIN cells : cells[i] \in MapCells /\ After(cells, i) \in MapCells
        /\ edges = {<<cells[i], After(cells, i)>> : i \in DOMAIN cells}
    BY <2>1, EdgesOf
  <2>4. \A p \in MapCells : p \in Int \X Int
    BY DEF MapCells, TypeOK
  <2>5. ASSUME NEW i \in 1 .. n
        PROVE  \/ /\ lines[i][1] = cells[i] /\ lines[i][2] = After(cells, i)
               \/ /\ lines[i][2] = cells[i] /\ lines[i][1] = After(cells, i)
    <3>1. cells \in Seq(MapCells) /\ n = Len(cells) /\ n >= 2
      BY <2>1, Zenon
    <3> HIDE DEF edges, about
    <3> QED BY ONLY <3>1, i \in 1 .. n, LinesAreEdges
  <2> HIDE DEF lines, edges
  <2>6. \E c \in about : CostAt(c) = result
    <3>1. PICK c \in WalkedUpTo(lines, n) : CostAt(c) = result
      BY <2>2 DEF WorstOf
    <3>2. PICK i \in 1 .. n : c \in Line(lines[i][1], lines[i][2])
      BY DEF WalkedUpTo
    <3> DEFINE e == <<cells[i], After(cells, i)>>
    <3>3. e \in edges /\ e[1] = cells[i] /\ e[2] = After(cells, i)
      BY <2>3
    <3>4. e[1] \in Int \X Int /\ e[2] \in Int \X Int
      BY <2>3, <2>4, <3>3
    <3>5. LineIterator(e[1], e[2]) = Line(e[1], e[2]) /\ LineIterator(e[2], e[1]) = Line(e[2], e[1])
      <4> HIDE DEF e
      <4> QED BY <3>4, LineIteratorCells
    <3>6. c \in LineIterator(e[1], e[2]) \cup LineIterator(e[2], e[1])
      BY <2>5, <3>2, <3>3, <3>5
    <3>7. c \in about
      <4> HIDE DEF e
      <4> QED BY <3>3, <3>6
    <3> QED BY <3>1, <3>7
  <2>7. ASSUME NEW c \in MapCells, NEW e \in edges, NearLine(e, c)
        PROVE  CostAt(c) <= result \/ CostAt(c) = NO_INFORMATION
    <3>1. PICK i \in 1 .. n : e = <<cells[i], After(cells, i)>>
      BY <2>3
    <3> DEFINE p == cells[i]  q == After(cells, i)
    <3>2. p \in Int \X Int /\ q \in Int \X Int /\ c \in Int \X Int
      BY <2>3, <2>4
    <3>3. NearLine(<<p, q>>, c)
      BY <2>7, <3>1
    <3> HIDE DEF p, q
    <3>4. NearLine(<<q, p>>, c)
      BY <3>2, <3>3, NearReversed
    <3>5. c \in Line(p, q) /\ c \in Line(q, p)
      BY <3>2, <3>3, <3>4, NearIsOnLine
    <3>6. c \in Line(lines[i][1], lines[i][2])
      BY <2>5, <3>5 DEF p, q
    <3>7. c \in WalkedUpTo(lines, n)
      BY <3>6 DEF WalkedUpTo
    <3> QED BY <2>2, <3>7 DEF WorstOf
  <2> QED BY <1>2, <2>6, <2>7 DEF IsWorst, CostAt, getIndex, edges, cells, result
<1> QED BY <1>1, <1>2

LEMMA FootprintStep ==
  ASSUME TypeOK, FootprintCostIsWorst, [LayerNext]_<<vars, layer_vars>>
  PROVE  FootprintCostIsWorst'
<1> SUFFICES ASSUME call'.op = "footprintCost" PROVE FootprintCostIsWorst'
  BY DEF FootprintCostIsWorst
<1>1. CASE GridCall
  <2>1. PICK polygon \in Polygons : footprintCost(polygon)
    BY <1>1, GridOps DEF GridCall
  <2>2. polygon \in Seq(Int \X Int) /\ Len(polygon) >= 2
    BY Costmap2DAssumption
  <2>3. IsWorst(FootprintCost(polygon), Refused(polygon), CellsOf(polygon), costmap, size_x, MapCells)
    BY <2>2, FootprintWorst
  <2>4. /\ call' = [op |-> "footprintCost", polygon |-> polygon, result |-> FootprintCost(polygon)]
        /\ UNCHANGED <<size_x, size_y, origin, costmap>>
    BY <2>1 DEF footprintCost, Called
  <2>5. call'.polygon = polygon /\ call'.result = FootprintCost(polygon)
    BY <2>4
  <2>6. /\ Refused(call.polygon)' = Refused(polygon) /\ CellsOf(call.polygon)' = CellsOf(polygon)
        /\ MapCells' = MapCells
    BY <2>4, <2>5 DEF Refused, InMap, CellsOf, worldToMap, MapCells
  <2>7. IsWorst(call'.result, Refused(call.polygon)', CellsOf(call.polygon)', costmap', size_x', MapCells')
    BY <2>3, <2>4, <2>5, <2>6
  <2> QED BY <2>7 DEF FootprintCostIsWorst, IsWorst, getIndex
<1>2. CASE useExtraBounds
  BY <1>2 DEF useExtraBounds, Called
<1>3. CASE LayerNext /\ ~ GridCall /\ ~ useExtraBounds
  <2>1. call'.op \in {"clearLayerRegion", "clearRegion"}
    <3>1. ASSUME NEW position \in Positions, NEW d \in Distances, NEW invert \in BOOLEAN,
                 clearLayerRegion(position, d, invert)
          PROVE  call'.op = "clearLayerRegion"
      BY <3>1 DEF clearLayerRegion, Called
    <3> QED BY <1>3, <3>1, ClearCalls
  <2> QED BY <2>1
<1>4. CASE UNCHANGED <<vars, layer_vars>>
  BY <1>4 DEF vars, FootprintCostIsWorst, Refused, InMap, CellsOf, worldToMap, MapCells, getIndex
<1> QED BY <1>1, <1>2, <1>3, <1>4


(* However the grid is turned into lines of bytes, an obstacle that a      *)
(* footprint touches shows in its cost, or is hidden by an unknown cell.   *)
THEOREM FootprintCostsTheWorst == LayerSpec => []FootprintCostIsWorst
<1>1. LayerInit => TypeOK /\ FootprintCostIsWorst
  <2>1. LayerInit => call.op = "Costmap2D"
    BY DEF LayerInit, Init
  <2> QED BY <2>1, FirstState DEF LayerInit, FootprintCostIsWorst
<1>2. TypeOK /\ FootprintCostIsWorst /\ [LayerNext]_<<vars, layer_vars>>
        => (TypeOK /\ FootprintCostIsWorst)'
  BY LayerStep, StutterStep, FootprintStep
<1> QED BY <1>1, <1>2, PTL DEF LayerSpec

-----------------------------------------------------------------------------
(* The area of a polygon *)

(* Where the line is, i steps along the x axis, and on which side j steps  *)
(* along the other are.                                                    *)
IsStepAt(k, i, j, dx, dy) ==
  /\ \/ /\ dx >= dy
        /\ k = Carries(i, dx, dy)
     \/ /\ dx < dy
        /\ i = Carries(k, dy, dx)
  /\ Offset(i, j, dx, dy) >= 0 => k <= j
  /\ Offset(i, j, dx, dy) <= 0 => j <= k

LEMMA StepAt ==
  ASSUME NEW dx \in Nat \ {0}, NEW dy \in Nat, NEW i \in 0 .. dx, NEW j \in Int
  PROVE  \E k \in 0 .. dy : IsStepAt(k, i, j, dx, dy)
<1> DEFINE off == Offset(i, j, dx, dy)
<1>1. dx * j \in Int /\ dy * i \in Nat /\ off = dx * j - dy * i /\ i * dy = dy * i /\ j * dx = dx * j
  BY TimesMonotone DEF Offset
<1> HIDE DEF off
<1>2. CASE dx >= dy
  <2> DEFINE k == Carries(i, dx, dy)  r == Rest(i, dx, dy)
  <2>1. i \in Nat /\ dy \in 0 .. dx
    BY <1>2
  <2>2. /\ k \in Int /\ r \in 0 .. dx - 1 /\ dx \div 2 \in 0 .. dx - 1
        /\ dx \div 2 + i * dy = k * dx + r
    BY <2>1, CarriesAndRest
  <2>3. k \in 0 .. dy
    BY <2>1, CarriesBounds
  <2> HIDE DEF k, r
  <2>4. ASSUME off >= 0 PROVE k <= j
    <3> SUFFICES ASSUME j + 1 <= k PROVE FALSE
      BY <2>2
    <3>1. (j + 1) * dx <= k * dx /\ k * dx \in Int
      BY <2>2, TimesMonotone
    <3>2. (j + 1) * dx = j * dx + dx
      OBVIOUS
    <3> QED BY <1>1, <2>2, <2>4, <3>1, <3>2
  <2>5. ASSUME off <= 0 PROVE j <= k
    <3> SUFFICES ASSUME k + 1 <= j PROVE FALSE
      BY <2>2
    <3>1. (k + 1) * dx <= j * dx /\ k * dx \in Int
      BY <2>2, TimesMonotone
    <3>2. (k + 1) * dx = k * dx + dx
      BY <2>2
    <3> QED BY <1>1, <2>2, <2>5, <3>1, <3>2
  <2> QED BY <1>2, <2>3, <2>4, <2>5 DEF IsStepAt, k, off
<1>3. CASE ~ (dx >= dy)
  <2> DEFINE m == (dy * i) \div dx  r == (dy * i) % dx
  <2>1. m \in Int /\ r \in 0 .. dx - 1 /\ dy * i = m * dx + r
    <3> DEFINE a == dy * i
    <3>1. a \in Int
      BY <1>1
    <3> HIDE DEF a
    <3>2. a \div dx \in Int /\ a % dx \in 0 .. dx - 1 /\ a = (a \div dx) * dx + (a % dx)
      BY <3>1, Division
    <3> QED BY <3>2 DEF a
  <2> HIDE DEF m, r
  <2>2. m * dx \in Int /\ (m + 1) * dx = m * dx + dx /\ dy \in Nat \ {0} /\ dy \div 2 \in 0 .. dy - 1
    BY <1>3, <2>1
  <2>3. m \in 0 .. dy /\ (r # 0 => m + 1 <= dy)
    <3>1. ~ (m <= -1)
      <4> SUFFICES ASSUME m <= -1 PROVE FALSE
        OBVIOUS
      <4>1. m * dx <= (-1) * dx
        BY <2>1, TimesMonotone
      <4> QED BY <1>1, <2>1, <2>2, <4>1
    <3>2. dy * i <= dx * dy /\ dx * dy = dy * dx /\ dy * dx \in Int
      <4>1. i * dy <= dx * dy
        BY TimesMonotone
      <4> QED BY <1>1, <4>1
    <3>3. ~ (dy + 1 <= m)
      <4> SUFFICES ASSUME dy + 1 <= m PROVE FALSE
        OBVIOUS
      <4>1. (dy + 1) * dx <= m * dx /\ (dy + 1) * dx = dy * dx + dx
        BY <2>1, TimesMonotone
      <4> QED BY <2>1, <2>2, <3>2, <4>1
    <3>4. m = dy => r = 0
      <4> SUFFICES ASSUME m = dy PROVE r = 0
        OBVIOUS
      <4>1. m * dx = dy * dx
        OBVIOUS
      <4> QED BY <1>1, <2>1, <3>2, <4>1
    <3> QED BY <2>1, <3>1, <3>3, <3>4
  <2>4. /\ off >= 0 => m <= j /\ (r # 0 => m + 1 <= j)
        /\ off <= 0 => j <= m
    <3>1. ASSUME off >= 0 PROVE m <= j
      <4> SUFFICES ASSUME j + 1 <= m PROVE FALSE
        BY <2>1
      <4>1. (j + 1) * dx <= m * dx /\ (j + 1) * dx = j * dx + dx
        BY <2>1, TimesMonotone
      <4> QED BY <1>1, <2>1, <2>2, <3>1, <4>1
    <3>2. ASSUME off >= 0, m = j PROVE r = 0
      <4>1. m * dx = j * dx
        BY <3>2
      <4> QED BY <1>1, <2>1, <2>2, <3>2, <4>1
    <3>3. ASSUME off <= 0 PROVE j <= m
      <4> SUFFICES ASSUME m + 1 <= j PROVE FALSE
        BY <2>1
      <4>1. (m + 1) * dx <= j * dx
        BY <2>1, TimesMonotone
      <4> QED BY <1>1, <2>1, <2>2, <3>3, <4>1
    <3> QED BY <2>1, <3>1, <3>2, <3>3
  <2>5. i * dy \in Int /\ i * dy + dy \in Int /\ i \in Int
    BY <1>1
  <2>6. CASE i * dy <= dy \div 2 + m * dx
    <3>1. dy \div 2 + m * dx < i * dy + dy
      BY <1>1, <2>1, <2>2
    <3>2. m \in Nat /\ dx \in Nat
      BY <2>3
    <3>3. Carries(m, dy, dx) = i
      BY <2>2, <2>5, <2>6, <3>1, <3>2, CarriesAre
    <3>4. IsStepAt(m, i, j, dx, dy)
      BY <1>3, <2>4, <3>3 DEF IsStepAt, off
    <3> QED BY <2>3, <3>4
  <2>7. CASE ~ (i * dy <= dy \div 2 + m * dx)
    <3> DEFINE k == m + 1
    <3>1. r # 0 /\ m + 1 <= dy
      BY <1>1, <2>1, <2>2, <2>3, <2>7
    <3>2. k * dx = m * dx + dx /\ k \in 0 .. dy /\ k \in Nat /\ dx \in Nat
      BY <2>2, <2>3, <3>1
    <3>3. i * dy <= dy \div 2 + k * dx /\ dy \div 2 + k * dx < i * dy + dy
      BY <1>1, <1>3, <2>1, <2>2, <2>7, <3>2
    <3>4. off >= 0 => k <= j
      BY <2>4, <3>1
    <3>5. off <= 0 => j <= k
      BY <2>1, <2>4
    <3> HIDE DEF k
    <3>6. Carries(k, dy, dx) = i
      BY <2>2, <2>5, <3>2, <3>3, CarriesAre
    <3>7. IsStepAt(k, i, j, dx, dy)
      BY <1>3, <3>4, <3>5, <3>6 DEF IsStepAt, off
    <3> QED BY <3>2, <3>7
  <2> QED BY <2>6, <2>7
<1> QED BY <1>2, <1>3


(* Of a column that a line crosses, it has a cell that is not above c, or  *)
(* not below, depending on the side that c is on.                          *)
NotAbove(cells, c) == \E b \in cells : b[1] = c[1] /\ b[2] <= c[2]
NotBelow(cells, c) == \E a \in cells : a[1] = c[1] /\ c[2] <= a[2]

CoversFrom(cells, p, q, c) ==
  /\ p[1] < q[1] /\ Cross(p, q, c) >= 0 => NotAbove(cells, c)
  /\ q[1] < p[1] /\ Cross(p, q, c) <= 0 => NotAbove(cells, c)
  /\ p[1] < q[1] /\ Cross(p, q, c) <= 0 => NotBelow(cells, c)
  /\ q[1] < p[1] /\ Cross(p, q, c) >= 0 => NotBelow(cells, c)

LEMMA LineCovers ==
  ASSUME NEW p \in Int \X Int, NEW q \in Int \X Int, NEW c \in Int \X Int,
         p[1] # q[1], Between(p[1], q[1], c[1])
  PROVE  CoversFrom(Line(p, q), p, q, c)
<1> DEFINE dx == AbsDiff(p[1], q[1])
           dy == AbsDiff(p[2], q[2])
           sx == Sign(q[1] - p[1])
           sy == Sign(q[2] - p[2])
           d  == Cross(p, q, c)
           j  == (c[2] - p[2]) * sy
<1>1. /\ p[1] \in Int /\ p[2] \in Int /\ q[1] \in Int /\ q[2] \in Int /\ c[1] \in Int /\ c[2] \in Int
      /\ dx \in Nat \ {0} /\ dy \in Nat
      /\ sy \in {1, -1} /\ sx \in {1, -1} /\ (sx = 1 <=> p[1] < q[1]) /\ (sx = -1 <=> q[1] < p[1])
  BY DEF AbsDiff, Sign
<1>2. PICK i \in 0 .. dx : c[1] = p[1] + i * sx
  BY <1>1, StepsTo
<1>3. j \in Int /\ c[2] = p[2] + j * sy
  <2> HIDE DEF sy
  <2> QED BY <1>1
<1> DEFINE off == Offset(i, j, dx, dy)
<1>4. SameOrOpposite(d, off, sx = sy) /\ off \in Int /\ d \in Int
  <2> HIDE DEF j
  <2> QED BY <1>2, <1>3, CrossOfSteps
<1>5. PICK k \in 0 .. dy : IsStepAt(k, i, j, dx, dy)
  <2> HIDE DEF j, dx, dy
  <2> QED BY <1>1, <1>3, StepAt
<1> DEFINE b == <<c[1], p[2] + k * sy>>
<1>6. b \in Int \X Int /\ b[1] = c[1] /\ b[2] = p[2] + k * sy
  <2> HIDE DEF sy
  <2> QED BY <1>1
<1>7. b \in Line(p, q)
  <2>1. \/ /\ dx >= dy /\ i <= dx
           /\ k = Carries(i, dx, dy)
        \/ /\ dx < dy /\ k <= dy
           /\ i = Carries(k, dy, dx)
    BY <1>5 DEF IsStepAt
  <2>2. i \in Nat /\ k \in Nat
    BY <1>1
  <2> HIDE DEF b
  <2> QED BY <1>2, <1>6, <2>1, <2>2, OnLine
<1>8. (off >= 0 => k <= j) /\ (off <= 0 => j <= k)
  BY <1>5 DEF IsStepAt
<1> HIDE DEF b, off, j, sx, sy, d, dx, dy
<1>9. /\ sx = 1 /\ d >= 0 => b[2] <= c[2]
      /\ sx = -1 /\ d <= 0 => b[2] <= c[2]
      /\ sx = 1 /\ d <= 0 => c[2] <= b[2]
      /\ sx = -1 /\ d >= 0 => c[2] <= b[2]
  <2>1. CASE sy = 1
    BY <1>1, <1>3, <1>4, <1>6, <1>8, <2>1 DEF SameOrOpposite
  <2>2. CASE sy = -1
    BY <1>1, <1>3, <1>4, <1>6, <1>8, <2>2 DEF SameOrOpposite
  <2> QED BY <1>1, <2>1, <2>2
<1> QED BY <1>1, <1>6, <1>7, <1>9 DEF CoversFrom, NotAbove, NotBelow, d

(* What InPolygon says of one edge.                                        *)
LEMMA CrossIsInt ==
  ASSUME NEW p \in Int \X Int, NEW q \in Int \X Int, NEW c \in Int \X Int
  PROVE  Cross(p, q, c) \in Int
<1> DEFINE a == q[1] - p[1]
           b == c[2] - p[2]
           d == q[2] - p[2]
           e == c[1] - p[1]
<1>1. a \in Int /\ b \in Int /\ d \in Int /\ e \in Int
  OBVIOUS
<1> HIDE DEF a, b, d, e
<1>2. a * b - d * e \in Int
  BY <1>1
<1> QED BY <1>2, Zenon DEF a, b, d, e, Cross

Beside(side, p, q, c, slack) ==
  2 * side * Cross(p, q, c) >= -slack * MaxOf(AbsDiff(p[1], q[1]), AbsDiff(p[2], q[2]))

LEMMA InPolygonIs ==
  ASSUME NEW polygon \in Seq(Int \X Int), Len(polygon) > 0, NEW c, NEW slack
  PROVE  InPolygon(polygon, c, slack)
           <=> /\ InBox(polygon, c)
               /\ \E side \in {1, -1} : \A i \in DOMAIN polygon :
                    Beside(side, polygon[i], After(polygon, i), c, slack)
<1>1. Range(Edges(polygon)) = {<<polygon[i], After(polygon, i)>> : i \in DOMAIN polygon}
  BY EdgesOf
<1>2. ASSUME NEW side
      PROVE  (\A e \in Range(Edges(polygon)) : Beside(side, e[1], e[2], c, slack))
               <=> \A i \in DOMAIN polygon : Beside(side, polygon[i], After(polygon, i), c, slack)
  <2>1. ASSUME NEW i \in DOMAIN polygon,
               \A e \in Range(Edges(polygon)) : Beside(side, e[1], e[2], c, slack)
        PROVE  Beside(side, polygon[i], After(polygon, i), c, slack)
    <3> DEFINE e == <<polygon[i], After(polygon, i)>>
    <3>1. e \in Range(Edges(polygon)) /\ e[1] = polygon[i] /\ e[2] = After(polygon, i)
      BY <1>1
    <3> HIDE DEF e
    <3>2. Beside(side, e[1], e[2], c, slack)
      BY <2>1, <3>1
    <3> QED BY <3>1, <3>2
  <2>2. ASSUME NEW e \in Range(Edges(polygon)),
               \A i \in DOMAIN polygon : Beside(side, polygon[i], After(polygon, i), c, slack)
        PROVE  Beside(side, e[1], e[2], c, slack)
    <3>1. PICK i \in DOMAIN polygon : e = <<polygon[i], After(polygon, i)>>
      BY <1>1
    <3>2. e[1] = polygon[i] /\ e[2] = After(polygon, i)
      BY <3>1
    <3> QED BY <2>2, <3>2
  <2> QED BY <2>1, <2>2
<1>3. InPolygon(polygon, c, slack)
        <=> /\ InBox(polygon, c)
            /\ \E side \in {1, -1} : \A e \in Range(Edges(polygon)) : Beside(side, e[1], e[2], c, slack)
  BY DEF InPolygon, Beside
<1> QED BY <1>2, <1>3

LEMMA CrossTurns ==
  ASSUME NEW p \in Int \X Int, NEW q \in Int \X Int, NEW c \in Int \X Int
  PROVE  Cross(q, p, c) = -Cross(p, q, c)
<1> DEFINE a == q[1] - p[1]
           b == c[2] - p[2]
           d == q[2] - p[2]
           e == c[1] - p[1]
<1>1. a \in Int /\ b \in Int /\ d \in Int /\ e \in Int
  OBVIOUS
<1>2. p[1] - q[1] = -a /\ c[2] - q[2] = b - d /\ p[2] - q[2] = -d /\ c[1] - q[1] = e - a
  OBVIOUS
<1> HIDE DEF a, b, d, e
<1>3. (-a) * (b - d) - (-d) * (e - a) = -(a * b - d * e)
  BY <1>1
<1> QED BY <1>2, <1>3, Zenon DEF a, b, d, e, Cross

(* The fill has every cell that the outline encloses in its column.        *)
LEMMA FillCovers ==
  ASSUME NEW w \in Nat \ {0}, NEW h \in Nat \ {0}, NEW polygon \in Seq(GridCells(w, h)),
         Len(polygon) >= 3, NEW c \in Int \X Int, Enclosed(polygon, c)
  PROVE  c \in convexFillCells(polygon, w)
<1> DEFINE outline == polygonOutlineCells(polygon, w)
<1>1. /\ polygon \in Seq(Int \X Int) /\ polygon \in Seq((0 .. w - 1) \X Int)
      /\ polygon \in Seq((0 .. w - 1) \X (0 .. h - 1))
      /\ Len(polygon) > 0 /\ Len(polygon) \in Nat
  <2>1. polygon \in Seq((0 .. w - 1) \X (0 .. h - 1))
    BY Zenon DEF GridCells
  <2>2. Len(polygon) > 0 /\ Len(polygon) \in Nat
    BY <2>1
  <2>3. polygon \in Seq((0 .. w - 1) \X Int)
    BY <2>1
  <2>4. polygon \in Seq(Int \X Int)
    BY <2>3
  <2> QED BY <2>1, <2>2, <2>3, <2>4
<1>2. /\ outline \subseteq Int \X Int
      /\ \A d : d \in outline <=> \E i \in DOMAIN polygon : d \in Line(polygon[i], After(polygon, i))
      /\ \A i \in DOMAIN polygon : polygon[i] \in Int \X Int /\ After(polygon, i) \in Int \X Int
  <2>1. outline \subseteq (0 .. w - 1) \X (0 .. h - 1)
    BY <1>1, FillInMap
  <2>2. \A d : d \in outline <=> \E i \in DOMAIN polygon : d \in Line(polygon[i], After(polygon, i))
    BY <1>1, OutlineCells
  <2>3. \A i \in DOMAIN polygon : polygon[i] \in Int \X Int /\ After(polygon, i) \in Int \X Int
    BY <1>1, EdgesOf
  <2> QED BY <2>1, <2>2, <2>3
<1> HIDE DEF outline
<1>3. \A i \in DOMAIN polygon : polygon[i] \in outline
  <2> SUFFICES ASSUME NEW i \in DOMAIN polygon PROVE polygon[i] \in outline
    OBVIOUS
  <2> DEFINE p == polygon[i]  q == After(polygon, i)
  <2>1. p \in Int \X Int /\ q \in Int \X Int
    BY <1>2
  <2> HIDE DEF p, q
  <2>2. 0 \in 0 .. LineLength(p, q)
    BY <2>1 DEF LineLength, MaxOf, AbsDiff
  <2>3. LineCell(p, q, 0) = p
    BY <2>1, <2>2, LineInBox
  <2>4. p \in Line(p, q)
    BY <2>2, <2>3 DEF Line
  <2> QED BY <1>2, <2>4 DEF p, q
<1>4. ASSUME NEW side \in {1, -1}, Passes(polygon, c, side)
      PROVE  /\ side = 1 => NotAbove(outline, c)
             /\ side = -1 => NotBelow(outline, c)
  <2>1. PICK e \in Range(Edges(polygon)) : \E p, q \in {e[1], e[2]} :
               /\ p[1] <= c[1] /\ c[1] <= q[1]
               /\ side * (IF p[1] = q[1] THEN c[2] - p[2] ELSE Cross(p, q, c)) >= 0
    BY <1>4 DEF Passes
  <2>2. PICK i \in DOMAIN polygon : e = <<polygon[i], After(polygon, i)>>
    BY <1>1, EdgesOf
  <2> DEFINE a == polygon[i]  b == After(polygon, i)
  <2>3. e[1] = a /\ e[2] = b
    BY <2>2
  <2>4. /\ a \in Int \X Int /\ b \in Int \X Int
        /\ a \in outline /\ b \in outline /\ Line(a, b) \subseteq outline
    <3>1. \E j \in DOMAIN polygon : b = polygon[j]
      <4>1. DOMAIN polygon = 1 .. Len(polygon) /\ Len(polygon) \in Nat \ {0}
        BY <1>1
      <4>2. (i % Len(polygon)) + 1 \in 1 .. Len(polygon)
        BY <4>1
      <4> QED BY <4>1, <4>2 DEF After
    <3> QED BY <1>2, <1>3, <3>1
  <2> HIDE DEF a, b
  <2>5. PICK p \in {a, b}, q \in {a, b} :
             /\ p[1] <= c[1] /\ c[1] <= q[1]
             /\ side * (IF p[1] = q[1] THEN c[2] - p[2] ELSE Cross(p, q, c)) >= 0
    BY <2>1, <2>3
  <2>6. p \in Int \X Int /\ q \in Int \X Int /\ c[1] \in Int /\ c[2] \in Int
    BY <2>4, <2>5
  <2>7. CASE p[1] = q[1]
    <3>1. p[1] = c[1] /\ p \in outline /\ p[2] \in Int
      BY <2>4, <2>5, <2>6, <2>7
    <3>2. side * (c[2] - p[2]) >= 0
      BY <2>5, <2>7
    <3>3. (side = 1 => p[2] <= c[2]) /\ (side = -1 => c[2] <= p[2])
      BY <2>6, <3>1, <3>2
    <3> QED BY <3>1, <3>3 DEF NotAbove, NotBelow
  <2>8. CASE p[1] # q[1]
    <3>1. p[1] < q[1] /\ Between(a[1], b[1], c[1]) /\ a[1] # b[1]
      BY <2>5, <2>6, <2>8 DEF Between
    <3>2. CoversFrom(Line(a, b), a, b, c)
      BY <2>4, <3>1, LineCovers
    <3>3. /\ NotAbove(Line(a, b), c) => NotAbove(outline, c)
          /\ NotBelow(Line(a, b), c) => NotBelow(outline, c)
      BY <2>4 DEF NotAbove, NotBelow
    <3>4. /\ Cross(a, b, c) \in Int /\ Cross(b, a, c) \in Int
          /\ Cross(b, a, c) = -Cross(a, b, c)
      BY <2>4, CrossIsInt, CrossTurns
    <3>5. side * Cross(p, q, c) >= 0
      BY <2>5, <2>8
    <3> DEFINE d == Cross(a, b, c)  f == Cross(b, a, c)
    <3>6. CASE p = a /\ q = b
      <4>1. a[1] < b[1] /\ side * d >= 0 /\ d \in Int
        BY <3>1, <3>4, <3>5, <3>6
      <4> HIDE DEF d
      <4>2. (side = 1 => d >= 0) /\ (side = -1 => d <= 0)
        BY <4>1
      <4> QED BY <3>2, <3>3, <4>1, <4>2 DEF CoversFrom, d
    <3>7. CASE p = b /\ q = a
      <4>1. b[1] < a[1] /\ side * f >= 0 /\ d \in Int /\ f \in Int /\ f = -d
        BY <3>1, <3>4, <3>5, <3>7
      <4> HIDE DEF d, f
      <4>2. (side = 1 => d <= 0) /\ (side = -1 => d >= 0)
        BY <4>1
      <4> QED BY <3>2, <3>3, <4>1, <4>2 DEF CoversFrom, d
    <3> QED BY <2>5, <2>8, <3>6, <3>7
  <2> QED BY <2>7, <2>8
<1>5. NotAbove(outline, c) /\ NotBelow(outline, c)
  <2>1. Passes(polygon, c, 1) /\ Passes(polygon, c, -1)
    BY DEF Enclosed
  <2> QED BY <1>4, <2>1
<1>6. \E a, b \in outline : a[1] = c[1] /\ b[1] = c[1] /\ a[2] <= c[2] /\ c[2] <= b[2]
  BY <1>5 DEF NotAbove, NotBelow
<1> QED BY <1>2, <1>6, FilledCells DEF outline


(* A mean of two numbers that are not negative, but for an error of half   *)
(* of W, is not less than that below 0.                                    *)
LEMMA WeightedMean ==
  ASSUME NEW D \in Nat \ {0}, NEW i \in 0 .. D, NEW A \in Int, NEW P \in Nat, NEW Q \in Nat,
         NEW W \in Int, NEW m \in Nat, W <= m, -W <= m,
         NEW e \in Int, 2 * e <= D, -2 * e <= D,
         D * A = (D - i) * P + i * Q + W * e
  PROVE  2 * A >= -m
<1>1. (D - i) * P \in Nat /\ i * Q \in Nat
  <2>1. D - i \in Nat /\ i \in Nat
    OBVIOUS
  <2> DEFINE t == D - i
  <2>2. t \in Nat
    BY <2>1
  <2> HIDE DEF t
  <2>3. t * P \in Nat /\ i * Q \in Nat
    BY <2>1, <2>2, TimesMonotone, Z3
  <2> QED BY <2>3 DEF t
<1>2. W * e \in Int /\ 2 * (W * e) >= -(m * D) /\ m * D \in Int
  <2> DEFINE f == 2 * e
  <2>1. f \in Int /\ f <= D /\ -f <= D /\ 2 * (W * e) = f * W /\ m * D = D * m
    OBVIOUS
  <2> HIDE DEF f
  <2>2. W * e \in Int /\ m * D \in Int
    OBVIOUS
  <2>3. CASE W >= 0
    <3>1. (-f) * W <= D * W /\ (-f) * W = -(f * W)
      <4>1. -f \in Int /\ W \in Nat
        BY <2>1, <2>3
      <4> QED BY <2>1, <4>1, TimesMonotone
    <3>2. W * D <= m * D /\ W * D = D * W
      BY TimesMonotone
    <3> QED BY <2>1, <2>2, <3>1, <3>2
  <2>4. CASE ~ (W >= 0)
    <3> DEFINE V == -W
    <3>1. V \in Nat /\ f * W = -(f * V) /\ V <= m
      BY <2>1, <2>4
    <3> HIDE DEF V
    <3>2. f * V <= D * V /\ f * V \in Int /\ D * V \in Int
      BY <2>1, <3>1, TimesMonotone
    <3>3. V * D <= m * D /\ V * D = D * V
      BY <3>1, TimesMonotone
    <3> QED BY <2>1, <2>2, <3>1, <3>2, <3>3
  <2> QED BY <2>2, <2>3, <2>4
<1>3. SUFFICES ASSUME 2 * A + m <= -1 PROVE FALSE
  OBVIOUS
<1>4. (2 * A + m) * D <= (-1) * D
  <2> DEFINE t == 2 * A + m
  <2>1. t \in Int /\ t <= -1
    BY <1>3
  <2> HIDE DEF t
  <2>2. t * D <= (-1) * D
    BY <2>1, TimesMonotone
  <2> QED BY <2>2 DEF t
<1>5. (2 * A + m) * D = 2 * (D * A) + m * D /\ D * A \in Int
  OBVIOUS
<1> DEFINE a == D * A  b == (D - i) * P  c == i * Q  d == W * e  x == m * D  y == (2 * A + m) * D
<1>6. a = b + c + d /\ b \in Nat /\ c \in Nat /\ d \in Int /\ 2 * d >= -x /\ x \in Int
  BY <1>1, <1>2
<1>7. y <= (-1) * D /\ y = 2 * a + x
  BY <1>4, <1>5
<1> HIDE DEF a, b, c, d, x, y
<1> QED BY <1>6, <1>7

(* A place on a line, in terms of its ends.                                *)
LEMMA AlongLine ==
  ASSUME NEW U \in Int, NEW V \in Int, NEW x \in Int, NEW y \in Int, NEW i \in Int, NEW k \in Int,
         NEW sx \in Int, NEW sy \in Int, NEW D \in Int, NEW E \in Int
  PROVE  /\ D * (U * (y + k * sy) - V * (x + i * sx))
              = (D - i) * (U * y - V * x) + i * (U * (y + E * sy) - V * (x + D * sx))
                  + (U * sy) * (D * k - i * E)
         /\ D * (U * (y + i * sy) - V * (x + k * sx))
              = (D - i) * (U * y - V * x) + i * (U * (y + D * sy) - V * (x + E * sx))
                  + (-(V * sx)) * (D * k - i * E)
BY Z3


(* A line whose ends are on one side of an edge is at most half a cell on  *)
(* the other.                                                              *)
LEMMA LineStaysBeside ==
  ASSUME NEW p \in Int \X Int, NEW q \in Int \X Int, NEW u \in Int \X Int, NEW v \in Int \X Int,
         NEW side \in {1, -1}, NEW a \in Line(p, q),
         side * Cross(u, v, p) >= 0, side * Cross(u, v, q) >= 0
  PROVE  Beside(side, u, v, a, 1)
<1> DEFINE U  == side * (v[1] - u[1])
           V  == side * (v[2] - u[2])
           m  == MaxOf(AbsDiff(u[1], v[1]), AbsDiff(u[2], v[2]))
           dx == AbsDiff(p[1], q[1])
           dy == AbsDiff(p[2], q[2])
           sx == Sign(q[1] - p[1])
           sy == Sign(q[2] - p[2])
           x  == p[1] - u[1]
           y  == p[2] - u[2]
           D  == LineLength(p, q)
           F(z) == side * Cross(u, v, z)
<1>1. /\ u[1] \in Int /\ u[2] \in Int /\ v[1] \in Int /\ v[2] \in Int
      /\ p[1] \in Int /\ p[2] \in Int /\ q[1] \in Int /\ q[2] \in Int
  OBVIOUS
<1>2. /\ U \in Int /\ V \in Int /\ x \in Int /\ y \in Int /\ m \in Nat
      /\ U <= m /\ -U <= m /\ V <= m /\ -V <= m
  BY <1>1 DEF MaxOf, AbsDiff
<1>3. /\ dx \in Nat /\ dy \in Nat /\ sx \in {1, -1} /\ sy \in {1, -1}
      /\ q[1] - p[1] = dx * sx /\ q[2] - p[2] = dy * sy
      /\ D = IF dx < dy THEN dy ELSE dx
  BY <1>1 DEF AbsDiff, Sign, LineLength, MaxOf
<1>4. ASSUME NEW z \in Int \X Int
      PROVE  F(z) = U * (z[2] - u[2]) - V * (z[1] - u[1]) /\ F(z) \in Int
  <2>1. z[1] \in Int /\ z[2] \in Int
    OBVIOUS
  <2>2. Cross(u, v, z) \in Int
    BY <1>1, <2>1 DEF Cross
  <2>3. CASE side = 1
    BY <1>1, <2>1, <2>2, <2>3 DEF Cross
  <2>4. CASE side = -1
    BY <1>1, <2>1, <2>2, <2>4 DEF Cross
  <2> QED BY <2>3, <2>4
<1>5. PICK i \in 0 .. D : a = LineCell(p, q, i)
  BY DEF Line
<1>6. a \in Int \X Int
  BY <1>5, LineInBox
<1>7. F(p) = U * y - V * x /\ F(q) = U * (y + dy * sy) - V * (x + dx * sx)
  <2>1. q[2] - u[2] = y + dy * sy /\ q[1] - u[1] = x + dx * sx
    <3> HIDE DEF dx, dy, sx, sy
    <3> QED BY <1>1, <1>3
  <2> QED BY <1>4, <2>1
<1>8. F(p) \in Nat /\ F(q) \in Nat /\ F(a) \in Int
  BY <1>4, <1>6
<1>9. 2 * F(a) >= -m
  <2>1. CASE D = 0
    <3>1. a = p
      BY <1>5, <2>1, LineInBox
    <3> HIDE DEF F, m, D
    <3> QED BY <1>2, <1>8, <3>1
  <2>2. CASE D # 0 /\ dx >= dy
    <3> DEFINE k == Carries(i, dx, dy)  r == Rest(i, dx, dy)  e == D * k - i * dy  W == U * sy
    <3>1. D = dx /\ D \in Nat \ {0} /\ i \in Nat
      BY <1>3, <2>2
    <3>2. /\ k \in Int /\ r \in 0 .. dx - 1 /\ dx \div 2 \in 0 .. dx - 1
          /\ dx \div 2 + i * dy = k * dx + r /\ i * dy \in Nat
      <4>1. dx \in Nat \ {0} /\ dy \in Nat
        BY <1>3, <3>1
      <4> HIDE DEF dx, dy, D
      <4> QED BY <3>1, <4>1, CarriesAndRest
    <3>3. a = <<p[1] + i * sx, p[2] + k * sy>>
      BY <1>5, <2>2 DEF LineCell
    <3> HIDE DEF k, r, sx, sy, dx, dy, D, U, V, x, y, m
    <3>4. a[2] - u[2] = y + k * sy /\ a[1] - u[1] = x + i * sx
      BY <1>1, <1>3, <3>2, <3>3 DEF x, y
    <3>5. e \in Int /\ 2 * e <= D /\ -2 * e <= D
      BY <1>3, <3>1, <3>2
    <3>6. D * F(a) = (D - i) * F(p) + i * F(q) + W * e
      <4>1. D * (U * (y + k * sy) - V * (x + i * sx))
              = (D - i) * (U * y - V * x) + i * (U * (y + dy * sy) - V * (x + D * sx))
                  + (U * sy) * (D * k - i * dy)
        <5>1. sx \in Int /\ sy \in Int /\ D \in Int /\ dy \in Int /\ i \in Int
          BY <1>3, <3>1
        <5> QED BY <1>2, <3>2, <5>1, AlongLine
      <4>2. F(a) = U * (y + k * sy) - V * (x + i * sx)
        BY <1>4, <1>6, <3>4
      <4> HIDE DEF F
      <4> QED BY <1>7, <3>1, <4>1, <4>2
    <3>7. W \in Int /\ W <= m /\ -W <= m
      BY <1>2, <1>3
    <3> HIDE DEF F, W, e
    <3> QED BY <1>2, <1>8, <3>1, <3>5, <3>6, <3>7, WeightedMean
  <2>3. CASE D # 0 /\ dx < dy
    <3> DEFINE k == Carries(i, dy, dx)  r == Rest(i, dy, dx)  e == D * k - i * dx  W == -(V * sx)
    <3>1. D = dy /\ D \in Nat \ {0} /\ i \in Nat
      BY <1>3, <2>3
    <3>2. /\ k \in Int /\ r \in 0 .. dy - 1 /\ dy \div 2 \in 0 .. dy - 1
          /\ dy \div 2 + i * dx = k * dy + r /\ i * dx \in Nat
      <4>1. dy \in Nat \ {0} /\ dx \in Nat
        BY <1>3, <3>1
      <4> HIDE DEF dx, dy, D
      <4> QED BY <3>1, <4>1, CarriesAndRest
    <3>3. a = <<p[1] + k * sx, p[2] + i * sy>>
      BY <1>3, <1>5, <2>3 DEF LineCell
    <3> HIDE DEF k, r, sx, sy, dx, dy, D, U, V, x, y, m
    <3>4. a[2] - u[2] = y + i * sy /\ a[1] - u[1] = x + k * sx
      BY <1>1, <1>3, <3>2, <3>3 DEF x, y
    <3>5. e \in Int /\ 2 * e <= D /\ -2 * e <= D
      BY <1>3, <3>1, <3>2
    <3>6. D * F(a) = (D - i) * F(p) + i * F(q) + W * e
      <4>1. D * (U * (y + i * sy) - V * (x + k * sx))
              = (D - i) * (U * y - V * x) + i * (U * (y + D * sy) - V * (x + dx * sx))
                  + (-(V * sx)) * (D * k - i * dx)
        <5>1. sx \in Int /\ sy \in Int /\ D \in Int /\ dx \in Int /\ i \in Int
          BY <1>3, <3>1
        <5> QED BY <1>2, <3>2, <5>1, AlongLine
      <4>2. F(a) = U * (y + i * sy) - V * (x + k * sx)
        BY <1>4, <1>6, <3>4
      <4> HIDE DEF F
      <4> QED BY <1>7, <3>1, <4>1, <4>2
    <3>7. W \in Int /\ W <= m /\ -W <= m
      BY <1>2, <1>3
    <3> HIDE DEF F, W, e
    <3> QED BY <1>2, <1>8, <3>1, <3>5, <3>6, <3>7, WeightedMean
  <2> QED BY <1>3, <2>1, <2>2, <2>3
<1>10. 2 * side * Cross(u, v, a) = 2 * F(a) /\ -1 * m = -m
  <2>1. Cross(u, v, a) \in Int
    BY <1>1, <1>6 DEF Cross
  <2> QED BY <1>2, <2>1
<1> QED BY <1>9, <1>10 DEF Beside


(* Between two places of a column that are beside an edge, all are.        *)
LEMMA ColumnBeside ==
  ASSUME NEW side \in {1, -1}, NEW u \in Int \X Int, NEW v \in Int \X Int,
         NEW a \in Int \X Int, NEW b \in Int \X Int, NEW c \in Int \X Int,
         a[1] = c[1], b[1] = c[1], a[2] <= c[2], c[2] <= b[2],
         Beside(side, u, v, a, 1), Beside(side, u, v, b, 1)
  PROVE  Beside(side, u, v, c, 1)
<1> DEFINE U == side * (v[1] - u[1])
           W == side * ((v[2] - u[2]) * (c[1] - u[1]))
           m == -1 * MaxOf(AbsDiff(u[1], v[1]), AbsDiff(u[2], v[2]))
           F(z) == 2 * side * Cross(u, v, z)
<1>1. /\ u[1] \in Int /\ u[2] \in Int /\ v[1] \in Int /\ v[2] \in Int /\ a[2] \in Int /\ b[2] \in Int
      /\ c[1] \in Int /\ c[2] \in Int
  OBVIOUS
<1>2. U \in Int /\ W \in Int /\ m \in Int
  BY <1>1 DEF MaxOf, AbsDiff
<1>3. ASSUME NEW z \in Int \X Int, z[1] = c[1]
      PROVE  F(z) = 2 * (U * (z[2] - u[2])) - 2 * W
  <2>1. z[2] \in Int
    OBVIOUS
  <2>2. Cross(u, v, z) = (v[1] - u[1]) * (z[2] - u[2]) - (v[2] - u[2]) * (c[1] - u[1])
    BY <1>3 DEF Cross
  <2>3. CASE side = 1
    BY <1>1, <2>1, <2>2, <2>3
  <2>4. CASE side = -1
    BY <1>1, <2>1, <2>2, <2>4
  <2> QED BY <2>3, <2>4
<1>4. F(a) >= m /\ F(b) >= m
  BY DEF Beside
<1> DEFINE x == U * (a[2] - u[2])  y == U * (b[2] - u[2])  z == U * (c[2] - u[2])
<1>5. x \in Int /\ y \in Int /\ z \in Int /\ (x <= z \/ y <= z)
  <2>1. U * (a[2] - u[2]) = (a[2] - u[2]) * U /\ U * (b[2] - u[2]) = (b[2] - u[2]) * U
        /\ U * (c[2] - u[2]) = (c[2] - u[2]) * U
    BY <1>1, <1>2
  <2> DEFINE k == a[2] - u[2]  l == b[2] - u[2]  n == c[2] - u[2]
  <2>2. k \in Int /\ l \in Int /\ n \in Int /\ k <= n /\ n <= l
    BY <1>1
  <2> HIDE DEF U, k, l, n
  <2>3. CASE U >= 0
    <3>1. k * U <= n * U /\ k * U \in Int /\ n * U \in Int /\ l * U \in Int
      BY <1>2, <2>2, <2>3, TimesMonotone
    <3> QED BY <2>1, <3>1 DEF k, l, n
  <2>4. CASE ~ (U >= 0)
    <3> DEFINE V == -U
    <3>1. /\ V \in Nat /\ k * U \in Int /\ l * U \in Int /\ n * U \in Int
          /\ l * V = -(l * U) /\ n * V = -(n * U)
      BY <1>2, <2>2, <2>4
    <3> HIDE DEF V
    <3>2. n * V <= l * V
      BY <2>2, <3>1, TimesMonotone
    <3>3. l * U <= n * U
      BY <3>1, <3>2
    <3> QED BY <2>1, <3>1, <3>3 DEF k, l, n
  <2> QED BY <1>2, <2>3, <2>4
<1>6. F(a) = 2 * x - 2 * W /\ F(b) = 2 * y - 2 * W /\ F(c) = 2 * z - 2 * W
  BY <1>3
<1>7. F(c) >= m
  <2> HIDE DEF F, x, y, z, W, m
  <2> QED BY <1>2, <1>4, <1>5, <1>6
<1> QED BY <1>7 DEF Beside

(* The fill of a convex polygon has no cell further than half a cell away. *)
LEMMA FillNear ==
  ASSUME NEW w \in Nat \ {0}, NEW h \in Nat \ {0}, NEW polygon \in Seq(GridCells(w, h)),
         Len(polygon) >= 3, NEW c \in Int \X Int, c \in convexFillCells(polygon, w), Convex(polygon)
  PROVE  InPolygon(polygon, c, 1)
<1> DEFINE outline == polygonOutlineCells(polygon, w)
<1>1. /\ polygon \in Seq(Int \X Int) /\ polygon \in Seq((0 .. w - 1) \X Int)
      /\ polygon \in Seq((0 .. w - 1) \X (0 .. h - 1))
      /\ Len(polygon) > 0 /\ Len(polygon) \in Nat
  <2>1. polygon \in Seq((0 .. w - 1) \X (0 .. h - 1))
    BY Zenon DEF GridCells
  <2>2. Len(polygon) > 0 /\ Len(polygon) \in Nat
    BY <2>1
  <2>3. polygon \in Seq((0 .. w - 1) \X Int)
    BY <2>1
  <2>4. polygon \in Seq(Int \X Int)
    BY <2>3
  <2> QED BY <2>1, <2>2, <2>3, <2>4
<1>2. /\ outline \subseteq Int \X Int
      /\ \A d \in outline : \E i \in DOMAIN polygon : d \in Line(polygon[i], After(polygon, i))
      /\ \A i \in DOMAIN polygon : polygon[i] \in Int \X Int /\ After(polygon, i) \in Int \X Int
  <2>1. outline \subseteq (0 .. w - 1) \X (0 .. h - 1)
    BY <1>1, FillInMap
  <2>2. \A d : d \in outline <=> \E i \in DOMAIN polygon : d \in Line(polygon[i], After(polygon, i))
    BY <1>1, OutlineCells
  <2>3. \A i \in DOMAIN polygon : polygon[i] \in Int \X Int /\ After(polygon, i) \in Int \X Int
    BY <1>1, EdgesOf
  <2> QED BY <2>1, <2>2, <2>3
<1>3. \A i \in DOMAIN polygon : polygon[i] \in Range(polygon) /\ After(polygon, i) \in Range(polygon)
  <2>1. DOMAIN polygon = 1 .. Len(polygon) /\ Len(polygon) \in Nat \ {0}
    BY <1>1
  <2>2. \A i \in 1 .. Len(polygon) : (i % Len(polygon)) + 1 \in 1 .. Len(polygon)
    BY <2>1
  <2> QED BY <2>1, <2>2 DEF Range, After
<1>4. PICK a \in outline, b \in outline : a[1] = c[1] /\ b[1] = c[1] /\ a[2] <= c[2] /\ c[2] <= b[2]
  BY <1>2, FilledCells
<1>5. PICK side \in {1, -1} : \A p \in Range(polygon), e \in Range(Edges(polygon)) :
        side * Cross(e[1], e[2], p) >= 0
  BY DEF Convex
<1>6. a \in Int \X Int /\ b \in Int \X Int
  BY <1>2
<1> HIDE DEF outline
<1>7. ASSUME NEW d \in outline, NEW j \in DOMAIN polygon
      PROVE  Beside(side, polygon[j], After(polygon, j), d, 1)
  <2>1. PICK i \in DOMAIN polygon : d \in Line(polygon[i], After(polygon, i))
    BY <1>2
  <2> DEFINE e == <<polygon[j], After(polygon, j)>>  p == polygon[i]  q == After(polygon, i)
             u == polygon[j]  v == After(polygon, j)
  <2>2. e \in Range(Edges(polygon)) /\ e[1] = u /\ e[2] = v
    BY <1>1, EdgesOf
  <2>3. p \in Range(polygon) /\ q \in Range(polygon)
    BY <1>3
  <2>4. p \in Int \X Int /\ q \in Int \X Int /\ u \in Int \X Int /\ v \in Int \X Int
    BY <1>2
  <2>5. d \in Line(p, q)
    BY <2>1
  <2> HIDE DEF e, p, q, u, v
  <2>6. side * Cross(u, v, p) >= 0 /\ side * Cross(u, v, q) >= 0
    <3>1. side * Cross(e[1], e[2], p) >= 0 /\ side * Cross(e[1], e[2], q) >= 0
      BY <1>5, <2>2, <2>3
    <3> QED BY <2>2, <3>1
  <2>7. Beside(side, u, v, d, 1)
    BY ONLY <2>4, <2>5, <2>6, side \in {1, -1}, LineStaysBeside
  <2> QED BY <2>7 DEF u, v
<1>8. ASSUME NEW j \in DOMAIN polygon PROVE Beside(side, polygon[j], After(polygon, j), c, 1)
  <2> DEFINE u == polygon[j]  v == After(polygon, j)
  <2>1. u \in Int \X Int /\ v \in Int \X Int
    BY <1>2
  <2>2. Beside(side, u, v, a, 1) /\ Beside(side, u, v, b, 1)
    BY <1>7
  <2> HIDE DEF u, v
  <2>3. Beside(side, u, v, c, 1)
    BY <1>4, <1>6, <2>1, <2>2, ColumnBeside
  <2> QED BY <2>3 DEF u, v
<1>9. InBox(polygon, c)
  <2>1. ASSUME NEW d \in outline
        PROVE  /\ \E p, q \in Range(polygon) : p[1] <= d[1] /\ d[1] <= q[1]
               /\ \E p, q \in Range(polygon) : p[2] <= d[2] /\ d[2] <= q[2]
    <3>1. PICK i \in DOMAIN polygon : d \in Line(polygon[i], After(polygon, i))
      BY <1>2
    <3> DEFINE p == polygon[i]  q == After(polygon, i)
    <3>2. p \in Range(polygon) /\ q \in Range(polygon) /\ p \in Int \X Int /\ q \in Int \X Int /\ d \in Line(p, q)
      BY <1>2, <1>3, <3>1
    <3> HIDE DEF p, q
    <3>3. Between(p[1], q[1], d[1]) /\ Between(p[2], q[2], d[2])
      <4>1. PICK k \in 0 .. LineLength(p, q) : d = LineCell(p, q, k)
        BY <3>2 DEF Line
      <4> QED BY <3>2, <4>1, LineInBox
    <3> QED BY <3>2, <3>3 DEF Between
  <2>2. \E p, q \in Range(polygon) : p[1] <= c[1] /\ c[1] <= q[1]
    BY <1>4, <2>1
  <2>3. PICK p \in Range(polygon) : p[2] <= a[2]
    BY <2>1
  <2>4. PICK q \in Range(polygon) : b[2] <= q[2]
    BY <2>1
  <2>5. \A r \in Range(polygon) : r \in Int \X Int
    BY <1>2 DEF Range
  <2>6. p[2] <= c[2] /\ c[2] <= q[2]
    <3>1. p[2] \in Int /\ q[2] \in Int /\ a[2] \in Int /\ b[2] \in Int /\ c[2] \in Int
      BY <1>6, <2>5
    <3> QED BY <1>4, <2>3, <2>4, <3>1
  <2> QED BY <2>2, <2>6 DEF InBox
<1> QED BY <1>1, <1>8, <1>9, InPolygonIs


(* What PolygonFilled says of one call.                                    *)
IsFilled(corners, filled, here) ==
  filled # {} => \A c \in here :
    /\ Enclosed(corners, c) => c \in filled
    /\ Convex(corners) /\ c \in filled => InPolygon(corners, c, 1)

LEMMA FilledByCall ==
  ASSUME TypeOK, NEW polygon \in Seq(Int \X Int), Len(polygon) >= 2,
         NEW filled, filled = IF Refused(polygon) THEN {} ELSE convexFillCells(CellsOf(polygon), size_x)
  PROVE  IsFilled(CellsOf(polygon), filled, MapCells)
<1> DEFINE corners == CellsOf(polygon)
<1> SUFFICES ASSUME filled # {} PROVE IsFilled(corners, filled, MapCells)
  BY DEF IsFilled
<1>1. ~ Refused(polygon) /\ filled = convexFillCells(corners, size_x)
  OBVIOUS
<1>2. Len(polygon) > 0 /\ size_x \in Nat \ {0} /\ size_y \in Nat \ {0}
  BY DEF TypeOK
<1>3. corners \in Seq(GridCells(size_x, size_y)) /\ Len(corners) \in Nat
  BY <1>1, <1>2, CornersInMap DEF MapCells, GridCells
<1> HIDE DEF corners
<1>4. Len(corners) >= 3
  <2> SUFFICES ASSUME Len(corners) < 3 PROVE FALSE
    BY <1>3
  <2>1. convexFillCells(corners, size_x) = {}
    BY DEF convexFillCells
  <2> QED BY <1>1, <2>1
<1>5. ASSUME NEW c \in MapCells
      PROVE  /\ Enclosed(corners, c) => c \in filled
             /\ Convex(corners) /\ c \in filled => InPolygon(corners, c, 1)
  <2>1. c \in Int \X Int
    BY <1>2 DEF MapCells
  <2>2. Enclosed(corners, c) => c \in filled
    BY <1>1, <1>2, <1>3, <1>4, <2>1, FillCovers
  <2>3. Convex(corners) /\ c \in filled => InPolygon(corners, c, 1)
    BY <1>1, <1>2, <1>3, <1>4, <2>1, FillNear
  <2> QED BY <2>2, <2>3
<1> QED BY <1>5 DEF IsFilled

LEMMA PolygonStep ==
  ASSUME TypeOK, PolygonFilled, [LayerNext]_<<vars, layer_vars>>
  PROVE  PolygonFilled'
<1> SUFFICES ASSUME call'.op = "setConvexPolygonCost" PROVE PolygonFilled'
  BY DEF PolygonFilled
<1>1. CASE GridCall
  <2>1. PICK polygon \in Polygons, cost \in FillCosts : setConvexPolygonCost(polygon, cost)
    BY <1>1, GridOps DEF GridCall
  <2>2. polygon \in Seq(Int \X Int) /\ Len(polygon) >= 2
    BY Costmap2DAssumption
  <2> DEFINE filled == IF Refused(polygon) THEN {} ELSE convexFillCells(CellsOf(polygon), size_x)
  <2>3. IsFilled(CellsOf(polygon), filled, MapCells)
    BY <2>2, FilledByCall
  <2>4. /\ call' = [op |-> "setConvexPolygonCost", polygon |-> polygon, cells |-> filled, value |-> cost]
        /\ UNCHANGED <<size_x, size_y, origin>>
    BY <2>1 DEF setConvexPolygonCost, Called
  <2> HIDE DEF filled
  <2>5. call'.polygon = polygon /\ call'.cells = filled
    BY <2>4
  <2>6. CellsOf(call.polygon)' = CellsOf(polygon) /\ MapCells' = MapCells
    BY <2>4, <2>5 DEF CellsOf, worldToMap, MapCells
  <2>7. IsFilled(CellsOf(call.polygon)', call'.cells, MapCells')
    BY <2>3, <2>5, <2>6
  <2> QED BY <2>7 DEF PolygonFilled, IsFilled
<1>2. CASE useExtraBounds
  BY <1>2 DEF useExtraBounds, Called
<1>3. CASE LayerNext /\ ~ GridCall /\ ~ useExtraBounds
  <2>1. call'.op \in {"clearLayerRegion", "clearRegion"}
    <3>1. ASSUME NEW position \in Positions, NEW d \in Distances, NEW invert \in BOOLEAN,
                 clearLayerRegion(position, d, invert)
          PROVE  call'.op = "clearLayerRegion"
      BY <3>1 DEF clearLayerRegion, Called
    <3> QED BY <1>3, <3>1, ClearCalls
  <2> QED BY <2>1
<1>4. CASE UNCHANGED <<vars, layer_vars>>
  BY <1>4 DEF vars, PolygonFilled, CellsOf, worldToMap, MapCells
<1> QED BY <1>1, <1>2, <1>3, <1>4

(* The fill has every cell that the outline of the polygon, of any shape,  *)
(* passes on both sides in its column, and so every cell that lies in it;  *)
(* that of a convex one has none further than half a cell from it.         *)
THEOREM PolygonsAreFilled == LayerSpec => []PolygonFilled
<1>1. LayerInit => TypeOK /\ PolygonFilled
  <2>1. LayerInit => call.op = "Costmap2D"
    BY DEF LayerInit, Init
  <2> QED BY <2>1, FirstState DEF LayerInit, PolygonFilled
<1>2. TypeOK /\ PolygonFilled /\ [LayerNext]_<<vars, layer_vars>> => (TypeOK /\ PolygonFilled)'
  BY LayerStep, StutterStep, PolygonStep
<1> QED BY <1>1, <1>2, PTL DEF LayerSpec

=============================================================================
