------------------------ MODULE LayeredCostmapProofs ------------------------
(***************************************************************************)
(* Proofs about LayeredCostmap, for every set of maps, updates and radii,  *)
(* and any number of marked cells, and about InflationWave, for every grid *)
(* and radius and all sets of obstacles.                                   *)
(*                                                                         *)
(* The invariants speak of a costmap at rest.  IInv says what every step   *)
(* of an update has done and has still to do: MasterFollows of the costs,  *)
(* the other parts of the flags.                                           *)
(*                                                                         *)
(* Of the wave, that no bin is added to once it was left needs that of the *)
(* neighbours of a cell taken those nearer to its obstacle were taken too. *)
(* A wave may be cut off by another, so this is about two: the trails from *)
(* two obstacles do not cross (TrailsDoNotCross), since two that did would *)
(* cross nearer to the obstacles as well, and a neighbour left out between *)
(* cells taken would make them cross (CornerReached).                      *)
(***************************************************************************)
EXTENDS LayeredCostmap, InflationWave, WellFoundedInduction, FiniteSetTheorems, SequenceTheorems, TLAPS

-----------------------------------------------------------------------------
(* Least and greatest elements *)

LEMMA LeastExists ==
  ASSUME NEW S \in SUBSET Nat, S # {}
  PROVE  \E x \in S : \A y \in S : x <= y
<1> DEFINE R == {p \in Nat \X Nat : p[1] < p[2]}
<1>1. \A x, y \in Nat : x < y => <<x, y>> \in R
  OBVIOUS
<1>2. IsWellFoundedOn(R, Nat)
  BY NatLessThanWellFounded DEF OpToRel
<1> HIDE DEF R
<1>3. \E x \in S : \A y \in S : ~(<<y, x>> \in R)
  BY <1>2, WFMin
<1>4. PICK x \in S : \A y \in S : ~(<<y, x>> \in R)
  BY <1>3
<1>5. ASSUME NEW y \in S PROVE x <= y
  <2>1. x \in Nat /\ y \in Nat
    OBVIOUS
  <2>2. ~(y < x)
    BY <1>1, <1>4, <2>1
  <2> QED BY <2>1, <2>2
<1> QED BY <1>5

LEMMA MinOfNaturals ==
  ASSUME NEW S \in SUBSET Nat, S # {}
  PROVE  Min(S) \in S /\ \A y \in S : Min(S) <= y
<1>1. \E x \in S : \A y \in S : x <= y
  BY LeastExists
<1> QED BY <1>1, Zenon DEF Min

LEMMA MaxOfNaturals ==
  ASSUME NEW n \in Nat, NEW S \in SUBSET (0 .. n), S # {}
  PROVE  Max(S) \in S /\ \A y \in S : Max(S) >= y
<1> DEFINE T == {n - x : x \in S}
<1>1. T \in SUBSET Nat /\ T # {}
  <2>1. \A x \in S : n - x \in Nat
    OBVIOUS
  <2>2. \E x : x \in S
    OBVIOUS
  <2> QED BY <2>1, <2>2, Zenon
<1>2. PICK t \in T : \A y \in T : t <= y
  BY <1>1, LeastExists
<1>3. PICK x \in S : t = n - x
  BY <1>2
<1>4. \A y \in S : n - y \in T
  OBVIOUS
<1>5. \A y \in S : x >= y
  BY <1>2, <1>3, <1>4
<1> QED BY <1>5, Zenon DEF Max

LEMMA MinOfTwo ==
  ASSUME NEW a \in Int, NEW b \in Int
  PROVE  Min({a, b}) = IF a <= b THEN a ELSE b
<1> DEFINE m == IF a <= b THEN a ELSE b
<1>1. m \in {a, b} /\ \A y \in {a, b} : m <= y
  OBVIOUS
<1>2. \A x \in {a, b} : (\A y \in {a, b} : x <= y) => x = m
  OBVIOUS
<1> QED BY <1>1, <1>2 DEF Min

LEMMA MaxOfTwo ==
  ASSUME NEW a \in Int, NEW b \in Int
  PROVE  Max({a, b}) = IF a >= b THEN a ELSE b
<1> DEFINE m == IF a >= b THEN a ELSE b
<1>1. m \in {a, b} /\ \A y \in {a, b} : m >= y
  OBVIOUS
<1>2. \A x \in {a, b} : (\A y \in {a, b} : x >= y) => x = m
  OBVIOUS
<1> QED BY <1>1, <1>2 DEF Max
-----------------------------------------------------------------------------
(* Bounds and windows *)

LEMMA TimesGrows ==
  ASSUME NEW r \in Nat, NEW a \in Int, NEW b \in Int, a <= b
  PROVE  r * a <= r * b
<1>1. b - a \in Nat
  OBVIOUS
<1>2. r * (b - a) \in Nat
  BY <1>1
<1>3. r * b = r * a + r * (b - a)
  OBVIOUS
<1> QED BY <1>2, <1>3

LEMMA DivIs ==
  ASSUME NEW x \in Nat, NEW r \in Nat \ {0}
  PROVE  x \div r \in Nat /\ r * (x \div r) <= x /\ x < r * (x \div r + 1)
OBVIOUS

LEMMA CellOf ==
  ASSUME NEW x \in Int, NEW n \in Nat \ {0}
  PROVE  /\ worldToMapEnforceBounds(x, n) \in Nat
         /\ \A c \in Cells(n) :
              /\ x < Resolution * (c + 1) => worldToMapEnforceBounds(x, n) <= c
              /\ Resolution * c <= x => c <= worldToMapEnforceBounds(x, n)
<1> DEFINE e == worldToMapEnforceBounds(x, n)
<1>1. Resolution \in Nat \ {0}
  BY ResolutionAssumption
<1>2. CASE x < 0
  <2>1. e = 0
    BY <1>2 DEF worldToMapEnforceBounds
  <2>2. \A c \in Cells(n) : Resolution * c \in Nat /\ c \in Nat
    BY <1>1 DEF Cells
  <2> HIDE DEF e
  <2> QED BY <1>2, <2>1, <2>2 DEF e
<1>3. CASE x >= 0 /\ x > Resolution * n
  <2>1. e = n - 1
    BY <1>3 DEF worldToMapEnforceBounds
  <2>2. \A c \in Cells(n) : c \in Nat /\ c <= n - 1 /\ c + 1 <= n
    BY DEF Cells
  <2>3. \A c \in Cells(n) : Resolution * (c + 1) <= Resolution * n
    BY <1>1, <2>2, TimesGrows
  <2>4. \A c \in Cells(n) : Resolution * (c + 1) \in Int /\ Resolution * n \in Int
    BY <1>1, <2>2
  <2>5. \A c \in Cells(n) : ~(x < Resolution * (c + 1))
    BY <1>3, <2>3, <2>4
  <2>6. e \in Nat
    BY <2>1
  <2> HIDE DEF e
  <2> QED BY <2>1, <2>2, <2>5, <2>6 DEF e
<1>4. CASE x >= 0 /\ ~(x > Resolution * n)
  <2>1. e = x \div Resolution
    BY <1>4 DEF worldToMapEnforceBounds
  <2>2. x \in Nat
    BY <1>4
  <2>3. e \in Nat /\ Resolution * e <= x /\ x < Resolution * (e + 1)
    BY <1>1, <2>1, <2>2, DivIs
  <2> HIDE DEF e
  <2>4. ASSUME NEW c \in Cells(n)
        PROVE  /\ x < Resolution * (c + 1) => e <= c
               /\ Resolution * c <= x => c <= e
    <3>1. c \in Nat
      BY DEF Cells
    <3>2. e > c => Resolution * (c + 1) <= Resolution * e
      BY <1>1, <2>3, <3>1, TimesGrows
    <3>3. c > e => Resolution * (e + 1) <= Resolution * c
      BY <1>1, <2>3, <3>1, TimesGrows
    <3>4. {Resolution * (c + 1), Resolution * e, Resolution * (e + 1), Resolution * c} \subseteq Int
      BY <1>1, <2>3, <3>1
    <3> QED BY <2>2, <2>3, <3>1, <3>2, <3>3, <3>4
  <2> QED BY <2>3, <2>4 DEF e
<1> QED BY <1>2, <1>3, <1>4

LEMMA WindowIs ==
  ASSUME NEW b \in Bounds, NEW n \in Nat \ {0}
  PROVE  /\ Window(b, n) \subseteq Cells(n)
         /\ \A c \in Cells(n) :
              b.min < Resolution * (c + 1) /\ Resolution * c <= b.max => c \in Window(b, n)
         /\ WindowSkipped(b, n) => Window(b, n) = {}
         /\ b.min < Resolution /\ b.max >= Resolution * (n - 1) =>
              ~WindowSkipped(b, n) /\ Window(b, n) = Cells(n)
<1> DEFINE lo == worldToMapEnforceBounds(b.min, n)
           hi == worldToMapEnforceBounds(b.max, n)
           end == End(b, n)
<1>1. b.min \in Int /\ b.max \in Int /\ Resolution \in Nat \ {0}
  BY ResolutionAssumption DEF Bounds
<1>2. /\ lo \in Nat /\ hi \in Nat
      /\ \A c \in Cells(n) : /\ b.min < Resolution * (c + 1) => lo <= c
                             /\ Resolution * c <= b.max => c <= hi
  BY <1>1, CellOf
<1>3. end = IF n <= hi + 1 THEN n ELSE hi + 1
  <2> HIDE DEF hi
  <2>1. Min({n, hi + 1}) = IF n <= hi + 1 THEN n ELSE hi + 1
    BY <1>2, MinOfTwo
  <2>2. end = Min({n, hi + 1})
    BY DEF End, hi
  <2> QED BY <2>1, <2>2
<1>4. Window(b, n) = lo .. (end - 1) /\ (WindowSkipped(b, n) <=> end < lo)
  BY DEF Window, WindowSkipped, First
<1> HIDE DEF lo, hi, end
<1>5. ASSUME b.min < Resolution, b.max >= Resolution * (n - 1)
      PROVE  lo <= 0 /\ n - 1 <= hi
  <2>1. 0 \in Cells(n) /\ n - 1 \in Cells(n)
    BY DEF Cells
  <2>2. Resolution * (0 + 1) = Resolution
    BY <1>1
  <2>3. Resolution * (n - 1) \in Int
    BY <1>1
  <2>4. Resolution * (n - 1) <= b.max
    BY <1>1, <1>5, <2>3
  <2>5. b.min < Resolution * (0 + 1)
    BY <1>5, <2>2
  <2> QED BY <1>2, <2>1, <2>4, <2>5
<1>6. \A c \in Cells(n) : c \in Nat /\ c <= n - 1
  BY DEF Cells
<1>7. Window(b, n) \subseteq Cells(n)
  BY <1>2, <1>3, <1>4 DEF Cells
<1>8. \A c \in Cells(n) : lo <= c /\ c <= hi => c \in Window(b, n)
  BY <1>2, <1>3, <1>4, <1>6
<1>9. WindowSkipped(b, n) => Window(b, n) = {}
  BY <1>2, <1>3, <1>4
<1>10. lo <= 0 /\ n - 1 <= hi => ~WindowSkipped(b, n) /\ Window(b, n) = Cells(n)
  BY <1>2, <1>3, <1>4 DEF Cells
<1> QED BY <1>2, <1>5, <1>7, <1>8, <1>9, <1>10

LEMMA UnionIs ==
  ASSUME NEW b \in Bounds, NEW c \in Bounds
  PROVE  /\ Union(b, c) \in Bounds
         /\ Union(b, c).min <= b.min /\ Union(b, c).min <= c.min
         /\ Union(b, c).max >= b.max /\ Union(b, c).max >= c.max
<1>1. {b.min, b.max, c.min, c.max} \subseteq Int
  BY DEF Bounds
<1>2. /\ Min({b.min, c.min}) = IF b.min <= c.min THEN b.min ELSE c.min
      /\ Max({b.max, c.max}) = IF b.max >= c.max THEN b.max ELSE c.max
  BY <1>1, MinOfTwo, MaxOfTwo
<1>3. Union(b, c).min = Min({b.min, c.min}) /\ Union(b, c).max = Max({b.max, c.max})
  BY DEF Union
<1>4. Union(b, c).min \in Int /\ Union(b, c).max \in Int
  BY <1>1, <1>2, <1>3
<1>5. Union(b, c) \in Bounds
  BY <1>3, <1>4 DEF Union, Bounds
<1> QED BY <1>1, <1>2, <1>3, <1>5

LEMMA TouchIs ==
  ASSUME NEW b \in Bounds, NEW n \in Nat, NEW cells \in SUBSET (0 .. n)
  PROVE  /\ Touch(b, cells) \in Bounds
         /\ Touch(b, cells).min <= b.min /\ Touch(b, cells).max >= b.max
         /\ \A c \in cells : Touch(b, cells).min <= c /\ c <= Touch(b, cells).max
<1>1. CASE cells = {}
  BY <1>1 DEF Touch, Bounds
<1>2. CASE cells # {}
  <2> DEFINE t == [min |-> Min(cells), max |-> Max(cells)]
  <2>1. cells \in SUBSET Nat /\ cells \in SUBSET (0 .. n)
    OBVIOUS
  <2>2. /\ Min(cells) \in cells /\ \A c \in cells : Min(cells) <= c
        /\ Max(cells) \in cells /\ \A c \in cells : Max(cells) >= c
    BY <1>2, <2>1, MinOfNaturals, MaxOfNaturals
  <2>3. t \in Bounds
    <3>1. \A c \in cells : c \in Int
      OBVIOUS
    <3>2. Min(cells) \in Int /\ Max(cells) \in Int
      BY <2>2, <3>1, Zenon
    <3> QED BY <3>2 DEF Bounds
  <2>4. Touch(b, cells) = Union(b, t)
    BY <1>2 DEF Touch
  <2>5. t.min = Min(cells) /\ t.max = Max(cells)
    OBVIOUS
  <2> HIDE DEF t
  <2>6. /\ Union(b, t) \in Bounds /\ Union(b, t).min <= b.min /\ Union(b, t).max >= b.max
        /\ Union(b, t).min <= t.min /\ Union(b, t).max >= t.max
    BY <2>3, UnionIs
  <2>7. \A c \in cells : Union(b, t).min <= c /\ c <= Union(b, t).max
    BY <2>1, <2>2, <2>3, <2>5, <2>6 DEF Bounds
  <2> QED BY <2>4, <2>6, <2>7
<1> QED BY <1>1, <1>2
-----------------------------------------------------------------------------
(* The inflated costs, of values instead of variables *)

CostOf(ins, d) ==
  IF d = 0 THEN LETHAL_OBSTACLE
  ELSE IF d * Resolution <= ins THEN INSCRIBED_INFLATED_OBSTACLE
  ELSE MAX_NON_OBSTACLE \div (d + 1)

NearOf(g, r, c) ==
  {d \in 0 .. r : \E s \in DOMAIN g : g[s] = LETHAL_OBSTACLE /\ Distance(c, s) = d}

\* What a cell of the grid g costs after an inflation of all of g.
InflatedAt(g, on, r, ins, c) ==
  IF on /\ NearOf(g, r, c) # {}
  THEN InflatedCost(g[c], CostOf(ins, Min(NearOf(g, r, c))))
  ELSE g[c]

LEMMA DistanceIs ==
  ASSUME NEW c \in Nat, NEW d \in Nat
  PROVE  /\ Distance(c, d) \in Nat
         /\ Distance(c, d) = 0 <=> c = d
         /\ Distance(c, d) = Distance(d, c)
BY DEF Distance

LEMMA CostIs ==
  ASSUME NEW ins \in Nat, NEW d \in Nat
  PROVE  CostOf(ins, d) \in 0 .. LETHAL_OBSTACLE /\ (CostOf(ins, d) = LETHAL_OBSTACLE <=> d = 0)
<1>1. d # 0 => MAX_NON_OBSTACLE \div (d + 1) \in 0 .. MAX_NON_OBSTACLE
  BY DEF MAX_NON_OBSTACLE
<1> QED
  BY <1>1 DEF CostOf, LETHAL_OBSTACLE, INSCRIBED_INFLATED_OBSTACLE, MAX_NON_OBSTACLE

LEMMA InflatedCostIs ==
  ASSUME NEW old \in Cost, NEW cost \in 0 .. LETHAL_OBSTACLE,
         cost = LETHAL_OBSTACLE => old = LETHAL_OBSTACLE
  PROVE  /\ InflatedCost(old, cost) \in Cost
         /\ InflatedCost(old, cost) = LETHAL_OBSTACLE <=> old = LETHAL_OBSTACLE
<1>1. old \in Int /\ cost \in Int
  BY DEF Cost, LETHAL_OBSTACLE
<1>2. Max({old, cost}) = IF old >= cost THEN old ELSE cost
  BY <1>1, MaxOfTwo
<1>3. \/ InflatedCost(old, cost) = cost /\ old = NO_INFORMATION
      \/ InflatedCost(old, cost) = IF old >= cost THEN old ELSE cost
  BY <1>2 DEF InflatedCost
<1> QED
  BY <1>1, <1>3 DEF Cost, LETHAL_OBSTACLE, NO_INFORMATION

(* The inflation makes no cell lethal and leaves no lethal cell otherwise. *)
LEMMA LethalStays ==
  ASSUME NEW n \in Nat, NEW g \in [Cells(n) -> Cost], NEW on \in BOOLEAN,
         NEW r \in Nat, NEW ins \in Nat, NEW c \in Cells(n)
  PROVE  /\ InflatedAt(g, on, r, ins, c) \in Cost
         /\ InflatedAt(g, on, r, ins, c) = LETHAL_OBSTACLE <=> g[c] = LETHAL_OBSTACLE
<1>1. g[c] \in Cost /\ DOMAIN g = Cells(n)
  OBVIOUS
<1>2. CASE on /\ NearOf(g, r, c) # {}
  <2> DEFINE near == NearOf(g, r, c)
             d == Min(near)
  <2>1. near \in SUBSET Nat /\ near # {}
    BY <1>2 DEF NearOf
  <2> HIDE DEF near
  <2>2. d \in near /\ d \in Nat
    BY <2>1, MinOfNaturals
  <2>3. CostOf(ins, d) \in 0 .. LETHAL_OBSTACLE /\ (CostOf(ins, d) = LETHAL_OBSTACLE <=> d = 0)
    BY <2>2, CostIs
  <2>4. d = 0 => g[c] = LETHAL_OBSTACLE
    <3>1. PICK s \in DOMAIN g : g[s] = LETHAL_OBSTACLE /\ Distance(c, s) = d
      BY <2>2 DEF NearOf, near
    <3>2. c \in Nat /\ s \in Nat
      BY <1>1 DEF Cells
    <3>3. d = 0 => c = s
      BY <3>1, <3>2, DistanceIs
    <3> QED BY <3>1, <3>3
  <2>5. InflatedAt(g, on, r, ins, c) = InflatedCost(g[c], CostOf(ins, d))
    BY <1>2 DEF InflatedAt, near
  <2> HIDE DEF d
  <2> QED BY <1>1, <2>3, <2>4, <2>5, InflatedCostIs
<1>3. CASE ~(on /\ NearOf(g, r, c) # {})
  BY <1>1, <1>3 DEF InflatedAt
<1> QED BY <1>2, <1>3

(* A cell's cost is its own and that of the obstacles within the radius.   *)
LEMMA InflationIsLocal ==
  ASSUME NEW n \in Nat, NEW g \in [Cells(n) -> Cost], NEW h \in [Cells(n) -> Cost],
         NEW on, NEW r \in Nat, NEW ins \in Nat, NEW c \in Cells(n),
         g[c] = h[c],
         \A s \in Cells(n) : Distance(c, s) <= r =>
            (g[s] = LETHAL_OBSTACLE <=> h[s] = LETHAL_OBSTACLE)
  PROVE  InflatedAt(g, on, r, ins, c) = InflatedAt(h, on, r, ins, c)
<1>1. DOMAIN g = Cells(n) /\ DOMAIN h = Cells(n)
  OBVIOUS
<1>2. \A d \in 0 .. r, s \in Cells(n) : Distance(c, s) = d => Distance(c, s) <= r
  OBVIOUS
<1>3. NearOf(g, r, c) = NearOf(h, r, c)
  BY <1>1, <1>2 DEF NearOf
<1> QED BY <1>3 DEF InflatedAt

LEMMA InflatedIs ==
  ASSUME NEW n \in Nat, NEW g \in [Cells(n) -> Cost], NEW W \in SUBSET Cells(n),
         cell_inflation_radius \in Nat
  PROVE  Inflated(g, W) =
           [c \in Cells(n) |->
              IF c \in W
              THEN InflatedAt(g, Inflates, cell_inflation_radius, inscribed_radius, c)
              ELSE g[c]]
<1> DEFINE near(c) == {d \in 0 .. cell_inflation_radius :
                         \E s \in Sources(g, W) : Distance(c, s) = d}
<1>1. DOMAIN g = Cells(n)
  OBVIOUS
<1>2. ASSUME NEW c \in W PROVE near(c) = NearOf(g, cell_inflation_radius, c)
  <2>1. \A s \in Cells(n) : Distance(c, s) = Distance(s, c)
    BY DistanceIs DEF Cells
  <2>2. \A s \in Cells(n), d \in 0 .. cell_inflation_radius :
          g[s] = LETHAL_OBSTACLE /\ Distance(c, s) = d => s \in Sources(g, W)
    BY <1>1, <1>2, <2>1 DEF Sources
  <2>3. \A s \in Sources(g, W) : s \in DOMAIN g /\ g[s] = LETHAL_OBSTACLE
    BY DEF Sources
  <2> QED BY <1>1, <2>2, <2>3 DEF NearOf
<1>3. \A d : computeCost(d) = CostOf(inscribed_radius, d)
  BY DEF computeCost, CostOf
<1>4. Inflated(g, W) =
        [c \in DOMAIN g |->
           IF Inflates /\ c \in W /\ near(c) # {}
           THEN InflatedCost(g[c], computeCost(Min(near(c)))) ELSE g[c]]
  BY DEF Inflated
<1> HIDE DEF near
<1>5. ASSUME NEW c \in Cells(n)
      PROVE  (IF Inflates /\ c \in W /\ near(c) # {}
              THEN InflatedCost(g[c], computeCost(Min(near(c)))) ELSE g[c])
             = (IF c \in W
                THEN InflatedAt(g, Inflates, cell_inflation_radius, inscribed_radius, c)
                ELSE g[c])
  <2>1. CASE c \in W
    BY <1>2, <1>3, <2>1, Zenon DEF InflatedAt
  <2> QED BY <2>1
<1> QED BY <1>1, <1>4, <1>5
-----------------------------------------------------------------------------
(* What the layers' data say, of values instead of variables *)

BaseOf(n, cm, mk, on) ==
  [c \in Cells(n) |->
     IF c \in mk THEN LETHAL_OBSTACLE
     ELSE IF on THEN Combined(cm[c], DefaultCost) ELSE DefaultCost]

FullOf(g, on, r, ins) == [c \in DOMAIN g |-> InflatedAt(g, on, r, ins, c)]

StaticWrites == static_enabled /\ in_update_bounds

\* Base(Cells(size)), which is what Full inflates
Whole == BaseOf(size, costmap, marks, StaticWrites)

LEMMA DefaultIsCost == DefaultCost \in Cost
BY DefaultCostAssumption DEF FREE_SPACE, NO_INFORMATION, Cost

LEMMA BaseOfIs ==
  ASSUME NEW n \in Nat, NEW cm \in [Cells(n) -> Cost], NEW mk, NEW on
  PROVE  BaseOf(n, cm, mk, on) \in [Cells(n) -> Cost]
<1>1. LETHAL_OBSTACLE \in Cost
  BY DEF LETHAL_OBSTACLE, Cost
<1>2. \A c \in Cells(n) : Combined(cm[c], DefaultCost) \in Cost
  BY DefaultIsCost DEF Combined
<1> QED BY <1>1, <1>2, DefaultIsCost DEF BaseOf

LEMMA SizeIs == TypeOK => size \in Nat \ {0} /\ Cells(size) \in SUBSET Nat
<1>1. TypeOK => size \in 1 .. MaxCells
  BY DEF TypeOK
<1> QED BY <1>1 DEF MaxCells, Cells

(* A radius in cells is the least number of cells that is as long.         *)
LEMMA CellDistanceIs ==
  ASSUME NEW r \in Nat
  PROVE  /\ cellDistance(r) \in Nat
         /\ r <= Resolution * cellDistance(r)
         /\ Resolution * (cellDistance(r) - 1) < r
         /\ Resolution * cellDistance(r) = r \/ r % Resolution # 0
<1>1. Resolution \in Nat \ {0}
  BY ResolutionAssumption
<1> DEFINE x == r + Resolution - 1
           k == cellDistance(r)
<1>2. x \in Nat /\ k = x \div Resolution
  BY <1>1 DEF cellDistance
<1>3. k \in Nat /\ Resolution * k <= x /\ x < Resolution * (k + 1)
  BY <1>1, <1>2, DivIs
<1> HIDE DEF k
<1>4. Resolution * (k + 1) = Resolution * k + Resolution
      /\ Resolution * (k - 1) = Resolution * k - Resolution
      /\ Resolution * k \in Int
  BY <1>1, <1>3
<1>5. r <= Resolution * k /\ Resolution * (k - 1) < r
  BY <1>1, <1>3, <1>4
<1>6. ASSUME r % Resolution = 0
      PROVE  Resolution * k = r
  <2> DEFINE q == r \div Resolution
  <2>1. q \in Nat /\ r = Resolution * q
    BY <1>1, <1>6
  <2> HIDE DEF q
  <2>2. q < k => Resolution * (q + 1) <= Resolution * k
    BY <1>1, <1>3, <2>1, TimesGrows
  <2>3. k < q => Resolution * (k + 1) <= Resolution * q
    BY <1>1, <1>3, <2>1, TimesGrows
  <2>4. Resolution * (q + 1) = Resolution * q + Resolution /\ Resolution * q \in Int
    BY <1>1, <2>1
  <2>5. ~(q < k)
    BY <1>1, <1>4, <1>5, <2>1, <2>2, <2>4
  <2>6. ~(k < q)
    BY <1>1, <1>4, <1>5, <2>1, <2>3, <2>4
  <2> QED BY <1>3, <2>1, <2>5, <2>6
<1> QED BY <1>3, <1>5, <1>6 DEF k

LEMMA RadiiAre ==
  TypeOK => /\ inflation_radius \in Nat /\ inscribed_radius \in Nat
            /\ cell_inflation_radius \in Nat
            /\ cell_inflation_radius = 0 <=> inflation_radius = 0
<1> SUFFICES ASSUME TypeOK
             PROVE  /\ inflation_radius \in Nat /\ inscribed_radius \in Nat
                    /\ cell_inflation_radius \in Nat
                    /\ cell_inflation_radius = 0 <=> inflation_radius = 0
  OBVIOUS
<1>1. inflation_radius \in Nat /\ inscribed_radius \in Nat
  BY InflationLayerAssumption DEF TypeOK
<1> DEFINE k == cellDistance(inflation_radius)
<1>2. /\ k \in Nat /\ inflation_radius <= Resolution * k
      /\ Resolution * (k - 1) < inflation_radius
  BY <1>1, CellDistanceIs
<1> HIDE DEF k
<1>3. k # 0 => Resolution * 0 <= Resolution * (k - 1)
  BY <1>2, ResolutionAssumption, TimesGrows
<1>4. Resolution * 0 = 0 /\ Resolution * (k - 1) \in Int
  BY <1>2, ResolutionAssumption
<1>5. k = 0 <=> inflation_radius = 0
  BY <1>1, <1>2, <1>3, <1>4
<1> QED BY <1>1, <1>2, <1>5 DEF cell_inflation_radius, k

WholeFact ==
  TypeOK =>
    /\ Whole \in [Cells(size) -> Cost]
    /\ Full = FullOf(Whole, Inflates, cell_inflation_radius, inscribed_radius)

LEMMA WholeIs == WholeFact
<1> SUFFICES ASSUME TypeOK
             PROVE  /\ Whole \in [Cells(size) -> Cost]
                    /\ Full = FullOf(Whole, Inflates, cell_inflation_radius, inscribed_radius)
  BY DEF WholeFact
<1>1. size \in Nat /\ costmap \in [Cells(size) -> Cost] /\ cell_inflation_radius \in Nat
  BY SizeIs, RadiiAre DEF TypeOK
<1>2. Whole \in [Cells(size) -> Cost]
  BY <1>1, BaseOfIs DEF Whole
<1>3. Base(Cells(size)) = Whole
  BY DEF Base, Whole, BaseOf, StaticCost, StaticWrites
<1>4. Inflated(Whole, Cells(size)) =
        [c \in Cells(size) |->
           IF c \in Cells(size)
           THEN InflatedAt(Whole, Inflates, cell_inflation_radius, inscribed_radius, c)
           ELSE Whole[c]]
  BY <1>1, <1>2, InflatedIs
<1>5. DOMAIN Whole = Cells(size)
  BY <1>2
<1> HIDE DEF Whole
<1> QED BY <1>2, <1>3, <1>4, <1>5 DEF Full, FullOf

LEMMA BaseIs ==
  ASSUME TypeOK, NEW W \in SUBSET Cells(size)
  PROVE  Base(W) = [c \in Cells(size) |-> IF c \in W THEN Whole[c] ELSE master[c]]
BY DEF Base, Whole, BaseOf, StaticCost, StaticWrites

LEMMA FullIs ==
  ASSUME TypeOK
  PROVE  /\ Full \in [Cells(size) -> Cost]
         /\ \A c \in Cells(size) :
              /\ Full[c] = InflatedAt(Whole, Inflates, cell_inflation_radius, inscribed_radius, c)
              /\ Full[c] = LETHAL_OBSTACLE <=> Whole[c] = LETHAL_OBSTACLE
<1>1. /\ Whole \in [Cells(size) -> Cost]
      /\ Full = FullOf(Whole, Inflates, cell_inflation_radius, inscribed_radius)
  BY WholeIs DEF WholeFact
<1>2. size \in Nat /\ cell_inflation_radius \in Nat /\ inscribed_radius \in Nat /\ Inflates \in BOOLEAN
  BY SizeIs, RadiiAre DEF TypeOK, Inflates
<1> DEFINE at(c) == InflatedAt(Whole, Inflates, cell_inflation_radius, inscribed_radius, c)
<1>3. \A c \in Cells(size) : at(c) \in Cost /\ (at(c) = LETHAL_OBSTACLE <=> Whole[c] = LETHAL_OBSTACLE)
  BY <1>1, <1>2, LethalStays
<1>4. Full = [c \in Cells(size) |-> at(c)]
  BY <1>1 DEF FullOf
<1> HIDE DEF at
<1> QED BY <1>3, <1>4 DEF at

-----------------------------------------------------------------------------
(* What the cells may cost, of values instead of variables *)

OutermostAt(m, g, on, r, ins, c) ==
  /\ on /\ r % Resolution # 0
  /\ \A s \in DOMAIN g : Distance(c, s) < cellDistance(r) => g[s] # LETHAL_OBSTACLE
  /\ m \in {g[c], InflatedCost(g[c], CostOf(ins, cellDistance(r)))}

RightAt(m, g, on, r, ins, c) ==
  m = InflatedAt(g, on, cellDistance(r), ins, c) \/ OutermostAt(m, g, on, r, ins, c)

RightFact ==
  TypeOK =>
    \A c \in Cells(size) :
      Right(c) <=> RightAt(master[c], Whole, Inflates, inflation_radius, inscribed_radius, c)

LEMMA RightIs == RightFact
<1> SUFFICES ASSUME TypeOK, NEW c \in Cells(size)
             PROVE  Right(c) <=> RightAt(master[c], Whole, Inflates, inflation_radius,
                                         inscribed_radius, c)
  BY DEF RightFact
<1>1. DOMAIN Whole = Cells(size)
  BY DEF Whole, BaseOf
<1>2. Base(Cells(size)) = Whole
  BY DEF Base, Whole, BaseOf, StaticCost, StaticWrites
<1>3. Full[c] = InflatedAt(Whole, Inflates, cell_inflation_radius, inscribed_radius, c)
  BY FullIs
<1>4. \A d : computeCost(d) = CostOf(inscribed_radius, d)
  BY DEF computeCost, CostOf
<1> HIDE DEF Whole, Full
<1>5. Outermost(c) <=> OutermostAt(master[c], Whole, Inflates, inflation_radius, inscribed_radius, c)
  BY <1>1, <1>2, <1>4 DEF Outermost, OutermostAt, cell_inflation_radius
<1> QED BY <1>3, <1>5 DEF Right, RightAt, cell_inflation_radius

(* What a cell may cost changes only with the data and the parameters of   *)
(* the layers.                                                             *)
LEMMA RightStays ==
  ASSUME TypeOK, TypeOK', StaticWrites' = StaticWrites,
         UNCHANGED <<size, costmap, marks, inflation_enabled, inflation_radius, inscribed_radius>>,
         NEW c \in Cells(size), master'[c] = master[c]
  PROVE  Right(c)' <=> Right(c)
<1>1. Whole' = Whole
  BY DEF Whole
<1>2. Inflates' = Inflates
  BY DEF Inflates, cell_inflation_radius
<1>3. RightFact'
  BY RightIs, PTL
<1>4. Right(c)' <=> RightAt(master[c]', Whole', Inflates', inflation_radius', inscribed_radius', c)
  BY <1>3 DEF RightFact
<1>5. Right(c) <=> RightAt(master[c], Whole, Inflates, inflation_radius, inscribed_radius, c)
  BY RightIs DEF RightFact
<1> HIDE DEF Whole, Inflates
<1> QED BY <1>1, <1>2, <1>4, <1>5

LEMMA MinIs ==
  ASSUME NEW S \in SUBSET Nat, NEW m \in S, \A y \in S : m <= y
  PROVE  Min(S) = m
<1>1. Min(S) \in S /\ \A y \in S : Min(S) <= y
  BY MinOfNaturals
<1> DEFINE z == Min(S)
<1> HIDE DEF z
<1>2. z \in S /\ z <= m /\ m <= z
  BY <1>1 DEF z
<1>3. z \in Nat /\ m \in Nat
  BY <1>2
<1>4. z = m
  BY <1>2, <1>3
<1> QED BY <1>4 DEF z

(* An obstacle nearer than the radius counts as it would with a radius     *)
(* smaller by one.                                                         *)
LEMMA NearerCounts ==
  ASSUME NEW g, NEW on, NEW r \in Nat \ {0}, NEW ins, NEW c, NearOf(g, r - 1, c) # {}
  PROVE  InflatedAt(g, on, r, ins, c) = InflatedAt(g, on, r - 1, ins, c)
<1> DEFINE A == NearOf(g, r - 1, c)
           B == NearOf(g, r, c)
<1>1. A \in SUBSET Nat /\ B \in SUBSET Nat /\ A \subseteq B
  BY DEF NearOf
<1>2. \A d \in B : d \in A \/ d = r
  BY DEF NearOf
<1>3. \A d \in A : d < r
  BY DEF NearOf
<1>4. A # {}
  OBVIOUS
<1> HIDE DEF A, B
<1>5. Min(A) \in A /\ \A y \in A : Min(A) <= y
  BY <1>1, <1>4, MinOfNaturals
<1>6. \A y \in B : Min(A) <= y
  <2> DEFINE z == Min(A)
  <2>1. z \in A /\ \A y \in A : z <= y
    BY <1>5
  <2> HIDE DEF z
  <2>2. z \in Nat /\ z < r
    BY <1>1, <1>3, <2>1
  <2>3. \A y \in B : z <= y
    BY <1>1, <1>2, <2>1, <2>2
  <2> QED BY <2>3 DEF z
<1>7. Min(B) = Min(A)
  BY <1>1, <1>5, <1>6, MinIs
<1> QED BY <1>1, <1>4, <1>7 DEF InflatedAt, A, B

(* Without one, it can only count for an obstacle at the radius.           *)
LEMMA AtMostOutermost ==
  ASSUME NEW g, NEW on, NEW r \in Nat \ {0}, NEW ins, NEW c, NearOf(g, r - 1, c) = {}
  PROVE  InflatedAt(g, on, r, ins, c) \in {g[c], InflatedCost(g[c], CostOf(ins, r))}
<1> DEFINE B == NearOf(g, r, c)
<1>1. \A d \in B : d \in Nat /\ d = r
  BY DEF NearOf
<1>2. InflatedAt(g, on, r, ins, c)
      = IF on /\ B # {} THEN InflatedCost(g[c], CostOf(ins, Min(B))) ELSE g[c]
  BY DEF InflatedAt
<1> HIDE DEF B
<1>3. B # {} => Min(B) = r
  <2> SUFFICES ASSUME B # {} PROVE Min(B) = r
    OBVIOUS
  <2>1. B \in SUBSET Nat
    BY <1>1
  <2>2. Min(B) \in B
    BY <2>1, MinOfNaturals
  <2> QED BY <1>1, <2>2
<1> QED BY <1>2, <1>3

(* Obstacles further from a cell than the radius do not matter to it; ones *)
(* exactly as far do not if the radius, rounded up to cells, may be short  *)
(* by less than one.                                                       *)
LEMMA RightIsLocal ==
  ASSUME NEW n \in Nat, NEW g \in [Cells(n) -> Cost], NEW h \in [Cells(n) -> Cost],
         NEW on, NEW r \in Nat \ {0}, NEW ins \in Nat, NEW c \in Cells(n), NEW m,
         g[c] = h[c],
         \A s \in Cells(n) : Distance(c, s) < cellDistance(r) => g[s] = h[s],
         r % Resolution = 0 =>
           \A s \in Cells(n) : Distance(c, s) = cellDistance(r) => g[s] = h[s],
         RightAt(m, g, on, r, ins, c)
  PROVE  RightAt(m, h, on, r, ins, c)
<1> DEFINE k == cellDistance(r)
<1>1. k \in Nat \ {0}
  <2>1. k \in Nat /\ r <= Resolution * k
    BY CellDistanceIs
  <2> HIDE DEF k
  <2>2. Resolution * 0 = 0
    BY ResolutionAssumption
  <2> QED BY <2>1, <2>2
<1>2. DOMAIN g = Cells(n) /\ DOMAIN h = Cells(n) /\ Cells(n) \in SUBSET Nat
  BY DEF Cells
<1>3. \A s \in Cells(n) : Distance(c, s) \in Nat
  BY <1>2, DistanceIs
<1> HIDE DEF k
<1>4. \A s \in Cells(n) : Distance(c, s) <= k - 1 => g[s] = h[s]
  BY <1>1, <1>3 DEF k
<1>5. CASE OutermostAt(m, g, on, r, ins, c)
  <2>1. \A s \in Cells(n) : Distance(c, s) < k => h[s] # LETHAL_OBSTACLE
    BY <1>2, <1>5 DEF OutermostAt, k
  <2>2. m \in {h[c], InflatedCost(h[c], CostOf(ins, k))} /\ on /\ r % Resolution # 0
    BY <1>5 DEF OutermostAt, k
  <2> QED BY <1>2, <2>1, <2>2 DEF RightAt, OutermostAt, k
<1>6. CASE m = InflatedAt(g, on, k, ins, c)
  <2>1. CASE r % Resolution = 0
    <3>1. \A s \in Cells(n) : Distance(c, s) <= k => g[s] = h[s]
      <4>1. \A s \in Cells(n) : Distance(c, s) = k => g[s] = h[s]
        BY <2>1 DEF k
      <4> QED BY <1>1, <1>3, <1>4, <4>1
    <3>2. InflatedAt(g, on, k, ins, c) = InflatedAt(h, on, k, ins, c)
      BY <1>1, <3>1, InflationIsLocal
    <3> QED BY <1>6, <3>2 DEF RightAt, k
  <2>2. CASE r % Resolution # 0 /\ NearOf(g, k - 1, c) # {}
    <3>1. k - 1 \in Nat
      BY <1>1
    <3>2. InflatedAt(g, on, k - 1, ins, c) = InflatedAt(h, on, k - 1, ins, c)
      BY <1>4, <3>1, InflationIsLocal
    <3>3. NearOf(h, k - 1, c) # {}
      <4>1. PICK d \in 0 .. (k - 1), s \in Cells(n) : g[s] = LETHAL_OBSTACLE /\ Distance(c, s) = d
        BY <1>2, <2>2 DEF NearOf
      <4>2. h[s] = LETHAL_OBSTACLE
        BY <1>1, <1>4, <4>1
      <4>3. d \in NearOf(h, k - 1, c)
        BY <1>2, <4>1, <4>2 DEF NearOf
      <4> QED BY <4>3
    <3>4. InflatedAt(g, on, k, ins, c) = InflatedAt(h, on, k, ins, c)
      BY <1>1, <2>2, <3>2, <3>3, NearerCounts
    <3> QED BY <1>6, <3>4 DEF RightAt, k
  <2>3. CASE r % Resolution # 0 /\ NearOf(g, k - 1, c) = {}
    <3>1. InflatedAt(g, on, k, ins, c) \in {g[c], InflatedCost(g[c], CostOf(ins, k))}
      BY <1>1, <2>3, AtMostOutermost
    <3>2. \A s \in Cells(n) : Distance(c, s) < k => h[s] # LETHAL_OBSTACLE
      <4> SUFFICES ASSUME NEW s \in Cells(n), Distance(c, s) < k, h[s] = LETHAL_OBSTACLE
                   PROVE  FALSE
        OBVIOUS
      <4>1. Distance(c, s) \in 0 .. (k - 1) /\ Distance(c, s) <= k - 1
        BY <1>1, <1>3
      <4>2. g[s] = LETHAL_OBSTACLE
        BY <1>4, <4>1
      <4>3. Distance(c, s) \in NearOf(g, k - 1, c)
        BY <1>2, <4>1, <4>2 DEF NearOf
      <4> QED BY <2>3, <4>3
    <3>3. CASE on
      BY <1>2, <1>6, <2>3, <3>1, <3>2, <3>3 DEF RightAt, OutermostAt, k
    <3>4. CASE ~on
      BY <1>6, <3>4 DEF RightAt, InflatedAt, k
    <3> QED BY <3>3, <3>4
  <2> QED BY <2>1, <2>2, <2>3
<1> QED BY <1>5, <1>6 DEF RightAt, k

(* A cell that costs what it may is lethal just where the layers say.      *)
LEMMA RightIsLethal ==
  ASSUME NEW n \in Nat, NEW g \in [Cells(n) -> Cost], NEW on \in BOOLEAN,
         NEW r \in Nat, NEW ins \in Nat, NEW c \in Cells(n), NEW m,
         on => cellDistance(r) # 0,
         RightAt(m, g, on, r, ins, c)
  PROVE  m = LETHAL_OBSTACLE <=> g[c] = LETHAL_OBSTACLE
<1> DEFINE k == cellDistance(r)
<1>1. k \in Nat
  BY CellDistanceIs
<1>2. CASE m = InflatedAt(g, on, k, ins, c)
  <2> HIDE DEF k
  <2> QED BY <1>1, <1>2, LethalStays
<1>3. CASE OutermostAt(m, g, on, r, ins, c)
  <2>1. m \in {g[c], InflatedCost(g[c], CostOf(ins, k))} /\ k # 0
    BY <1>3 DEF OutermostAt
  <2> HIDE DEF k
  <2>2. CostOf(ins, k) \in 0 .. LETHAL_OBSTACLE /\ CostOf(ins, k) # LETHAL_OBSTACLE
    BY <1>1, <2>1, CostIs
  <2> DEFINE v == CostOf(ins, k)
  <2> HIDE DEF v
  <2>3. v \in 0 .. LETHAL_OBSTACLE /\ v # LETHAL_OBSTACLE /\ g[c] \in Cost
    BY <2>2 DEF v
  <2>4. InflatedCost(g[c], v) = LETHAL_OBSTACLE <=> g[c] = LETHAL_OBSTACLE
    BY <2>3, InflatedCostIs
  <2> QED BY <2>1, <2>4 DEF v
<1> QED BY <1>2, <1>3 DEF RightAt
-----------------------------------------------------------------------------
(* Types *)

LEMMA BlankIs ==
  ASSUME NEW n
  PROVE  Blank(n) \in [Cells(n) -> Cost]
BY DefaultIsCost DEF Blank

LEMMA MapIs ==
  ASSUME NEW m \in Maps
  PROVE  /\ MapSize(m) \in 1 .. MaxCells
         /\ m \in [Cells(MapSize(m)) -> Cost]
         /\ m # NoMap
BY StaticLayerAssumption

LEMMA FarIs == Far \in Nat /\ Far = Resolution * (MaxCells + 1)
<1>1. Resolution \in Nat /\ 1000 + 1 \in Nat
  BY ResolutionAssumption
<1> QED BY <1>1 DEF Far, MaxCells

LEMMA ConstantBounds == NoBounds \in Bounds /\ AllBounds \in Bounds
<1>1. Far \in Int /\ -Far \in Int
  BY FarIs
<1> QED BY <1>1 DEF NoBounds, AllBounds, Bounds

(* A static layer with news asks for the whole map.                        *)
LEMMA StaticBoundsAre ==
  ASSUME NEW n \in 1 .. MaxCells
  PROVE  LET b == Union(NoBounds, [min |-> mapToWorld(0), max |-> mapToWorld(n)])
         IN  b \in Bounds /\ b.min < Resolution /\ b.max >= Resolution * (n - 1)
<1> DEFINE lo == mapToWorld(0)
           hi == mapToWorld(n)
           t == [min |-> lo, max |-> hi]
           b == Union(NoBounds, t)
<1>1. Resolution \in Nat \ {0} /\ n \in Nat \ {0}
  BY ResolutionAssumption
<1> DEFINE half == Resolution \div 2
<1>2. half \in Nat /\ half < Resolution
  BY <1>1
<1> HIDE DEF half
<1>3. lo = half
  <2>1. 0 * Resolution + half = half
    BY <1>1, <1>2
  <2> QED BY <2>1 DEF mapToWorld, half
<1>4. hi = n * Resolution + half
  BY DEF mapToWorld, half
<1>5. /\ n * Resolution \in Nat
      /\ Resolution * (n - 1) = n * Resolution - Resolution
  BY <1>1
<1>6. lo \in Int /\ hi \in Int /\ lo < Resolution /\ hi >= Resolution * (n - 1)
  BY <1>1, <1>2, <1>3, <1>4, <1>5
<1> HIDE DEF lo, hi
<1>7. t \in Bounds /\ t.min = lo /\ t.max = hi
  BY <1>6 DEF Bounds
<1> HIDE DEF t
<1>8. b \in Bounds /\ b.min <= t.min /\ b.max >= t.max
  BY <1>7, ConstantBounds, UnionIs
<1> HIDE DEF b
<1>9. b.min \in Int /\ b.max \in Int
  BY <1>8 DEF Bounds
<1> DEFINE last_cell == Resolution * (n - 1)
<1>10. last_cell \in Int /\ hi >= last_cell
  BY <1>1, <1>6
<1> HIDE DEF last_cell
<1>11. b.min < Resolution /\ b.max >= last_cell
  BY <1>1, <1>6, <1>7, <1>8, <1>9, <1>10
<1> QED BY <1>8, <1>11 DEF b, t, lo, hi, last_cell

LEMMA GrowIs ==
  ASSUME NEW b \in Bounds, NEW r \in Nat
  PROVE  /\ Grow(b, r) \in Bounds
         /\ Grow(b, r).min = b.min - r /\ Grow(b, r).max = b.max + r
BY DEF Grow, Bounds

LEMMA TypeInit == Init => TypeOK /\ LoadingFollows
<1> SUFFICES ASSUME Init PROVE TypeOK /\ LoadingFollows
  OBVIOUS
<1>1. size \in 1 .. MaxCells
  BY LayeredCostmapAssumption DEF Init
<1>2. master \in [Cells(size) -> Cost] /\ costmap \in [Cells(size) -> Cost]
  BY BlankIs DEF Init
<1>3. bounds \in Bounds /\ last \in Bounds
  BY ConstantBounds DEF Init
<1> QED BY <1>1, <1>2, <1>3 DEF Init, TypeOK, LoadingFollows, NotLoading, UpdaterPC

(* Touching every changed cell somewhere.                                  *)
LEMMA PointsAre ==
  ASSUME TypeOK, NEW changed \in SUBSET Cells(size), NEW at \in [changed -> Cells(Resolution)]
  PROVE  LET b == Touch(bounds, {c * Resolution + at[c] : c \in changed})
         IN  /\ b \in Bounds /\ b.min <= bounds.min /\ b.max >= bounds.max
             /\ \A s \in changed : b.min < Resolution * (s + 1) /\ Resolution * s <= b.max
<1> DEFINE point(c) == c * Resolution + at[c]
           points == {point(c) : c \in changed}
           b == Touch(bounds, points)
           far == Resolution * size
<1>1. Resolution \in Nat \ {0} /\ size \in Nat \ {0} /\ far \in Nat
  BY ResolutionAssumption, SizeIs
<1>2. \A c \in changed : c \in Nat /\ c + 1 <= size /\ at[c] \in Nat /\ at[c] < Resolution
  BY <1>1 DEF Cells
<1>3. ASSUME NEW c \in changed
      PROVE  /\ point(c) \in Nat /\ point(c) < Resolution * (c + 1)
             /\ Resolution * c <= point(c) /\ point(c) <= far
  <2> DEFINE a == at[c]
             rc == Resolution * c
  <2>1. c \in Nat /\ c + 1 <= size /\ a \in Nat /\ a < Resolution
    BY <1>2
  <2> HIDE DEF a
  <2>2. Resolution * (c + 1) <= far
    BY <1>1, <2>1, TimesGrows
  <2>3. rc \in Nat /\ Resolution * (c + 1) = rc + Resolution /\ point(c) = rc + a
    BY <1>1, <2>1 DEF a
  <2> HIDE DEF rc, far
  <2>4. rc + a \in Nat /\ rc + a < rc + Resolution /\ rc <= rc + a /\ rc + a <= far
    BY <1>1, <2>1, <2>2, <2>3
  <2> QED BY <2>3, <2>4 DEF rc
<1> HIDE DEF far
<1>4. points \in SUBSET (0 .. far)
  <2> HIDE DEF point
  <2> QED BY <1>1, <1>3
<1> HIDE DEF points
<1>5. /\ b \in Bounds /\ b.min <= bounds.min /\ b.max >= bounds.max
      /\ \A p \in points : b.min <= p /\ p <= b.max
  BY <1>1, <1>4, TouchIs DEF TypeOK
<1> HIDE DEF b
<1>6. ASSUME NEW s \in changed
      PROVE  b.min < Resolution * (s + 1) /\ Resolution * s <= b.max
  <2> HIDE DEF point
  <2>1. point(s) \in points
    BY DEF points
  <2>2. b.min <= point(s) /\ point(s) <= b.max
    BY <1>5, <2>1
  <2>3. s \in Nat /\ b.min \in Int /\ b.max \in Int
    BY <1>2, <1>5 DEF Bounds
  <2>4. Resolution * (s + 1) \in Int /\ Resolution * s \in Int
    BY <1>1, <2>3
  <2>5. /\ point(s) \in Nat /\ point(s) < Resolution * (s + 1) /\ Resolution * s <= point(s)
    BY <1>3
  <2> QED BY <2>2, <2>3, <2>4, <2>5
<1> QED BY <1>5, <1>6 DEF b, points

LEMMA TypeStep ==
  ASSUME TypeOK, LoadingFollows, [Next]_vars
  PROVE  TypeOK'
<1> USE DEF static_vars, inflation_vars, grid_vars, NotLoading, UpdaterPC
<1>1. CASE updateMap_static_bounds
  <2> USE <1>1 DEF updateMap_static_bounds, static_updateBounds
  <2>1. /\ size' = NextSize
        /\ master' = IF NextSize = size THEN master ELSE Blank(NextSize)
        /\ marks' = IF NextSize = size THEN marks ELSE {}
    BY DEF resizeMap
  <2>2. NextSize \in 1 .. MaxCells
    BY MapIs DEF TypeOK, NextSize
  <2>3. master' \in [Cells(size') -> Cost] /\ marks' \subseteq Cells(size')
    BY <2>1, BlankIs DEF TypeOK
  <2>4. costmap' \in [Cells(size') -> Cost]
    BY <2>1, MapIs DEF TypeOK, NextSize
  <2>5. bounds' \in Bounds
    <3>1. Union(NoBounds, [min |-> mapToWorld(0), max |-> mapToWorld(NextSize)]) \in Bounds
      BY <2>2, StaticBoundsAre
    <3> QED BY <3>1, ConstantBounds
  <2> QED BY <2>1, <2>2, <2>3, <2>4, <2>5 DEF TypeOK
<1>2. CASE updateMap_inflation_bounds
  <2>1. PICK new \in SUBSET Cells(size) :
             marking_updateBounds(new, (marks \ new) \cup (new \ marks))
    BY <1>2 DEF updateMap_inflation_bounds
  <2> DEFINE changed == (marks \ new) \cup (new \ marks)
  <2>2. PICK at \in [changed -> Cells(Resolution)] :
             inflation_updateBounds(Touch(bounds, {c * Resolution + at[c] : c \in changed}))
    BY <2>1 DEF marking_updateBounds
  <2> DEFINE b == Touch(bounds, {c * Resolution + at[c] : c \in changed})
  <2>3. marks' = new /\ inflation_updateBounds(b) /\ b \in Bounds
    <3>1. changed \in SUBSET Cells(size)
      BY DEF TypeOK
    <3> HIDE DEF changed
    <3> QED BY <2>1, <2>2, <3>1, PointsAre DEF TypeOK, marking_updateBounds
  <2> HIDE DEF b
  <2>4. bounds' \in Bounds /\ last' \in Bounds
    <3>1. Union(last, b) \in Bounds
      BY <2>3, UnionIs DEF TypeOK
    <3>2. Grow(Union(last, b), inflation_radius) \in Bounds
      BY <3>1, GrowIs, InflationLayerAssumption DEF TypeOK
    <3> QED BY <2>3, <3>2, ConstantBounds DEF inflation_updateBounds
  <2> QED
    BY <1>2, <2>3, <2>4 DEF updateMap_inflation_bounds, inflation_updateBounds, TypeOK
<1>3. CASE updateMap_static_costs
  <2> USE <1>3 DEF updateMap_static_costs, static_updateCosts
  <2>1. Window(bounds, size) \in SUBSET Cells(size)
    BY SizeIs, WindowIs DEF TypeOK
  <2>2. Base(Window(bounds, size)) \in [Cells(size) -> Cost]
    BY <2>1, BaseIs, WholeIs DEF WholeFact, TypeOK
  <2>3. master' \in [Cells(size) -> Cost] /\ bounds' \in Bounds
    BY <2>2, ConstantBounds DEF TypeOK
  <2>4. has_updated_data' \in BOOLEAN /\ static_current' \in BOOLEAN
    BY DEF UpdatedAfterCosts, CurrentAfterCosts, TypeOK
  <2> QED BY <2>3, <2>4 DEF TypeOK
<1>4. CASE updateMap_inflation_costs
  <2> USE <1>4 DEF updateMap_inflation_costs, inflation_updateCosts
  <2>1. Window(bounds, size) \in SUBSET Cells(size)
    BY SizeIs, WindowIs DEF TypeOK
  <2>2. size \in Nat /\ cell_inflation_radius \in Nat /\ inscribed_radius \in Nat /\ Inflates \in BOOLEAN
    BY SizeIs, RadiiAre DEF TypeOK, Inflates
  <2>3. \A c \in Cells(size) :
          InflatedAt(master, Inflates, cell_inflation_radius, inscribed_radius, c) \in Cost
    BY <2>2, LethalStays DEF TypeOK
  <2>4. Inflated(master, Window(bounds, size)) \in [Cells(size) -> Cost]
    BY <2>1, <2>2, <2>3, InflatedIs DEF TypeOK
  <2>5. inflation_current' \in BOOLEAN
    BY <2>2 DEF TypeOK
  <2> QED BY <2>4, <2>5, ConstantBounds DEF TypeOK
<1>5. ASSUME NEW m \in Maps, incomingMap_resize(m) PROVE TypeOK'
  BY <1>5, MapIs, BlankIs DEF incomingMap_resize, resizeMap, TypeOK
<1>6. CASE Receive
  <2> USE DEF Receive
  <2>1. ASSUME NEW m \in Maps, incomingMap_buffer(m) PROVE TypeOK'
    BY <1>6, <2>1 DEF incomingMap_buffer, TypeOK
  <2>2. CASE incomingMap_load
    <3>1. costmap' \in [Cells(size) -> Cost]
      BY <2>2, MapIs DEF incomingMap_load, LoadingFollows
    <3> QED BY <1>6, <2>2, <3>1 DEF incomingMap_load, TypeOK
  <2>3. CASE incomingMap_received
    BY <1>6, <2>3 DEF incomingMap_received, TypeOK
  <2>4. ASSUME NEW u \in Updates, incomingUpdate(u.cell, u.cost) PROVE TypeOK'
    <3>1. u.cost \in Cost
      BY LayeredCostmapAssumption
    <3> QED BY <1>6, <2>4, <3>1 DEF incomingUpdate, TypeOK
  <2>5. CASE static_setEnabled
    BY <1>6, <2>5 DEF static_setEnabled, TypeOK
  <2> QED BY <1>6, <2>1, <2>2, <2>3, <2>4, <2>5
<1>7. CASE SetInflation
  BY <1>7 DEF SetInflation, setInflationRadius, onFootprintChanged, inflation_setEnabled, TypeOK
<1>8. CASE clearEntirely
  BY <1>8, BlankIs DEF clearEntirely, static_reset, inflation_reset, CurrentAfterReset, TypeOK
<1>9. CASE UNCHANGED vars
  <2>1. UNCHANGED <<size, master, bounds, costmap, static_enabled, static_current,
                    has_updated_data, map_received, in_update_bounds, map_buffer, loading,
                    inflation_enabled, inflation_current, inflation_radius, inscribed_radius,
                    need_reinflation, last, updater, marks, cleared>>
    BY <1>9 DEF vars
  <2> QED BY <2>1 DEF TypeOK
<1> QED
  BY <1>1, <1>2, <1>3, <1>4, <1>5, <1>6, <1>7, <1>8, <1>9 DEF Next, UpdateMap
-----------------------------------------------------------------------------
(* The flags *)

LEMMA LoadingStep ==
  ASSUME TypeOK, LoadingFollows, [Next]_vars
  PROVE  LoadingFollows'
<1> USE DEF LoadingFollows, NotLoading
<1>1. CASE updateMap_static_bounds
  <2>1. NextSize # size => map_received
    BY DEF NextSize
  <2> QED
    BY <1>1, <2>1 DEF updateMap_static_bounds, static_updateBounds, resizeMap, TypeOK
<1>2. CASE updateMap_inflation_bounds
  BY <1>2 DEF updateMap_inflation_bounds, static_vars
<1>3. CASE updateMap_static_costs
  BY <1>3 DEF updateMap_static_costs, static_updateCosts, UpdatedAfterCosts,
              CurrentAfterCosts, static_vars, TypeOK
<1>4. CASE updateMap_inflation_costs
  BY <1>4 DEF updateMap_inflation_costs, static_vars
<1>5. ASSUME NEW m \in Maps, incomingMap_resize(m) PROVE LoadingFollows'
  BY <1>5 DEF incomingMap_resize, resizeMap
<1>6. CASE Receive
  <2> USE DEF Receive, grid_vars
  <2>1. ASSUME NEW m \in Maps, incomingMap_buffer(m) PROVE LoadingFollows'
    BY <1>6, <2>1 DEF incomingMap_buffer
  <2>2. CASE incomingMap_load
    BY <1>6, <2>2 DEF incomingMap_load, TypeOK
  <2>3. CASE incomingMap_received
    BY <1>6, <2>3 DEF incomingMap_received
  <2>4. ASSUME NEW u \in Updates, incomingUpdate(u.cell, u.cost) PROVE LoadingFollows'
    BY <1>6, <2>4 DEF incomingUpdate
  <2>5. CASE static_setEnabled
    BY <1>6, <2>5 DEF static_setEnabled
  <2> QED BY <1>6, <2>1, <2>2, <2>3, <2>4, <2>5
<1>7. CASE SetInflation
  BY <1>7 DEF SetInflation, static_vars, grid_vars
<1>8. CASE clearEntirely
  BY <1>8 DEF clearEntirely, static_reset
<1>9. CASE UNCHANGED vars
  BY <1>9 DEF vars, static_vars, grid_vars
<1> QED
  BY <1>1, <1>2, <1>3, <1>4, <1>5, <1>6, <1>7, <1>8, <1>9 DEF Next, UpdateMap

(* The marking layer's bounds, grown, reach past every cell it has changed *)
(* by the inflation radius.                                                *)
LEMMA ReachIs ==
  ASSUME TypeOK, NEW new \in SUBSET Cells(size),
         marking_updateBounds(new, (marks \ new) \cup (new \ marks))
  PROVE  /\ marks' = new /\ ~need_reinflation'
         /\ UNCHANGED <<inflation_enabled, inflation_current, inflation_radius, inscribed_radius>>
         /\ need_reinflation => bounds' = AllBounds
         /\ ~need_reinflation =>
              /\ bounds'.min <= bounds.min /\ bounds'.max >= bounds.max
              /\ \A s \in (marks \ new) \cup (new \ marks) :
                   /\ bounds'.min + inflation_radius < Resolution * (s + 1)
                   /\ Resolution * s + inflation_radius <= bounds'.max
<1> DEFINE changed == (marks \ new) \cup (new \ marks)
<1>1. PICK at \in [changed -> Cells(Resolution)] :
           inflation_updateBounds(Touch(bounds, {c * Resolution + at[c] : c \in changed}))
  BY DEF marking_updateBounds
<1> DEFINE b == Touch(bounds, {c * Resolution + at[c] : c \in changed})
<1>2. marks' = new /\ inflation_updateBounds(b)
  BY <1>1 DEF marking_updateBounds
<1>3. Resolution \in Nat /\ Cells(size) \in SUBSET Nat /\ inflation_radius \in Nat
  BY SizeIs, RadiiAre, ResolutionAssumption
<1>4. changed \in SUBSET Cells(size)
  BY DEF TypeOK
<1> HIDE DEF changed
<1>5. /\ b \in Bounds /\ b.min <= bounds.min /\ b.max >= bounds.max
      /\ \A s \in changed : b.min < Resolution * (s + 1) /\ Resolution * s <= b.max
  BY <1>4, PointsAre
<1> HIDE DEF b
<1> DEFINE u == Union(last, b)
<1>6. u \in Bounds /\ u.min <= b.min /\ u.max >= b.max
  BY <1>5, UnionIs DEF TypeOK
<1>7. Grow(u, inflation_radius).min = u.min - inflation_radius
      /\ Grow(u, inflation_radius).max = u.max + inflation_radius
  BY <1>3, <1>6, GrowIs
<1>8. ~need_reinflation => bounds' = Grow(u, inflation_radius)
  BY <1>2 DEF inflation_updateBounds
<1> HIDE DEF u
<1>9. \A x \in {u.min, u.max, b.min, b.max, bounds.min, bounds.max} : x \in Int
  BY <1>5, <1>6 DEF Bounds, TypeOK
<1>10. ~need_reinflation => bounds'.min <= bounds.min /\ bounds'.max >= bounds.max
  BY <1>3, <1>5, <1>6, <1>7, <1>8, <1>9
<1>11. ASSUME ~need_reinflation, NEW s \in changed
       PROVE  /\ bounds'.min + inflation_radius < Resolution * (s + 1)
              /\ Resolution * s + inflation_radius <= bounds'.max
  <2>1. s \in Nat
    BY <1>3, <1>4
  <2> DEFINE above == Resolution * (s + 1)
             below == Resolution * s
  <2>2. above \in Int /\ below \in Int
    BY <1>3, <2>1
  <2>3. b.min < above /\ below <= b.max
    BY <1>5
  <2>4. bounds'.min = u.min - inflation_radius /\ bounds'.max = u.max + inflation_radius
    BY <1>7, <1>8, <1>11
  <2> HIDE DEF above, below
  <2>5. bounds'.min + inflation_radius < above /\ below + inflation_radius <= bounds'.max
    BY <1>3, <1>6, <1>9, <2>2, <2>3, <2>4
  <2> QED BY <2>5 DEF above, below
<1>12. /\ ~need_reinflation' /\ (need_reinflation => bounds' = AllBounds)
       /\ UNCHANGED <<inflation_enabled, inflation_current, inflation_radius, inscribed_radius>>
  BY <1>2 DEF inflation_updateBounds
<1> QED BY <1>2, <1>10, <1>11, <1>12 DEF changed

LEMMA WholeMapIs ==
  ASSUME TypeOK, WholeMap
  PROVE  ~WindowSkipped(bounds, size) /\ Window(bounds, size) = Cells(size)
<1>1. size \in Nat \ {0} /\ bounds \in Bounds
  BY SizeIs DEF TypeOK
<1> QED BY <1>1, WindowIs DEF WholeMap

AllBoundsFact == TypeOK /\ bounds = AllBounds => WholeMap

LEMMA AllBoundsIsWhole == AllBoundsFact
<1> SUFFICES ASSUME TypeOK, bounds = AllBounds
             PROVE  WholeMap
  BY DEF AllBoundsFact
<1>1. Resolution \in Nat \ {0} /\ size \in Nat /\ size - 1 <= MaxCells + 1
  BY ResolutionAssumption DEF TypeOK, MaxCells
<1>2. MaxCells + 1 \in Int /\ size - 1 \in Int
  BY <1>1 DEF MaxCells
<1>3. Resolution * (size - 1) <= Resolution * (MaxCells + 1)
  BY <1>1, <1>2, TimesGrows
<1>4. bounds.min = -Far /\ bounds.max = Far
  BY DEF AllBounds
<1>5. Far \in Nat /\ Far = Resolution * (MaxCells + 1)
  BY FarIs
<1>6. -Far < Resolution
  BY <1>1, <1>5
<1> QED BY <1>3, <1>4, <1>5, <1>6 DEF WholeMap

(* The bounds of the inflation take in those of the layers before.         *)
LEMMA StaysWhole ==
  ASSUME TypeOK, TypeOK', WholeMap, updateMap_inflation_bounds
  PROVE  WholeMap'
<1>1. PICK new \in SUBSET Cells(size) :
           marking_updateBounds(new, (marks \ new) \cup (new \ marks))
  BY DEF updateMap_inflation_bounds
<1>2. CASE need_reinflation
  <2>1. bounds' = AllBounds
    BY <1>1, <1>2, ReachIs
  <2>2. AllBoundsFact'
    BY AllBoundsIsWhole, PTL
  <2> QED BY <2>1, <2>2 DEF AllBoundsFact, AllBounds
<1>3. CASE ~need_reinflation
  <2>1. /\ bounds.min \in Int /\ bounds.max \in Int /\ bounds'.min \in Int /\ bounds'.max \in Int
        /\ size' = size /\ size \in Nat
    BY SizeIs DEF TypeOK, Bounds, updateMap_inflation_bounds
  <2>2. bounds'.min <= bounds.min /\ bounds'.max >= bounds.max
    BY <1>1, <1>3, ReachIs
  <2>3. Resolution \in Nat /\ Resolution * (size - 1) \in Int
    BY <2>1, ResolutionAssumption
  <2>4. bounds.min < Resolution /\ bounds.max >= Resolution * (size - 1)
    BY DEF WholeMap
  <2>5. bounds'.min < Resolution /\ bounds'.max >= Resolution * (size - 1)
    BY <2>1, <2>2, <2>3, <2>4
  <2> QED BY <2>1, <2>5 DEF WholeMap
<1> QED BY <1>2, <1>3 DEF TypeOK

(* A static layer with news has the whole map updated.                     *)
LEMMA NewsAreWhole ==
  ASSUME TypeOK, updateMap_static_bounds, map_received,
         map_buffer # NoMap \/ has_updated_data
  PROVE  WholeMap'
<1>1. size' = NextSize
  BY DEF updateMap_static_bounds, resizeMap
<1>2. NextSize \in 1 .. MaxCells
  BY MapIs DEF TypeOK, NextSize
<1> DEFINE b == Union(NoBounds, [min |-> mapToWorld(0), max |-> mapToWorld(NextSize)])
<1>3. bounds' = b
  BY DEF updateMap_static_bounds, static_updateBounds
<1>4. b.min < Resolution /\ b.max >= Resolution * (NextSize - 1)
  BY <1>2, StaticBoundsAre
<1> HIDE DEF b
<1> QED BY <1>1, <1>3, <1>4 DEF WholeMap

LEMMA StaticAsksStep ==
  ASSUME TypeOK, LoadingFollows, StaticAsks, [Next]_vars
  PROVE  StaticAsks'
<1> USE DEF StaticAsks
<1>1. CASE updateMap_static_bounds
  <2>1. has_updated_data /\ map_received => WholeMap'
    BY <1>1, NewsAreWhole
  <2> QED BY <1>1, <2>1 DEF updateMap_static_bounds, static_updateBounds, TypeOK
<1>2. CASE updateMap_inflation_bounds
  <2>1. TypeOK'
    BY TypeStep
  <2>2. WholeMap => WholeMap'
    BY <1>2, <2>1, StaysWhole
  <2> QED BY <1>2, <2>2 DEF updateMap_inflation_bounds, static_vars
<1>3. CASE updateMap_static_costs
  BY <1>3, WholeMapIs DEF updateMap_static_costs, static_updateCosts, UpdatedAfterCosts,
              CurrentAfterCosts, static_vars, TypeOK
<1>4. CASE updateMap_inflation_costs
  BY <1>4 DEF updateMap_inflation_costs, static_vars
<1>5. ASSUME NEW m \in Maps, incomingMap_resize(m) PROVE StaticAsks'
  BY <1>5 DEF incomingMap_resize
<1>6. CASE Receive
  <2> USE <1>6 DEF Receive, grid_vars, WholeMap
  <2>1. ASSUME NEW m \in Maps, incomingMap_buffer(m) PROVE StaticAsks'
    BY <2>1 DEF incomingMap_buffer
  <2>2. CASE incomingMap_load
    BY <2>2 DEF incomingMap_load
  <2>3. CASE incomingMap_received
    BY <2>3 DEF incomingMap_received, LoadingFollows
  <2>4. ASSUME NEW u \in Updates, incomingUpdate(u.cell, u.cost) PROVE StaticAsks'
    BY <2>4 DEF incomingUpdate
  <2>5. CASE static_setEnabled
    BY <2>5 DEF static_setEnabled
  <2> QED BY <2>1, <2>2, <2>3, <2>4, <2>5
<1>7. CASE SetInflation
  BY <1>7 DEF SetInflation, static_vars, grid_vars, WholeMap
<1>8. CASE clearEntirely
  BY <1>8 DEF clearEntirely, static_reset
<1>9. CASE UNCHANGED vars
  BY <1>9 DEF vars, static_vars, grid_vars, WholeMap
<1> QED
  BY <1>1, <1>2, <1>3, <1>4, <1>5, <1>6, <1>7, <1>8, <1>9 DEF Next, UpdateMap

LEMMA InflationAsksStep ==
  ASSUME TypeOK, InflationAsks, [Next]_vars
  PROVE  InflationAsks'
<1> USE DEF InflationAsks, inflation_vars, grid_vars
<1>1. CASE updateMap_static_bounds
  BY <1>1 DEF updateMap_static_bounds
<1>2. CASE updateMap_inflation_bounds
  <2>1. PICK new \in SUBSET Cells(size) :
             marking_updateBounds(new, (marks \ new) \cup (new \ marks))
    BY <1>2 DEF updateMap_inflation_bounds
  <2>2. /\ need_reinflation => bounds' = AllBounds
        /\ UNCHANGED <<inflation_enabled, inflation_current, inflation_radius>>
    BY <2>1, ReachIs
  <2> QED BY <1>2, <2>2 DEF updateMap_inflation_bounds
<1>3. CASE updateMap_static_costs
  BY <1>3, WholeMapIs, AllBoundsIsWhole DEF updateMap_static_costs, AllBoundsFact
<1>4. CASE updateMap_inflation_costs
  BY <1>4, RadiiAre DEF updateMap_inflation_costs, inflation_updateCosts, Inflates, TypeOK
<1>5. ASSUME NEW m \in Maps, incomingMap_resize(m) PROVE InflationAsks'
  BY <1>5 DEF incomingMap_resize
<1>6. CASE Receive
  BY <1>6 DEF Receive
<1>7. CASE SetInflation
  BY <1>7 DEF SetInflation, setInflationRadius, onFootprintChanged, inflation_setEnabled
<1>8. CASE clearEntirely
  BY <1>8 DEF clearEntirely, inflation_reset
<1>9. CASE UNCHANGED vars
  BY <1>9 DEF vars
<1> QED
  BY <1>1, <1>2, <1>3, <1>4, <1>5, <1>6, <1>7, <1>8, <1>9 DEF Next, UpdateMap

LEMMA ClearedAsksStep ==
  ASSUME TypeOK, LoadingFollows, ClearedAsks, [Next]_vars
  PROVE  ClearedAsks'
<1> USE DEF ClearedAsks, static_vars, inflation_vars, grid_vars
<1>1. CASE updateMap_static_bounds
  BY <1>1 DEF updateMap_static_bounds, static_updateBounds, TypeOK
<1>2. CASE updateMap_inflation_bounds
  <2>1. PICK new \in SUBSET Cells(size) :
             marking_updateBounds(new, (marks \ new) \cup (new \ marks))
    BY <1>2 DEF updateMap_inflation_bounds
  <2>2. (need_reinflation => bounds' = AllBounds) /\ inflation_current' = inflation_current
    BY <2>1, ReachIs
  <2> QED BY <1>2, <2>2 DEF updateMap_inflation_bounds
<1>3. CASE updateMap_static_costs
  BY <1>3, WholeMapIs, AllBoundsIsWhole
     DEF updateMap_static_costs, static_updateCosts, AllBoundsFact
<1>4. CASE updateMap_inflation_costs
  BY <1>4 DEF updateMap_inflation_costs
<1>5. ASSUME NEW m \in Maps, incomingMap_resize(m) PROVE ClearedAsks'
  BY <1>5 DEF incomingMap_resize
<1>6. CASE Receive
  <2> USE <1>6 DEF Receive
  <2>1. ASSUME NEW m \in Maps, incomingMap_buffer(m) PROVE ClearedAsks'
    BY <2>1 DEF incomingMap_buffer
  <2>2. CASE incomingMap_load
    BY <2>2 DEF incomingMap_load, LoadingFollows
  <2>3. CASE incomingMap_received
    BY <2>3 DEF incomingMap_received
  <2>4. ASSUME NEW u \in Updates, incomingUpdate(u.cell, u.cost) PROVE ClearedAsks'
    BY <2>4 DEF incomingUpdate
  <2>5. CASE static_setEnabled
    BY <2>5 DEF static_setEnabled
  <2> QED BY <2>1, <2>2, <2>3, <2>4, <2>5
<1>7. CASE SetInflation
  BY <1>7 DEF SetInflation, setInflationRadius, onFootprintChanged, inflation_setEnabled
<1>8. CASE clearEntirely
  BY <1>8 DEF clearEntirely, static_reset, inflation_reset, CurrentAfterReset, TypeOK
<1>9. CASE UNCHANGED vars
  BY <1>9 DEF vars
<1> QED
  BY <1>1, <1>2, <1>3, <1>4, <1>5, <1>6, <1>7, <1>8, <1>9 DEF Next, UpdateMap
-----------------------------------------------------------------------------
(* The costs *)

(* A step that asks for nothing new leaves the cells as right as before.   *)
LEMMA SettledStep ==
  ASSUME TypeOK, TypeOK', LoadingFollows,
         updateMap_static_bounds, ~Asked', NextSize = size, map_buffer = NoMap,
         ~has_updated_data
  PROVE  ~Asked /\ \A c \in Cells(size) : Right(c)' <=> Right(c)
<1> USE DEF updateMap_static_bounds, static_updateBounds, inflation_vars
<1>1. map_received /\ ~need_reinflation
  BY DEF Asked
<1>2. in_update_bounds /\ in_update_bounds'
  BY <1>1 DEF LoadingFollows
<1>3. StaticWrites' = StaticWrites
  BY <1>2 DEF StaticWrites
<1>4. /\ UNCHANGED <<size, costmap, marks, inflation_enabled, inflation_radius, inscribed_radius>>
      /\ master' = master
  BY <1>1
<1>5. \A c \in Cells(size) : Right(c)' <=> Right(c)
  BY <1>3, <1>4, RightStays
<1> QED BY <1>1, <1>5 DEF Asked

LEMMA FollowsStaticBounds ==
  ASSUME TypeOK, TypeOK', LoadingFollows, MasterFollows, updateMap_static_bounds, ~Asked'
  PROVE  WholeMap' \/ (size' = size /\ \A c \in Cells(size) : Right(c)')
<1>1. map_received
  BY DEF Asked, updateMap_static_bounds, static_updateBounds
<1>2. CASE map_buffer # NoMap \/ has_updated_data
  BY <1>1, <1>2, NewsAreWhole
<1>3. CASE map_buffer = NoMap /\ ~has_updated_data
  <2>1. NextSize = size
    BY <1>3 DEF NextSize
  <2>2. ~Asked /\ \A c \in Cells(size) : Right(c)' <=> Right(c)
    BY <1>3, <2>1, SettledStep
  <2>3. size' = size
    BY <2>1 DEF updateMap_static_bounds
  <2>4. \A c \in Cells(size) : Right(c)
    BY <2>2 DEF MasterFollows, updateMap_static_bounds
  <2> QED BY <2>2, <2>3, <2>4
<1> QED BY <1>2, <1>3

(* What changed and is not within the radius is not within the cells of    *)
(* the radius either, but for those at their edge.                         *)
LEMMA BeyondRadius ==
  ASSUME NEW r \in Nat, NEW d \in Nat, r < Resolution * d
  PROVE  cellDistance(r) <= d /\ (r % Resolution = 0 => cellDistance(r) < d)
<1> DEFINE k == cellDistance(r)
<1>1. Resolution \in Nat
  BY ResolutionAssumption
<1>2. /\ k \in Nat /\ Resolution * (k - 1) < r
      /\ Resolution * k = r \/ r % Resolution # 0
  BY CellDistanceIs
<1> HIDE DEF k
<1>3. d <= k - 1 => Resolution * d <= Resolution * (k - 1)
  BY <1>1, <1>2, TimesGrows
<1>4. Resolution * d \in Int /\ Resolution * (k - 1) \in Int /\ Resolution * k \in Int
  BY <1>1, <1>2
<1>5. k <= d
  BY <1>2, <1>3, <1>4
<1>6. r % Resolution = 0 => k # d
  BY <1>2, <1>4
<1> QED BY <1>2, <1>5, <1>6 DEF k

(* Of a cell outside the window, what changed is further than the radius.  *)
LEMMA OutsideIsBeyond ==
  ASSUME NEW n \in Nat \ {0}, NEW b \in Bounds, NEW r \in Nat, NEW c \in Cells(n),
         NEW s \in Cells(n), c \notin Window(b, n),
         b.min + r < Resolution * (s + 1), Resolution * s + r <= b.max
  PROVE  r < Resolution * Distance(c, s)
<1> DEFINE rc == Resolution * c
           rs == Resolution * s
<1>1. c \in Nat /\ s \in Nat /\ Resolution \in Nat \ {0}
  BY ResolutionAssumption DEF Cells
<1>2. /\ rc \in Nat /\ rs \in Nat
      /\ Resolution * (c + 1) = rc + Resolution /\ Resolution * (s + 1) = rs + Resolution
      /\ Resolution * (c - s) = rc - rs /\ Resolution * (s - c) = rs - rc
  BY <1>1
<1>3. ~(b.min < Resolution * (c + 1) /\ rc <= b.max)
  BY WindowIs
<1>4. b.min \in Int /\ b.max \in Int
  BY DEF Bounds
<1>5. c < s => rc <= rs
  BY <1>1, TimesGrows
<1>6. s <= c => rs <= rc
  BY <1>1, TimesGrows
<1> HIDE DEF rc
<1>7. b.min + r < rs + Resolution /\ rs + r <= b.max
  BY <1>2
<1>8. ~(b.min < rc + Resolution /\ rc <= b.max)
  BY <1>2, <1>3
<1> HIDE DEF rs
<1>9. (c < s => r < rs - rc) /\ (s <= c => r < rc - rs)
  BY <1>1, <1>2, <1>4, <1>5, <1>6, <1>7, <1>8
<1>10. Distance(c, s) = IF c < s THEN s - c ELSE c - s
  BY DEF Distance
<1> QED BY <1>1, <1>2, <1>9, <1>10

(* A mark changed, and not within the window, changes no cost outside it   *)
(* to a wrong one.                                                         *)
LEMMA MarksReach ==
  ASSUME TypeOK, TypeOK', updateMap_inflation_bounds, ~need_reinflation,
         NEW c \in Cells(size), c \notin Window(bounds', size), Right(c)
  PROVE  Right(c)'
<1>1. PICK new \in SUBSET Cells(size) :
           marking_updateBounds(new, (marks \ new) \cup (new \ marks))
  BY DEF updateMap_inflation_bounds
<1> DEFINE changed == (marks \ new) \cup (new \ marks)
           r == inflation_radius
<1>2. /\ marks' = new
      /\ UNCHANGED <<inflation_enabled, inflation_radius, inscribed_radius>>
      /\ \A s \in changed :
           bounds'.min + r < Resolution * (s + 1) /\ Resolution * s + r <= bounds'.max
  BY <1>1, ReachIs
<1>3. UNCHANGED <<size, master, costmap, StaticWrites>>
  BY DEF updateMap_inflation_bounds, static_vars, StaticWrites
<1>4. Inflates' = Inflates
  BY <1>2 DEF Inflates, cell_inflation_radius
<1>5. /\ size \in Nat \ {0} /\ Cells(size) \in SUBSET Nat /\ bounds' \in Bounds
      /\ r \in Nat /\ inscribed_radius \in Nat
  BY SizeIs, RadiiAre DEF TypeOK
<1>6. Whole \in [Cells(size) -> Cost] /\ Whole' \in [Cells(size) -> Cost]
  <2>1. WholeFact'
    BY WholeIs, PTL
  <2>2. Whole' \in [Cells(size') -> Cost]
    BY <2>1 DEF WholeFact
  <2> QED BY <1>3, <2>2, WholeIs DEF WholeFact
<1>7. \A s \in Cells(size) : s \notin changed => Whole'[s] = Whole[s]
  BY <1>2, <1>3 DEF Whole, BaseOf
<1>8. changed \in SUBSET Cells(size)
  BY DEF TypeOK
<1> HIDE DEF changed, Whole
<1>9. ASSUME NEW s \in changed
      PROVE  /\ Distance(c, s) \in Nat /\ c # s /\ cellDistance(r) <= Distance(c, s)
             /\ r % Resolution = 0 => cellDistance(r) < Distance(c, s)
  <2>1. s \in Cells(size) /\ c \in Nat /\ s \in Nat
    BY <1>5, <1>8
  <2>2. bounds'.min + r < Resolution * (s + 1) /\ Resolution * s + r <= bounds'.max
    BY <1>2
  <2>3. r < Resolution * Distance(c, s)
    BY <1>5, <2>1, <2>2, OutsideIsBeyond
  <2>4. Distance(c, s) \in Nat /\ (Distance(c, s) = 0 <=> c = s)
    BY <2>1, DistanceIs
  <2>5. Distance(c, s) # 0
    <3>1. Resolution * 0 = 0
      BY ResolutionAssumption
    <3> QED BY <1>5, <2>3, <3>1
  <2> QED BY <1>5, <2>3, <2>4, <2>5, BeyondRadius
<1>10. Whole[c] = Whole'[c]
  BY <1>7, <1>9
<1>11. RightAt(master[c], Whole, Inflates, r, inscribed_radius, c)
  BY RightIs DEF RightFact
<1>12. RightAt(master[c], Whole', Inflates, r, inscribed_radius, c)
  <2>1. CASE r = 0
    <3>1. ~Inflates
      BY <2>1, RadiiAre DEF Inflates
    <3> QED BY <1>10, <1>11, <3>1 DEF RightAt, InflatedAt, OutermostAt
  <2>2. CASE r # 0
    <3>1. \A s \in Cells(size) : Distance(c, s) \in Nat
      BY <1>5, DistanceIs
    <3>2. cellDistance(r) \in Nat
      BY <1>5, CellDistanceIs
    <3>3. \A s \in Cells(size) : Distance(c, s) < cellDistance(r) => Whole[s] = Whole'[s]
      BY <1>7, <1>9, <3>1, <3>2
    <3>4. r % Resolution = 0 =>
            \A s \in Cells(size) : Distance(c, s) = cellDistance(r) => Whole[s] = Whole'[s]
      BY <1>7, <1>9, <3>1, <3>2
    <3>5. r \in Nat \ {0} /\ size \in Nat
      BY <1>5, <2>2
    <3> HIDE DEF r
    <3> QED BY <1>5, <1>6, <1>10, <1>11, <3>3, <3>4, <3>5, RightIsLocal
  <2> QED BY <2>1, <2>2
<1>13. RightFact'
  BY RightIs, PTL
<1>14. Right(c)' <=> RightAt(master[c]', Whole', Inflates', inflation_radius', inscribed_radius', c)
  BY <1>3, <1>13 DEF RightFact
<1> HIDE DEF Inflates
<1> QED BY <1>2, <1>3, <1>4, <1>12, <1>14

LEMMA FollowsInflationBounds ==
  ASSUME TypeOK, TypeOK', MasterFollows, updateMap_inflation_bounds, ~Asked',
         NEW c \in Cells(size), c \notin Window(bounds', size)
  PROVE  Right(c)'
<1>1. PICK new \in SUBSET Cells(size) :
           marking_updateBounds(new, (marks \ new) \cup (new \ marks))
  BY DEF updateMap_inflation_bounds
<1>2. size' = size /\ size \in Nat \ {0} /\ bounds' \in Bounds
  BY SizeIs DEF updateMap_inflation_bounds, TypeOK
<1>3. ~WholeMap'
  BY <1>2, WindowIs DEF WholeMap
<1>4. ~need_reinflation
  <2>1. AllBoundsFact'
    BY AllBoundsIsWhole, PTL
  <2>2. bounds' # AllBounds
    BY <1>3, <2>1 DEF AllBoundsFact, AllBounds
  <2> QED BY <1>1, <2>2, ReachIs
<1>5. ~Asked
  BY <1>4 DEF Asked, updateMap_inflation_bounds, static_vars
<1>6. ~WholeMap
  BY <1>3, StaysWhole
<1>7. Right(c)
  BY <1>5, <1>6 DEF MasterFollows, updateMap_inflation_bounds
<1> QED BY <1>4, <1>7, MarksReach

LEMMA RightStaysInUpdate ==
  ASSUME TypeOK, TypeOK', updateMap_static_costs \/ updateMap_inflation_costs,
         NEW c \in Cells(size), master'[c] = master[c], Right(c)
  PROVE  Right(c)'
<1>1. UNCHANGED <<size, costmap, marks, static_enabled, in_update_bounds,
                  inflation_enabled, inflation_radius, inscribed_radius>>
  BY DEF updateMap_static_costs, updateMap_inflation_costs, static_updateCosts,
         inflation_updateCosts, static_vars, inflation_vars
<1>2. StaticWrites' = StaticWrites
  BY <1>1 DEF StaticWrites
<1> QED BY <1>1, <1>2, RightStays

LEMMA FollowsStaticCosts ==
  ASSUME TypeOK, TypeOK', MasterFollows, updateMap_static_costs, ~Asked'
  PROVE  /\ updater' = "idle" => \A c \in Cells(size) : Right(c)'
         /\ \A c \in Cells(size) \ Window(bounds, size) : Right(c)'
         /\ updater' = "inflation_costs" =>
              \A c \in Window(bounds, size) : master'[c] = Base(Cells(size))'[c]
<1> USE DEF updateMap_static_costs
<1>1. ~Asked
  BY DEF Asked, static_updateCosts, UpdatedAfterCosts, static_vars, inflation_vars
<1>2. size \in Nat \ {0} /\ bounds \in Bounds /\ size' = size
  BY SizeIs DEF TypeOK
<1>3. Window(bounds, size) \in SUBSET Cells(size)
  BY <1>2, WindowIs
<1>4. \A c \in Cells(size) \ Window(bounds, size) : Right(c)
  BY <1>1 DEF MasterFollows
<1>5. \A c \in Cells(size) \ Window(bounds, size) : master'[c] = master[c] => Right(c)'
  BY <1>4, RightStaysInUpdate
<1>6. CASE WindowSkipped(bounds, size)
  <2>1. master' = master /\ updater' = "idle"
    BY <1>6
  <2>2. Window(bounds, size) = {}
    BY <1>2, <1>6, WindowIs
  <2> QED BY <1>5, <2>1, <2>2
<1>7. CASE ~WindowSkipped(bounds, size)
  <2>1. master' = Base(Window(bounds, size)) /\ updater' = "inflation_costs"
    BY <1>7
  <2>2. master' = [c \in Cells(size) |-> IF c \in Window(bounds, size) THEN Whole[c] ELSE master[c]]
    BY <1>3, <2>1, BaseIs
  <2>3. Base(Cells(size))' = Whole'
    BY <1>2 DEF Base, Whole, BaseOf, StaticCost, StaticWrites
  <2>4. Whole' = Whole
    BY DEF Whole, StaticWrites, static_updateCosts, static_vars
  <2> HIDE DEF Whole
  <2> QED BY <1>3, <1>5, <2>1, <2>2, <2>3, <2>4
<1> QED BY <1>6, <1>7

(* The inflation of the window finds the lethal cells of the whole map:    *)
(* in it they have been written, outside it they never left.               *)
LEMMA FollowsInflationCosts ==
  ASSUME TypeOK, TypeOK', MasterFollows, updateMap_inflation_costs, ~Asked'
  PROVE  \A c \in Cells(size) : Right(c)'
<1> DEFINE W == Window(bounds, size)
           at(g, c) == InflatedAt(g, Inflates, cell_inflation_radius, inscribed_radius, c)
<1>1. ~Asked /\ master' = Inflated(master, W)
  BY DEF Asked, updateMap_inflation_costs, inflation_updateCosts, static_vars
<1>2. /\ size \in Nat \ {0} /\ bounds \in Bounds /\ cell_inflation_radius \in Nat
      /\ inflation_radius \in Nat /\ inscribed_radius \in Nat /\ Inflates \in BOOLEAN
  BY SizeIs, RadiiAre DEF TypeOK, Inflates
<1>3. W \in SUBSET Cells(size)
  BY <1>2, WindowIs
<1>4. Base(Cells(size)) = Whole
  BY DEF Base, Whole, BaseOf, StaticCost, StaticWrites
<1>5. /\ \A c \in Cells(size) \ W : Right(c)
      /\ \A c \in Cells(size) \cap W : master[c] = Whole[c]
  BY <1>1, <1>4 DEF MasterFollows, updateMap_inflation_costs
<1>6. master \in [Cells(size) -> Cost] /\ Whole \in [Cells(size) -> Cost]
  BY WholeIs DEF WholeFact, TypeOK
<1> HIDE DEF W
<1>7. \A s \in Cells(size) : master[s] = LETHAL_OBSTACLE <=> Whole[s] = LETHAL_OBSTACLE
  <2>1. ASSUME NEW s \in Cells(size) \ W
        PROVE  master[s] = LETHAL_OBSTACLE <=> Whole[s] = LETHAL_OBSTACLE
    <3>1. Right(s)
      BY <1>5
    <3>2. RightAt(master[s], Whole, Inflates, inflation_radius, inscribed_radius, s)
      BY <3>1, RightIs DEF RightFact
    <3>3. Inflates => cellDistance(inflation_radius) # 0
      BY DEF Inflates, cell_inflation_radius
    <3>4. s \in Cells(size) /\ size \in Nat
      BY <1>2
    <3> HIDE DEF Whole, Inflates
    <3> QED BY <1>2, <1>6, <3>2, <3>3, <3>4, RightIsLethal
  <2> QED BY <1>5, <2>1
<1>8. master' = [c \in Cells(size) |-> IF c \in W THEN at(master, c) ELSE master[c]]
  BY <1>1, <1>2, <1>3, <1>6, InflatedIs
<1>9. UNCHANGED <<size, costmap, marks, static_enabled, in_update_bounds,
                  inflation_enabled, inflation_radius, inscribed_radius>>
  BY DEF updateMap_inflation_costs, inflation_updateCosts, static_vars
<1>10. ASSUME NEW c \in W PROVE Right(c)'
  <2>1. c \in Cells(size) /\ master[c] = Whole[c]
    BY <1>3, <1>5
  <2>2. at(master, c) = at(Whole, c)
    <3>1. size \in Nat
      BY <1>2
    <3> HIDE DEF Whole, Inflates
    <3> QED BY <1>2, <1>6, <1>7, <2>1, <3>1, InflationIsLocal
  <2>3. master'[c] = InflatedAt(Whole, Inflates, cellDistance(inflation_radius), inscribed_radius, c)
    BY <1>8, <2>1, <2>2 DEF cell_inflation_radius
  <2>4. RightAt(master'[c], Whole, Inflates, inflation_radius, inscribed_radius, c)
    BY <2>3 DEF RightAt
  <2>5. Whole' = Whole /\ Inflates' = Inflates
    BY <1>9 DEF Whole, StaticWrites, Inflates, cell_inflation_radius
  <2>6. RightFact'
    BY RightIs, PTL
  <2>7. Right(c)' <=> RightAt(master[c]', Whole', Inflates', inflation_radius', inscribed_radius', c)
    BY <1>9, <2>1, <2>6 DEF RightFact
  <2> HIDE DEF Whole, Inflates
  <2> QED BY <1>9, <2>4, <2>5, <2>7
<1>11. ASSUME NEW c \in Cells(size) \ W PROVE Right(c)'
  <2>1. c \in Cells(size) /\ master'[c] = master[c] /\ Right(c)
    BY <1>5, <1>8
  <2> QED BY <2>1, RightStaysInUpdate
<1> QED BY <1>10, <1>11

(* Nothing that a cell's cost depends on has changed.                      *)
LEMMA FollowsKept ==
  ASSUME TypeOK, TypeOK', MasterFollows, ~Asked',
         UNCHANGED <<size, costmap, marks, static_enabled, in_update_bounds, map_received,
                     has_updated_data, need_reinflation, master, bounds, updater,
                     inflation_enabled, inflation_radius, inscribed_radius>>
  PROVE  MasterFollows'
<1>1. StaticWrites' = StaticWrites
  BY DEF StaticWrites
<1>2. \A c \in Cells(size) : Right(c)' <=> Right(c)
  BY <1>1, RightStays
<1>3. Base(Cells(size))' = Base(Cells(size))
  BY DEF Base, StaticCost
<1>4. ~Asked
  BY DEF Asked
<1> QED BY <1>2, <1>3, <1>4 DEF MasterFollows, WholeMap

LEMMA MasterStep ==
  ASSUME TypeOK, TypeOK', LoadingFollows, MasterFollows, [Next]_vars
  PROVE  MasterFollows'
<1> SUFFICES ASSUME ~Asked'
             PROVE  MasterFollows'
  BY DEF MasterFollows
<1>1. CASE updateMap_static_bounds
  <2>1. updater' = "inflation_bounds"
    BY <1>1 DEF updateMap_static_bounds
  <2>2. WholeMap' \/ \A c \in Cells(size') : Right(c)'
    BY <1>1, FollowsStaticBounds
  <2> QED BY <2>1, <2>2 DEF MasterFollows
<1>2. CASE updateMap_inflation_bounds
  <2>1. size' = size /\ updater' = "static_costs"
    BY <1>2 DEF updateMap_inflation_bounds
  <2>2. \A c \in Cells(size) : c \notin Window(bounds', size) => Right(c)'
    BY <1>2, FollowsInflationBounds
  <2> QED BY <2>1, <2>2 DEF MasterFollows
<1>3. CASE updateMap_static_costs
  <2>1. /\ size' = size
        /\ \/ updater' = "idle"
           \/ updater' = "inflation_costs" /\ bounds' = bounds
    BY <1>3 DEF updateMap_static_costs
  <2>2. /\ updater' = "idle" => \A c \in Cells(size) : Right(c)'
        /\ \A c \in Cells(size) \ Window(bounds, size) : Right(c)'
        /\ updater' = "inflation_costs" =>
             \A c \in Window(bounds, size) : master'[c] = Base(Cells(size))'[c]
    BY <1>3, FollowsStaticCosts
  <2> QED BY <2>1, <2>2 DEF MasterFollows
<1>4. CASE updateMap_inflation_costs
  <2>1. size' = size /\ updater' = "idle"
    BY <1>4 DEF updateMap_inflation_costs
  <2>2. \A c \in Cells(size) : Right(c)'
    BY <1>4, FollowsInflationCosts
  <2> QED BY <2>1, <2>2 DEF MasterFollows
<1>5. ASSUME NEW m \in Maps, incomingMap_resize(m) PROVE MasterFollows'
  BY <1>5 DEF incomingMap_resize, Asked
<1>6. CASE Receive
  <2> USE <1>6 DEF Receive, grid_vars, inflation_vars
  <2>1. ASSUME NEW m \in Maps, incomingMap_buffer(m) PROVE MasterFollows'
    <3>1. UNCHANGED <<size, costmap, marks, static_enabled, in_update_bounds, map_received,
                      has_updated_data, need_reinflation, master, bounds, updater,
                      inflation_enabled, inflation_radius, inscribed_radius>>
      BY <2>1 DEF incomingMap_buffer
    <3> QED BY <3>1, FollowsKept
  <2>2. CASE incomingMap_load
    BY <2>2 DEF incomingMap_load, Asked
  <2>3. CASE incomingMap_received
    BY <2>3 DEF incomingMap_received, Asked, LoadingFollows
  <2>4. ASSUME NEW u \in Updates, incomingUpdate(u.cell, u.cost) PROVE MasterFollows'
    BY <2>4 DEF incomingUpdate, Asked
  <2>5. CASE static_setEnabled
    BY <2>5 DEF static_setEnabled, Asked
  <2> QED BY <2>1, <2>2, <2>3, <2>4, <2>5
<1>7. CASE SetInflation
  BY <1>7 DEF SetInflation, setInflationRadius, onFootprintChanged, inflation_setEnabled, Asked
<1>8. CASE clearEntirely
  BY <1>8 DEF clearEntirely, static_reset, Asked
<1>9. CASE UNCHANGED vars
  <2>1. UNCHANGED <<size, costmap, marks, static_enabled, in_update_bounds, map_received,
                    has_updated_data, need_reinflation, master, bounds, updater,
                    inflation_enabled, inflation_radius, inscribed_radius>>
    BY <1>9 DEF vars, static_vars, inflation_vars, grid_vars
  <2> QED BY <2>1, FollowsKept
<1> QED
  BY <1>1, <1>2, <1>3, <1>4, <1>5, <1>6, <1>7, <1>8, <1>9 DEF Next, UpdateMap
-----------------------------------------------------------------------------
(* The theorems *)

LEMMA IInvHolds == Spec => []IInv
<1>1. Init => IInv
  BY TypeInit DEF Init, IInv, MasterFollows, Asked, StaticAsks, InflationAsks, ClearedAsks
<1>2. IInv /\ [Next]_vars => IInv'
  <2> SUFFICES ASSUME IInv, [Next]_vars
               PROVE  IInv'
    OBVIOUS
  <2>1. TypeOK /\ LoadingFollows /\ MasterFollows /\ StaticAsks /\ InflationAsks /\ ClearedAsks
    BY DEF IInv
  <2>2. TypeOK' /\ LoadingFollows'
    BY <2>1, TypeStep, LoadingStep
  <2>3. MasterFollows'
    BY <2>1, <2>2, MasterStep
  <2>4. StaticAsks' /\ InflationAsks' /\ ClearedAsks'
    BY <2>1, StaticAsksStep, InflationAsksStep, ClearedAsksStep
  <2> QED BY <2>2, <2>3, <2>4 DEF IInv
<1> QED BY <1>1, <1>2, PTL DEF Spec

(* The master and the static layer have the same size, and every cell of   *)
(* both holds a cost, whatever maps and updates arrive and whenever.       *)
THEOREM TypeCorrect == Spec => []TypeOK
<1>1. IInv => TypeOK
  BY DEF IInv
<1> QED BY <1>1, IInvHolds, PTL

(* The windows that updateMap() updates one by one leave in master what    *)
(* one computation of the whole map would, once no flag asks for more.     *)
(* For a radius that is no whole number of cells this excepts the cells    *)
(* whose nearest obstacle, gone or there, is exactly as many cells away as *)
(* the radius rounded up: the windows are grown by the radius itself.      *)
THEOREM NothingIsLost == Spec => []NothingLost
<1>1. IInv => NothingLost
  BY DEF IInv, NothingLost, Settled, MasterFollows, Asked
<1> QED BY <1>1, IInvHolds, PTL

(* After clear_entirely, with inflation enabled, isCurrent() is false at   *)
(* every moment until an update has ended.  Without it, isCurrent() is     *)
(* false until the static layer, if enabled, has written its costs or has  *)
(* loaded a buffered map in an update's bounds.                            *)
THEOREM ClearedStaysNotCurrent == Spec => []ClearedNotCurrent
<1>1. IInv => ClearedNotCurrent
  <2> SUFFICES ASSUME IInv, cleared # "no", isCurrent
               PROVE  /\ ~inflation_enabled
                      /\ ~static_enabled \/ updater = "inflation_costs" \/ cleared = "loaded"
    BY DEF ClearedNotCurrent
  <2>1. ~inflation_current
        /\ (static_current => updater = "inflation_costs" \/ cleared = "loaded")
    BY DEF IInv, ClearedAsks
  <2> QED BY <2>1 DEF isCurrent
<1> QED BY <1>1, IInvHolds, PTL

(* Every enabled layer is current once no flag asks for more.              *)
THEOREM SettledBecomesCurrent == Spec => []SettledIsCurrent
<1>1. IInv => SettledIsCurrent
  BY DEF IInv, SettledIsCurrent, Settled, isCurrent, StaticAsks, InflationAsks
<1> QED BY <1>1, IInvHolds, PTL

-----------------------------------------------------------------------------
(* The wave of the inflation: induction over numbers *)

(* A set of natural numbers that has 0 and the successor of every member   *)
(* has them all.                                                           *)
LEMMA Induction ==
  ASSUME NEW S \in SUBSET Nat, 0 \in S, \A n \in S : n + 1 \in S
  PROVE  S = Nat
<1> SUFFICES ASSUME Nat \ S # {} PROVE FALSE
  OBVIOUS
<1>1. PICK m \in Nat \ S : \A n \in Nat \ S : m <= n
  <2> DEFINE T == Nat \ S
  <2> T \in SUBSET Nat /\ T # {}
    OBVIOUS
  <2> HIDE DEF T
  <2>1. \E m \in T : \A n \in T : m <= n
    BY LeastExists
  <2> QED BY <2>1 DEF T
<1>2. m # 0 /\ m - 1 \in Nat
  BY <1>1
<1>3. m - 1 \in S
  BY <1>1, <1>2
<1> QED BY <1>1, <1>3

(* A recursion over the numbers up to n has a solution.                    *)
Solves(f, n, a, next) == f[0] = a /\ \A i \in 1 .. n : f[i] = next[<<i, f[i - 1]>>]

LEMMA Recursion ==
  ASSUME NEW n \in Nat, NEW V, NEW a \in V, NEW next \in [(1 .. n) \X V -> V]
  PROVE  \E f \in [0 .. n -> V] : Solves(f, n, a, next)
<1> DEFINE S == {k \in Nat : k <= n => \E f \in [0 .. k -> V] : Solves(f, k, a, next)}
<1>1. 0 \in S
  <2> DEFINE f == [i \in 0 .. 0 |-> a]
  <2>1. f \in [0 .. 0 -> V] /\ Solves(f, 0, a, next)
    BY DEF Solves
  <2> QED BY <2>1
<1>2. ASSUME NEW k \in S PROVE k + 1 \in S
  <2> SUFFICES ASSUME k + 1 <= n PROVE \E f \in [0 .. k + 1 -> V] : Solves(f, k + 1, a, next)
    OBVIOUS
  <2>1. k \in Nat /\ k <= n /\ k + 1 \in 1 .. n
    OBVIOUS
  <2>2. PICK f \in [0 .. k -> V] : Solves(f, k, a, next)
    BY <2>1
  <2> DEFINE g == [i \in 0 .. k + 1 |-> IF i <= k THEN f[i] ELSE next[<<k + 1, f[k]>>]]
  <2>3. f[k] \in V /\ next[<<k + 1, f[k]>>] \in V
    BY <2>1
  <2>4. g \in [0 .. k + 1 -> V]
    BY <2>1, <2>3
  <2>5. g[0] = f[0] /\ g[k + 1] = next[<<k + 1, f[k]>>] /\ \A i \in 0 .. k : g[i] = f[i]
    BY <2>1
  <2> HIDE DEF g
  <2>6. ASSUME NEW i \in 1 .. k + 1 PROVE g[i] = next[<<i, g[i - 1]>>]
    <3>1. i - 1 \in 0 .. k /\ g[i - 1] = f[i - 1]
      BY <2>1, <2>5
    <3>2. CASE i = k + 1
      BY <2>1, <2>5, <3>1, <3>2
    <3>3. CASE i # k + 1
      <4>1. i \in 1 .. k /\ i \in 0 .. k
        BY <2>1, <3>3
      <4> QED BY <2>2, <2>5, <3>1, <4>1 DEF Solves
    <3> QED BY <3>2, <3>3
  <2>7. Solves(g, k + 1, a, next)
    BY <2>2, <2>5, <2>6 DEF Solves
  <2> QED BY <2>4, <2>7
<1>3. S = Nat
  <2> HIDE DEF S
  <2>1. S \in SUBSET Nat
    BY DEF S
  <2> QED BY <1>1, <1>2, <2>1, Induction
<1>4. n \in S /\ n <= n
  BY <1>3
<1> QED BY <1>4

-----------------------------------------------------------------------------
(* The wave: distances *)

Places == Int \X Int

(* The squares beside a square, and the small ones.                        *)
LEMMA SquareOfNext ==
  ASSUME NEW k \in Int
  PROVE  /\ k * k \in Nat /\ (k + 1) * (k + 1) = k * k + 2 * k + 1
         /\ (k - 1) * (k - 1) = k * k - 2 * k + 1
         /\ k * k <= 1 => k \in {-1, 0, 1}
         /\ k * k = 0 => k = 0
<1>1. k * k \in Nat /\ (k + 1) * (k + 1) = k * k + 2 * k + 1 /\ (k - 1) * (k - 1) = k * k - 2 * k + 1
  OBVIOUS
<1>2. ASSUME k >= 2 \/ k <= -2 PROVE k * k > 1
  BY <1>2
<1>3. k # 0 => k * k > 0
  OBVIOUS
<1> QED BY <1>1, <1>2, <1>3

(* Squares are in the order of what they are the squares of.               *)
LEMMA SquaresInOrder ==
  ASSUME NEW a \in Nat, NEW b \in Nat
  PROVE  a < b => a * a < b * b
<1> SUFFICES ASSUME a < b PROVE a * a < b * b
  OBVIOUS
<1>1. b * b = a * a + (b - a) * (a + b)
  OBVIOUS
<1>2. b - a > 0 /\ a + b > 0
  OBVIOUS
<1>3. (b - a) * (a + b) > 0
  BY <1>2
<1>4. a * a \in Int /\ b * b \in Int /\ (b - a) * (a + b) \in Int
  OBVIOUS
<1> QED BY <1>1, <1>3, <1>4

(* The squared distance is symmetric, and zero for a cell itself only.     *)
LEMMA DistanceIsNatural ==
  ASSUME NEW c \in Places, NEW d \in Places
  PROVE  /\ SquaredDistance(c, d) \in Nat
         /\ SquaredDistance(c, d) = SquaredDistance(d, c)
         /\ SquaredDistance(c, c) = 0
         /\ SquaredDistance(c, d) = 0 => c = d
<1> DEFINE x == c[1] - d[1]  y == c[2] - d[2]
<1>1. /\ c[1] \in Int /\ c[2] \in Int /\ d[1] \in Int /\ d[2] \in Int
      /\ c = <<c[1], c[2]>> /\ d = <<d[1], d[2]>>
  BY DEF Places
<1>2. x \in Int /\ y \in Int /\ d[1] - c[1] = -x /\ d[2] - c[2] = -y /\ c[1] - c[1] = 0 /\ c[2] - c[2] = 0
  BY <1>1
<1>3. x = 0 /\ y = 0 => c = d
  BY <1>1
<1>4. SquaredDistance(c, d) = x * x + y * y /\ SquaredDistance(d, c) = (-x) * (-x) + (-y) * (-y)
  BY <1>2 DEF SquaredDistance
<1>5. SquaredDistance(c, c) = 0
  <2>1. SquaredDistance(c, c) = (c[1] - c[1]) * (c[1] - c[1]) + (c[2] - c[2]) * (c[2] - c[2])
    BY DEF SquaredDistance
  <2> QED BY <1>2, <2>1
<1> HIDE DEF x, y
<1>6. x * x \in Nat /\ y * y \in Nat /\ (x * x = 0 => x = 0) /\ (y * y = 0 => y = 0)
  BY <1>2, SquareOfNext
<1>7. (-x) * (-x) = x * x /\ (-y) * (-y) = y * y
  BY <1>2
<1> QED BY <1>3, <1>4, <1>5, <1>6, <1>7

(* The steps to the right, to the left, up and down.                       *)
Steps(c) == {<<c[1] - 1, c[2]>>, <<c[1], c[2] - 1>>, <<c[1] + 1, c[2]>>, <<c[1], c[2] + 1>>}

(* Cells at distance one are one step apart.                               *)
LEMMA NeighboursAreSteps ==
  ASSUME NEW c \in Places, NEW p \in Places
  PROVE  Neighbours(p, c) <=> p \in Steps(c)
<1> DEFINE x == p[1] - c[1]  y == p[2] - c[2]
<1>1. /\ c[1] \in Int /\ c[2] \in Int /\ p[1] \in Int /\ p[2] \in Int /\ p = <<p[1], p[2]>>
  BY DEF Places
<1>2. x \in Int /\ y \in Int /\ p[1] = c[1] + x /\ p[2] = c[2] + y
  BY <1>1
<1>3. Neighbours(p, c) <=> x * x + y * y = 1
  BY DEF Neighbours, SquaredDistance
<1> HIDE DEF x, y
<1>4. x * x \in Nat /\ y * y \in Nat /\ (x * x <= 1 => x \in {-1, 0, 1}) /\ (y * y <= 1 => y \in {-1, 0, 1})
  BY <1>2, SquareOfNext
<1>5. x * x + y * y = 1 => x \in {-1, 0, 1} /\ y \in {-1, 0, 1}
  BY <1>4
<1>6. x * x + y * y = 1 <=> <<x, y>> \in {<<-1, 0>>, <<0, -1>>, <<1, 0>>, <<0, 1>>}
  BY <1>2, <1>5
<1>7. <<x, y>> \in {<<-1, 0>>, <<0, -1>>, <<1, 0>>, <<0, 1>>} <=> p \in Steps(c)
  BY <1>1, <1>2 DEF Steps
<1> QED BY <1>3, <1>6, <1>7

(* A step changes the distance by an odd number, so never keeps it.        *)
LEMMA DistanceOfStep ==
  ASSUME NEW c \in Places, NEW s \in Places
  PROVE  LET d == SquaredDistance(c, s)
         IN  /\ SquaredDistance(<<c[1] - 1, c[2]>>, s) = d - 2 * (c[1] - s[1]) + 1
             /\ SquaredDistance(<<c[1] + 1, c[2]>>, s) = d + 2 * (c[1] - s[1]) + 1
             /\ SquaredDistance(<<c[1], c[2] - 1>>, s) = d - 2 * (c[2] - s[2]) + 1
             /\ SquaredDistance(<<c[1], c[2] + 1>>, s) = d + 2 * (c[2] - s[2]) + 1
<1> DEFINE x == c[1] - s[1]  y == c[2] - s[2]
<1>1. x \in Int /\ y \in Int /\ c[1] \in Int /\ c[2] \in Int /\ s[1] \in Int /\ s[2] \in Int
  BY DEF Places
<1>2. SquaredDistance(c, s) = x * x + y * y
  BY DEF SquaredDistance
<1>3. /\ (c[1] - 1) - s[1] = x - 1 /\ (c[1] + 1) - s[1] = x + 1
      /\ (c[2] - 1) - s[2] = y - 1 /\ (c[2] + 1) - s[2] = y + 1
  BY <1>1
<1>4. /\ SquaredDistance(<<c[1] - 1, c[2]>>, s) = (x - 1) * (x - 1) + y * y
      /\ SquaredDistance(<<c[1] + 1, c[2]>>, s) = (x + 1) * (x + 1) + y * y
      /\ SquaredDistance(<<c[1], c[2] - 1>>, s) = x * x + (y - 1) * (y - 1)
      /\ SquaredDistance(<<c[1], c[2] + 1>>, s) = x * x + (y + 1) * (y + 1)
  <2>1. ASSUME NEW a, NEW b
        PROVE  SquaredDistance(<<a, b>>, s) = (a - s[1]) * (a - s[1]) + (b - s[2]) * (b - s[2])
    BY DEF SquaredDistance
  <2>2. c[1] - s[1] = x /\ c[2] - s[2] = y
    OBVIOUS
  <2> HIDE DEF x, y
  <2>3. SquaredDistance(<<c[1] - 1, c[2]>>, s) = (x - 1) * (x - 1) + y * y
    <3>1. SquaredDistance(<<c[1] - 1, c[2]>>, s) =
            ((c[1] - 1) - s[1]) * ((c[1] - 1) - s[1]) + (c[2] - s[2]) * (c[2] - s[2])
      BY ONLY <2>1
    <3>2. (c[1] - 1) - s[1] = x - 1
      BY ONLY <1>3
    <3> QED BY ONLY <2>2, <3>1, <3>2
  <2>4. SquaredDistance(<<c[1] + 1, c[2]>>, s) = (x + 1) * (x + 1) + y * y
    <3>1. SquaredDistance(<<c[1] + 1, c[2]>>, s) =
            ((c[1] + 1) - s[1]) * ((c[1] + 1) - s[1]) + (c[2] - s[2]) * (c[2] - s[2])
      BY ONLY <2>1
    <3>2. (c[1] + 1) - s[1] = x + 1
      BY ONLY <1>3
    <3> QED BY ONLY <2>2, <3>1, <3>2
  <2>5. SquaredDistance(<<c[1], c[2] - 1>>, s) = x * x + (y - 1) * (y - 1)
    <3>1. SquaredDistance(<<c[1], c[2] - 1>>, s) =
            (c[1] - s[1]) * (c[1] - s[1]) + ((c[2] - 1) - s[2]) * ((c[2] - 1) - s[2])
      BY ONLY <2>1
    <3>2. (c[2] - 1) - s[2] = y - 1
      BY ONLY <1>3
    <3> QED BY ONLY <2>2, <3>1, <3>2
  <2>6. SquaredDistance(<<c[1], c[2] + 1>>, s) = x * x + (y + 1) * (y + 1)
    <3>1. SquaredDistance(<<c[1], c[2] + 1>>, s) =
            (c[1] - s[1]) * (c[1] - s[1]) + ((c[2] + 1) - s[2]) * ((c[2] + 1) - s[2])
      BY ONLY <2>1
    <3>2. (c[2] + 1) - s[2] = y + 1
      BY ONLY <1>3
    <3> QED BY ONLY <2>2, <3>1, <3>2
  <2> QED BY <2>3, <2>4, <2>5, <2>6
<1> HIDE DEF x, y
<1>5. /\ x * x \in Nat /\ y * y \in Nat
      /\ (x + 1) * (x + 1) = x * x + 2 * x + 1 /\ (x - 1) * (x - 1) = x * x - 2 * x + 1
      /\ (y + 1) * (y + 1) = y * y + 2 * y + 1 /\ (y - 1) * (y - 1) = y * y - 2 * y + 1
  BY <1>1, SquareOfNext
<1>6. /\ SquaredDistance(<<c[1] - 1, c[2]>>, s) = SquaredDistance(c, s) - 2 * x + 1
      /\ SquaredDistance(<<c[1] + 1, c[2]>>, s) = SquaredDistance(c, s) + 2 * x + 1
      /\ SquaredDistance(<<c[1], c[2] - 1>>, s) = SquaredDistance(c, s) - 2 * y + 1
      /\ SquaredDistance(<<c[1], c[2] + 1>>, s) = SquaredDistance(c, s) + 2 * y + 1
  BY <1>1, <1>2, <1>4, <1>5
<1> QED BY <1>6 DEF x, y

(* A neighbour that is nearer is a step towards s in one direction.        *)
LEMMA NearerStep ==
  ASSUME NEW c \in Places, NEW p \in Places, NEW s \in Places,
         Neighbours(p, c), SquaredDistance(p, s) < SquaredDistance(c, s)
  PROVE  \/ p = <<c[1] - 1, c[2]>> /\ c[1] > s[1]
         \/ p = <<c[1] + 1, c[2]>> /\ c[1] < s[1]
         \/ p = <<c[1], c[2] - 1>> /\ c[2] > s[2]
         \/ p = <<c[1], c[2] + 1>> /\ c[2] < s[2]
<1> DEFINE d == SquaredDistance(c, s)
<1>1. c[1] \in Int /\ c[2] \in Int /\ s[1] \in Int /\ s[2] \in Int
  BY DEF Places
<1>2. d \in Nat
  BY DistanceIsNatural
<1>3. p \in Steps(c)
  BY NeighboursAreSteps
<1>4. /\ SquaredDistance(<<c[1] - 1, c[2]>>, s) = d - 2 * (c[1] - s[1]) + 1
      /\ SquaredDistance(<<c[1] + 1, c[2]>>, s) = d + 2 * (c[1] - s[1]) + 1
      /\ SquaredDistance(<<c[1], c[2] - 1>>, s) = d - 2 * (c[2] - s[2]) + 1
      /\ SquaredDistance(<<c[1], c[2] + 1>>, s) = d + 2 * (c[2] - s[2]) + 1
  BY DistanceOfStep
<1>5. SquaredDistance(p, s) < d
  OBVIOUS
<1> HIDE DEF d
<1>6. CASE p = <<c[1] - 1, c[2]>>
  BY <1>1, <1>2, <1>4, <1>5, <1>6
<1>7. CASE p = <<c[1] + 1, c[2]>>
  BY <1>1, <1>2, <1>4, <1>5, <1>7
<1>8. CASE p = <<c[1], c[2] - 1>>
  BY <1>1, <1>2, <1>4, <1>5, <1>8
<1>9. CASE p = <<c[1], c[2] + 1>>
  BY <1>1, <1>2, <1>4, <1>5, <1>9
<1> QED BY <1>3, <1>6, <1>7, <1>8, <1>9 DEF Steps

(* No step keeps the distance from a cell, whichever that is.              *)
LEMMA StepChangesDistance ==
  ASSUME NEW c \in Places, NEW p \in Places, NEW s \in Places, Neighbours(p, c)
  PROVE  SquaredDistance(p, s) # SquaredDistance(c, s)
<1> DEFINE d == SquaredDistance(c, s)  x == c[1] - s[1]  y == c[2] - s[2]
<1>1. d \in Nat /\ x \in Int /\ y \in Int
  BY DistanceIsNatural DEF Places
<1>2. /\ SquaredDistance(<<c[1] - 1, c[2]>>, s) = d - 2 * x + 1
      /\ SquaredDistance(<<c[1] + 1, c[2]>>, s) = d + 2 * x + 1
      /\ SquaredDistance(<<c[1], c[2] - 1>>, s) = d - 2 * y + 1
      /\ SquaredDistance(<<c[1], c[2] + 1>>, s) = d + 2 * y + 1
  BY DistanceOfStep
<1> HIDE DEF d, x, y
<1>3. /\ d - 2 * x + 1 # d /\ d + 2 * x + 1 # d
      /\ d - 2 * y + 1 # d /\ d + 2 * y + 1 # d
  BY <1>1
<1>4. p \in Steps(c)
  BY NeighboursAreSteps
<1>5. SquaredDistance(p, s) # d
  BY <1>2, <1>3, <1>4 DEF Steps
<1> QED BY <1>5 DEF d

-----------------------------------------------------------------------------
(* The wave: its trails do not cross *)

(* Every cell of own, a function from cells to where they were reached     *)
(* from, was reached through one that is nearer.                           *)
Trails(own) ==
  /\ DOMAIN own \subseteq Places
  /\ \A c \in DOMAIN own :
       /\ own[c] \in Places
       /\ \/ c = own[c]
          \/ \E p \in DOMAIN own : /\ Neighbours(p, c) /\ own[p] = own[c]
                                  /\ SquaredDistance(p, own[c]) < SquaredDistance(c, own[c])

(* A cell reached from t is below one reached from s, though t is above s  *)
(* and to the left of it, and the cells are not.                           *)
Crossing(own, s, t, v, w) ==
  /\ v \in DOMAIN own /\ w \in DOMAIN own
  /\ own[v] = t /\ own[w] = s
  /\ v[1] = w[1] /\ s[1] <= w[1]
  /\ s[2] <= v[2] /\ v[2] < w[2]

(* Going back one step from such cells leads to two that cross nearer to   *)
(* their obstacles: within the column, where they cannot pass each other,  *)
(* one alone may go back, and to the left both do.                         *)
LEMMA SmallerCrossing ==
  ASSUME NEW own, Trails(own), NEW s \in Places, NEW t \in Places, t[1] < s[1], s[2] < t[2],
         NEW v, NEW w, Crossing(own, s, t, v, w)
  PROVE  \E p, q : /\ Crossing(own, s, t, p, q)
                   /\ SquaredDistance(p, t) + SquaredDistance(q, s)
                        < SquaredDistance(v, t) + SquaredDistance(w, s)
<1>1. /\ v \in Places /\ w \in Places /\ v \in DOMAIN own /\ w \in DOMAIN own
      /\ own[v] = t /\ own[w] = s
      /\ v[1] = w[1] /\ s[1] <= w[1] /\ s[2] <= v[2] /\ v[2] < w[2]
  BY DEF Crossing, Trails
<1>2. /\ v[1] \in Int /\ v[2] \in Int /\ w[1] \in Int /\ w[2] \in Int
      /\ s[1] \in Int /\ s[2] \in Int /\ t[1] \in Int /\ t[2] \in Int
  BY <1>1 DEF Places
<1>3. s # t /\ v # t /\ w # s
  BY <1>1, <1>2
<1>4. PICK q \in DOMAIN own : /\ Neighbours(q, w) /\ own[q] = s
                              /\ SquaredDistance(q, s) < SquaredDistance(w, s)
  BY <1>1, <1>3 DEF Trails
<1>5. PICK p \in DOMAIN own : /\ Neighbours(p, v) /\ own[p] = t
                              /\ SquaredDistance(p, t) < SquaredDistance(v, t)
  BY <1>1, <1>3 DEF Trails
<1>6. p \in Places /\ q \in Places
  BY DEF Trails
<1>7. /\ SquaredDistance(q, s) \in Nat /\ SquaredDistance(w, s) \in Nat
      /\ SquaredDistance(p, t) \in Nat /\ SquaredDistance(v, t) \in Nat
  BY <1>1, <1>6, DistanceIsNatural
<1>8. \/ q = <<w[1] - 1, w[2]>> /\ w[1] > s[1]
      \/ q = <<w[1], w[2] - 1>>
  <2>1. \/ q = <<w[1] - 1, w[2]>> /\ w[1] > s[1]
        \/ q = <<w[1] + 1, w[2]>> /\ w[1] < s[1]
        \/ q = <<w[1], w[2] - 1>> /\ w[2] > s[2]
        \/ q = <<w[1], w[2] + 1>> /\ w[2] < s[2]
    BY <1>1, <1>4, <1>6, NearerStep
  <2> QED BY <1>1, <1>2, <2>1
<1>9. \/ p = <<v[1] - 1, v[2]>>
      \/ p = <<v[1], v[2] - 1>> /\ v[2] > t[2]
      \/ p = <<v[1], v[2] + 1>> /\ v[2] < t[2]
  <2>1. \/ p = <<v[1] - 1, v[2]>> /\ v[1] > t[1]
        \/ p = <<v[1] + 1, v[2]>> /\ v[1] < t[1]
        \/ p = <<v[1], v[2] - 1>> /\ v[2] > t[2]
        \/ p = <<v[1], v[2] + 1>> /\ v[2] < t[2]
    BY <1>1, <1>5, <1>6, NearerStep
  <2> QED BY <1>1, <1>2, <2>1
<1>10. p # w /\ q # v /\ p # q
  BY <1>1, <1>3, <1>4, <1>5
<1>11. CASE q = <<w[1], w[2] - 1>>
  <2>1. q[1] = w[1] /\ q[2] = w[2] - 1
    BY <1>11
  <2>2. v[2] # q[2]
    <3>1. v = <<v[1], v[2]>>
      BY <1>1 DEF Places
    <3> QED BY <1>1, <1>10, <1>11, <2>1, <3>1
  <2>3. Crossing(own, s, t, v, q)
    BY <1>1, <1>2, <1>4, <2>1, <2>2 DEF Crossing
  <2>4. SquaredDistance(v, t) + SquaredDistance(q, s) < SquaredDistance(v, t) + SquaredDistance(w, s)
    BY <1>4, <1>7
  <2> QED BY <2>3, <2>4
<1>12. CASE p # <<v[1] - 1, v[2]>>
  <2>1. p[1] = v[1] /\ p[2] \in Int /\ s[2] <= p[2] /\ p[2] <= v[2] + 1 /\ p[2] # w[2]
    <3>1. w = <<w[1], w[2]>>
      BY <1>1 DEF Places
    <3>2. CASE p = <<v[1], v[2] - 1>> /\ v[2] > t[2]
      BY <1>1, <1>2, <3>2
    <3>3. CASE p = <<v[1], v[2] + 1>>
      <4>1. p[1] = v[1] /\ p[2] = v[2] + 1
        BY <3>3
      <4>2. p[2] # w[2]
        BY <1>1, <1>10, <3>1, <3>3, <4>1
      <4> QED BY <1>1, <1>2, <4>1, <4>2
    <3> QED BY <1>9, <1>12, <3>2, <3>3
  <2>2. Crossing(own, s, t, p, w)
    BY <1>1, <1>2, <1>5, <2>1 DEF Crossing
  <2>3. SquaredDistance(p, t) + SquaredDistance(w, s) < SquaredDistance(v, t) + SquaredDistance(w, s)
    BY <1>5, <1>7
  <2> QED BY <2>2, <2>3
<1>13. CASE q = <<w[1] - 1, w[2]>> /\ w[1] > s[1] /\ p = <<v[1] - 1, v[2]>>
  <2>1. q[1] = w[1] - 1 /\ q[2] = w[2] /\ p[1] = v[1] - 1 /\ p[2] = v[2]
    BY <1>13
  <2>2. Crossing(own, s, t, p, q)
    BY <1>1, <1>2, <1>4, <1>5, <1>13, <2>1 DEF Crossing
  <2>3. SquaredDistance(p, t) + SquaredDistance(q, s) < SquaredDistance(v, t) + SquaredDistance(w, s)
    BY <1>4, <1>5, <1>7
  <2> QED BY <2>2, <2>3
<1> QED BY <1>8, <1>11, <1>12, <1>13

(* So there is no crossing, since none is the smallest.                    *)
LEMMA TrailsDoNotCross ==
  ASSUME NEW own, Trails(own), NEW s \in Places, NEW t \in Places, t[1] < s[1], s[2] < t[2],
         NEW v, NEW w
  PROVE  ~ Crossing(own, s, t, v, w)
<1> DEFINE sum(p, q) == SquaredDistance(p, t) + SquaredDistance(q, s)
           M == {m \in Nat : \E p, q : Crossing(own, s, t, p, q) /\ m = sum(p, q)}
<1>1. ASSUME NEW p, NEW q, Crossing(own, s, t, p, q) PROVE sum(p, q) \in M
  <2>1. p \in Places /\ q \in Places
    BY <1>1 DEF Crossing, Trails
  <2>2. SquaredDistance(p, t) \in Nat /\ SquaredDistance(q, s) \in Nat
    BY <2>1, DistanceIsNatural
  <2> QED BY <1>1, <2>2
<1> SUFFICES ASSUME Crossing(own, s, t, v, w) PROVE FALSE
  OBVIOUS
<1>2. M \in SUBSET Nat /\ M # {}
  BY <1>1
<1>3. \E x \in M : \A y \in M : x <= y
  <2> HIDE DEF M
  <2> QED BY <1>2, LeastExists
<1>4. PICK m \in M : \A y \in M : m <= y
  BY <1>3
<1>5. PICK p, q : Crossing(own, s, t, p, q) /\ m = sum(p, q)
  BY <1>4
<1>6. \E x, y : Crossing(own, s, t, x, y) /\ sum(x, y) < sum(p, q)
  BY <1>5, SmallerCrossing
<1>7. PICK x, y : Crossing(own, s, t, x, y) /\ sum(x, y) < m
  BY <1>5, <1>6
<1>8. sum(x, y) \in M /\ sum(x, y) \in Nat /\ m \in Nat
  BY <1>1, <1>4, <1>7
<1> QED BY <1>4, <1>7, <1>8

(* What own says of the cells nearer than far: those on the grid beside a  *)
(* cell of its own were reached too, from as near.                         *)
Served(own, n, s) ==
  n \in DOMAIN own /\ SquaredDistance(n, own[n]) <= SquaredDistance(n, s)

Spread(own, grid, far) ==
  /\ Trails(own)
  /\ grid \subseteq Places
  /\ \A p \in DOMAIN own, n \in grid :
       Neighbours(n, p) /\ SquaredDistance(n, own[p]) < far => Served(own, n, own[p])

(* Four cells in a square, c the furthest from where p was reached from.   *)
Corner(own, grid, far, c, p, n, u) ==
  /\ Spread(own, grid, far)
  /\ c \in Places /\ p \in DOMAIN own /\ n \in grid /\ u \in grid
  /\ Neighbours(p, c) /\ Neighbours(n, c) /\ Neighbours(u, p) /\ Neighbours(n, u)
  /\ u # c /\ p # n
  /\ SquaredDistance(p, own[p]) < SquaredDistance(c, own[p])
  /\ SquaredDistance(n, own[p]) < SquaredDistance(c, own[p])
  /\ SquaredDistance(c, own[p]) <= far

(* For p to the left of c, n below it, and u beside both: u was reached    *)
(* from some t as near as s.  If t is not to the left of s, it is as near  *)
(* to n, which t's wave then reached too.  If it is, it is above s, but u  *)
(* is below p: the trails would cross.                                     *)
LEMMA CornerReached ==
  ASSUME NEW own, NEW grid, NEW far \in Int, NEW c, NEW p, NEW n, NEW u, Corner(own, grid, far, c, p, n, u),
         p = <<c[1] - 1, c[2]>>, n = <<c[1], c[2] - 1>>
  PROVE  Served(own, n, own[p])
<1> DEFINE s == own[p]  t == own[u]
<1>1. /\ c \in Places /\ p \in Places /\ n \in Places /\ u \in Places /\ s \in Places
      /\ Trails(own) /\ p \in DOMAIN own /\ n \in grid /\ u \in grid
  BY DEF Corner, Spread, Trails
<1>2. /\ c[1] \in Int /\ c[2] \in Int /\ s[1] \in Int /\ s[2] \in Int
      /\ p[1] = c[1] - 1 /\ p[2] = c[2] /\ n[1] = c[1] /\ n[2] = c[2] - 1
      /\ p = <<p[1], p[2]>> /\ n = <<n[1], n[2]>> /\ c = <<c[1], c[2]>> /\ u = <<u[1], u[2]>>
      /\ u[1] \in Int /\ u[2] \in Int
  BY <1>1 DEF Places
<1>3. u[1] = c[1] - 1 /\ u[2] = c[2] - 1
  <2>1. u \in Steps(p) /\ n \in Steps(u) /\ u # c
    BY <1>1, NeighboursAreSteps DEF Corner
  <2>2. \/ u[1] = c[1] - 2 /\ u[2] = c[2]
        \/ u[1] = c[1] - 1 /\ u[2] = c[2] - 1
        \/ u[1] = c[1] /\ u[2] = c[2]
        \/ u[1] = c[1] - 1 /\ u[2] = c[2] + 1
    BY <1>2, <2>1 DEF Steps
  <2>3. \/ n[1] = u[1] - 1 /\ n[2] = u[2]
        \/ n[1] = u[1] /\ n[2] = u[2] - 1
        \/ n[1] = u[1] + 1 /\ n[2] = u[2]
        \/ n[1] = u[1] /\ n[2] = u[2] + 1
    BY <2>1 DEF Steps
  <2>4. ~ (u[1] = c[1] /\ u[2] = c[2])
    BY <1>2, <2>1
  <2> QED BY <1>2, <2>2, <2>3, <2>4
<1>4. c[1] > s[1] /\ c[2] > s[2]
  <2>1. \/ p = <<c[1] - 1, c[2]>> /\ c[1] > s[1]
        \/ p = <<c[1] + 1, c[2]>> /\ c[1] < s[1]
        \/ p = <<c[1], c[2] - 1>> /\ c[2] > s[2]
        \/ p = <<c[1], c[2] + 1>> /\ c[2] < s[2]
    BY <1>1, NearerStep DEF Corner
  <2>2. \/ n = <<c[1] - 1, c[2]>> /\ c[1] > s[1]
        \/ n = <<c[1] + 1, c[2]>> /\ c[1] < s[1]
        \/ n = <<c[1], c[2] - 1>> /\ c[2] > s[2]
        \/ n = <<c[1], c[2] + 1>> /\ c[2] < s[2]
    BY <1>1, NearerStep DEF Corner
  <2> QED BY <1>2, <2>1, <2>2
<1>5. /\ SquaredDistance(u, s) = SquaredDistance(n, s) - 2 * (n[1] - s[1]) + 1
      /\ SquaredDistance(u, s) \in Nat /\ SquaredDistance(n, s) \in Nat /\ SquaredDistance(c, s) \in Nat
  <2>1. u = <<n[1] - 1, n[2]>>
    BY <1>2, <1>3
  <2>2. SquaredDistance(<<n[1] - 1, n[2]>>, s) = SquaredDistance(n, s) - 2 * (n[1] - s[1]) + 1
    BY <1>1, DistanceOfStep
  <2> QED BY <1>1, <2>1, <2>2, DistanceIsNatural
<1>6. SquaredDistance(u, s) < SquaredDistance(n, s) /\ SquaredDistance(n, s) < far
  <2>1. SquaredDistance(n, s) < SquaredDistance(c, s) /\ SquaredDistance(c, s) <= far
    BY DEF Corner
  <2> HIDE DEF s
  <2> QED BY <1>2, <1>4, <1>5, <2>1
<1>7. Served(own, u, s)
  <2>1. Neighbours(u, p) /\ SquaredDistance(u, s) < far
    BY <1>1, <1>2, <1>5, <1>6 DEF Corner
  <2> QED BY <1>1, <2>1 DEF Corner, Spread
<1>8. u \in DOMAIN own /\ t \in Places /\ SquaredDistance(u, t) <= SquaredDistance(u, s)
  BY <1>1, <1>7 DEF Served, Trails
<1>9. t[1] \in Int /\ t[2] \in Int
  BY <1>8 DEF Places
<1>10. CASE s[1] <= t[1]
  <2>1. SquaredDistance(u, t) = SquaredDistance(n, t) - 2 * (n[1] - t[1]) + 1
    <3>1. u = <<n[1] - 1, n[2]>>
      BY <1>2, <1>3
    <3>2. SquaredDistance(<<n[1] - 1, n[2]>>, t) = SquaredDistance(n, t) - 2 * (n[1] - t[1]) + 1
      BY <1>1, <1>8, DistanceOfStep
    <3> QED BY <3>1, <3>2
  <2>2. SquaredDistance(u, t) \in Nat /\ SquaredDistance(n, t) \in Nat
    BY <1>1, <1>8, DistanceIsNatural
  <2>3. n[1] \in Int
    BY <1>2
  <2>4. SquaredDistance(n, t) <= SquaredDistance(n, s)
    <3> HIDE DEF s, t
    <3> QED BY <1>2, <1>5, <1>8, <1>9, <1>10, <2>1, <2>2, <2>3
  <2>5. SquaredDistance(n, t) < far
    <3> HIDE DEF s, t
    <3> QED BY <1>5, <1>6, <2>2, <2>4
  <2>6. Served(own, n, t)
    BY <1>1, <1>8, <2>5 DEF Corner, Spread
  <2>7. n \in DOMAIN own /\ SquaredDistance(n, own[n]) <= SquaredDistance(n, t)
    BY <2>6 DEF Served
  <2>8. SquaredDistance(n, own[n]) \in Nat
    BY <1>1, <2>7, DistanceIsNatural DEF Trails
  <2> HIDE DEF s, t
  <2>9. SquaredDistance(n, own[n]) <= SquaredDistance(n, s)
    BY <1>5, <2>2, <2>4, <2>7, <2>8
  <2> QED BY <2>7, <2>9 DEF Served, s
<1>11. CASE t[1] < s[1]
  <2>1. s[2] < t[2]
    <3> SUFFICES ASSUME t[2] <= s[2] PROVE FALSE
      BY <1>2, <1>9
    <3> DEFINE a == u[1] - s[1]  b == u[2] - s[2]  x == u[1] - t[1]  y == u[2] - t[2]
    <3>1. a \in Nat /\ b \in Nat /\ x \in Nat /\ y \in Nat /\ a < x /\ b <= y
      BY <1>2, <1>3, <1>4, <1>9, <1>11
    <3>2. SquaredDistance(u, s) = a * a + b * b /\ SquaredDistance(u, t) = x * x + y * y
      BY DEF SquaredDistance
    <3> HIDE DEF a, b, x, y
    <3>3. a * a < x * x /\ b * b <= y * y
      BY <3>1, SquaresInOrder
    <3>4. a * a \in Nat /\ b * b \in Nat /\ x * x \in Nat /\ y * y \in Nat
      BY <3>1
    <3> QED BY <1>8, <3>2, <3>3, <3>4
  <2>2. u[1] = p[1] /\ s[1] <= p[1] /\ s[2] <= u[2] /\ u[2] < p[2]
    BY <1>2, <1>3, <1>4
  <2>3. Crossing(own, s, t, u, p)
    BY <1>1, <1>8, <2>2 DEF Crossing
  <2> HIDE DEF s, t
  <2> QED BY <1>1, <1>8, <1>11, <2>1, <2>3, TrailsDoNotCross
<1> QED BY <1>2, <1>9, <1>10, <1>11

-----------------------------------------------------------------------------
(* The wave: the same, seen from every side *)

(* Maps of the cells that keep all distances and are their own inverse.    *)
Turn(T) ==
  /\ T \in [Places -> Places]
  /\ \A c \in Places : T[T[c]] = c
  /\ \A c, d \in Places : SquaredDistance(T[c], T[d]) = SquaredDistance(c, d)

TurnedCells(T, cells) == {T[c] : c \in cells}

TurnedMap(T, own) == [c \in TurnedCells(T, DOMAIN own) |-> T[own[T[c]]]]

(* The cells reached, seen through such a map: what was reached from       *)
(* where.                                                                  *)
LEMMA TurnedMapOf ==
  ASSUME NEW T, Turn(T), NEW own, Trails(own)
  PROVE  /\ DOMAIN TurnedMap(T, own) = TurnedCells(T, DOMAIN own)
         /\ \A c \in DOMAIN own : /\ T[c] \in DOMAIN TurnedMap(T, own)
                                  /\ TurnedMap(T, own)[T[c]] = T[own[c]]
<1>1. DOMAIN TurnedMap(T, own) = TurnedCells(T, DOMAIN own)
  BY DEF TurnedMap
<1>2. ASSUME NEW c \in DOMAIN own
      PROVE  T[c] \in TurnedCells(T, DOMAIN own) /\ TurnedMap(T, own)[T[c]] = T[own[c]]
  <2>1. c \in Places /\ T[T[c]] = c
    BY DEF Trails, Turn
  <2>2. T[c] \in TurnedCells(T, DOMAIN own)
    BY DEF TurnedCells
  <2>3. TurnedMap(T, own)[T[c]] = T[own[T[T[c]]]]
    BY <2>2 DEF TurnedMap
  <2> QED BY <2>1, <2>2, <2>3
<1> QED BY <1>1, <1>2

(* Trails stay trails.                                                     *)
LEMMA TurnedTrails ==
  ASSUME NEW T, Turn(T), NEW own, Trails(own)
  PROVE  Trails(TurnedMap(T, own))
<1> DEFINE turned == TurnedMap(T, own)
<1>1. /\ DOMAIN turned = TurnedCells(T, DOMAIN own)
      /\ \A c \in DOMAIN own : T[c] \in DOMAIN turned /\ turned[T[c]] = T[own[c]]
  BY TurnedMapOf
<1> HIDE DEF turned
<1>2. DOMAIN turned \subseteq Places
  BY <1>1 DEF TurnedCells, Trails, Turn
<1>3. ASSUME NEW d \in DOMAIN turned
      PROVE  /\ turned[d] \in Places
             /\ \/ d = turned[d]
                \/ \E q \in DOMAIN turned :
                     /\ Neighbours(q, d) /\ turned[q] = turned[d]
                     /\ SquaredDistance(q, turned[d]) < SquaredDistance(d, turned[d])
  <2>1. PICK c \in DOMAIN own : d = T[c]
    BY <1>1 DEF TurnedCells
  <2>2. c \in Places /\ own[c] \in Places /\ turned[d] = T[own[c]]
    BY <1>1, <2>1 DEF Trails
  <2>3. turned[d] \in Places
    BY <2>2 DEF Turn
  <2>4. CASE c = own[c]
    BY <2>1, <2>2, <2>3, <2>4
  <2>5. CASE c # own[c]
    <3>1. PICK p \in DOMAIN own : /\ Neighbours(p, c) /\ own[p] = own[c]
                                  /\ SquaredDistance(p, own[c]) < SquaredDistance(c, own[c])
      BY <2>5 DEF Trails
    <3>2. p \in Places /\ T[p] \in DOMAIN turned /\ turned[T[p]] = T[own[c]]
      BY <1>1, <3>1 DEF Trails
    <3>3. /\ SquaredDistance(T[p], T[c]) = SquaredDistance(p, c)
          /\ SquaredDistance(T[p], T[own[c]]) = SquaredDistance(p, own[c])
          /\ SquaredDistance(T[c], T[own[c]]) = SquaredDistance(c, own[c])
      BY <2>2, <3>2 DEF Turn
    <3>4. /\ Neighbours(T[p], d) /\ turned[T[p]] = turned[d]
          /\ SquaredDistance(T[p], turned[d]) < SquaredDistance(d, turned[d])
      BY <2>1, <2>2, <3>1, <3>2, <3>3 DEF Neighbours
    <3> QED BY <2>3, <3>2, <3>4
  <2> QED BY <2>4, <2>5
<1>4. Trails(turned)
  BY <1>2, <1>3 DEF Trails
<1> QED BY <1>4 DEF turned

(* What was done stays done.                                               *)
LEMMA TurnedSpread ==
  ASSUME NEW T, Turn(T), NEW own, NEW grid, NEW far, Spread(own, grid, far)
  PROVE  Spread(TurnedMap(T, own), TurnedCells(T, grid), far)
<1> DEFINE turned == TurnedMap(T, own)
<1>0. Trails(own) /\ grid \subseteq Places
  BY DEF Spread
<1>1. /\ DOMAIN turned = TurnedCells(T, DOMAIN own)
      /\ \A c \in DOMAIN own : T[c] \in DOMAIN turned /\ turned[T[c]] = T[own[c]]
  BY <1>0, TurnedMapOf
<1>2. Trails(turned)
  BY <1>0, TurnedTrails
<1> HIDE DEF turned
<1>3. TurnedCells(T, grid) \subseteq Places
  BY <1>0 DEF TurnedCells, Turn
<1>4. ASSUME NEW q \in DOMAIN turned, NEW m \in TurnedCells(T, grid),
             Neighbours(m, q), SquaredDistance(m, turned[q]) < far
      PROVE  Served(turned, m, turned[q])
  <2>1. PICK p \in DOMAIN own : q = T[p]
    BY <1>1 DEF TurnedCells
  <2>2. PICK n \in grid : m = T[n]
    BY DEF TurnedCells
  <2>3. p \in Places /\ n \in Places /\ own[p] \in Places /\ turned[q] = T[own[p]]
    BY <1>0, <1>1, <2>1 DEF Trails
  <2>4. Neighbours(n, p) /\ SquaredDistance(n, own[p]) = SquaredDistance(m, turned[q])
    BY <1>4, <2>1, <2>2, <2>3 DEF Turn, Neighbours
  <2>5. n \in DOMAIN own /\ SquaredDistance(n, own[n]) <= SquaredDistance(n, own[p])
    BY <1>4, <2>4 DEF Spread, Served
  <2>6. m \in DOMAIN turned /\ turned[m] = T[own[n]] /\ own[n] \in Places
    BY <1>0, <1>1, <2>2, <2>5 DEF Trails
  <2>7. SquaredDistance(m, turned[m]) = SquaredDistance(n, own[n])
    BY <2>2, <2>3, <2>6 DEF Turn
  <2> QED BY <2>4, <2>5, <2>6, <2>7 DEF Served
<1>5. Spread(turned, TurnedCells(T, grid), far)
  BY <1>2, <1>3, <1>4 DEF Spread
<1> QED BY <1>5 DEF turned

(* A corner stays one, and what its image shows is shown of it.            *)
LEMMA TurnedCorner ==
  ASSUME NEW T, Turn(T), NEW own, NEW grid, NEW far, NEW c, NEW p, NEW n, NEW u,
         Corner(own, grid, far, c, p, n, u)
  PROVE  /\ Corner(TurnedMap(T, own), TurnedCells(T, grid), far, T[c], T[p], T[n], T[u])
         /\ Served(TurnedMap(T, own), T[n], TurnedMap(T, own)[T[p]]) => Served(own, n, own[p])
<1> DEFINE turned == TurnedMap(T, own)
<1>0. /\ Spread(own, grid, far) /\ Trails(own)
      /\ c \in Places /\ p \in Places /\ n \in Places /\ u \in Places /\ own[p] \in Places
      /\ p \in DOMAIN own /\ n \in grid /\ u \in grid
  BY DEF Corner, Spread, Trails
<1>1. /\ DOMAIN turned = TurnedCells(T, DOMAIN own)
      /\ \A d \in DOMAIN own : T[d] \in DOMAIN turned /\ turned[T[d]] = T[own[d]]
  BY <1>0, TurnedMapOf
<1>2. Spread(turned, TurnedCells(T, grid), far)
  BY <1>0, TurnedSpread
<1> HIDE DEF turned
<1>3. /\ T[c] \in Places /\ T[p] \in DOMAIN turned /\ turned[T[p]] = T[own[p]]
      /\ T[n] \in TurnedCells(T, grid) /\ T[u] \in TurnedCells(T, grid)
  BY <1>0, <1>1 DEF TurnedCells, Turn
<1>4. \A d, e \in Places : /\ SquaredDistance(T[d], T[e]) = SquaredDistance(d, e)
                           /\ Neighbours(T[d], T[e]) <=> Neighbours(d, e)
                           /\ T[d] = T[e] => d = e
  BY DEF Turn, Neighbours
<1>5. /\ Neighbours(T[p], T[c]) /\ Neighbours(T[n], T[c]) /\ Neighbours(T[u], T[p]) /\ Neighbours(T[n], T[u])
      /\ T[u] # T[c] /\ T[p] # T[n]
  BY <1>0, <1>4 DEF Corner
<1>6. /\ SquaredDistance(T[p], turned[T[p]]) = SquaredDistance(p, own[p])
      /\ SquaredDistance(T[c], turned[T[p]]) = SquaredDistance(c, own[p])
      /\ SquaredDistance(T[n], turned[T[p]]) = SquaredDistance(n, own[p])
  BY <1>0, <1>3, <1>4
<1>7. Corner(turned, TurnedCells(T, grid), far, T[c], T[p], T[n], T[u])
  BY <1>2, <1>3, <1>5, <1>6 DEF Corner
<1>8. ASSUME Served(turned, T[n], turned[T[p]]) PROVE Served(own, n, own[p])
  <2>1. PICK m \in DOMAIN own : T[n] = T[m]
    BY <1>1, <1>8 DEF Served, TurnedCells
  <2>2. m \in Places
    BY <1>0 DEF Trails
  <2>3. n = m
    BY <1>0, <1>4, <2>1, <2>2
  <2>4. own[n] \in Places /\ turned[T[n]] = T[own[n]]
    BY <1>0, <1>1, <2>3 DEF Trails
  <2>5. SquaredDistance(T[n], turned[T[n]]) = SquaredDistance(n, own[n])
    BY <1>0, <1>4, <2>4
  <2> QED BY <1>6, <1>8, <2>3, <2>5 DEF Served
<1> QED BY <1>7, <1>8 DEF turned

mirrored == [c \in Places |-> <<-c[1], c[2]>>]
flipped  == [c \in Places |-> <<c[1], -c[2]>>]
swapped  == [c \in Places |-> <<c[2], c[1]>>]

(* The maps with which every corner is one of CornerReached.               *)
LEMMA Turns == Turn(mirrored) /\ Turn(flipped) /\ Turn(swapped)
<1>1. ASSUME NEW c \in Places
      PROVE  /\ c[1] \in Int /\ c[2] \in Int /\ c = <<c[1], c[2]>>
             /\ <<-c[1], c[2]>> \in Places /\ <<c[1], -c[2]>> \in Places /\ <<c[2], c[1]>> \in Places
  BY DEF Places
<1>2. \A a, b \in Int : ((-a) - (-b)) * ((-a) - (-b)) = (a - b) * (a - b)
  OBVIOUS
<1>3. Turn(mirrored)
  <2>1. mirrored \in [Places -> Places]
    BY <1>1 DEF mirrored
  <2>1a. ASSUME NEW c \in Places PROVE mirrored[mirrored[c]] = c
    <3>1. mirrored[c] = <<-c[1], c[2]>> /\ <<-c[1], c[2]>> \in Places
      BY <1>1 DEF mirrored
    <3>2. mirrored[<<-c[1], c[2]>>] = <<-(-c[1]), c[2]>>
      BY <3>1 DEF mirrored
    <3>3. -(-c[1]) = c[1] /\ -(-c[2]) = c[2]
      BY DEF Places
    <3> QED BY <1>1, <3>1, <3>2, <3>3
  <2>2. ASSUME NEW c \in Places, NEW d \in Places
        PROVE  SquaredDistance(mirrored[c], mirrored[d]) = SquaredDistance(c, d)
    <3>1. SquaredDistance(mirrored[c], mirrored[d])
            = ((-c[1]) - (-d[1])) * ((-c[1]) - (-d[1])) + (c[2] - d[2]) * (c[2] - d[2])
      BY DEF mirrored, SquaredDistance
    <3> QED BY <1>1, <1>2, <3>1, Zenon DEF SquaredDistance
  <2> QED BY <2>1, <2>1a, <2>2 DEF Turn
<1>4. Turn(flipped)
  <2>1. flipped \in [Places -> Places]
    BY <1>1 DEF flipped
  <2>1a. ASSUME NEW c \in Places PROVE flipped[flipped[c]] = c
    <3>1. flipped[c] = <<c[1], -c[2]>> /\ <<c[1], -c[2]>> \in Places
      BY <1>1 DEF flipped
    <3>2. flipped[<<c[1], -c[2]>>] = <<c[1], -(-c[2])>>
      BY <3>1 DEF flipped
    <3>3. -(-c[1]) = c[1] /\ -(-c[2]) = c[2]
      BY DEF Places
    <3> QED BY <1>1, <3>1, <3>2, <3>3
  <2>2. ASSUME NEW c \in Places, NEW d \in Places
        PROVE  SquaredDistance(flipped[c], flipped[d]) = SquaredDistance(c, d)
    <3>1. SquaredDistance(flipped[c], flipped[d])
            = (c[1] - d[1]) * (c[1] - d[1]) + ((-c[2]) - (-d[2])) * ((-c[2]) - (-d[2]))
      BY DEF flipped, SquaredDistance
    <3> QED BY <1>1, <1>2, <3>1, Zenon DEF SquaredDistance
  <2> QED BY <2>1, <2>1a, <2>2 DEF Turn
<1>5. Turn(swapped)
  <2>1. swapped \in [Places -> Places] /\ \A c \in Places : swapped[swapped[c]] = c
    BY <1>1 DEF swapped
  <2>2. ASSUME NEW c \in Places, NEW d \in Places
        PROVE  SquaredDistance(swapped[c], swapped[d]) = SquaredDistance(c, d)
    <3> DEFINE a == (c[1] - d[1]) * (c[1] - d[1])  b == (c[2] - d[2]) * (c[2] - d[2])
    <3>1. SquaredDistance(swapped[c], swapped[d]) = b + a /\ SquaredDistance(c, d) = a + b
      BY DEF swapped, SquaredDistance
    <3>2. a \in Int /\ b \in Int
      <4>1. c[1] - d[1] \in Int /\ c[2] - d[2] \in Int
        BY DEF Places
      <4> QED BY <4>1, SquareOfNext
    <3> HIDE DEF a, b
    <3> QED BY <3>1, <3>2
  <2> QED BY <2>1, <2>2 DEF Turn
<1> QED BY <1>3, <1>4, <1>5

(* With p on either side of c.                                             *)
LEMMA CornerReachedBelow ==
  ASSUME NEW own, NEW grid, NEW far \in Int, NEW c, NEW p, NEW n, NEW u, Corner(own, grid, far, c, p, n, u),
         p \in {<<c[1] - 1, c[2]>>, <<c[1] + 1, c[2]>>}, n = <<c[1], c[2] - 1>>
  PROVE  Served(own, n, own[p])
<1>1. CASE p = <<c[1] - 1, c[2]>>
  BY <1>1, CornerReached
<1>2. CASE p = <<c[1] + 1, c[2]>>
  <2> DEFINE T == mirrored  turned == TurnedMap(T, own)  seen_grid == TurnedCells(T, grid)
  <2>1. Turn(T)
    BY Turns
  <2>2. /\ c \in Places /\ p \in Places /\ n \in Places
        /\ c[1] \in Int /\ c[2] \in Int
    BY DEF Corner, Spread, Trails, Places
  <2>3. /\ T[c] = <<-c[1], c[2]>> /\ T[p] = <<-(c[1] + 1), c[2]>> /\ T[n] = <<-c[1], c[2] - 1>>
    BY <1>2, <2>2 DEF mirrored
  <2> HIDE DEF T
  <2>4. /\ Corner(turned, seen_grid, far, T[c], T[p], T[n], T[u])
        /\ Served(turned, T[n], turned[T[p]]) => Served(own, n, own[p])
    BY <2>1, TurnedCorner
  <2>5. T[p] = <<T[c][1] - 1, T[c][2]>> /\ T[n] = <<T[c][1], T[c][2] - 1>>
    BY <2>2, <2>3
  <2> HIDE DEF turned, seen_grid
  <2>6. Served(turned, T[n], turned[T[p]])
    BY <2>4, <2>5, CornerReached
  <2> QED BY <2>4, <2>6
<1> QED BY <1>1, <1>2

(* With n below or above c too.                                            *)
LEMMA CornerReachedBeside ==
  ASSUME NEW own, NEW grid, NEW far \in Int, NEW c, NEW p, NEW n, NEW u, Corner(own, grid, far, c, p, n, u),
         p \in {<<c[1] - 1, c[2]>>, <<c[1] + 1, c[2]>>}, n \in {<<c[1], c[2] - 1>>, <<c[1], c[2] + 1>>}
  PROVE  Served(own, n, own[p])
<1>1. CASE n = <<c[1], c[2] - 1>>
  BY <1>1, CornerReachedBelow
<1>2. CASE n = <<c[1], c[2] + 1>>
  <2> DEFINE T == flipped  turned == TurnedMap(T, own)  seen_grid == TurnedCells(T, grid)
  <2>1. Turn(T)
    BY Turns
  <2>2. /\ c \in Places /\ p \in Places /\ n \in Places
        /\ c[1] \in Int /\ c[2] \in Int
    BY DEF Corner, Spread, Trails, Places
  <2>3. /\ T[c] = <<c[1], -c[2]>> /\ T[n] = <<c[1], -(c[2] + 1)>>
        /\ T[p] \in {<<c[1] - 1, -c[2]>>, <<c[1] + 1, -c[2]>>}
    BY <1>2, <2>2 DEF flipped
  <2> HIDE DEF T
  <2>4. /\ Corner(turned, seen_grid, far, T[c], T[p], T[n], T[u])
        /\ Served(turned, T[n], turned[T[p]]) => Served(own, n, own[p])
    BY <2>1, TurnedCorner
  <2>5. /\ T[p] \in {<<T[c][1] - 1, T[c][2]>>, <<T[c][1] + 1, T[c][2]>>}
        /\ T[n] = <<T[c][1], T[c][2] - 1>>
    BY <2>2, <2>3
  <2> HIDE DEF turned, seen_grid
  <2>6. Served(turned, T[n], turned[T[p]])
    BY <2>4, <2>5, CornerReachedBelow
  <2> QED BY <2>4, <2>6
<1> QED BY <1>1, <1>2

(* And with p and n in each other's direction.                             *)
LEMMA EveryCornerReached ==
  ASSUME NEW own, NEW grid, NEW far \in Int, NEW c, NEW p, NEW n, NEW u, Corner(own, grid, far, c, p, n, u),
         \/ /\ p \in {<<c[1] - 1, c[2]>>, <<c[1] + 1, c[2]>>}
            /\ n \in {<<c[1], c[2] - 1>>, <<c[1], c[2] + 1>>}
         \/ /\ n \in {<<c[1] - 1, c[2]>>, <<c[1] + 1, c[2]>>}
            /\ p \in {<<c[1], c[2] - 1>>, <<c[1], c[2] + 1>>}
  PROVE  Served(own, n, own[p])
<1>1. CASE /\ p \in {<<c[1] - 1, c[2]>>, <<c[1] + 1, c[2]>>}
           /\ n \in {<<c[1], c[2] - 1>>, <<c[1], c[2] + 1>>}
  BY <1>1, CornerReachedBeside
<1>2. CASE /\ n \in {<<c[1] - 1, c[2]>>, <<c[1] + 1, c[2]>>}
           /\ p \in {<<c[1], c[2] - 1>>, <<c[1], c[2] + 1>>}
  <2> DEFINE T == swapped  turned == TurnedMap(T, own)  seen_grid == TurnedCells(T, grid)
  <2>1. Turn(T)
    BY Turns
  <2>2. /\ c \in Places /\ p \in Places /\ n \in Places
        /\ c[1] \in Int /\ c[2] \in Int
    BY DEF Corner, Spread, Trails, Places
  <2>3. /\ T[c] = <<c[2], c[1]>>
        /\ T[n] \in {<<c[2], c[1] - 1>>, <<c[2], c[1] + 1>>}
        /\ T[p] \in {<<c[2] - 1, c[1]>>, <<c[2] + 1, c[1]>>}
    BY <1>2, <2>2 DEF swapped
  <2> HIDE DEF T
  <2>4. /\ Corner(turned, seen_grid, far, T[c], T[p], T[n], T[u])
        /\ Served(turned, T[n], turned[T[p]]) => Served(own, n, own[p])
    BY <2>1, TurnedCorner
  <2>5. /\ T[p] \in {<<T[c][1] - 1, T[c][2]>>, <<T[c][1] + 1, T[c][2]>>}
        /\ T[n] \in {<<T[c][1], T[c][2] - 1>>, <<T[c][1], T[c][2] + 1>>}
    BY <2>2, <2>3
  <2> HIDE DEF turned, seen_grid
  <2>6. Served(turned, T[n], turned[T[p]])
    BY <2>4, <2>5, CornerReachedBeside
  <2> QED BY <2>4, <2>6
<1> QED BY <1>1, <1>2

(* When a cell c is reached, next after p and from the same place, every   *)
(* neighbour of c nearer to that place was reached, from as near.          *)
LEMMA NearerReached ==
  ASSUME NEW own, NEW grid, NEW far \in Int, Spread(own, grid, far), DOMAIN own \subseteq grid,
         \A a, b \in grid : <<a[1], b[2]>> \in grid,
         NEW c \in grid, NEW p \in DOMAIN own, NEW n \in grid, Neighbours(p, c), Neighbours(n, c),
         SquaredDistance(p, own[p]) < SquaredDistance(c, own[p]),
         SquaredDistance(n, own[p]) < SquaredDistance(c, own[p]),
         SquaredDistance(c, own[p]) <= far
  PROVE  Served(own, n, own[p])
<1> DEFINE s == own[p]
<1>1. /\ c \in Places /\ p \in Places /\ n \in Places /\ s \in Places
      /\ p \in grid /\ Trails(own) /\ grid \subseteq Places
  BY DEF Spread, Trails
<1>2. /\ c[1] \in Int /\ c[2] \in Int /\ p[1] \in Int /\ p[2] \in Int /\ n[1] \in Int /\ n[2] \in Int
      /\ s[1] \in Int /\ s[2] \in Int
      /\ c = <<c[1], c[2]>> /\ p = <<p[1], p[2]>> /\ n = <<n[1], n[2]>>
  BY <1>1 DEF Places
<1>3. CASE p = n
  <2>1. SquaredDistance(n, own[n]) \in Nat
    BY <1>1, <1>3, DistanceIsNatural
  <2> QED BY <1>3, <2>1 DEF Served
<1>4. CASE p # n
  <2>1. \/ p = <<c[1] - 1, c[2]>> /\ c[1] > s[1]
        \/ p = <<c[1] + 1, c[2]>> /\ c[1] < s[1]
        \/ p = <<c[1], c[2] - 1>> /\ c[2] > s[2]
        \/ p = <<c[1], c[2] + 1>> /\ c[2] < s[2]
    BY <1>1, NearerStep
  <2>2. \/ n = <<c[1] - 1, c[2]>> /\ c[1] > s[1]
        \/ n = <<c[1] + 1, c[2]>> /\ c[1] < s[1]
        \/ n = <<c[1], c[2] - 1>> /\ c[2] > s[2]
        \/ n = <<c[1], c[2] + 1>> /\ c[2] < s[2]
    BY <1>1, NearerStep
  <2> HIDE DEF s
  <2>3. \/ /\ p \in {<<c[1] - 1, c[2]>>, <<c[1] + 1, c[2]>>}
           /\ n \in {<<c[1], c[2] - 1>>, <<c[1], c[2] + 1>>}
        \/ /\ n \in {<<c[1] - 1, c[2]>>, <<c[1] + 1, c[2]>>}
           /\ p \in {<<c[1], c[2] - 1>>, <<c[1], c[2] + 1>>}
    BY <1>2, <1>4, <2>1, <2>2
  <2>4. PICK u \in grid : Neighbours(u, p) /\ Neighbours(n, u) /\ u # c
    <3>1. CASE /\ p \in {<<c[1] - 1, c[2]>>, <<c[1] + 1, c[2]>>}
               /\ n \in {<<c[1], c[2] - 1>>, <<c[1], c[2] + 1>>}
      <4> DEFINE u == <<p[1], n[2]>>
      <4>1. u \in grid /\ u \in Places
        BY <1>1
      <4>2. u[1] = p[1] /\ u[2] = n[2] /\ p[2] = c[2] /\ n[1] = c[1]
        BY <3>1
      <4>3. p[1] \in {c[1] - 1, c[1] + 1} /\ n[2] \in {c[2] - 1, c[2] + 1}
        BY <3>1
      <4>4. u \in Steps(p) /\ n \in Steps(u) /\ u # c
        <5>1. u \in {<<p[1], p[2] - 1>>, <<p[1], p[2] + 1>>}
          BY <1>2, <4>2, <4>3
        <5>2. n \in {<<u[1] - 1, u[2]>>, <<u[1] + 1, u[2]>>}
          BY <1>2, <4>2, <4>3
        <5>3. u # c
          BY <1>2, <4>2, <4>3
        <5> QED BY <5>1, <5>2, <5>3 DEF Steps
      <4> HIDE DEF u
      <4>5. Neighbours(u, p) /\ Neighbours(n, u)
        BY <1>1, <4>1, <4>4, NeighboursAreSteps
      <4> QED BY <4>1, <4>4, <4>5
    <3>2. CASE /\ n \in {<<c[1] - 1, c[2]>>, <<c[1] + 1, c[2]>>}
               /\ p \in {<<c[1], c[2] - 1>>, <<c[1], c[2] + 1>>}
      <4> DEFINE u == <<n[1], p[2]>>
      <4>1. u \in grid /\ u \in Places
        BY <1>1
      <4>2. u[1] = n[1] /\ u[2] = p[2] /\ n[2] = c[2] /\ p[1] = c[1]
        BY <3>2
      <4>3. n[1] \in {c[1] - 1, c[1] + 1} /\ p[2] \in {c[2] - 1, c[2] + 1}
        BY <3>2
      <4>4. u \in Steps(p) /\ n \in Steps(u) /\ u # c
        <5>1. u \in {<<p[1] - 1, p[2]>>, <<p[1] + 1, p[2]>>}
          BY <1>2, <4>2, <4>3
        <5>2. n \in {<<u[1], u[2] - 1>>, <<u[1], u[2] + 1>>}
          BY <1>2, <4>2, <4>3
        <5>3. u # c
          BY <1>2, <4>2, <4>3
        <5> QED BY <5>1, <5>2, <5>3 DEF Steps
      <4> HIDE DEF u
      <4>5. Neighbours(u, p) /\ Neighbours(n, u)
        BY <1>1, <4>1, <4>4, NeighboursAreSteps
      <4> QED BY <4>1, <4>4, <4>5
    <3> QED BY <2>3, <3>1, <3>2
  <2>5. Corner(own, grid, far, c, p, n, u)
    BY <1>1, <1>4, <2>4 DEF Corner, s
  <2> QED BY <2>3, <2>5, EveryCornerReached
<1> QED BY <1>3, <1>4
-----------------------------------------------------------------------------
(* The wave: the grid and its levels *)

(* What div and mod return.                                                *)
LEMMA RemainderIs ==
  ASSUME NEW n \in Nat \ {0}, NEW q \in Int, NEW r \in 0 .. n - 1
  PROVE  (q * n + r) \div n = q /\ (q * n + r) % n = r
<1> DEFINE a == q * n + r
<1>1. a \in Int
  OBVIOUS
<1> HIDE DEF a
<1>2. a \div n \in Int /\ a % n \in 0 .. n - 1 /\ a = (a \div n) * n + (a % n)
  BY <1>1, Z3
<1> DEFINE p == a \div n  s == a % n
<1>3. p \in Int /\ s \in 0 .. n - 1 /\ q * n + r = p * n + s
  BY <1>2 DEF a
<1> HIDE DEF p, s
<1>4. r - s = (p - q) * n
  BY <1>3
<1>5. ~ (p - q >= 1)
  <2>1. p - q >= 1 => (p - q) * n >= n
    BY <1>3
  <2> QED BY <1>3, <1>4, <2>1
<1>6. ~ (q - p >= 1)
  <2>1. q - p >= 1 => (q - p) * n >= n
    BY <1>3
  <2>2. (q - p) * n = s - r
    BY <1>3
  <2> QED BY <1>3, <2>1, <2>2
<1>7. p = q
  BY <1>3, <1>5, <1>6
<1>8. s = r
  BY <1>3, <1>4, <1>7
<1> QED BY <1>7, <1>8 DEF a, p, s

(* All that the trails need of the grid.                                   *)
LEMMA GridIsRectangular ==
  /\ GridCells \subseteq Places
  /\ \A a, b \in GridCells : <<a[1], b[2]>> \in GridCells
  /\ Radius \in Nat \ {0} /\ SizeX \in Nat \ {0} /\ SizeY \in Nat \ {0}
BY InflationWaveAssumption DEF GridCells, Places

(* There are finitely many levels, of which that of zero is one.           *)
LEMMA DistancesAreFinite ==
  /\ IntegerDistances \subseteq Nat /\ 0 \in IntegerDistances
  /\ IsFiniteSet(IntegerDistances) /\ Cardinality(IntegerDistances) \in Nat \ {0}
<1>1. cache_length \in Nat /\ cache_length * cache_length \in Nat
  BY GridIsRectangular DEF cache_length
<1>2. IntegerDistances \subseteq 0 .. cache_length * cache_length
  BY DEF IntegerDistances
<1>3. 0 \in IntegerDistances
  <2>1. 0 \in 0 .. cache_length /\ 0 = 0 * 0 + 0 * 0 /\ 0 \in 0 .. cache_length * cache_length
    BY <1>1
  <2> QED BY <2>1 DEF IntegerDistances
<1>4. IsFiniteSet(0 .. cache_length * cache_length)
  BY <1>1, FS_Interval
<1>5. IsFiniteSet(IntegerDistances)
  BY <1>2, <1>4, FS_Subset
<1>6. Cardinality(IntegerDistances) \in Nat /\ Cardinality(IntegerDistances) # 0
  BY <1>3, <1>5, FS_CardinalityType, FS_EmptySet
<1> QED BY <1>1, <1>2, <1>3, <1>5, <1>6

(* Levels are in the order of their distances.                             *)
LEMMA LevelsInOrder ==
  ASSUME NEW d \in IntegerDistances, NEW e \in IntegerDistances
  PROVE  /\ LevelOf[d] \in Levels /\ LevelOf[e] \in Levels
         /\ d < e <=> LevelOf[d] < LevelOf[e]
<1> DEFINE below(x) == {y \in IntegerDistances : y < x}
<1>1. ASSUME NEW x \in IntegerDistances
      PROVE  /\ IsFiniteSet(below(x)) /\ LevelOf[x] = Cardinality(below(x)) /\ LevelOf[x] \in Nat
             /\ LevelOf[x] < Cardinality(IntegerDistances)
  <2>1. IsFiniteSet(below(x)) /\ Cardinality(below(x)) <= Cardinality(IntegerDistances)
    BY DistancesAreFinite, FS_Subset
  <2>2. x \notin below(x) /\ x \in IntegerDistances
    BY DistancesAreFinite
  <2>3. Cardinality(below(x)) # Cardinality(IntegerDistances)
    BY <2>2, DistancesAreFinite, FS_Subset
  <2>4. Cardinality(below(x)) \in Nat
    BY <2>1, FS_CardinalityType
  <2>5. LevelOf[x] = Cardinality(below(x))
    BY DEF LevelOf
  <2> HIDE DEF below
  <2> QED BY <2>1, <2>3, <2>4, <2>5, DistancesAreFinite
<1>2. ASSUME NEW x \in IntegerDistances, NEW y \in IntegerDistances, x < y
      PROVE  LevelOf[x] < LevelOf[y]
  <2>1. below(x) \subseteq below(y) /\ x \in below(y) /\ x \notin below(x)
    <3>1. x \in Nat /\ y \in Nat /\ \A z \in IntegerDistances : z \in Nat
      BY DistancesAreFinite
    <3>2. \A z \in IntegerDistances : z < x => z < y
      BY <1>2, <3>1
    <3>3. ~ (x < x)
      BY <3>1
    <3>4. x \in below(y) /\ x \notin below(x)
      BY <1>2, <3>3
    <3>5. below(x) \subseteq below(y)
      BY <3>2
    <3> QED BY <3>4, <3>5
  <2>2. IsFiniteSet(below(y)) /\ LevelOf[x] = Cardinality(below(x)) /\ LevelOf[y] = Cardinality(below(y))
    BY <1>1
  <2> HIDE DEF below
  <2>3. Cardinality(below(x)) <= Cardinality(below(y)) /\ Cardinality(below(x)) # Cardinality(below(y))
    BY <2>1, <2>2, FS_Subset
  <2>4. LevelOf[x] \in Nat /\ LevelOf[y] \in Nat
    BY <1>1
  <2> QED BY <2>2, <2>3, <2>4
<1>3. LevelOf[d] \in Nat /\ LevelOf[e] \in Nat /\ d \in Nat /\ e \in Nat
  BY <1>1, DistancesAreFinite
<1>4. LevelOf[d] \in Levels /\ LevelOf[e] \in Levels
  <2> DEFINE k == Cardinality(IntegerDistances)
  <2>1. k \in Nat /\ LevelOf[d] < k /\ LevelOf[e] < k
    BY <1>1, DistancesAreFinite
  <2> HIDE DEF k
  <2>2. LevelOf[d] \in 0 .. (k - 1) /\ LevelOf[e] \in 0 .. (k - 1)
    BY <1>3, <2>1
  <2> QED BY <2>2 DEF Levels, k
<1>5. d < e => LevelOf[d] < LevelOf[e]
  BY <1>2
<1>6. LevelOf[d] < LevelOf[e] => d < e
  <2>1. CASE e < d
    <3>1. LevelOf[e] < LevelOf[d]
      BY <1>2, <2>1
    <3> QED BY <1>3, <3>1
  <2>2. CASE e = d
    BY <1>3, <2>2
  <2> QED BY <1>3, <2>1, <2>2
<1> QED BY <1>4, <1>5, <1>6

(* What is within the inflation radius has a level.                        *)
LEMMA DistanceHasLevel ==
  ASSUME NEW c \in GridCells, NEW s \in GridCells, SquaredDistance(c, s) <= Radius * Radius
  PROVE  SquaredDistance(c, s) \in IntegerDistances
<1> DEFINE x == IF c[1] < s[1] THEN s[1] - c[1] ELSE c[1] - s[1]
           y == IF c[2] < s[2] THEN s[2] - c[2] ELSE c[2] - s[2]
           a == c[1] - s[1]  b == c[2] - s[2]
<1>1. c \in Places /\ s \in Places /\ Radius \in Nat
  BY GridIsRectangular
<1>2. /\ x \in Nat /\ y \in Nat /\ a \in Int /\ b \in Int
      /\ x = a \/ x = -a
      /\ y = b \/ y = -b
  BY <1>1 DEF Places
<1>3. SquaredDistance(c, s) = a * a + b * b
  BY DEF SquaredDistance
<1> HIDE DEF x, y, a, b
<1>4. x * x = a * a /\ y * y = b * b
  BY <1>2
<1>5. x * x \in Nat /\ y * y \in Nat /\ Radius * Radius \in Nat
  BY <1>1, <1>2, SquareOfNext
<1>6. SquaredDistance(c, s) = x * x + y * y /\ x * x + y * y <= Radius * Radius
  BY <1>3, <1>4
<1>7. x <= Radius /\ y <= Radius
  <2>1. x * x <= Radius * Radius /\ y * y <= Radius * Radius
    BY <1>5, <1>6
  <2>2. ~ (Radius < x) /\ ~ (Radius < y)
    <3>1. Radius < x => Radius * Radius < x * x
      BY <1>1, <1>2, SquaresInOrder
    <3>2. Radius < y => Radius * Radius < y * y
      BY <1>1, <1>2, SquaresInOrder
    <3> QED BY <1>5, <2>1, <3>1, <3>2
  <2> QED BY <1>1, <1>2, <2>2
<1>8. /\ x \in 0 .. cache_length /\ y \in 0 .. cache_length
      /\ Radius < cache_length /\ cache_length \in Nat
  BY <1>1, <1>2, <1>7 DEF cache_length
<1>9. x * x + y * y \in 0 .. cache_length * cache_length
  <2>1. Radius * Radius < cache_length * cache_length /\ cache_length * cache_length \in Nat
    BY <1>1, <1>8, SquaresInOrder, SquareOfNext
  <2> QED BY <1>5, <1>6, <2>1
<1> QED BY <1>6, <1>8, <1>9 DEF IntegerDistances

-----------------------------------------------------------------------------
(* The wave: the list *)

(* What an entry added to a bin, or taken from it, changes of its          *)
(* contents.                                                               *)
LEMMA RangeOfAppend ==
  ASSUME NEW V, NEW q \in Seq(V), NEW e \in V
  PROVE  Range(Append(q, e)) = Range(q) \cup {e}
<1>1. <<e>> \in Seq(V) /\ Append(q, e) = q \o <<e>>
  BY AppendIsConcat
<1>2. Range(<<e>>) = {e}
  BY DEF Range
<1> DEFINE one == <<e>>
<1> HIDE DEF one
<1>3. one \in Seq(V) /\ Append(q, e) = q \o one /\ Range(one) = {e}
  BY <1>1, <1>2 DEF one
<1>4. Range(q \o one) = Range(q) \cup Range(one)
  BY <1>3, RangeConcatenation
<1> QED BY <1>3, <1>4

LEMMA RangeOfHeadAndTail ==
  ASSUME NEW V, NEW q \in Seq(V), q # <<>>
  PROVE  /\ Head(q) \in V /\ Tail(q) \in Seq(V)
         /\ Head(q) \in Range(q) /\ Range(Tail(q)) \subseteq Range(q)
         /\ Range(q) \subseteq Range(Tail(q)) \cup {Head(q)}
<1> DEFINE n == Len(q)  r == Tail(q)
<1>1. /\ Head(q) \in V /\ r \in Seq(V) /\ Len(r) = n - 1
      /\ \A i \in 1 .. Len(r) : r[i] = q[i + 1]
  BY HeadTailProperties
<1>2. n \in Nat /\ n >= 1 /\ Head(q) = q[1]
  <2>1. n \in Nat /\ n # 0
    BY EmptySeq, LenProperties
  <2> QED BY <2>1
<1>3. Range(q) = {q[i] : i \in 1 .. n} /\ Range(r) = {r[i] : i \in 1 .. n - 1}
  BY <1>1, RangeEquality
<1> HIDE DEF n, r
<1>4. \A i \in 1 .. n - 1 : r[i] = q[i + 1] /\ i + 1 \in 1 .. n
  BY <1>1, <1>2
<1>5. \A i \in 1 .. n : i = 1 \/ (i - 1 \in 1 .. n - 1 /\ r[i - 1] = q[i])
  <2>1. ASSUME NEW i \in 1 .. n, i # 1 PROVE i - 1 \in 1 .. n - 1 /\ (i - 1) + 1 = i
    BY <1>2, <2>1
  <2> QED BY <1>4, <2>1
<1>6. Head(q) \in Range(q)
  BY <1>2, <1>3
<1>7. Range(r) \subseteq Range(q)
  BY <1>3, <1>4
<1>8. Range(q) \subseteq Range(r) \cup {Head(q)}
  BY <1>2, <1>3, <1>5
<1> QED BY <1>1, <1>6, <1>7, <1>8 DEF r

(* Only the empty bin has nothing in it.                                   *)
LEMMA EmptyRange ==
  ASSUME NEW V, NEW q \in Seq(V)
  PROVE  q = <<>> <=> Range(q) = {}
<1>1. Range(<<>>) = {}
  BY DEF Range
<1>2. q # <<>> => Head(q) \in Range(q)
  BY RangeOfHeadAndTail
<1> QED BY <1>1, <1>2

(* What one call of enqueue() does to the list.                            *)
Entry(n, src) == [cell |-> n, src |-> src]

Adds(after, before, n, src, V) ==
  /\ after \in [Levels -> Seq(V)]
  /\ \A l \in Levels : \A e :
       e \in Range(after[l]) <=>
         \/ e \in Range(before[l])
         \/ Enqueued(n, src) /\ l = LevelOf[SquaredDistance(n, src)] /\ e = Entry(n, src)

(* enqueue() adds one entry to one bin, if it adds any.                    *)
LEMMA EnqueueAdds ==
  ASSUME NEW V, NEW bins \in [Levels -> Seq(V)], NEW n, NEW src,
         Enqueued(n, src) => Entry(n, src) \in V /\ LevelOf[SquaredDistance(n, src)] \in Levels
  PROVE  Adds(enqueue(bins, n, src), bins, n, src, V)
<1>1. CASE ~ Enqueued(n, src)
  BY <1>1 DEF Adds, enqueue
<1>2. CASE Enqueued(n, src)
  <2> DEFINE k == LevelOf[SquaredDistance(n, src)]  after == enqueue(bins, n, src)
  <2>1. k \in Levels /\ Entry(n, src) \in V
    BY <1>2
  <2>2. after = [bins EXCEPT ![k] = Append(@, Entry(n, src))]
    BY <1>2 DEF enqueue, BinOf, Entry
  <2>3. bins[k] \in Seq(V)
    BY <2>1
  <2>4. Append(bins[k], Entry(n, src)) \in Seq(V) /\ Range(Append(bins[k], Entry(n, src))) = Range(bins[k]) \cup {Entry(n, src)}
    BY <2>1, <2>3, AppendProperties, RangeOfAppend
  <2> HIDE DEF k, after
  <2>5. /\ after \in [Levels -> Seq(V)] /\ after[k] = Append(bins[k], Entry(n, src))
        /\ \A l \in Levels : l # k => after[l] = bins[l]
    BY <2>1, <2>2, <2>4
  <2>6. ASSUME NEW l \in Levels, NEW e
        PROVE  e \in Range(after[l]) <=> \/ e \in Range(bins[l])
                                         \/ Enqueued(n, src) /\ l = k /\ e = Entry(n, src)
    BY <1>2, <2>4, <2>5
  <2> QED BY <2>5, <2>6 DEF Adds, k, after
<1> QED BY <1>1, <1>2

(* All four calls for the neighbours of c.                                 *)
AddsNeighbours(after, before, c, src, V) ==
  /\ after \in [Levels -> Seq(V)]
  /\ \A l \in Levels : \A e :
       e \in Range(after[l]) <=>
         \/ e \in Range(before[l])
         \/ \E n \in Steps(c) : /\ Enqueued(n, src) /\ e = Entry(n, src)
                                /\ l = LevelOf[SquaredDistance(n, src)]

(* The bins a cell's neighbours go to are bins there are, so the four      *)
(* calls add each that may be added and nothing else.                      *)
LEMMA NeighboursAdded ==
  ASSUME NEW V, NEW bins \in [Levels -> Seq(V)], NEW c, NEW src,
         \A n \in Steps(c) : Enqueued(n, src) =>
           Entry(n, src) \in V /\ LevelOf[SquaredDistance(n, src)] \in Levels
  PROVE  AddsNeighbours(enqueueNeighbours(bins, c, src), bins, c, src, V)
<1> DEFINE west  == <<c[1] - 1, c[2]>>  south == <<c[1], c[2] - 1>>
           east  == <<c[1] + 1, c[2]>>  north == <<c[1], c[2] + 1>>
           left  == enqueue(bins, west, src)
           below == enqueue(left, south, src)
           right == enqueue(below, east, src)
           above == enqueue(right, north, src)
<1>1. Steps(c) = {west, south, east, north}
  BY DEF Steps
<1>2. enqueueNeighbours(bins, c, src) = above
  BY DEF enqueueNeighbours
<1>3. /\ west \in Steps(c) /\ south \in Steps(c) /\ east \in Steps(c) /\ north \in Steps(c)
      /\ \A n \in Steps(c) : n = west \/ n = south \/ n = east \/ n = north
  BY <1>1
<1> HIDE DEF west, south, east, north
<1>4. Adds(left, bins, west, src, V)
  BY <1>3, EnqueueAdds
<1> HIDE DEF left
<1>5. Adds(below, left, south, src, V)
  <2>1. left \in [Levels -> Seq(V)]
    BY <1>4 DEF Adds
  <2> QED BY <1>3, <2>1, EnqueueAdds
<1> HIDE DEF below
<1>6. Adds(right, below, east, src, V)
  <2>1. below \in [Levels -> Seq(V)]
    BY <1>5 DEF Adds
  <2> QED BY <1>3, <2>1, EnqueueAdds
<1> HIDE DEF right
<1>7. Adds(above, right, north, src, V)
  <2>1. right \in [Levels -> Seq(V)]
    BY <1>6 DEF Adds
  <2> QED BY <1>3, <2>1, EnqueueAdds
<1> HIDE DEF above
<1>8. ASSUME NEW l \in Levels, NEW e
      PROVE  e \in Range(above[l]) <=>
               \/ e \in Range(bins[l])
               \/ \E n \in Steps(c) : /\ Enqueued(n, src) /\ e = Entry(n, src)
                                      /\ l = LevelOf[SquaredDistance(n, src)]
  <2> DEFINE new(n) == Enqueued(n, src) /\ l = LevelOf[SquaredDistance(n, src)] /\ e = Entry(n, src)
  <2>1. e \in Range(left[l]) <=> e \in Range(bins[l]) \/ new(west)
    BY <1>4 DEF Adds
  <2>2. e \in Range(below[l]) <=> e \in Range(left[l]) \/ new(south)
    BY <1>5 DEF Adds
  <2>3. e \in Range(right[l]) <=> e \in Range(below[l]) \/ new(east)
    BY <1>6 DEF Adds
  <2>4. e \in Range(above[l]) <=> e \in Range(right[l]) \/ new(north)
    BY <1>7 DEF Adds
  <2>5. (\E n \in Steps(c) : new(n)) <=> new(west) \/ new(south) \/ new(east) \/ new(north)
    <3> HIDE DEF new
    <3> QED BY <1>3
  <2>6. (\E n \in Steps(c) : new(n)) <=>
          \E n \in Steps(c) : /\ Enqueued(n, src) /\ e = Entry(n, src)
                              /\ l = LevelOf[SquaredDistance(n, src)]
    BY Zenon
  <2> HIDE DEF new
  <2> QED BY <2>1, <2>2, <2>3, <2>4, <2>5, <2>6
<1>9. above \in [Levels -> Seq(V)]
  BY <1>7 DEF Adds
<1>10. AddsNeighbours(above, bins, c, src, V)
  BY <1>8, <1>9, Zenon DEF AddsNeighbours
<1> QED BY <1>2, <1>10

(* Going row by row comes to every cell.                                   *)
LEMMA EveryCellInARow ==
  ASSUME NEW c \in GridCells
  PROVE  \E i \in 1 .. SizeX * SizeY : RowMajor(i) = c
<1> DEFINE q == c[2]  r == c[1]  w == SizeX  h == SizeY
<1>1. w \in Nat \ {0} /\ h \in Nat \ {0}
  BY GridIsRectangular
<1>2. r \in 0 .. w - 1 /\ q \in 0 .. h - 1 /\ c = <<r, q>>
  BY DEF GridCells
<1>3. (q * w + r) \div w = q /\ (q * w + r) % w = r
  <2> HIDE DEF q, r, w, h
  <2>1. w \in Nat \ {0} /\ q \in Int /\ r \in 0 .. w - 1
    BY <1>1, <1>2
  <2> QED BY ONLY <2>1, RemainderIs
<1> DEFINE i == q * w + r + 1
<1>4. i \in 1 .. w * h
  <2> HIDE DEF q, r, w, h
  <2>1. q * w \in Nat /\ (h - 1 - q) * w \in Nat
    <3>1. \A a, b \in Nat : a * b \in Nat
      OBVIOUS
    <3>2. q \in Nat /\ h - 1 - q \in Nat /\ w \in Nat
      BY <1>1, <1>2
    <3> QED BY <3>1, <3>2
  <2>2. w * h = q * w + (h - 1 - q) * w + w
    BY <1>1, <1>2
  <2> QED BY <1>1, <1>2, <2>1, <2>2
<1>5. i - 1 = q * w + r
  <2> HIDE DEF q, r, w, h
  <2>1. q * w + r \in Int
    BY <1>1, <1>2
  <2> QED BY <2>1
<1>6. RowMajor(i) = c
  <2>1. RowMajor(i) = <<(i - 1) % w, (i - 1) \div w>>
    BY DEF RowMajor
  <2> HIDE DEF q, r, w, h, i
  <2> QED BY <1>2, <1>3, <1>5, <2>1
<1> HIDE DEF i
<1> QED BY <1>4, <1>6

(* The first bin gets every obstacle looked for, as its own source.        *)
LEMMA WithObstaclesIs ==
  ASSUME NEW S \in SUBSET GridCells
  PROVE  /\ WithObstacles(<<>>, S) \in Seq({[cell |-> c, src |-> c] : c \in S})
         /\ \A c \in S : Entry(c, c) \in Range(WithObstacles(<<>>, S))
<1> DEFINE n == SizeX * SizeY
           V == {[cell |-> c, src |-> c] : c \in S}
           More(i, bin) == IF RowMajor(i) \in S
                           THEN Append(bin, [cell |-> RowMajor(i), src |-> RowMajor(i)])
                           ELSE bin
           Step(f) == [i \in 0 .. n |-> IF i = 0 THEN <<>> ELSE More(i, f[i - 1])]
           added == CHOOSE f : f = Step(f)
           next == [e \in (1 .. n) \X Seq(V) |-> More(e[1], e[2])]
<1>1. n \in Nat /\ <<>> \in Seq(V)
  <2>1. n \in Nat
    BY GridIsRectangular
  <2> QED BY <2>1, EmptySeq
<1>2. WithObstacles(<<>>, S) = added[n]
  BY DEF WithObstacles
<1>3. ASSUME NEW i, NEW bin \in Seq(V)
      PROVE  /\ More(i, bin) \in Seq(V) /\ Range(bin) \subseteq Range(More(i, bin))
             /\ RowMajor(i) \in S => Entry(RowMajor(i), RowMajor(i)) \in Range(More(i, bin))
  <2>1. CASE RowMajor(i) \in S
    <3> DEFINE e == Entry(RowMajor(i), RowMajor(i))
    <3>1. e \in V
      BY <2>1 DEF Entry
    <3>2. More(i, bin) = Append(bin, e)
      BY <2>1 DEF Entry
    <3> HIDE DEF V, e, More
    <3>3. Append(bin, e) \in Seq(V) /\ Range(Append(bin, e)) = Range(bin) \cup {e}
      BY <3>1, AppendProperties, RangeOfAppend
    <3> QED BY <3>2, <3>3 DEF e
  <2>2. CASE RowMajor(i) \notin S
    BY <2>2
  <2> QED BY <2>1, <2>2
<1>4. next \in [(1 .. n) \X Seq(V) -> Seq(V)]
  <2> HIDE DEF More, V
  <2> QED BY <1>3
<1>5. PICK f \in [0 .. n -> Seq(V)] : Solves(f, n, <<>>, next)
  <2> HIDE DEF next, n, V
  <2> QED BY <1>1, <1>4, Recursion
<1> HIDE DEF More, V
<1>6. f = Step(f)
  <2>1. ASSUME NEW i \in 1 .. n PROVE f[i] = More(i, f[i - 1])
    <3>1. i - 1 \in 0 .. n
      BY <1>1
    <3>2. next[<<i, f[i - 1]>>] = More(i, f[i - 1])
      BY <3>1
    <3> HIDE DEF next
    <3> QED BY <1>5, <3>2 DEF Solves
  <2>2. ASSUME NEW i \in 0 .. n PROVE f[i] = Step(f)[i]
    <3>1. i # 0 => i \in 1 .. n
      BY <1>1
    <3> QED BY <1>5, <2>1, <3>1 DEF Solves
  <2>3. f = [i \in 0 .. n |-> f[i]]
    OBVIOUS
  <2>4. Step(f) = [i \in 0 .. n |-> Step(f)[i]]
    OBVIOUS
  <2> HIDE DEF Step
  <2> QED BY <2>2, <2>3, <2>4
<1>7. added = Step(added)
  <2> HIDE DEF Step
  <2> QED BY <1>6
<1> HIDE DEF added
<1> DEFINE Has(i) == /\ added[i] \in Seq(V)
                     /\ \A j \in 1 .. i : RowMajor(j) \in S =>
                          Entry(RowMajor(j), RowMajor(j)) \in Range(added[i])
           Good == {i \in Nat : i <= n => Has(i)}
<1>8. 0 \in Good
  <2>1. added[0] = Step(added)[0]
    BY <1>7
  <2>2. Step(added)[0] = <<>>
    BY <1>1
  <2>3. 1 .. 0 = {}
    OBVIOUS
  <2> QED BY <1>1, <2>1, <2>2, <2>3
<1>9. ASSUME NEW i \in Good PROVE i + 1 \in Good
  <2> SUFFICES ASSUME i + 1 <= n PROVE Has(i + 1)
    OBVIOUS
  <2>1. i \in Nat /\ i + 1 \in 0 .. n /\ i + 1 # 0 /\ (i + 1) - 1 = i /\ Has(i)
    BY <1>1
  <2>2. added[i + 1] = Step(added)[i + 1]
    BY <1>7
  <2>3. Step(added)[i + 1] = More(i + 1, added[i])
    BY <2>1
  <2> HIDE DEF Step
  <2>4. added[i + 1] = More(i + 1, added[i]) /\ added[i] \in Seq(V)
    BY <2>1, <2>2, <2>3
  <2>5. /\ added[i + 1] \in Seq(V) /\ Range(added[i]) \subseteq Range(added[i + 1])
        /\ RowMajor(i + 1) \in S => Entry(RowMajor(i + 1), RowMajor(i + 1)) \in Range(added[i + 1])
    BY <1>3, <2>4
  <2>6. ASSUME NEW j \in 1 .. i + 1, RowMajor(j) \in S
        PROVE  Entry(RowMajor(j), RowMajor(j)) \in Range(added[i + 1])
    <3>1. j = i + 1 \/ j \in 1 .. i
      BY <2>1
    <3> QED BY <2>1, <2>5, <2>6, <3>1
  <2> QED BY <2>5, <2>6
<1>10. Good = Nat
  <2> HIDE DEF Good
  <2>1. Good \in SUBSET Nat
    BY DEF Good
  <2> QED BY <1>8, <1>9, <2>1, Induction
<1>11. Has(n)
  <2>1. n \in Good /\ n <= n
    BY <1>1, <1>10
  <2> QED BY <2>1
<1>12. ASSUME NEW c \in S PROVE Entry(c, c) \in Range(added[n])
  <2>1. PICK i \in 1 .. n : RowMajor(i) = c
    BY EveryCellInARow
  <2> QED BY <1>11, <2>1
<1>13. added[n] \in Seq(V)
  BY <1>11
<1> HIDE DEF n
<1> QED BY <1>2, <1>12, <1>13 DEF V

-----------------------------------------------------------------------------
(* The wave: the inductive invariant *)

(* What the invariant says of a cell taken, and of an entry of the list.   *)
LEMMA TakenIs ==
  ASSUME WaveIInv, NEW p \in DOMAIN seen
  PROVE  /\ p \in GridCells /\ p \in Places /\ seen[p] \in GridCells /\ seen[p] \in Places
         /\ seen[p] \in obstacles
         /\ TakenAt(p) \in IntegerDistances /\ TakenAt(p) \in Nat
         /\ TakenAt(p) <= Radius * Radius /\ LevelOf[TakenAt(p)] <= level
<1>1. /\ p \in GridCells /\ seen[p] \in obstacles /\ seen[p] \in GridCells
  BY DEF WaveIInv, WaveTypeOK
<1>2. TakenAt(p) <= Radius * Radius /\ LevelOf[TakenAt(p)] <= level
  BY DEF WaveIInv, TakenInOrder
<1>3. TakenAt(p) \in IntegerDistances
  BY <1>1, <1>2, DistanceHasLevel DEF TakenAt
<1> QED BY <1>1, <1>2, <1>3, GridIsRectangular, DistancesAreFinite

LEMMA EntryIs ==
  ASSUME WaveIInv, NEW l \in Levels, NEW e \in Range(inflation_cells[l])
  PROVE  /\ e \in [cell : GridCells, src : obstacles] /\ e = Entry(e.cell, e.src)
         /\ e.cell \in GridCells /\ e.src \in GridCells /\ e.src \in obstacles
         /\ e.cell \in Places /\ e.src \in Places
         /\ SquaredDistance(e.cell, e.src) <= Radius * Radius
         /\ SquaredDistance(e.cell, e.src) \in IntegerDistances
         /\ LevelOf[SquaredDistance(e.cell, e.src)] = l
         /\ ComesFrom(e.cell, e.src)
<1>1. inflation_cells[l] \in Seq([cell : GridCells, src : obstacles]) /\ obstacles \subseteq GridCells
  BY DEF WaveIInv, WaveTypeOK
<1>2. e \in [cell : GridCells, src : obstacles]
  BY <1>1, RangeOfSeq
<1>3. e = Entry(e.cell, e.src) /\ e.cell \in GridCells /\ e.src \in obstacles /\ e.src \in GridCells
  BY <1>1, <1>2 DEF Entry
<1>4. /\ SquaredDistance(e.cell, e.src) <= Radius * Radius
      /\ LevelOf[SquaredDistance(e.cell, e.src)] = l
      /\ ComesFrom(e.cell, e.src)
  BY DEF WaveIInv, EntriesComeNearer
<1>5. SquaredDistance(e.cell, e.src) \in IntegerDistances
  BY <1>3, <1>4, DistanceHasLevel
<1> QED BY <1>2, <1>3, <1>4, <1>5, GridIsRectangular

(* While cells of the distance far are taken, the nearer ones are done.    *)
LEMMA NearerAreDone ==
  ASSUME WaveIInv, NEW far \in IntegerDistances, far <= Radius * Radius, LevelOf[far] = level
  PROVE  Spread(seen, GridCells, far)
<1>1. Trails(seen)
  <2>1. DOMAIN seen \subseteq Places
    BY TakenIs
  <2>2. ASSUME NEW c \in DOMAIN seen
        PROVE  /\ seen[c] \in Places
               /\ \/ c = seen[c]
                  \/ \E p \in DOMAIN seen : /\ Neighbours(p, c) /\ seen[p] = seen[c]
                                           /\ SquaredDistance(p, seen[c]) < SquaredDistance(c, seen[c])
    <3>1. ComesFrom(c, seen[c])
      BY DEF WaveIInv, ComesNearer
    <3> QED BY <3>1, TakenIs DEF ComesFrom
  <2> QED BY <2>1, <2>2 DEF Trails
<1>2. ASSUME NEW p \in DOMAIN seen, NEW n \in GridCells,
             Neighbours(n, p), SquaredDistance(n, seen[p]) < far
      PROVE  Served(seen, n, seen[p])
  <2> DEFINE d == SquaredDistance(n, seen[p])
  <2>1. n \in Places /\ p \in Places /\ seen[p] \in GridCells
    BY TakenIs, GridIsRectangular
  <2>2. Neighbours(p, n)
    BY <1>2, <2>1, DistanceIsNatural DEF Neighbours
  <2>3. d \in Nat /\ far \in Nat /\ Radius * Radius \in Nat
    BY <2>1, TakenIs, DistanceIsNatural, DistancesAreFinite, GridIsRectangular, SquareOfNext
  <2>4. d <= Radius * Radius /\ d < far
    BY <1>2, <2>3
  <2>5. d \in IntegerDistances
    BY <2>1, <2>4, DistanceHasLevel
  <2>6. LevelOf[d] \in Levels /\ LevelOf[d] < level
    BY <2>4, <2>5, LevelsInOrder
  <2>7. inflation_cells[LevelOf[d]] = <<>>
    BY <2>6 DEF WaveIInv, WaveTypeOK, ListEmptied
  <2>8. Range(inflation_cells[LevelOf[d]]) = {}
    BY <2>7 DEF Range
  <2>9. \/ n \in DOMAIN seen /\ TakenAt(n) <= d
        \/ [cell |-> n, src |-> seen[p]] \in Range(inflation_cells[LevelOf[d]])
    BY <2>2, <2>4 DEF WaveIInv, NeighboursReached
  <2> QED BY <2>8, <2>9 DEF Served, TakenAt
<1> QED BY <1>1, <1>2, GridIsRectangular DEF Spread

(* The waves' trails do not cross: when c is taken, its neighbours nearer  *)
(* to the same obstacle were taken before, from as near.                   *)
LEMMA NearerTaken ==
  ASSUME WaveIInv, NEW c \in GridCells, NEW s \in GridCells, NEW n \in GridCells, ComesFrom(c, s),
         SquaredDistance(c, s) <= Radius * Radius, LevelOf[SquaredDistance(c, s)] = level,
         Neighbours(n, c), SquaredDistance(n, s) < SquaredDistance(c, s)
  PROVE  n \in DOMAIN seen /\ TakenAt(n) <= SquaredDistance(n, s)
<1> DEFINE far == SquaredDistance(c, s)
<1>1. c \in Places /\ s \in Places /\ n \in Places
  BY GridIsRectangular
<1>2. far \in IntegerDistances /\ far \in Nat /\ SquaredDistance(n, s) \in Nat
  BY <1>1, DistanceHasLevel, DistanceIsNatural
<1>3. c # s
  <2>1. SquaredDistance(s, s) = 0
    BY <1>1, DistanceIsNatural
  <2>2. SquaredDistance(c, s) # 0
    BY <1>2
  <2> QED BY <2>1, <2>2
<1>4. PICK p \in DOMAIN seen : /\ Neighbours(p, c) /\ seen[p] = s
                               /\ SquaredDistance(p, s) < SquaredDistance(c, s)
  BY <1>3 DEF ComesFrom
<1>5. Spread(seen, GridCells, far)
  BY <1>2, NearerAreDone
<1>6. DOMAIN seen \subseteq GridCells /\ \A a, b \in GridCells : <<a[1], b[2]>> \in GridCells
  BY TakenIs, GridIsRectangular
<1>7. far <= far /\ far \in Int
  BY <1>2
<1>8. Served(seen, n, seen[p])
  BY <1>4, <1>5, <1>6, <1>7, NearerReached
<1> QED BY <1>4, <1>8 DEF Served, TakenAt

(* The invariant holds in the beginning, and every step keeps it.          *)
LEMMA WaveStarts ==
  ASSUME WaveInit
  PROVE  WaveIInv
<1> USE DEF WaveInit
<1>1. DOMAIN seen = {} /\ obstacles = {} /\ level = Idle
  OBVIOUS
<1>2. \A l \in Levels : inflation_cells[l] = <<>> /\ Range(inflation_cells[l]) = {}
  BY DEF Range
<1>3. WaveTypeOK
  <2>1. inflation_cells \in [Levels -> Seq([cell : GridCells, src : obstacles])]
    BY EmptySeq
  <2>2. reached \in [GridCells -> IntegerDistances \cup {Unreached}]
    OBVIOUS
  <2>3. seen \in [DOMAIN seen -> obstacles]
    BY <1>1
  <2>4. ListEmptied
    BY <1>2 DEF ListEmptied
  <2> QED BY <1>1, <2>1, <2>2, <2>3, <2>4 DEF WaveTypeOK
<1>4. TakenInOrder /\ ComesNearer /\ NeighboursReached
  BY <1>1 DEF TakenInOrder, ComesNearer, NeighboursReached
<1>5. EntriesComeNearer
  BY <1>2 DEF EntriesComeNearer
<1>6. ReachedFollows
  BY <1>1 DEF ReachedFollows
<1>7. SourcesReached
  BY <1>1 DEF SourcesReached
<1> QED BY <1>3, <1>4, <1>5, <1>6, <1>7 DEF WaveIInv

LEMMA WaveBegins ==
  ASSUME WaveIInv, NEW obs \in ObstacleSets, NEW w \in Windows, updateCosts_begin(obs, w)
  PROVE  WaveIInv'
<1> DEFINE S == obs \cap SourceCells(w)
           V == {[cell |-> c, src |-> c] : c \in S}
<1>1. /\ level = Idle /\ obstacles' = obs /\ window' = w /\ seen' = <<>> /\ level' = 0
      /\ inflation_cells' = [inflation_cells EXCEPT ![0] = WithObstacles(@, S)]
      /\ reached' = [c \in GridCells |-> Unreached]
  BY DEF updateCosts_begin
<1>2. obs \subseteq GridCells /\ S \subseteq obs
  BY InflationWaveAssumption
<1>3. 0 \in Levels /\ Idle \notin Levels /\ \A l \in Levels : l < Idle
  <2> DEFINE k == Cardinality(IntegerDistances)
  <2>1. k \in Nat \ {0}
    BY DistancesAreFinite
  <2> HIDE DEF k
  <2>2. 0 \in 0 .. (k - 1) /\ k \notin 0 .. (k - 1) /\ \A l \in 0 .. (k - 1) : l < k
    BY <2>1
  <2> QED BY <2>2 DEF Levels, Idle, k
<1>4. inflation_cells \in [Levels -> Seq([cell : GridCells, src : obstacles])]
  BY DEF WaveIInv, WaveTypeOK
<1>5. \A l \in Levels : inflation_cells[l] = <<>>
  BY <1>1, <1>3 DEF WaveIInv, WaveTypeOK, ListEmptied
<1>6. /\ inflation_cells'[0] = WithObstacles(<<>>, S) /\ DOMAIN inflation_cells' = Levels
      /\ \A l \in Levels : l # 0 => inflation_cells'[l] = <<>>
      /\ inflation_cells' = [l \in Levels |-> inflation_cells'[l]]
  BY <1>1, <1>3, <1>4, <1>5
<1>7. inflation_cells'[0] \in Seq(V) /\ Range(inflation_cells'[0]) \subseteq V
  <2>1. S \in SUBSET GridCells
    BY <1>2
  <2>2. WithObstacles(<<>>, S) \in Seq(V)
    <3> HIDE DEF S
    <3> QED BY <2>1, WithObstaclesIs
  <2> QED BY <1>6, <2>2, RangeOfSeq
<1>8. V \subseteq [cell : GridCells, src : obs]
  BY <1>2
<1>9. \A l \in Levels : inflation_cells'[l] \in Seq([cell : GridCells, src : obs])
  <2>1. Seq(V) \subseteq Seq([cell : GridCells, src : obs])
    BY <1>8, SeqMonotonic
  <2> QED BY <1>6, <1>7, <2>1, EmptySeq
<1>10. DOMAIN seen' = {}
  BY <1>1
<1>11. WaveTypeOK'
  <2>1. inflation_cells' \in [Levels -> Seq([cell : GridCells, src : obs])]
    BY <1>6, <1>9
  <2>2. reached' \in [GridCells -> IntegerDistances \cup {Unreached}]
    BY <1>1
  <2>3. seen' \in [DOMAIN seen' -> obs]
    BY <1>1, <1>10
  <2>4. ListEmptied'
    <3>1. \A l \in Levels : ~ (l < 0)
      BY DistancesAreFinite DEF Levels
    <3> QED BY <1>1, <3>1 DEF ListEmptied
  <2> QED BY <1>1, <1>2, <1>3, <1>10, <2>1, <2>2, <2>3, <2>4 DEF WaveTypeOK
<1>12. TakenInOrder' /\ ComesNearer' /\ NeighboursReached'
  BY <1>10 DEF TakenInOrder, ComesNearer, NeighboursReached
<1>13. EntriesComeNearer'
  <2> SUFFICES ASSUME NEW l \in Levels, NEW e \in Range(inflation_cells'[l])
               PROVE  /\ SquaredDistance(e.cell, e.src) <= Radius * Radius
                      /\ LevelOf[SquaredDistance(e.cell, e.src)] = l
                      /\ ComesFrom(e.cell, e.src)'
    BY DEF EntriesComeNearer
  <2>1. l = 0
    <3>1. Range(<<>>) = {}
      BY DEF Range
    <3> QED BY <1>6, <3>1
  <2>2. PICK c \in S : e = [cell |-> c, src |-> c]
    BY <1>7, <2>1
  <2>3. e.cell = c /\ e.src = c /\ c \in Places
    BY <1>2, <2>2, GridIsRectangular
  <2>4. SquaredDistance(c, c) = 0 /\ Radius * Radius \in Nat
    BY <2>3, DistanceIsNatural, GridIsRectangular, SquareOfNext
  <2>5. LevelOf[0] = 0
    <3>1. \A d \in IntegerDistances : ~ (d < 0)
      <4>1. \A d \in Nat : ~ (d < 0)
        OBVIOUS
      <4> QED BY <4>1, DistancesAreFinite
    <3>2. {d \in IntegerDistances : d < 0} = {}
      BY <3>1
    <3> QED BY <3>2, DistancesAreFinite, FS_EmptySet DEF LevelOf
  <2>6. ComesFrom(c, c)'
    BY DEF ComesFrom
  <2> QED BY <2>1, <2>3, <2>4, <2>5, <2>6
<1>14. ReachedFollows'
  BY <1>1, <1>10 DEF ReachedFollows
<1>15. SourcesReached'
  <2>1. S \in SUBSET GridCells /\ (obstacles \cap SourceCells(window))' = S
    BY <1>1, <1>2 DEF SourceCells
  <2> HIDE DEF S
  <2>2. \A o \in S : Entry(o, o) \in Range(inflation_cells'[0])
    BY <1>6, <2>1, WithObstaclesIs
  <2> QED BY <2>1, <2>2 DEF SourcesReached, Entry
<1> QED BY <1>11, <1>12, <1>13, <1>14, <1>15 DEF WaveIInv

LEMMA WaveLevel ==
  ASSUME WaveIInv, updateCosts_level
  PROVE  WaveIInv'
<1>1. /\ level # Idle /\ inflation_cells[level] = <<>> /\ level' = level + 1
      /\ obstacles' = obstacles /\ window' = window /\ inflation_cells' = inflation_cells
      /\ seen' = seen /\ reached' = reached
  BY DEF updateCosts_level
<1>2. level \in Levels /\ level \in Nat /\ level + 1 \in Levels \cup {Idle} /\ \A l \in Levels : l \in Nat
  <2> DEFINE k == Cardinality(IntegerDistances)
  <2>1. k \in Nat \ {0}
    BY DistancesAreFinite
  <2>2. level \in Levels
    BY <1>1 DEF WaveIInv, WaveTypeOK
  <2>3. Levels = 0 .. (k - 1) /\ Idle = k
    BY DEF Levels, Idle
  <2> HIDE DEF k
  <2> QED BY <2>1, <2>2, <2>3
<1>3. ListEmptied'
  <2>1. ASSUME NEW l \in Levels, l < level + 1 PROVE inflation_cells[l] = <<>>
    <3>1. l < level \/ l = level
      BY <1>2, <2>1
    <3> QED BY <1>1, <3>1 DEF WaveIInv, WaveTypeOK, ListEmptied
  <2> QED BY <1>1, <2>1 DEF ListEmptied
<1>4. WaveTypeOK'
  BY <1>1, <1>2, <1>3 DEF WaveIInv, WaveTypeOK
<1>5. TakenInOrder'
  <2>1. ASSUME NEW p \in DOMAIN seen PROVE TakenAt(p) <= Radius * Radius /\ LevelOf[TakenAt(p)] <= level + 1
    <3>1. TakenAt(p) <= Radius * Radius /\ LevelOf[TakenAt(p)] <= level /\ LevelOf[TakenAt(p)] \in Nat
      BY <1>2, TakenIs, LevelsInOrder
    <3> QED BY <1>2, <3>1
  <2> QED BY <1>1, <2>1 DEF TakenInOrder, TakenAt
<1>6. ComesNearer' /\ EntriesComeNearer' /\ NeighboursReached' /\ ReachedFollows' /\ SourcesReached'
  BY <1>1 DEF WaveIInv, ComesNearer, EntriesComeNearer, NeighboursReached, ReachedFollows, ComesFrom,
              TakenAt, InWindow, SourcesReached, SourceCells
<1> QED BY <1>4, <1>5, <1>6 DEF WaveIInv

(* What taking the next entry from the list leaves.                        *)
Taken(e, rest) ==
  /\ e = Head(inflation_cells[level]) /\ rest = [inflation_cells EXCEPT ![level] = Tail(@)]
  /\ level \in Levels /\ level \in Nat
  /\ e \in Range(inflation_cells[level])
  /\ rest \in [Levels -> Seq([cell : GridCells, src : obstacles])]
  /\ \A l \in Levels :
       /\ Range(rest[l]) \subseteq Range(inflation_cells[l])
       /\ Range(inflation_cells[l]) \subseteq Range(rest[l]) \cup {e}
       /\ l < level => rest[l] = <<>>
       /\ l # level => rest[l] = inflation_cells[l]

(* The next entry leaves the rest of its bin and every other bin.          *)
LEMMA NextEntry ==
  ASSUME WaveIInv, level # Idle, inflation_cells[level] # <<>>
  PROVE  Taken(Head(inflation_cells[level]), [inflation_cells EXCEPT ![level] = Tail(@)])
<1> DEFINE V == [cell : GridCells, src : obstacles]
           bin == inflation_cells[level]
           rest == [inflation_cells EXCEPT ![level] = Tail(@)]
<1>1. level \in Levels /\ inflation_cells \in [Levels -> Seq(V)] /\ ListEmptied
  BY DEF WaveIInv, WaveTypeOK
<1>2. level \in Nat
  BY <1>1, DistancesAreFinite DEF Levels
<1>3. bin \in Seq(V) /\ bin # <<>>
  BY <1>1
<1>4. /\ Head(bin) \in Range(bin) /\ Tail(bin) \in Seq(V) /\ Range(Tail(bin)) \subseteq Range(bin)
      /\ Range(bin) \subseteq Range(Tail(bin)) \cup {Head(bin)}
  <2> HIDE DEF V, bin
  <2> QED BY <1>3, RangeOfHeadAndTail
<1>5. rest[level] = Tail(bin) /\ \A l \in Levels : l # level => rest[l] = inflation_cells[l]
  BY <1>1
<1>6. rest \in [Levels -> Seq(V)]
  BY <1>1, <1>4
<1>7. ASSUME NEW l \in Levels
      PROVE  /\ Range(rest[l]) \subseteq Range(inflation_cells[l])
             /\ Range(inflation_cells[l]) \subseteq Range(rest[l]) \cup {Head(bin)}
             /\ l < level => rest[l] = <<>>
  <2>1. CASE l = level
    BY <1>2, <1>4, <1>5, <2>1
  <2>2. CASE l # level
    <3>1. l < level => inflation_cells[l] = <<>>
      BY <1>1 DEF ListEmptied
    <3> QED BY <1>5, <2>2, <3>1
  <2> QED BY <2>1, <2>2
<1> QED BY <1>1, <1>2, <1>4, <1>5, <1>6, <1>7 DEF Taken

(* Only what is an obstacle itself is taken from the first bin.            *)
LEMMA ZeroIsFirst ==
  /\ 0 \in Levels /\ LevelOf[0] = 0
  /\ \A d \in IntegerDistances : LevelOf[d] <= 0 => d = 0
<1>1. 0 \in IntegerDistances /\ IntegerDistances \subseteq Nat
  BY DistancesAreFinite
<1>2. LevelOf[0] = 0
  <2>1. \A d \in IntegerDistances : ~ (d < 0)
    <3>1. \A d \in Nat : ~ (d < 0)
      OBVIOUS
    <3> QED BY <1>1, <3>1
  <2>2. {d \in IntegerDistances : d < 0} = {}
    BY <2>1
  <2> QED BY <1>1, <2>2, FS_EmptySet DEF LevelOf
<1>3. LevelOf[0] \in Levels
  BY <1>1, LevelsInOrder
<1>4. ASSUME NEW d \in IntegerDistances, LevelOf[d] <= 0, d # 0 PROVE FALSE
  <2>1. 0 < d
    BY <1>1, <1>4
  <2>2. LevelOf[0] < LevelOf[d] /\ LevelOf[d] \in Levels
    BY <1>1, <2>1, LevelsInOrder
  <2>3. LevelOf[d] \in Nat
    BY <2>2, DistancesAreFinite DEF Levels
  <2> QED BY <1>2, <1>4, <2>2, <2>3
<1> QED BY <1>2, <1>3, <1>4

(* An entry whose cell was taken before is dropped: nothing is lost, since *)
(* that was from as near.                                                  *)
LEMMA WaveCellSeen ==
  ASSUME WaveIInv, updateCosts_cell, Head(inflation_cells[level]).cell \in DOMAIN seen
  PROVE  WaveIInv'
<1> DEFINE e == Head(inflation_cells[level])  rest == [inflation_cells EXCEPT ![level] = Tail(@)]
<1>1. /\ level # Idle /\ inflation_cells[level] # <<>>
      /\ inflation_cells' = rest /\ seen' = seen /\ reached' = reached
      /\ obstacles' = obstacles /\ window' = window /\ level' = level
  BY DEF updateCosts_cell
<1>2. Taken(e, rest)
  BY <1>1, NextEntry
<1>3. e.cell \in DOMAIN seen
  OBVIOUS
<1> HIDE DEF e, rest
<1>4. ListEmptied'
  BY <1>1, <1>2 DEF Taken, ListEmptied
<1>5. WaveTypeOK'
  BY <1>1, <1>2, <1>4 DEF WaveIInv, WaveTypeOK, Taken
<1>6. TakenInOrder' /\ ComesNearer' /\ ReachedFollows'
  BY <1>1 DEF WaveIInv, TakenInOrder, ComesNearer, ReachedFollows, ComesFrom, TakenAt, InWindow
<1>7. EntriesComeNearer'
  <2> SUFFICES ASSUME NEW l \in Levels, NEW x \in Range(rest[l])
               PROVE  /\ SquaredDistance(x.cell, x.src) <= Radius * Radius
                      /\ LevelOf[SquaredDistance(x.cell, x.src)] = l
                      /\ ComesFrom(x.cell, x.src)'
    BY <1>1 DEF EntriesComeNearer
  <2>1. x \in Range(inflation_cells[l])
    BY <1>2 DEF Taken
  <2>2. ComesFrom(x.cell, x.src)' <=> ComesFrom(x.cell, x.src)
    BY <1>1 DEF ComesFrom
  <2> QED BY <2>1, <2>2, EntryIs
<1>8. NeighboursReached'
  <2> SUFFICES ASSUME NEW p \in DOMAIN seen, NEW n \in GridCells, Neighbours(p, n),
                      SquaredDistance(n, seen[p]) <= Radius * Radius
               PROVE  \/ n \in DOMAIN seen /\ TakenAt(n) <= SquaredDistance(n, seen[p])
                      \/ Entry(n, seen[p]) \in Range(rest[LevelOf[SquaredDistance(n, seen[p])]])
    BY <1>1 DEF NeighboursReached, TakenAt, Entry
  <2> DEFINE d == SquaredDistance(n, seen[p])  x == Entry(n, seen[p])
  <2>1. d \in IntegerDistances /\ d \in Nat /\ LevelOf[d] \in Levels
    BY TakenIs, DistanceHasLevel, LevelsInOrder, DistancesAreFinite
  <2>2. \/ n \in DOMAIN seen /\ TakenAt(n) <= d
        \/ x \in Range(inflation_cells[LevelOf[d]])
    BY DEF WaveIInv, NeighboursReached, Entry
  <2>3. CASE x \in Range(inflation_cells[LevelOf[d]]) /\ x # e
    <3>1. x \in Range(rest[LevelOf[d]])
      BY <1>2, <2>1, <2>3 DEF Taken
    <3> QED BY <3>1
  <2>4. CASE x \in Range(inflation_cells[LevelOf[d]]) /\ x = e
    <3>1. x.cell = n /\ x.src = seen[p]
      BY DEF Entry
    <3>2. n \in DOMAIN seen
      BY <1>3, <2>4, <3>1
    <3>3. e \in Range(inflation_cells[level]) /\ level \in Levels
      BY <1>2 DEF Taken
    <3>4. LevelOf[SquaredDistance(e.cell, e.src)] = level
      BY <3>3, EntryIs
    <3>5. LevelOf[d] = level
      BY <2>4, <3>1, <3>4
    <3>6. TakenAt(n) \in IntegerDistances /\ TakenAt(n) \in Nat /\ LevelOf[TakenAt(n)] <= level
      BY <3>2, TakenIs
    <3>7. ~ (d < TakenAt(n))
      <4>1. LevelOf[TakenAt(n)] \in Nat /\ level \in Nat
        BY <1>2, <3>6, LevelsInOrder, DistancesAreFinite DEF Taken, Levels
      <4>2. d < TakenAt(n) => LevelOf[d] < LevelOf[TakenAt(n)]
        BY <2>1, <3>6, LevelsInOrder
      <4> QED BY <3>5, <3>6, <4>1, <4>2
    <3>8. TakenAt(n) <= d
      BY <2>1, <3>6, <3>7
    <3> QED BY <3>2, <3>8
  <2> QED BY <2>2, <2>3, <2>4
<1>9. SourcesReached'
  <2> SUFFICES ASSUME NEW o \in obstacles \cap SourceCells(window)
               PROVE  \/ o \in DOMAIN seen /\ TakenAt(o) = 0
                      \/ Entry(o, o) \in Range(rest[0])
    BY <1>1 DEF SourcesReached, SourceCells, TakenAt, Entry
  <2>1. \/ o \in DOMAIN seen /\ TakenAt(o) = 0
        \/ Entry(o, o) \in Range(inflation_cells[0])
    BY DEF WaveIInv, SourcesReached, Entry
  <2>2. Entry(o, o) \in Range(inflation_cells[0]) => Entry(o, o) \in Range(rest[0]) \/ Entry(o, o) = e
    BY <1>2, ZeroIsFirst DEF Taken
  <2>3. CASE Entry(o, o) = e
    <3>1. e.cell = o /\ e.src = o
      BY <2>3 DEF Entry
    <3>2. e \in Range(inflation_cells[level]) /\ level \in Levels
      BY <1>2 DEF Taken
    <3>3. LevelOf[SquaredDistance(o, o)] = level /\ o \in Places
      BY <3>1, <3>2, EntryIs
    <3>4. level = 0
      BY <3>3, DistanceIsNatural, ZeroIsFirst
    <3>5. o \in DOMAIN seen /\ TakenAt(o) \in IntegerDistances /\ LevelOf[TakenAt(o)] <= level
      BY <1>3, <3>1, TakenIs
    <3> QED BY <3>4, <3>5, ZeroIsFirst
  <2> QED BY <2>1, <2>2, <2>3
<1> QED BY <1>5, <1>6, <1>7, <1>8, <1>9 DEF WaveIInv

(* The cell c of an entry not taken before is taken, from s.               *)
TakesCell(c, s, rest, after) ==
  /\ c \in GridCells /\ c \in Places /\ s \in obstacles /\ s \in GridCells /\ s \in Places /\ c \notin DOMAIN seen
  /\ SquaredDistance(c, s) <= Radius * Radius /\ SquaredDistance(c, s) \in IntegerDistances
  /\ SquaredDistance(c, s) \in Nat
  /\ LevelOf[SquaredDistance(c, s)] = level
  /\ ComesFrom(c, s)
  /\ DOMAIN seen' = DOMAIN seen \cup {c} /\ seen'[c] = s
  /\ \A p \in DOMAIN seen : seen'[p] = seen[p] /\ p # c
  /\ seen' = [p \in DOMAIN seen' |-> seen'[p]]
  /\ Taken(Entry(c, s), rest)
  /\ AddsNeighbours(after, rest, c, s, [cell : GridCells, src : obstacles])
  /\ obstacles' = obstacles /\ window' = window /\ level' = level /\ inflation_cells' = after

(* What a cell taken adds to the list goes to later bins.                  *)
LEMMA AddedLater ==
  ASSUME WaveIInv, NEW c \in GridCells, NEW s \in GridCells, NEW n \in Steps(c),
         ComesFrom(c, s), SquaredDistance(c, s) <= Radius * Radius,
         LevelOf[SquaredDistance(c, s)] = level, DOMAIN seen \subseteq DOMAIN seen', Enqueued(n, s)
  PROVE  /\ n \in GridCells /\ n \in Places /\ Neighbours(c, n) /\ n \notin DOMAIN seen'
         /\ SquaredDistance(n, s) <= Radius * Radius /\ SquaredDistance(n, s) \in IntegerDistances
         /\ SquaredDistance(c, s) < SquaredDistance(n, s)
         /\ LevelOf[SquaredDistance(n, s)] \in Levels /\ level < LevelOf[SquaredDistance(n, s)]
<1>1. /\ n \in GridCells /\ n \notin DOMAIN seen' /\ n \notin DOMAIN seen
      /\ SquaredDistance(n, s) <= Radius * Radius
  BY DEF Enqueued
<1>2. n \in Places /\ c \in Places /\ s \in Places
  BY <1>1, GridIsRectangular
<1>3. Neighbours(n, c) /\ Neighbours(c, n)
  BY <1>2, NeighboursAreSteps, DistanceIsNatural DEF Neighbours
<1>4. /\ SquaredDistance(n, s) \in IntegerDistances /\ SquaredDistance(c, s) \in IntegerDistances
      /\ SquaredDistance(n, s) \in Nat /\ SquaredDistance(c, s) \in Nat
  BY <1>1, <1>2, DistanceHasLevel, DistanceIsNatural
<1>5. SquaredDistance(n, s) # SquaredDistance(c, s)
  BY <1>2, <1>3, StepChangesDistance
<1>6. ~ (SquaredDistance(n, s) < SquaredDistance(c, s))
  BY <1>1, <1>3, NearerTaken
<1>7. SquaredDistance(c, s) < SquaredDistance(n, s)
  BY <1>4, <1>5, <1>6
<1> QED BY <1>1, <1>2, <1>3, <1>4, <1>7, LevelsInOrder

(* An entry whose cell was not taken before is taken, and its neighbours   *)
(* go to bins still to come.                                               *)
LEMMA NextCell ==
  ASSUME WaveIInv, updateCosts_cell, Head(inflation_cells[level]).cell \notin DOMAIN seen
  PROVE  LET e    == Head(inflation_cells[level])
             rest == [inflation_cells EXCEPT ![level] = Tail(@)]
         IN  TakesCell(e.cell, e.src, rest, enqueueNeighbours(rest, e.cell, e.src))
<1> DEFINE e == Head(inflation_cells[level])  rest == [inflation_cells EXCEPT ![level] = Tail(@)]
           c == e.cell  s == e.src  V == [cell : GridCells, src : obstacles]
           after == enqueueNeighbours(rest, c, s)
<1>1. /\ level # Idle /\ inflation_cells[level] # <<>>
      /\ inflation_cells' = after /\ seen' = [p \in DOMAIN seen \cup {c} |-> IF p = c THEN s ELSE seen[p]]
      /\ obstacles' = obstacles /\ window' = window /\ level' = level
  BY DEF updateCosts_cell
<1>2. Taken(e, rest)
  BY <1>1, NextEntry
<1>3. c \notin DOMAIN seen
  OBVIOUS
<1> HIDE DEF e, rest
<1>4. e \in Range(inflation_cells[level]) /\ level \in Levels /\ rest \in [Levels -> Seq(V)]
  BY <1>2 DEF Taken
<1>5. /\ e = Entry(c, s) /\ c \in GridCells /\ s \in GridCells /\ s \in obstacles
      /\ c \in Places /\ s \in Places
      /\ SquaredDistance(c, s) <= Radius * Radius /\ SquaredDistance(c, s) \in IntegerDistances
      /\ LevelOf[SquaredDistance(c, s)] = level /\ ComesFrom(c, s)
  BY <1>4, EntryIs
<1>6. SquaredDistance(c, s) \in Nat
  BY <1>5, DistanceIsNatural
<1> HIDE DEF c, s, after
<1>7. /\ DOMAIN seen' = DOMAIN seen \cup {c} /\ seen'[c] = s
      /\ \A p \in DOMAIN seen : seen'[p] = seen[p] /\ p # c
      /\ seen' = [p \in DOMAIN seen' |-> seen'[p]]
  BY <1>1, <1>3
<1>8. ASSUME NEW n \in Steps(c), Enqueued(n, s)
      PROVE  Entry(n, s) \in V /\ LevelOf[SquaredDistance(n, s)] \in Levels
  <2>1. n \in GridCells /\ LevelOf[SquaredDistance(n, s)] \in Levels
    BY <1>5, <1>7, <1>8, AddedLater
  <2> QED BY <1>5, <2>1 DEF Entry
<1>9. AddsNeighbours(after, rest, c, s, V)
  <2> HIDE DEF V
  <2> QED BY <1>4, <1>8, NeighboursAdded DEF after
<1>10. Taken(Entry(c, s), rest)
  BY <1>2, <1>5
<1>11. TakesCell(c, s, rest, after)
  BY <1>1, <1>3, <1>5, <1>6, <1>7, <1>9, <1>10 DEF TakesCell
<1> QED BY <1>11 DEF c, s, e, rest, after

(* What is added goes to later bins, so the ones left stay empty.          *)
LEMMA WaveCellTypes ==
  ASSUME WaveIInv, updateCosts_cell, NEW c, NEW s, NEW rest, NEW after, TakesCell(c, s, rest, after),
         reached' = IF InWindow(c) THEN [reached EXCEPT ![c] = SquaredDistance(c, s)] ELSE reached
  PROVE  WaveTypeOK' /\ TakenInOrder' /\ ComesNearer' /\ ReachedFollows'
<1> USE DEF TakesCell
<1>1. /\ c \in GridCells /\ c \in Places /\ s \in obstacles /\ c \notin DOMAIN seen
      /\ SquaredDistance(c, s) \in IntegerDistances
      /\ DOMAIN seen' = DOMAIN seen \cup {c} /\ seen'[c] = s
      /\ \A p \in DOMAIN seen : seen'[p] = seen[p] /\ p # c
  OBVIOUS
<1>2. obstacles' = obstacles /\ window' = window /\ level' = level /\ inflation_cells' = after
  OBVIOUS
<1>3. after \in [Levels -> Seq([cell : GridCells, src : obstacles])]
  BY DEF AddsNeighbours
<1>4. ListEmptied'
  <2> SUFFICES ASSUME NEW l \in Levels, l < level PROVE after[l] = <<>>
    BY <1>2 DEF ListEmptied
  <2>1. rest[l] = <<>>
    BY DEF Taken
  <2>2. Range(rest[l]) = {}
    BY <2>1 DEF Range
  <2>3. ASSUME NEW n \in Steps(c), Enqueued(n, s) PROVE l # LevelOf[SquaredDistance(n, s)]
    <3>1. level < LevelOf[SquaredDistance(n, s)] /\ LevelOf[SquaredDistance(n, s)] \in Levels
      BY <2>3, AddedLater
    <3>2. l \in Nat /\ level \in Nat /\ LevelOf[SquaredDistance(n, s)] \in Nat
      BY <3>1, DistancesAreFinite DEF Taken, Levels
    <3> QED BY <3>1, <3>2
  <2>4. Range(after[l]) = {}
    BY <2>2, <2>3 DEF AddsNeighbours
  <2>5. after[l] \in Seq([cell : GridCells, src : obstacles])
    BY <1>3
  <2> QED BY <2>4, <2>5, EmptyRange
<1>5. seen' \in [DOMAIN seen' -> obstacles] /\ DOMAIN seen' \subseteq GridCells
  <2>1. \A p \in DOMAIN seen : seen[p] \in obstacles /\ p \in GridCells
    BY TakenIs
  <2>2. \A p \in DOMAIN seen' : seen'[p] \in obstacles /\ p \in GridCells
    BY <1>1, <2>1
  <2>3. seen' = [p \in DOMAIN seen' |-> seen'[p]]
    OBVIOUS
  <2> QED BY ONLY <2>2, <2>3
<1>6. reached' \in [GridCells -> IntegerDistances \cup {Unreached}]
  BY <1>1 DEF WaveIInv, WaveTypeOK
<1>7. WaveTypeOK'
  BY <1>2, <1>3, <1>4, <1>5, <1>6 DEF WaveIInv, WaveTypeOK
<1>8. TakenAt(c)' = SquaredDistance(c, s) /\ \A p \in DOMAIN seen : TakenAt(p)' = TakenAt(p)
  BY <1>1 DEF TakenAt
<1>9. TakenInOrder'
  <2>1. ASSUME NEW p \in DOMAIN seen'
        PROVE  TakenAt(p)' <= Radius * Radius /\ LevelOf[TakenAt(p)'] <= level
    <3>1. CASE p = c
      <4>1. level <= level
        BY DEF Taken
      <4> QED BY <1>8, <3>1, <4>1
    <3>2. CASE p \in DOMAIN seen
      BY <1>8, <3>2, TakenIs
    <3> QED BY <1>1, <3>1, <3>2
  <2> QED BY <1>2, <2>1 DEF TakenInOrder
<1>10. ComesNearer'
  <2>1. ASSUME NEW p \in DOMAIN seen, ComesFrom(p, seen[p]) PROVE ComesFrom(p, seen[p])'
    BY <1>1, <2>1 DEF ComesFrom
  <2>2. ComesFrom(c, s)'
    BY <1>1 DEF ComesFrom
  <2>3. \A p \in DOMAIN seen : ComesFrom(p, seen[p])
    BY DEF WaveIInv, ComesNearer
  <2>4. ASSUME NEW p \in DOMAIN seen' PROVE ComesFrom(p, seen[p])'
    BY <1>1, <2>1, <2>2, <2>3, <2>4 DEF ComesFrom
  <2> QED BY <2>4 DEF ComesNearer
<1>11. ReachedFollows'
  <2> SUFFICES ASSUME NEW p \in GridCells
               PROVE  reached'[p] = IF p \in DOMAIN seen' /\ InWindow(p) THEN TakenAt(p)' ELSE Unreached
    BY <1>2 DEF ReachedFollows, InWindow
  <2>1. reached[p] = IF p \in DOMAIN seen /\ InWindow(p) THEN TakenAt(p) ELSE Unreached
    BY DEF WaveIInv, ReachedFollows
  <2>2. reached \in [GridCells -> IntegerDistances \cup {Unreached}]
    BY DEF WaveIInv, WaveTypeOK
  <2>3. reached'[p] = IF p = c /\ InWindow(c) THEN SquaredDistance(c, s) ELSE reached[p]
    BY <1>1, <2>2
  <2> QED BY <1>1, <1>8, <2>1, <2>3
<1> QED BY <1>7, <1>9, <1>10, <1>11

(* Each neighbour of the cell taken is on the list now, or was taken from  *)
(* as near, and what was on the list is.                                   *)
LEMMA WaveCellAdds ==
  ASSUME WaveIInv, NEW c, NEW s, NEW rest, NEW after, TakesCell(c, s, rest, after)
  PROVE  EntriesComeNearer' /\ NeighboursReached' /\ SourcesReached'
<1> USE DEF TakesCell
<1>1. /\ c \in GridCells /\ c \in Places /\ s \in GridCells /\ s \in Places /\ c \notin DOMAIN seen
      /\ DOMAIN seen' = DOMAIN seen \cup {c} /\ seen'[c] = s
      /\ \A p \in DOMAIN seen : seen'[p] = seen[p] /\ p # c
      /\ inflation_cells' = after
  OBVIOUS
<1>2. ASSUME NEW l \in Levels, NEW e
      PROVE  e \in Range(after[l]) <=>
               \/ e \in Range(rest[l])
               \/ \E n \in Steps(c) : /\ Enqueued(n, s) /\ e = Entry(n, s)
                                      /\ l = LevelOf[SquaredDistance(n, s)]
  BY DEF AddsNeighbours
<1>3. TakenAt(c)' = SquaredDistance(c, s) /\ \A p \in DOMAIN seen : TakenAt(p)' = TakenAt(p)
  BY <1>1 DEF TakenAt
<1>4. ASSUME NEW n \in Steps(c), Enqueued(n, s)
      PROVE  /\ n \in GridCells /\ Neighbours(c, n) /\ n \notin DOMAIN seen'
             /\ SquaredDistance(n, s) <= Radius * Radius
             /\ SquaredDistance(c, s) < SquaredDistance(n, s)
  BY <1>4, AddedLater
<1>5. EntriesComeNearer'
  <2> SUFFICES ASSUME NEW l \in Levels, NEW e \in Range(after[l])
               PROVE  /\ SquaredDistance(e.cell, e.src) <= Radius * Radius
                      /\ LevelOf[SquaredDistance(e.cell, e.src)] = l
                      /\ ComesFrom(e.cell, e.src)'
    BY <1>1 DEF EntriesComeNearer
  <2>1. CASE e \in Range(rest[l])
    <3>1. e \in Range(inflation_cells[l])
      BY <2>1 DEF Taken
    <3>2. ComesFrom(e.cell, e.src) => ComesFrom(e.cell, e.src)'
      BY <1>1 DEF ComesFrom
    <3> QED BY <3>1, <3>2, EntryIs
  <2>2. ASSUME NEW n \in Steps(c), Enqueued(n, s), e = Entry(n, s), l = LevelOf[SquaredDistance(n, s)]
        PROVE  /\ SquaredDistance(e.cell, e.src) <= Radius * Radius
               /\ LevelOf[SquaredDistance(e.cell, e.src)] = l
               /\ ComesFrom(e.cell, e.src)'
    <3>1. e.cell = n /\ e.src = s
      BY <2>2 DEF Entry
    <3>2. ComesFrom(n, s)'
      <4>1. c \in DOMAIN seen' /\ Neighbours(c, n) /\ seen'[c] = s /\ SquaredDistance(c, s) < SquaredDistance(n, s)
        BY <1>1, <1>4, <2>2
      <4> QED BY ONLY <4>1 DEF ComesFrom
    <3> QED BY <1>4, <2>2, <3>1, <3>2
  <2> QED BY <1>2, <2>1, <2>2
<1>6. NeighboursReached'
  <2> SUFFICES ASSUME NEW p \in DOMAIN seen', NEW n \in GridCells, Neighbours(p, n),
                      SquaredDistance(n, seen'[p]) <= Radius * Radius
               PROVE  \/ n \in DOMAIN seen' /\ TakenAt(n)' <= SquaredDistance(n, seen'[p])
                      \/ Entry(n, seen'[p]) \in Range(after[LevelOf[SquaredDistance(n, seen'[p])]])
    BY <1>1 DEF NeighboursReached, TakenAt, Entry
  <2> DEFINE d == SquaredDistance(n, seen'[p])
  <2>1. seen'[p] \in GridCells /\ d \in IntegerDistances /\ d \in Nat /\ LevelOf[d] \in Levels /\ n \in Places
    BY <1>1, TakenIs, DistanceHasLevel, LevelsInOrder, DistancesAreFinite, GridIsRectangular
  <2>2. CASE p = c
    <3>1. Neighbours(n, c) /\ n \in Steps(c)
      BY <1>1, <2>1, <2>2, NeighboursAreSteps, DistanceIsNatural DEF Neighbours
    <3>2. d = SquaredDistance(n, s)
      BY <1>1, <2>2
    <3>3. CASE n \notin DOMAIN seen'
      <4>1. Enqueued(n, s)
        BY <3>2, <3>3 DEF Enqueued
      <4> QED BY <1>1, <1>2, <2>1, <2>2, <3>1, <3>2, <4>1
    <3>4. CASE n \in DOMAIN seen /\ d < SquaredDistance(c, s)
      BY <1>1, <1>3, <3>1, <3>2, <3>4, NearerTaken
    <3>5. CASE n \in DOMAIN seen /\ ~ (d < SquaredDistance(c, s))
      <4>1. /\ TakenAt(n) \in IntegerDistances /\ TakenAt(n) \in Nat /\ LevelOf[TakenAt(n)] <= level
        BY <3>5, TakenIs
      <4>2. LevelOf[TakenAt(n)] \in Nat /\ level \in Nat
        BY <4>1, LevelsInOrder, DistancesAreFinite DEF Taken, Levels
      <4>3. ~ (SquaredDistance(c, s) < TakenAt(n))
        BY <4>1, <4>2, LevelsInOrder
      <4>4. TakenAt(n) <= d
        BY <2>1, <3>5, <4>1, <4>3
      <4> QED BY <1>1, <1>3, <3>5, <4>4
    <3>6. n # c
      BY <1>1, <2>2, DistanceIsNatural DEF Neighbours
    <3> QED BY <1>1, <3>3, <3>4, <3>5, <3>6
  <2>3. CASE p \in DOMAIN seen
    <3>1. seen'[p] = seen[p]
      BY <1>1, <2>3
    <3>2. \/ n \in DOMAIN seen /\ TakenAt(n) <= d
          \/ Entry(n, seen[p]) \in Range(inflation_cells[LevelOf[d]])
      BY <2>3, <3>1 DEF WaveIInv, NeighboursReached, Entry
    <3>3. CASE n \in DOMAIN seen /\ TakenAt(n) <= d
      BY <1>1, <1>3, <3>3
    <3>4. CASE Entry(n, seen[p]) \in Range(rest[LevelOf[d]])
      BY <1>2, <2>1, <3>1, <3>4
    <3>5. CASE Entry(n, seen[p]) = Entry(c, s)
      <4>1. n = c /\ seen[p] = s
        BY <3>5 DEF Entry
      <4>2. d = SquaredDistance(c, s) /\ d <= d
        BY <2>1, <3>1, <4>1
      <4> QED BY <1>1, <1>3, <4>1, <4>2
    <3>6. \/ Entry(n, seen[p]) \notin Range(inflation_cells[LevelOf[d]])
          \/ Entry(n, seen[p]) \in Range(rest[LevelOf[d]])
          \/ Entry(n, seen[p]) = Entry(c, s)
      BY <2>1 DEF Taken
    <3> QED BY <3>2, <3>3, <3>4, <3>5, <3>6
  <2> QED BY <1>1, <2>2, <2>3
<1>7. SourcesReached'
  <2> SUFFICES ASSUME NEW o \in obstacles \cap SourceCells(window)
               PROVE  \/ o \in DOMAIN seen' /\ TakenAt(o)' = 0
                      \/ Entry(o, o) \in Range(after[0])
    BY DEF SourcesReached, SourceCells, Entry
  <2>1. \/ o \in DOMAIN seen /\ TakenAt(o) = 0
        \/ Entry(o, o) \in Range(inflation_cells[0])
    BY DEF WaveIInv, SourcesReached, Entry
  <2>2. Entry(o, o) \in Range(inflation_cells[0]) =>
          Entry(o, o) \in Range(rest[0]) \/ Entry(o, o) = Entry(c, s)
    BY ZeroIsFirst DEF Taken
  <2>3. CASE Entry(o, o) = Entry(c, s)
    <3>1. o = c /\ o = s
      BY <2>3 DEF Entry
    <3> QED BY <1>1, <1>3, <3>1, DistanceIsNatural
  <2>4. CASE Entry(o, o) \in Range(rest[0])
    BY <1>2, <2>4, ZeroIsFirst
  <2>5. CASE o \in DOMAIN seen /\ TakenAt(o) = 0
    BY <1>1, <1>3, <2>5
  <2> QED BY <2>1, <2>2, <2>3, <2>4, <2>5
<1> QED BY <1>5, <1>6, <1>7

LEMMA WaveCell ==
  ASSUME WaveIInv, updateCosts_cell
  PROVE  WaveIInv'
<1> DEFINE e == Head(inflation_cells[level])  rest == [inflation_cells EXCEPT ![level] = Tail(@)]
           after == enqueueNeighbours(rest, e.cell, e.src)
<1>1. CASE e.cell \in DOMAIN seen
  BY <1>1, WaveCellSeen
<1>2. CASE e.cell \notin DOMAIN seen
  <2>1. TakesCell(e.cell, e.src, rest, after)
    BY <1>2, NextCell
  <2>2. reached' = IF InWindow(e.cell)
                   THEN [reached EXCEPT ![e.cell] = SquaredDistance(e.cell, e.src)]
                   ELSE reached
    BY <1>2 DEF updateCosts_cell
  <2> HIDE DEF e, rest, after
  <2>3. WaveTypeOK' /\ TakenInOrder' /\ ComesNearer' /\ ReachedFollows'
    BY <2>1, <2>2, WaveCellTypes
  <2>4. EntriesComeNearer' /\ NeighboursReached' /\ SourcesReached'
    BY <2>1, WaveCellAdds
  <2> QED BY <2>3, <2>4 DEF WaveIInv
<1> QED BY <1>1, <1>2

LEMMA WaveStutters ==
  ASSUME WaveIInv, UNCHANGED wave_vars
  PROVE  WaveIInv'
<1>1. /\ obstacles' = obstacles /\ window' = window /\ level' = level
      /\ inflation_cells' = inflation_cells /\ seen' = seen /\ reached' = reached
  BY DEF wave_vars
<1>2. WaveTypeOK'
  BY <1>1 DEF WaveIInv, WaveTypeOK, ListEmptied
<1> QED BY <1>1, <1>2 DEF WaveIInv, TakenInOrder, ComesNearer, EntriesComeNearer, NeighboursReached,
           ReachedFollows, ComesFrom, TakenAt, InWindow, SourcesReached, SourceCells

(* In every update, wherever the obstacles are and whatever the order in   *)
(* which their waves meet, cells are taken nearest first, each through a   *)
(* neighbour nearer to its obstacle, and whatever a cell could give to a   *)
(* neighbour the neighbour has, or is on the list for.                     *)
THEOREM WaveInvariant == WaveSpec => []WaveIInv
<1>1. WaveInit => WaveIInv
  BY WaveStarts
<1>2. WaveIInv /\ [WaveNext]_wave_vars => WaveIInv'
  <2> SUFFICES ASSUME WaveIInv, [WaveNext]_wave_vars PROVE WaveIInv'
    OBVIOUS
  <2>1. ASSUME NEW obs \in ObstacleSets, NEW w \in Windows, updateCosts_begin(obs, w) PROVE WaveIInv'
    BY <2>1, WaveBegins
  <2>2. CASE updateCosts_cell
    BY <2>2, WaveCell
  <2>3. CASE updateCosts_level
    BY <2>3, WaveLevel
  <2>4. CASE UNCHANGED wave_vars
    BY <2>4, WaveStutters
  <2> QED BY <2>1, <2>2, <2>3, <2>4 DEF WaveNext
<1> QED BY <1>1, <1>2, PTL DEF WaveSpec

(* What updateCosts() asserts: on every grid, for every radius and all     *)
(* obstacles the inflation list is empty when an update begins, since no   *)
(* cell goes to a bin already left; and it holds cells of the grid with    *)
(* obstacles as sources only, in bins there are.                           *)
THEOREM WaveTypeCorrect == WaveSpec => []WaveTypeOK
<1>1. WaveIInv => WaveTypeOK
  BY DEF WaveIInv
<1> QED BY <1>1, WaveInvariant, PTL

(* updateCosts() changes cells of the window only, and only those that     *)
(* have an obstacle within the inflation radius, at the very distance      *)
(* their cost is for.                                                      *)
THEOREM WaveInflatesWithinRadius == WaveSpec => []InflatesWithinRadius
<1>1. WaveIInv => InflatesWithinRadius
  <2> SUFFICES ASSUME WaveIInv, NEW c \in GridCells, reached[c] # Unreached
               PROVE  InWindow(c) /\ reached[c] \in Within(c, Radius)
    BY DEF InflatesWithinRadius
  <2>1. c \in DOMAIN seen /\ InWindow(c) /\ reached[c] = TakenAt(c)
    BY DEF WaveIInv, ReachedFollows
  <2>2. seen[c] \in obstacles /\ TakenAt(c) \in Nat /\ TakenAt(c) <= Radius * Radius
    BY <2>1, TakenIs
  <2>3. Radius * Radius \in Nat
    BY GridIsRectangular, SquareOfNext
  <2>4. TakenAt(c) \in 0 .. (Radius * Radius)
    BY <2>2, <2>3
  <2>5. TakenAt(c) \in {SquaredDistance(c, o) : o \in obstacles}
    BY <2>2 DEF TakenAt
  <2> QED BY <2>1, <2>4, <2>5 DEF Within
<1> QED BY <1>1, WaveInvariant, PTL

(* When the list is empty, what the invariant says may be on it is not.    *)
LEMMA NeighboursAgreeAtRest == WaveIInv => NeighboursAgree
<1> SUFFICES ASSUME WaveIInv, level = Idle, NEW p \in DOMAIN seen, NEW n \in GridCells, Neighbours(p, n),
                    SquaredDistance(n, seen[p]) <= Radius * Radius
             PROVE  n \in DOMAIN seen /\ TakenAt(n) <= SquaredDistance(n, seen[p])
  BY DEF NeighboursAgree
<1> DEFINE d == SquaredDistance(n, seen[p])
<1>1. d \in IntegerDistances /\ LevelOf[d] \in Levels
  BY TakenIs, DistanceHasLevel, LevelsInOrder
<1>2. LevelOf[d] < level
  BY <1>1, DistancesAreFinite DEF Levels, Idle
<1>3. inflation_cells[LevelOf[d]] = <<>>
  BY <1>1, <1>2 DEF WaveIInv, WaveTypeOK, ListEmptied
<1>4. Range(inflation_cells[LevelOf[d]]) = {}
  BY <1>3 DEF Range
<1> QED BY <1>4 DEF WaveIInv, NeighboursReached

(* The wave stops at the radius only, and leaves no cell further from its  *)
(* obstacle than from a neighbour's, wherever waves have met.              *)
THEOREM WaveNeighboursAgree == WaveSpec => []NeighboursAgree
<1> QED BY NeighboursAgreeAtRest, WaveInvariant, PTL

(* Every lethal cell of the window is inflated as one, and every cell of   *)
(* it beside one, within the window or beyond its edge, as that.           *)
THEOREM WaveObstaclesInflated == WaveSpec => []ObstaclesInflated
<1>1. WaveIInv => ObstaclesInflated
  <2> SUFFICES ASSUME WaveIInv, level = Idle, NEW c \in GridCells, InWindow(c)
               PROVE  /\ c \in obstacles => reached[c] = 0
                      /\ c \notin obstacles /\ (\E o \in obstacles : Neighbours(o, c)) => reached[c] = 1
    BY DEF ObstaclesInflated
  <2>1. window.min_i \in Int /\ window.min_j \in Int /\ window.max_i \in Int /\ window.max_j \in Int
    BY InflationWaveAssumption DEF WaveIInv, WaveTypeOK
  <2>2. \A o \in GridCells : o \in Places /\ o[1] \in Int /\ o[2] \in Int
    BY GridIsRectangular DEF Places
  <2>3. obstacles \subseteq GridCells
    BY DEF WaveIInv, WaveTypeOK
  <2>4. ASSUME NEW o \in obstacles, o \in SourceCells(window)
        PROVE  o \in DOMAIN seen /\ TakenAt(o) = 0 /\ seen[o] = o
    <3>1. 0 \in Levels /\ 0 < level
      BY ZeroIsFirst, DistancesAreFinite DEF Idle
    <3>2. inflation_cells[0] = <<>>
      BY <3>1 DEF WaveIInv, WaveTypeOK, ListEmptied
    <3>3. Range(inflation_cells[0]) = {}
      BY <3>2 DEF Range
    <3>4. o \in DOMAIN seen /\ TakenAt(o) = 0
      BY <2>4, <3>3 DEF WaveIInv, SourcesReached
    <3>5. seen[o] \in Places
      BY <3>4, TakenIs
    <3> QED BY <2>2, <2>3, <3>4, <3>5, DistanceIsNatural DEF TakenAt
  <2>5. c \in DOMAIN seen => reached[c] = TakenAt(c)
    BY DEF WaveIInv, ReachedFollows
  <2>6. ASSUME c \in obstacles PROVE reached[c] = 0
    <3>1. c \in SourceCells(window)
      <4>1. Radius \in Nat
        BY GridIsRectangular
      <4>2. c[1] \in Int /\ c[2] \in Int
        BY <2>2
      <4> QED BY <2>1, <4>1, <4>2 DEF InWindow, SourceCells
    <3> QED BY <2>4, <2>5, <2>6, <3>1
  <2>7. ASSUME c \notin obstacles, NEW o \in obstacles, Neighbours(o, c) PROVE reached[c] = 1
    <3>1. o \in Places /\ c \in Places /\ Radius \in Nat \ {0} /\ o \in GridCells
      BY <2>2, <2>3, GridIsRectangular
    <3>2. o \in Steps(c)
      BY <2>7, <3>1, NeighboursAreSteps
    <3>3. o[1] \in c[1] - 1 .. c[1] + 1 /\ o[2] \in c[2] - 1 .. c[2] + 1
      <4>1. c[1] \in Int /\ c[2] \in Int
        BY <2>2
      <4> QED BY <3>2, <4>1 DEF Steps
    <3>4. o \in SourceCells(window)
      <4>1. c[1] \in Int /\ c[2] \in Int
        BY <2>2
      <4>2. /\ window.min_i <= c[1] /\ c[1] < window.max_i
            /\ window.min_j <= c[2] /\ c[2] < window.max_j
        BY DEF InWindow
      <4>3. /\ window.min_i - Radius <= o[1] /\ o[1] < window.max_i + Radius
            /\ window.min_j - Radius <= o[2] /\ o[2] < window.max_j + Radius
        BY <2>1, <3>1, <3>3, <4>1, <4>2
      <4> QED BY <3>1, <4>3 DEF SourceCells
    <3>5. o \in DOMAIN seen /\ seen[o] = o
      BY <2>4, <3>4
    <3>6. SquaredDistance(c, seen[o]) = 1
      BY <2>7, <3>1, <3>5, DistanceIsNatural DEF Neighbours
    <3>7. 1 <= Radius * Radius
      BY <3>1
    <3>8. c \in DOMAIN seen /\ TakenAt(c) <= 1
      BY <2>7, <3>5, <3>6, <3>7, NeighboursAgreeAtRest DEF NeighboursAgree
    <3>9. seen[c] \in obstacles /\ seen[c] \in Places /\ TakenAt(c) \in Nat
      BY <3>8, TakenIs
    <3>10. TakenAt(c) # 0
      BY <2>7, <3>1, <3>9, DistanceIsNatural DEF TakenAt
    <3> QED BY <2>5, <3>8, <3>9, <3>10
  <2> QED BY <2>6, <2>7
<1> QED BY <1>1, WaveInvariant, PTL
=============================================================================
