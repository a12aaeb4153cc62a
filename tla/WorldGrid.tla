------------------------------ MODULE WorldGrid ------------------------------
(***************************************************************************)
(* What a costmap promises its users, in coordinates of the world: costs   *)
(* for the cells of a window on the world, which can be replaced, written, *)
(* and moved without forgetting what remains in sight.                     *)
(*                                                                         *)
(* A cell is the position of its lower left corner.                        *)
(***************************************************************************)
EXTENDS Integers

CONSTANTS
  CellSize,     \* length of the side of a cell
  Blank         \* cost of a cell of which nothing is known

VARIABLES
  cost,         \* a function from the cells of the window
  request       \* what was asked for last: a record whose field do says what

window == DOMAIN cost

AllBlank == cost = [c \in window |-> Blank]

Init == AllBlank

Replace ==
  /\ request'.do = "replace"
  /\ AllBlank'

(* One value is written, to the cells asked for and to no other.           *)
Write ==
  /\ request'.do = "write"
  /\ cost' = [c \in window |-> IF c \in request'.cells THEN request'.value ELSE cost[c]]

About(n) == (n + 1 - CellSize) .. (n - 1 + CellSize)

(* The window moves by whole cells, to less than a cell from where it was  *)
(* asked to be, and the costs of the world stay where they are.            *)
Move ==
  /\ request'.do = "move"
  /\ \E dx \in About(request'.by[1]), dy \in About(request'.by[2]) :
       /\ dx % CellSize = 0 /\ dy % CellSize = 0
       /\ cost' = [c \in {<<d[1] + dx, d[2] + dy>> : d \in window} |->
                     IF c \in window THEN cost[c] ELSE Blank]

Look ==
  /\ request'.do = "look"
  /\ UNCHANGED cost

Holds(c, w) == \A i \in {1, 2} : c[i] <= w[i] /\ w[i] < c[i] + CellSize

(* The answer is the cost of the cell that holds the point, and -1 when    *)
(* none of the window does.                                                *)
Ask ==
  /\ request'.do = "ask"
  /\ UNCHANGED cost
  /\ IF \E c \in window : Holds(c, request'.at)
     THEN \E c \in window : Holds(c, request'.at) /\ request'.answer = cost[c]
     ELSE request'.answer = -1

Next == Replace \/ Write \/ Move \/ Look \/ Ask

Spec == Init /\ [][Next]_<<cost, request>>
==============================================================================
