----------------------------- MODULE CostValues -----------------------------
(***************************************************************************)
(* cost_values.hpp: what the byte of a cell means.                         *)
(***************************************************************************)
EXTENDS Integers

NO_INFORMATION              == 255
LETHAL_OBSTACLE             == 254
INSCRIBED_INFLATED_OBSTACLE == 253
MAX_NON_OBSTACLE            == 252
FREE_SPACE                  == 0
Cost                        == 0 .. 255
=============================================================================
