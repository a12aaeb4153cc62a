------------------------ MODULE MCSimpleActionServer ------------------------
(* SimpleActionServer with three goals: one current, one pending and one    *)
(* arriving, so that every slot can be contested.  Goals are used again.    *)
EXTENDS SimpleActionServer

CONSTANTS g1, g2, g3

MCGoal == {g1, g2, g3}
=============================================================================
