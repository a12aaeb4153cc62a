------------------------- MODULE MCFibonacciAction -------------------------
EXTENDS FibonacciAction
MCGoals        == {"a", "b"}
MCOrders       == {1, 4}
MCCancelAfters == {-1, 1}
=============================================================================
