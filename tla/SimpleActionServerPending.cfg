SPECIFICATION Spec
CONSTANTS
  g1 = g1
  g2 = g2
  g3 = g3
  Goal <- MCGoal
  NoGoal = NoGoal
INVARIANT PendingHasCurrent
