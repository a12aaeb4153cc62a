SPECIFICATION FairSpec
CONSTANTS
  g1 = g1
  g2 = g2
  g3 = g3
  Goal <- MCGoal
  NoGoal = NoGoal
INVARIANTS
  TypeOK
  OpenGoalsHeldOnce
  PreemptIffPending
  QuietAfterDeactivate
  FeedbackHandleValid
PROPERTIES
  ImplementsGoalQueue
  DeactivateReturns
  CancelledGoalEnds
  PendingGoalLeavesSlot
