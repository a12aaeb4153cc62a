SPECIFICATION Spec
CONSTANTS
  Sizes <- MCSizes
  Origins <- MCOrigins
  Costs <- MCCosts
  DefaultCost = 0
  Rolling = {TRUE, FALSE}
  AlwaysFull = FALSE
INVARIANTS
  TypeOK
  CopiesAddUp
  ViewKeepsOrder
