SPECIFICATION LayerSpec
CONSTANTS
  resolution = 2
  default_value = 0
  Sizes <- MCSizes
  Corners <- MCCorners
  Moves <- MCMoves
  Marks <- MCMarks
  Areas <- MCAreas
  Polygons <- MCPolygons
  FillCosts <- MCFillCosts
  Points <- MCPoints
  Positions <- MCPositions
  NoPosition = NoPosition
  Distances <- MCDistances
  MaxCalls = 3
INVARIANTS
  LayerTypeOK
  PolygonFilled
  FootprintCostIsWorst
  ClearedRegion
  ClearedWillBeUpdated
PROPERTY
  ImplementsWorldGrid
CHECK_DEADLOCK FALSE
