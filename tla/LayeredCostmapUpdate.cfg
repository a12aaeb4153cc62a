SPECIFICATION Spec
CONSTANTS
  DefaultCost = 0
  Resolution = 2
  Maps <- MCMaps
  NoMap = NoMap
  UseMaximum = FALSE
  Radii <- MCRadii
  InflateUnknown = FALSE
  StartSize = 2
  MaxMarks = 1
  Updates <- MCUpdates
PROPERTY UpdateNotReplaced
