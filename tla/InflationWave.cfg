SPECIFICATION WaveSpec
CONSTANTS
  SizeX = 4
  SizeY = 4
  Radius = 3
  ObstacleSets <- MCObstacleSets
  Windows <- MCWindows
INVARIANTS
  WaveTypeOK
  CoversRadius
