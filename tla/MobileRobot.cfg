SPECIFICATION Spec
CONSTANTS
  Teams <- MCTeams
  Scans <- MCScans
  NoScan = NoScan
  Invalid = Invalid
  Window = 1
  forward_angle = 6
  safe_distance = 5
  stop_distance = 2
  forward_speed = 2
  slow_speed = 1
  turn_speed = 34
  linear_speed = 1
  angular_speed = 34
  wheel_separation_real = 17
  wheel_separation_est = 10
  Depth = 2
  MaxStep = 5
  MaxTime = 3
  MaxSetBacks = 1
INVARIANTS
  TypeOK
  DrivesAsSeen
  SmoothsTheWindow
PROPERTIES
  ComesToRest
CHECK_DEADLOCK FALSE
