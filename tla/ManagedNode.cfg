SPECIFICATION Spec
INVARIANTS
  TypeOK
  TerminatesOnlyDisturbed
PROPERTIES
  ShutdownEnds
CHECK_DEADLOCK FALSE
