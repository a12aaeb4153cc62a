SPECIFICATION FairSpec
CONSTANT Frequencies <- MCFrequencies
INVARIANTS
  TypeOK
  ThreadJoined
  UpdateOnConfiguredCostmap
  PluginsActiveWhenUpdateBegins
PROPERTIES
  StartReturns
  DeactivateReturns
\* start() waits for ever when there is no update loop.
CHECK_DEADLOCK FALSE
