CONSTANT MaxStops = 3
SPECIFICATION Spec
INVARIANTS
  SignalReachesOnlyItsChild
PROPERTIES
  RelayEnds
\* Nothing happens any more when all processes have ended or wait.
CHECK_DEADLOCK FALSE
