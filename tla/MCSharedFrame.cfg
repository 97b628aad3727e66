\* Two runs that may follow one another, overlap, or fail.
CONSTANTS
  message_size = 2
  round = 2
  Run = {"a", "b"}
SPECIFICATION Spec
INVARIANTS
  TurnsAlternate
  NothingLeftBehind
PROPERTIES
  RunEnds
  ImplementsStream
\* A run stops when it has ended, or when its processes have failed or hang.
CHECK_DEADLOCK FALSE
