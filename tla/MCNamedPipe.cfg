\* Two runs that follow one another or overlap, one killed, and writes cut short, at any moment.
CONSTANTS
  message_size = 2
  round = 2
  PipeSize = 1
  Run = {"a", "b"}
  Mortal = {"a"}
SPECIFICATION Spec
INVARIANTS
  UndisturbedFrameCheckPasses
  ShortWriteStarvesReader
  PathLastsAndGoes
PROPERTIES
  UndisturbedRunEnds
\* A run ends, or its reader waits or calls read for ever.
CHECK_DEADLOCK FALSE
