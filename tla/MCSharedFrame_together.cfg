CONSTANTS
  message_size = 1
  round = 2
  Run = {"a", "b"}
SPECIFICATION SafeSpec
INVARIANT FrameCheckPasses
CHECK_DEADLOCK FALSE
