\* Eight frames through a queue of three; either process killed at any moment.
CONSTANTS
  message_size = 2
  round = 8
  MaxMessages = 3
SPECIFICATION Spec
INVARIANTS
  QueueOutlivesItsUsers
PROPERTIES
  RunEnds
  SurvivorEndsIffItCan
  ImplementsStream
\* The run ends; with the reader killed the writer may wait for ever.
CHECK_DEADLOCK FALSE
