\* Two students that study first, three that may join in.
CONSTANTS
  person_number = 5
  wait_limit = 2
SPECIFICATION Spec
INVARIANTS
  CountIsRight
PROPERTIES
  ComplaintHasCause
  LightIsClosed
\* The program ends.
CHECK_DEADLOCK FALSE
