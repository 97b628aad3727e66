\* A product of two of these numbers needs more bits than a number has.
CONSTANTS
  student_number = 3
  min_limit = 2
  max_limit = 3
  Width = 2
SPECIFICATION Spec
INVARIANTS
  AnswerStands
PROPERTIES
  ExamEnds
\* The organizer ends, or aborts.
CHECK_DEADLOCK FALSE
