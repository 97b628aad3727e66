\* One thread more than the program has.
CONSTANT THREAD_COUNT = 3
SPECIFICATION Spec
INVARIANTS
  CancelledTakesTheMutex
PROPERTIES
  EndsUnlessCancelled
\* The program ends, or waits for the mutex of a dead thread.
CHECK_DEADLOCK FALSE
