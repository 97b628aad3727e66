\* As in the program, the pipe is smaller than a frame.
CONSTANTS
  message_size = 4
  round = 3
  PipeSize = 3
SPECIFICATION Spec
INVARIANTS
  StreamInOrder
PROPERTIES
  RunEnds
  WriterNoticesReader
  ReaderEndsIffAllIsWritten
  ImplementsStream
\* The run ends; without a writer the reader calls read for ever.
CHECK_DEADLOCK FALSE
