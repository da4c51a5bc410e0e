\* Up to two USB interfaces; a uint16_t that wraps at 4; one write and one read
\* of the matrix; a probe whose buffer is smaller than the longest length.
SPECIFICATION ClientSpec
CONSTANTS
  MaxInterfaces = 2
  U16 = 4
  Lengths = {0, 1, 3}
  BufferLens = {0, 1, 3, 4, 5}
  ProbeBuffer = 1
  ReadLength = 3
  Reads = 1
  Writes = 1
INVARIANTS NothingLeaks ReleasedInOrder CountIsTrue OsErrorIsTheCalls RefusedSendsNothing
PROPERTIES NoDeviceIsTrue ClientEnds
\* a program exits
CHECK_DEADLOCK FALSE
