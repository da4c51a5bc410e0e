\* Blocks of up to two packets: messages shorter than the buffer, as long as
\* it, and longer; five packets make three of them.
SPECIFICATION MonitorSpec
CONSTANTS
  BufferPackets = 2
  MaxSent = 5
INVARIANTS BlocksAreMessages
PROPERTIES MonitorIsAFeed
\* the program exits
CHECK_DEADLOCK FALSE
