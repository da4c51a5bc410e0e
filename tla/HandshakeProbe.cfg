\* Three steps, so that an answer can be two steps late; the mask wraps.
SPECIFICATION HandshakeFairSpec
CONSTANTS
  Modulus = 3
  RawSize = 2
  DumpMax = 1
  FifoSize = 3
  Steps = 3
  Polls = 2
  MaxSlots = 4
INVARIANTS NotBeforeItsStep OneSession
PROPERTIES TriesAllAndEnds
\* the program exits
CHECK_DEADLOCK FALSE
