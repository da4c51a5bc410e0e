\* Chunks of up to three bytes across a mask that wraps at three.
SPECIFICATION Spec
CONSTANTS
  Modulus = 3
  RxLength = 3
  DumpMax = 1
  FifoSize = 4
  Polls = 3
  MaxSlots = 7
INVARIANTS HeldInOrder ExitTellsAll DecodedIsStream
\* the program exits
CHECK_DEADLOCK FALSE
