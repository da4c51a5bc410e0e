\* Failing polls, and a dongle that may or may not restart its count.
SPECIFICATION FairSpec
CONSTANTS
  Modulus = 4
  RawSize = 3
  DumpMax = 2
  OutSize = 3
  FifoSize = 5
  MaxSlots = 9
  TransferFails = TRUE
  ResetChoices = {TRUE, FALSE}
INVARIANTS TypeOK MaskFollowsPosition RoomForEveryByte InSync
PROPERTIES DecodeExact StopEnds
