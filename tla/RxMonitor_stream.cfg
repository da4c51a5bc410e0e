\* No failing poll; the dongle restarts its count at every open.
SPECIFICATION FairSpec
CONSTANTS
  Modulus = 4
  RawSize = 3
  DumpMax = 2
  OutSize = 3
  FifoSize = 5
  MaxSlots = 13
  TransferFails = FALSE
  ResetChoices = {TRUE}
PROPERTIES DeliversClearStream
