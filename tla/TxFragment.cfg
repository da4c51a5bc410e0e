\* The code's padding on short fragments, with a size_t that would wrap at 64.
SPECIFICATION Spec
CONSTANTS
  Unit = 8
  Overhead = 16
  SizeMod = 64
  Lengths = {0, 1, 7, 8, 9, 15, 16, 17, 23, 24, 25, 33, 40}
  Sizes = {8, 23, 24, 31, 32, 40, 47, 56}
INVARIANTS WritesInBounds PacketExact RefusedOnlyIfTooLong
