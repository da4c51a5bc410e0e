SPECIFICATION Spec
CONSTANTS
  Modulus = 4
  MaxIn = 6
  MaxOut = 5
  MaxSlots = 9
INVARIANT MaskCountsReceivedBytes
