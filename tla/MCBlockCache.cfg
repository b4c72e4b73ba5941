CONSTANTS
  Slots <- FourSlots
  FirstOrder <- ArrayOrder
  MaxBlocks = 4
  BitmapSize = 8
  MaxHeld = 1
  SpareSlots = 0
  MAX_PINS = 1
  Zero = zero
  Values = {zero, v1}
  NULL = NULL
SPECIFICATION Spec
INVARIANTS TypeOK CacheCoherent HeldBlocksStay BitmapExact FileCoversBlocks NoError PinsBalance
PROPERTY StoreSpec
CHECK_DEADLOCK FALSE
