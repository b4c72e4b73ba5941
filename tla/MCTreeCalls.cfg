CONSTANTS
  Slots <- TenSlots
  FirstOrder <- TenInOrder
  MaxBlocks = 9
  BitmapSize = 5
  MaxHeld = 1
  SpareSlots = 7
  MAX_PINS = 100
  MaxLeaves = 3
  MaxCalls = 4
  Zero = zero
  Values = {zero}
  NULL = NULL
SPECIFICATION CallSpec
INVARIANTS BitmapExact CallsUnpin NoError
CHECK_DEADLOCK FALSE
