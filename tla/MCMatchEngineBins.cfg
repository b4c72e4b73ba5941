CONSTANTS
  MaxPrice = 1
  MaxSize = 1
  MaxId = 7
  ListHeight = 1
  MaxLive = 3
  MapSize = 3
  Reserve = 1
  NULL = NULL
  NoOrder = NoOrder
SPECIFICATION Spec
INVARIANT Cancellable
CHECK_DEADLOCK FALSE
