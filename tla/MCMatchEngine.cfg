CONSTANTS
  MaxPrice = 2
  MaxSize = 2
  MaxId = 4
  ListHeight = 1
  MaxLive = 5
  MapSize = 2
  Reserve = 1
  NULL = NULL
  NoOrder = NoOrder
SPECIFICATION Spec
INVARIANTS TypeOK QueuesInOrder Cancellable
PROPERTIES BookSpec LimitReturns
CHECK_DEADLOCK FALSE
