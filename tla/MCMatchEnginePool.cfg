CONSTANTS
  MaxPrice = 3
  MaxSize = 1
  MaxId = 5
  ListHeight = 2
  MaxLive = 4
  MapSize = 6
  Reserve = 1
  NULL = NULL
  NoOrder = NoOrder
SPECIFICATION PoolSpec
INVARIANTS SkipListSound BestPrices PoolConserved NoFault
CHECK_DEADLOCK FALSE
