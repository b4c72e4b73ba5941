CONSTANTS
  Names = {"a", "b"}
  Handles = {h1}
  MaxLabel = 3
  MaxNum = 1
  MaxLinks = 2
  Shared = FALSE
  Sparse = FALSE
  MaxCrashes = 1
SPECIFICATION Spec
INVARIANTS TypeOK LinkCounts SizeCoversBlocks NothingLeft NoDangling FreshLabels NoError
PROPERTY CallsEnd
CHECK_DEADLOCK FALSE
