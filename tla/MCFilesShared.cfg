CONSTANTS
  Names = {"a", "b"}
  Handles = {h1, h2}
  MaxLabel = 3
  MaxNum = 1
  MaxLinks = 2
  Shared = TRUE
  Sparse = FALSE
  MaxCrashes = 0
SPECIFICATION Spec
INVARIANTS NothingLeft
CHECK_DEADLOCK FALSE
