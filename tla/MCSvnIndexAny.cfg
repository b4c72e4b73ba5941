SPECIFICATION Spec
CONSTANTS
  Paths <- TwoByOne
  Indexers = {i1}
  MaxRev = 3
  MaxChanges = 1
  MaxStops = 0
  Joined = {}
  AnyCommit = TRUE
INVARIANT ListingsMatch
CHECK_DEADLOCK FALSE
