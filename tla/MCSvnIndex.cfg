SPECIFICATION Spec
CONSTANTS
  Paths <- TwoByOne
  Indexers = {i1, i2}
  MaxRev = 3
  MaxChanges = 2
  MaxStops = 1
  Joined = {"delete"}
  AnyCommit = FALSE
INVARIANTS TypeOK NoDuplicateNode
PROPERTIES LogSpec ProgramsEnd CatchesUp
CHECK_DEADLOCK FALSE
