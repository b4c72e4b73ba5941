CONSTANTS
  Names = {1, 2, 101, 102}
  AllNames <- MCAllNames
  Length <- MCLength
  Data = {1}
  TreeBlocks = {1,2,3,4,5,6,7,8,9,10,11,12}
  BlockSize = 88
  HeaderSize = 0
  XBase = 20
  MaxNum = 2
  MaxGap = 1
  DataBlocks = {1,2,3}
SPECIFICATION Spec
INVARIANT NoError
VIEW Shape
CHECK_DEADLOCK FALSE
