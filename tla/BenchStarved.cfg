CONSTANTS
  NUsers = 2
  NNodes = 2
  NInOut = 2
  ExtraSeen = 1
  CellCap = 1
  TxCap = 1
  Genesis <- ThreeCells
  TxIndexes = {2, 3}
  EnabledData1 = TRUE
  PoolCap = 1
  MaxBlocks = 3
  RpcMayFail = TRUE
SPECIFICATION FairSpec
PROPERTIES
  StarvationIsForever
  NeverHangs
CHECK_DEADLOCK FALSE
