CONSTANTS
  NUsers = 2
  NNodes = 2
  NInOut = 1
  ExtraSeen = 2
  CellCap = 1
  TxCap = 1
  Genesis <- ThreeCells
  TxIndexes = {3}
  EnabledData1 = FALSE
  PoolCap = 1
  MaxBlocks = 2
  RpcMayFail = FALSE
SPECIFICATION FairSpec
PROPERTIES
  LoadGoesOn
CHECK_DEADLOCK FALSE
