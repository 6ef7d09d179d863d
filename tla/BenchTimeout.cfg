CONSTANTS
  NUsers = 2
  NNodes = 1
  NInOut = 2
  ExtraSeen = 10
  CellCap = 1
  TxCap = 1
  Genesis <- OneCellEach
  TxIndexes = {1, 3}
  EnabledData1 = FALSE
  PoolCap = 1
  MaxBlocks = 2
  RpcMayFail = FALSE
SPECIFICATION Spec
INVARIANTS
  NeverTimesOut
CHECK_DEADLOCK FALSE
