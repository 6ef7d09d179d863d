CONSTANTS
  NUsers = 2
  NNodes = 2
  NInOut = 2
  ExtraSeen = 0
  CellCap = 1
  TxCap = 1
  Genesis <- ThreeCells
  TxIndexes = {1, 3}
  EnabledData1 = FALSE
  PoolCap = 1
  MaxBlocks = 2
  RpcMayFail = TRUE
SPECIFICATION Spec
INVARIANTS
  TypeOK
  InputsKnownToEveryNode
  ClaimedOnceUnlessEvicted
  DiscardsAreDoubleSpends
CHECK_DEADLOCK FALSE
