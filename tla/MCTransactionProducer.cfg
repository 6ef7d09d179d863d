CONSTANTS
  u1 = u1
  u2 = u2
  Users <- MCUsers
  Cells <- MCCells
  NInOut = 3
  CellCap = 2
  TxCap = 2
SPECIFICATION Spec
INVARIANTS
  TypeOK
  ExactlyNInOut
  BacklogsAreCopies
PROPERTIES
  SpendsEachCopyOnce
  StopsWithTheBench
CHECK_DEADLOCK FALSE
