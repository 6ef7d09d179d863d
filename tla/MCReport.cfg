CONSTANTS
  Gaps <- MCGaps
  Loads <- MCLoads
  NBlocks = 5
  StatTime = 3
SPECIFICATION Spec
INVARIANTS
  WindowAddsUp
  ReportsTheBestWindow
CHECK_DEADLOCK FALSE
