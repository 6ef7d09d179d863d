CONSTANTS
  Gaps <- MCGaps
  Loads <- MCLoads
  NBlocks = 4
  StatTime = 3
SPECIFICATION Spec
INVARIANTS
  SizeIsOfTheSameBlocks
CHECK_DEADLOCK FALSE
