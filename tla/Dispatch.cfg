CONSTANTS
  Owners <- MCOwners
  NUsers = 2
  CellsPerUser = 2
  CapacityPerCell = 70
  MAX_OUT_COUNT = 2
  FEE_RATE_OF_OUTPUT = 1
  MinChange = 67
  MaxDrops = 2
  n_users = 2
  MaxCells = 2
  inputs_len_soft_limit = 3
SPECIFICATION MCSpec
INVARIANTS
  SpendsEachCellOnce
  UsersGetTheirCells
  ShortOnlyByFees
  PanicsOnlyAfterDropOrMix
  CollectsEachCellSigned
PROPERTIES
  MCDispatchEnds
CHECK_DEADLOCK FALSE
