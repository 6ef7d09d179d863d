CONSTANTS
  left = left
  right = right
  Sibling <- MCSibling
  MaxNumber = 4
  MaxReorgs = 2
SPECIFICATION Spec
INVARIANTS
  IndexerIsAChain
PROPERTIES
  EndsOnTheMainChain
  RollsBackOnlyAfterReorg
  WaitEnds
CHECK_DEADLOCK FALSE
