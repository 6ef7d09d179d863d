CONSTANTS
  n1 = n1
  n2 = n2
  old1 = old1
  tx1 = tx1
  tx2 = tx2
  Node <- MCNode
  Old <- MCOld
  Txs <- MCTxs
  N_BLOCKS = 3
  MaxLag = 2
  MaxBlocks = 10
SPECIFICATION Spec
INVARIANTS
  NoOldTransactionsAreReported
  AllTransactionsAreReported
CHECK_DEADLOCK FALSE
