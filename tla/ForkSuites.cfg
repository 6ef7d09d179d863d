SPECIFICATION Spec
CONSTANTS
  EpochDbTip = 2100
  Activations <- MCActivations
  NCells = 20
  CELL_CAPACITY = 5
INVARIANTS FailsOnlyBehindThePool PassesOnlyAtTheFork
PROPERTIES BuildsOnTheTip SuiteEnds
CHECK_DEADLOCK FALSE
