CONSTANTS
  Sessions = {1}
  Protocols = {"Sync", "Relay", "RelayV2", "Discovery", "Identify"}
  IgnoredProtocols = {"Identify", "DisconnectMessage"}
  FORK_HEIGHT = 3000
  WINDOW = 10
  Flood = 3
  Topics = {"new_tip_block", "new_transaction"}
  MaxEvents = 2
  MaxRequests = 3
SPECIFICATION TestkitSpec
INVARIANTS
  AgreesWhenQuiet
  PanicsOnlyAfterSessionClose
  FailsOnlyWhenLate
  PassTellsTheNode
  PanicsOnlyWhenLate
  SyncedStays
  MinesOnTheTip
  EachNotificationOnce
PROPERTIES
  PanicsOnlyOverEndedAndSetAside
  EveryTestEnds
CHECK_DEADLOCK FALSE
