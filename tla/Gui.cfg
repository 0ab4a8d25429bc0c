\* Two connections after one another, at most two poll cycles at once.
SPECIFICATION LiveSpec
CONSTANTS
  Pids = {1, 2}
  Supports <- MCSupports
  CullAfter = 1
  Clients = 2
  Workers = 2
  MaxChains = 2
  Sittings <- MCSittings
INVARIANTS
  TypeOK
  ConnectFindsItsTransport
  AbandonedIsReleased
  RowsRight
  OneVehicle
  ClearWasConfirmed
PROPERTIES
  StoppedPollingEnds
  ReadComesBack
CHECK_DEADLOCK FALSE
