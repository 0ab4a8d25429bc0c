SPECIFICATION LiveSpec
CONSTANTS
  Procs = {"daemon", "tool"}
  Vins = {"truck"}
  Stoppable <- MCStoppable
  MaxStarts = 2
INVARIANTS
  TypeOK
  SameToken
  Decodable
PROPERTY
  StopReturns
CHECK_DEADLOCK FALSE
