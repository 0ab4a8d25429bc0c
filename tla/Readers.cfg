\* Two ECUs of a vehicle, two groups; for the client one of them.
SPECIFICATION Spec
CONSTANTS
  Group = 4
  Groups = 2
  Byte = 8
  Scaled = {1, 4}
  Ecus = {1, 2}
  Vehicles <- MCVehicles
  Models <- MCModels
  Dtcs = {3, 9}
  Echoed = {"01", "09"}
  MaxCodes = 1
INVARIANTS
  TypeOK
  CensusRight
  TestsRight
  ReadingsRight
CHECK_DEADLOCK FALSE
