\* Does the code keep to what the design says of OnlyStopExits?
SPECIFICATION Spec
CONSTANTS
  NumDevices = 1
  NumProfiles = 2
  Passes = 2
  Debounce = 2
  PresentMv = 9000
  AbsentMv = 7000
  MilliVolts <- AllReadings
  MaxQueries = 2
  Faults = {"NotSupported", "InternalError"}
INVARIANT
  OnlyStopExits
