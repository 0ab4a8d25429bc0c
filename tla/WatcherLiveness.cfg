\* Two devices, two profiles in one pass, readings on either side only.
SPECIFICATION FairSpec
CONSTANTS
  NumDevices = 2
  NumProfiles = 2
  Passes = 1
  Debounce = 2
  PresentMv = 9000
  AbsentMv = 7000
  MilliVolts <- PlainReadings
  MaxQueries = 1
  Faults = {"InternalError"}
PROPERTIES
  StopExits
  LostIsReleased
  Attaches
