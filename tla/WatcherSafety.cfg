\* One device, two profiles tried in two passes, all readings, two kinds of fault.
SPECIFICATION Spec
CONSTANTS
  NumDevices = 1
  NumProfiles = 2
  Passes = 2
  Debounce = 2
  PresentMv = 9000
  AbsentMv = 7000
  MilliVolts <- AllReadings
  MaxQueries = 2
  Faults = {"Timeout", "InternalError"}
INVARIANTS
  TypeOK
  OneChannel
  StateTellsDriver
  ExitReleases
  UnplugNeverExits
  DebounceEvidence
  LogTellsDriver
PROPERTIES
  FollowsContract
  SacredOrderOutsideProbe
