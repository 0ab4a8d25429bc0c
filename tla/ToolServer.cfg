SPECIFICATION LiveSpec
CONSTANTS
  Tasks = {"a", "b"}
  Kinds = {"j2534", "kline", "doip", "socketcan", "elm327", "virtual"}
  Workers = 2
  Requests = {"rpm", "speed"}
  Service <- MCService
  Echo <- MCEcho
  Listening = {"virtual"}
  MaxOpens = 2
  MaxFrames = 1
CHECK_DEADLOCK FALSE
INVARIANTS TypeOK DeviceAccountedFor ExitLeavesNothingOpen RightReply CaptureRuns
PROPERTIES OneExchangeAtATime CallsReturn
