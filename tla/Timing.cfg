CONSTANTS
  TicksPerMilli = 1
  MaxTiming = 9
  DefaultPollingMillis = 0
  DefaultIdleMillis = 1
  MaxAge = 5
  Configurations <- MCConfigurations
  KeepAlives = {1, 2}
  LoopDelays = {0, 1}
  ControlTimeout = 2
  MaxEmit = 2
  MaxLinesPerTurn = 2
  MaxHeartbeatFailures = 3
  MaxUnread = 1
SPECIFICATION Spec
INVARIANTS TypeOK CommitmentKept
PROPERTIES SilenceIsJudged
CHECK_DEADLOCK FALSE
