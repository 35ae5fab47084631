SPECIFICATION LinkSpec
CONSTANTS
  s1 = s1
  s2 = s2
  NoSession = NoSession
  Keys = {}
  Sessions = {s1, s2}
  Messages = {}
  Frequencies = {}
  SubIdMax = 1
  RequestIdMax = 1
  ProgressiveMax = 5
  MaxAttempts = 2
  IsPolling = TRUE
  EndsOnContentLength = FALSE
  SendsHeartbeats = FALSE
  MaxGeneration = 3
  Notifications = {}
  Commands = {}
  MaxProduced = 4
  MaxInFlight = 3
  LoopsInReplay = FALSE
  Unparsable = {}
INVARIANTS
  ProgressiveIsPosition
  SkipMatchesReplay
PROPERTIES
  ImplementsReliableFeed
CHECK_DEADLOCK FALSE
