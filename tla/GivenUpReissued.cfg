SPECIFICATION LifecycleSpec
CONSTANTS
  s1 = s1
  s2 = s2
  m1 = m1
  f1 = f1
  NoSession = NoSession
  Keys <- OneKey
  Sessions = {s1, s2}
  Messages = {}
  Frequencies = {}
  SubIdMax = 2
  RequestIdMax = 4
  ProgressiveMax = 0
  MaxAttempts = 2
  IsPolling = FALSE
  EndsOnContentLength = FALSE
  SendsHeartbeats = FALSE
  Notifications <- Activations
  Commands <- Subscriptions
  MaxGeneration = 3
PROPERTIES
  GivenUpStaysGone
CHECK_DEADLOCK FALSE
