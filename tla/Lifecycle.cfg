SPECIFICATION LifecycleSpec
CONSTANTS
  s1 = s1
  s2 = s2
  m1 = m1
  f1 = f1
  NoSession = NoSession
  Keys <- OneKey
  Sessions = {s1, s2}
  Messages = {m1}
  Frequencies = {f1}
  SubIdMax = 2
  RequestIdMax = 2
  ProgressiveMax = 1
  MaxAttempts = 2
  IsPolling = FALSE
  EndsOnContentLength = TRUE
  SendsHeartbeats = TRUE
  Notifications <- EveryLine
  Commands <- EveryCommand
  MaxGeneration = 3
INVARIANTS
  TypeOK
PROPERTIES
  StopCloses
  GivesUpEventually
  ContinuityIsTrue
  NoRequestForgotten
  KeepsContract
CHECK_DEADLOCK FALSE
