SPECIFICATION LinkSpec
CONSTANTS
  s1 = s1
  s2 = s2
  m1 = m1
  m2 = m2
  NoSession = NoSession
  Keys = {}
  Sessions = {s1, s2}
  Messages = {m1,m2}
  Frequencies = {}
  SubIdMax = 1
  RequestIdMax = 3
  ProgressiveMax = 3
  MaxAttempts = 2
  IsPolling = FALSE
  EndsOnContentLength = FALSE
  SendsHeartbeats = FALSE
  MaxGeneration = 2
  Notifications = {}
  Commands = {}
  KeepsSessions = TRUE
INVARIANTS
  AtMostOneOutcome
  NoMessageForgotten
CHECK_DEADLOCK FALSE
