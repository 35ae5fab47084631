SPECIFICATION Spec
CONSTANTS
  s1 = s1
  s2 = s2
  m1 = m1
  NoSession = NoSession
  Keys <- TwoKeys
  Sessions = {s1, s2}
  Messages = {}
  Frequencies = {}
  SubIdMax = 3
  RequestIdMax = 4
  ProgressiveMax = 0
  MaxAttempts = 1
  IsPolling = FALSE
  EndsOnContentLength = FALSE
  SendsHeartbeats = FALSE
  MaxGeneration = 3
  Notifications <- RegistryNotifications
  Commands <- RegistryCommands
INVARIANTS
  IndexMatchesRegistry
  NoStaleRequest
  OneAddInFlight
  NothingLostSilently
  BoundHasSession
PROPERTIES
  ReissuedAtBind
  IdsAreFresh
  KeepsContract
SYMMETRY SessionSymmetry
CHECK_DEADLOCK FALSE
