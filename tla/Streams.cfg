SPECIFICATION Spec
CONSTANTS
  Keys <- OneKey
  CommandCap = 1
  EventCap = 1
  UpdateCap = 1
  SessionCap = 1
  Says <- Distinct
  Calls = {"unsubscribe", "send", "cancel"}
INVARIANTS
  TypeOK
  ClosedIsReported
PROPERTIES
  KeepsStreams
CHECK_DEADLOCK FALSE
