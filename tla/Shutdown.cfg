SPECIFICATION Spec
CONSTANTS
  Keys <- OneKey
  CommandCap = 1
  EventCap = 1
  UpdateCap = 1
  SessionCap = 1
  Says <- Filling
  Calls = {}
PROPERTIES
  ShutdownFinishes
  ConnectIsTold
  DroppedIsUnsubscribed
CHECK_DEADLOCK FALSE
