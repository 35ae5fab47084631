SPECIFICATION Spec
CONSTANTS
  Keys <- OneKey
  CommandCap = 1
  EventCap = 1
  UpdateCap = 1
  SessionCap = 1
  Says <- Distinct
  Calls = {}
PROPERTIES
  RegistrationComesFirst
CHECK_DEADLOCK FALSE
