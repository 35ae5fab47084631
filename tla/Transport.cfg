CONSTANTS
  Kinds = {"ws", "streaming", "polling"}
  Payloads <- MCPayloads
  ControlBodies <- MCControlBodies
  MaxLineBytes = 2
  MaxHeaderBytes = 6
  MaxU64 = 9
  MaxBody = 8
  MaxAnswers = 1
SPECIFICATION Spec
INVARIANT TypeOK
PROPERTIES KeepsChannel NoLineWaits
