SPECIFICATION Spec
CONSTANTS
  MaxU32 = 1000
  MaxU64 = 1000
  MaxI64 = 1000
  TicksPerMilli = 2
  MaxTiming = 50
  DefaultPollingMillis = 5
  DefaultIdleMillis = 15
  Callers <- OneOfEach
  Sessions <- SomeSessions
  Remarks <- SomeRemarks
  MaxOpens = 2
INVARIANTS
  TypeOK
  HeardAsAsked
  ValidIsWritten
  AddressIsKept
  AnswerFindsItsCall
CHECK_DEADLOCK FALSE
