SPECIFICATION AllSpec
CONSTANTS
  Caller = {c1, c2}
  Configs <- Circuits
  Undefined = Undefined
  MaxAge = 2
  MaxCalls = 3
  MaxManual = 3
  Settings <- AllSettings
  MaxProduced = 3
  MaxPending = 2
INVARIANTS BreakerCounts Conservation
PROPERTIES OpenEndsEventually NoMessageStuck
CHECK_DEADLOCK FALSE
