SPECIFICATION Spec
CONSTANTS
  Socket = {a}
  Instance = {i1}
  None = None
  TTL = 4
  MaxCrashes = 0
PROPERTY ActiveKeyKept
CHECK_DEADLOCK FALSE
