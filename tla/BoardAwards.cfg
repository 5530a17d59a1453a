SPECIFICATION Spec
CONSTANTS
  t1 = t1
  s1 = s1
  u1 = u1
  Req = {r1}
  MaxCalls = 3
  Task = {t1}
  Sprint = {s1}
  User = {u1}
  None = None
  Null = Null
  Keep = Keep
  Boards <- MCBoards
  MaxFaults = 0
  Posts <- MCPosts
  Puts <- MCPuts
INVARIANTS AwardedForFirstTime
CHECK_DEADLOCK FALSE
